# Formal models of the chess_rts engine

The engine plays a deterministic game over an unreliable network: every client
simulates 60 ticks a second on its own and predicted inputs, exchanges recent
inputs over UDP, and rolls back and simulates again when a prediction was
wrong. A small C host gives it windows, a render thread and a transfer thread;
a Python service brings players together. This directory holds TLA+ models of
its core logic, TLC configurations for small instances, and TLAPS proofs.

    tlc -config MCAgree.cfg MCAgree            # one run
    tlapm LockstepProofs.tla                   # the proofs of one module

`PROJECT.json` lists the runs, the mutated definitions that each property is
known to reject, the source lines behind each definition, the findings, the
hazards and the theorems.

## The system

| Component | State | Operations | Talks to |
|---|---|---|---|
| **Rollback lockstep** `network/lockstep`, `network/transport/net_pump.lua`, `network/session/netcode.lua` | `app_ctx`: tick counters, ring of frames, snapshot ring, what each peer has sent and acknowledged, pending UI command | `pump_network` = intercept, horizons, (prepare, poll, rollback, forward)*, flush; `inject_local_command` | peers, by UDP packets; the chess plugin, by callbacks |
| **Chess plugin** `worlds/chess/plugin.lua`, `runtime/simulation/game_state.lua` | sparse array of modified tiles | `PollInput`, `SimulateTick`, `HashState` | called by lockstep |
| **UDP pipe** `network/transport/vx_net.c` | socket, session token, address of each peer | open, close, STUN, `recv_all` (token filter, address learning), `send_to` | peers, relay, STUN server |
| **Session bootstrap** `network/session/net_utils.lua` | player id, established paths | host/join/poll, ICE punch, relay fallback | matchmaker, relay, peers |
| **Matchmaker and relay** `server/` | lobbies; rooms of addresses | host, join, status; fan-out | clients |
| **Render ring** `host/ipc/ring_stream.c`, `render/gpu/vk_render_loop.c` | 4 packet slots per window, lock mask, ready and read indices, fences | acquire, commit, init; one render iteration | Lua thread / render thread / GPU, by atomics |
| **Tenant lifecycle** `runtime/services/tenants`, `runtime/shutdown`, `host/runtime/main_loop.c`, `host/ipc/mailbox.c` | one command slot and flags per window, surface, suspended/kill state | boot, resize and rebuild, kill, teardown | main, Lua and render thread, by atomics |
| **Transfer ring** `render/transfer`, `runtime/services/memory/memory.lua` | 16 jobs, a timeline semaphore | request, execute, poll completion | Lua thread / transfer thread / GPU |
| **Input** `host/tenant`, the frame loop of `runtime/boot/main.lua` | one mailbox per window: click, button, motion, keys | GLFW callbacks; reads of the frame loop | main thread / Lua thread, by atomics |
| Drawing, Vulkan services, mathematics, build scripts | – | – | pure I/O, straight-line or numeric code |

What is hard, and what makes it right:

* *Lockstep*: packets lost, duplicated, reordered; predictions that turn out
  wrong at any time; rings that wrap; pumps that owe several ticks. Right iff
  all players play one game, no rollback is out of reach, and no input that
  counts as received is lost. And the game must go on.
* *Render ring*: three parties (Lua, render thread, GPU) advance at their own
  pace. Right iff frames are shown in order, none is overwritten while it is
  read, and the producer is never starved for ever.
* *Tenant lifecycle*: one command slot written by three threads. Right iff no
  driver object is destroyed while in use, no window freezes and all threads end.
* *Session*: concurrent joins, lost answers, a restarted server, lost punches.
  Right iff every player gets a distinct id in a full room and ends with a
  working path to each peer.
* *Transfer ring*: right iff every job is run or dropped once, with objects
  nobody else replaces, and a completed timeline value means the copies are done.
* *Input*: fields that belong together are stored and loaded one by one. Right
  iff no motion is lost and a press is one command, at its own position.
* *UDP pipe, plugin*: sequential code at the boundaries of its buffers.

## The modules

| Module | Of | Composed in | Proofs |
|---|---|---|---|
| `AgreedLog` (abstract), `Lockstep`, `LockstepLog`, `LockstepFair` | rollback lockstep | `MCLockstep`, `MCLockstepFair`, `MCAgree` | `LockstepProofs` |
| `FrameQueue` (abstract), `RenderRing` | render ring | – | `RenderRingProofs` |
| `TenantLifecycle` | command slot; boot, rebuild, kill, teardown; start and end of the threads | `MCLifecycle` | `TenantLifecycleProofs` |
| `IcePunch` | handshake, relay, address learning | `MCSession` | `IcePunchProofs` |
| `Matchmaker` | lobbies and polling clients | `MCSession` | `MatchmakerProofs` |
| `InputMailbox` | callbacks and frame loop | `MCThreads` | `InputMailboxProofs` |
| `TransferRing` | transfer jobs, timeline, rebuilds | `MCThreads` | `TransferRingProofs` |
| `StoreBuffers` | handshakes of the transfer ring under store buffering | `MCParts` | `PartsProofs` |
| `StunReader` | `vx_net_stun_punch` | `MCParts` | `PartsProofs` |
| `UdpPipe` | socket and receive batch | `MCParts` | `PartsProofs` |
| `TileLedger` | `SimulateTick` on the sparse array | `MCParts`, `MCTiles` | `PartsProofs` |

A run may check several components that share no state. The variable `part` of
`MCAgree`, `MCSession`, `MCThreads` and `MCParts` is chosen by the initial
state, says which component moves, and never changes; the others keep still.
Such a run is the union of the runs of its parts, and a property that is named
for one part says nothing of the others.

What may come next: `TenantLifecycle` with two windows, whose shared parts are
the loop over windows of the render thread and the `g_render_busy` flags; a
refinement from `RenderRing`'s `TakeCommands` to the mailbox.

## What the runs check

| Run | Sizes | Shows |
|---|---|---|
| `agreement` | steady pumps, a ring of 7: two players, two ticks per pump, 3 ticks; two players, 10 ticks, so that the ring wraps; three players, 3 ticks | refinement of `AgreedLog`; worlds and snapshots are of their tick; received inputs are the ones sent; no input is published with two values; no player ends in a desync and every packet reaches back to what its reader lacks; the inductive invariant `LogInv` of the proofs |
| `burst_pumps` | three ticks per pump, cap 1, a ring of 5, the smallest the assumptions allow, 5 ticks | no fatal rollback (`RollbackInReach`), `LookaheadBound`, `PacketsFitRing`, types, the inductive invariant of the proofs |
| `timely_game` | 4 ticks, cap 2, packets at most 0 ticks late | the game goes on |
| `halt_never_ends`, `burst_desync`, `resize_closes_window` | | the findings |
| `render_ring` | 4 slots, 3 command buffers, as in the code | refinement of `FrameQueue`; no slot packed while it is read; no command buffer recorded while the GPU has it |
| `render_ring_fair` | 3 slots, 2 command buffers | every committed frame is taken, the producer gets slots again and again; types |
| `lifecycle` | one window, one resize | under every schedule: types, the window outlives its surface; in orderly behaviours: nothing in use is destroyed, shutdown completes, a click on close is heeded, every rebuild ends; and unless a command comes late: no resize is forgotten, the window comes back |
| `session` | three players on two networks; four clients, two lobby ids drawn any number of times, one restart | handshake, relay and lobby properties; in the end everybody reaches everybody |
| `threads` | two windows, one key, three presses; two slots, three jobs, one rebuild | a click is of one press; no motion is lost; jobs are handled once and alone; slots are given back |
| `parts` | see the parts below | STUN reads in bounds and ends, the address is found; no descriptor leaks, batches lose nothing; the newest tiles are kept; the transfer handshakes hold under store buffering |

Deadlock is checked where the system never stops: both ring runs and `threads`.
The others may end, because a bound is reached or because the program does.

## Lockstep

### Correspondence

Every player is one LuaJIT thread; players share only the network. The
variables are the fields of `app_ctx`, arrays over `Node`. `NetCore.pump_network`
becomes, for one node, the sequence

    Receive*  StartTicks  (PrepareFrame  [BeginRollback ResimulateTick*]  SimulateForward)*  FlushNetwork

| Action | Code |
|---|---|
| `InjectLocalCommand` | `NetCore.inject_local_command`: the one-slot UI mailbox, refused while priming |
| `Receive` | one datagram of `intercept_network`: skip, integrate with misprediction detection, checksum record, acknowledgement |
| `StartTicks` | `calculate_horizons`: confirmed tick, acknowledged tick, halt; the accumulator becomes `k` owed ticks |
| `PrepareFrame` | `prepare_frame` and `PollInput` |
| `BeginRollback`, `ResimulateTick` | `execute_rollback`: the horizon exit, the restore, then one iteration of its loop |
| `SimulateForward` | the guard of `tick_playing_state`, `simulate_forward`, `audit_desyncs` |
| `FlushNetwork` | `send_dynamic_history` and `build_outbound`, sent only if a tick was made |

`net` is the set of all packets sent. A packet may be received again, in any
order, or never: loss, duplication and reordering are all in `Receive`. A world
is the log of command vectors that produced it, the finest deterministic game,
so equal worlds are equal in any game; a checksum is the world it is taken of.

`AgreedLog` is what the players are promised: what a player has settled only
grows and never contradicts what another has settled. `LockstepLog` states the
refinement mapping: the world of the last tick that no input can change.

**Steady pumps.** `calculate_horizons` halts a pump that begins at the horizon
(`fsm_pacing.lua:41`), but is asked once per pump, which may owe up to 15 ticks.
Past the horizon the promise breaks: see `burst_desync` and `MCBurstGap` below. A
pump is *steady* (`LockstepLog!SteadyTick`) if all the ticks it owes end within the
horizon; a pump that owes one tick always is (theorem `OneTickPumps`), and so is a
pump of 15 as long as the peers are no more than 45 ticks behind. What `agreement`
checks and the theorems `OneLog`, `OneGame`, `Together`, `HistoriesTrue` and `LogKept` say is
said of steady pumps; types, reach of rollbacks and fit of the ring hold of all.

### Bounds and fairness

The code has a cap of 60, a history of 60 and a ring of 512; the instances keep what
relates them (`RingSize >= 2 * LookaheadCap + 3`, in the code 512 >= 123) and shrink
the numbers, so that halts, wrapping and gaps occur within a few ticks. The theorems
hold for all sizes. `MaxTick` ends every behaviour, so those runs do not check
deadlock. Commands are one or two per player: the properties compare only equal with
different, and one command at each possible tick already contradicts every
prediction. `OnePumpAtATime` in the larger runs keeps the inner steps of two pumps
from interleaving. This loses nothing between pumps: a pump reads the network before
its ticks, writes it after them, and touches nothing of another player; the proofs
do not use it. The code may owe 15 ticks; three are more than the cap of the
`burst_pumps` instance, so that one pump runs through all of its lookahead. Its ring
of 5 makes a rollback of more than 3 ticks fatal, and its 5 ticks leave room for
one: a target that were not cleared would be reached (the mutant of
`RollbackInReach`). The run has one command, pressed early, whose packet may be read
as late as the run allows. The liveness runs are limited to one tick per pump. The
properties of `agreement` speak of two players also where three play: any two of
them can take the names `p1` and `p2`.

Fairness (`LockstepFair`) is weak for a node's own steps: `main.lua` calls
`pump_network` in an endless loop. It is strong for receiving: a packet that
carries news and arrives again and again is read, strong because a packet is
only read at the start of a pump. The players are not fair: nobody has to press
a key. `TimelySpec` adds that a player starts a tick only when its packets of
more than `MaxDelay` ticks ago have arrived, an assumption on the network.
Trials with other sizes suggest that the game goes on exactly if
`LookaheadCap >= 2 * (MaxDelay + 1)`, a round trip. The code's 60 ticks are one
second.

## Render ring

### Correspondence

One window, as the windows share only a lock mask that is changed by atomic
operations on disjoint bits. Three parties step independently: the game thread
(`lua_pc`), the render thread (`render_pc`) and the GPU (`Finish`). A step is at
most one access to each variable that another thread writes.

| Actions | Code |
|---|---|
| `BeginAcquire`, `ScanSlot`, `Commit` | the frame loop of `main.lua`: `vx_stream_acquire`, `PackFrame`, `vx_stream_commit` |
| `Resize`, `RequestRebuild`, `BeginInit` | the resize callback and `process_state_machine` |
| `WaitForRenderer`, `AbortInit`, `ResetRing` | `vx_stream_init` |
| `TakeCommands` | the command loop at the top of the render loop; waits for an idle GPU |
| `LoadReady`, `LoadLocal`, `Advance`, `RaiseBusy`, `Retire`, `Check`, `WaitForFence`, `AcquireImage`, `Submit`, `FrameDone` | one pass of `render_thread_loop` |

A frame can be dropped on each path of the code: closed window, empty extent,
fence timeout, no image, window out of date. A rebuild request is taken in one
step; the mailbox it travels through is the subject of `TenantLifecycle`. A
transfer in flight, for which `vx_stream_init` waits too, is in `TransferRing`.

`FrameQueue` is what the ring promises: a bounded queue of frames, taken one by
one in order, that only a rebuild may flush. The mapping reads the queue off the
slots between `local_read` and `ready_idx`.

### One spare slot

The order of frames depends on how many command buffers rotate: the queue and
`ReadUndisturbed` hold when there is exactly one slot more than frames in
rotation (`OneSpare` in the proofs). The code has 4 slots and takes
`max_frames_in_flight`, the number of images of the swapchain, but at most 3
(`vk_render_loop.c:62-64`); `swapchain.lua` asks for one image more than the
surface's minimum, so three is the usual case. On a surface that yields two
images or one, the render thread frees a slot between two steps of the
producer's scan, the producer skips it, and frames are overwritten: TLC finds
this for 4 slots with 2 or 1 buffers and for 3 with 1.

### Bounds, fairness, assumption

Only the number of frames is bounded: frames are numbered modulo `FrameIds`,
more than fit the ring, so that two frames that coexist differ. The liveness run
takes 3 slots and 2 command buffers, again one buffer less than slots, as the
graph of the full size is too large for the liveness check.

Fairness is weak for both threads, which loop for ever, and for the GPU.
`Resize` is not fair, and may also happen for ever, which `ProducerIsServed`
allows for.

Both runs and the theorems about order use `QuietSpec`: the stores at the end of
`vx_stream_init` fall into a sleep of the render thread with no frame left to
take. A rebuild creates a swapchain and pipelines first, which takes many passes
of the render thread, but nothing in the code enforces it. In that sleep nobody else
touches the ring, so `ResetRing` makes those stores one step.

## Tenant lifecycle

One window, three threads, and the mailbox of atomics between them. `main_pc`,
`lua_pc` and `render_pc` are the places of the threads; a step is at most one
access to each variable that another thread writes, so the three stores of an
acknowledgement (`wsi_state`, `window_resized`, `glfw_cmd`) are three steps.

| Actions | Code |
|---|---|
| `PressEscape`, `CloseWindow`, `Resize`/`FlagResize` | GLFW callbacks; the framebuffer callback in two stores |
| `ReadCommand` ... `StoreIdle`, `CloseToEscape`, `Exit` | one round of the main loop, and the end of `main` |
| `BootTenant`, `SurfaceReady` | `boot_tenant` |
| `TakeEscape`, `TakeF5`, `CheckGone`, `CheckBusy`, `CheckCommand`, `Purge`, `LastTenantGone` | `process_state_machine`: the phases of a kill |
| `CheckResize`, `TriggerRebuild`, `BeginRebuild`, `BuildSwapchain`, `SwapchainFails`, `RendererIsOut`, `AbortInit`, `OpenWindow` | resize, rebuild, and `vx_stream_init` with both ends |
| `KillThread`, `JoinThread`, `MarkFinished` | `teardown.lua`, `thread_lifecycle.c` |
| `TakeCommand` ... `FrameDone` | one pass of the render loop |

The ring is reduced to whether a frame waits, a frame to whether it leaves work
on the GPU.

**Two kinds of behaviour.** The protocol relies on timing. `MCLifecycle` marks a
behaviour as orderly, once and for all, when (`Prompt`) the game thread takes no
step between the three stores of an acknowledgement, that is, the render thread is
not stopped there, when `vx_stream_init` does not give up on the render thread, and
when no swapchain fails. The types and `WindowOutlivesSurface` hold of every
behaviour and are proved so; the other properties are stated of the orderly ones,
and fail without (see below). The run has both kinds.

**Late commands.** Nothing keeps an acknowledgement out of the moment between the
game thread's read of the resize flag and the command it then stores, so orderly
behaviours may have such late commands too; the history variable `late` records one.
`NothingUsedIsDestroyed`, `RebuildEnds`, the close and the shutdown hold all the
same. That the window comes back (`ResizeIsHandled`), and that no resize is
forgotten, is true only as long as none came late: the run `resize_closes_window`
shows the window that stays closed.

**The first size.** The framebuffer of a new window need not have the size asked
for (`main_loop.c:42-45`), while the tenant keeps the one it asked for until the
first resize (`TenantKnowsItsSize`, refuted below). `window.boot_size` remembers
it, and what is said of a resize is said of windows that no longer have it
(`NeverResized`).

**Fairness.** Each thread loops, the GPU finishes its work. The condition is
strong where a step is possible only at moments: for the game thread because
`Prompt` keeps it from moving at times, and for the main thread because it must at
some time act outside of the few instructions between `TakeEscape` and `TakeF5`:
the test for F5 takes whatever key came since, so a main thread that always hits
this moment would have its ESC lost every time. It acts once a millisecond. The
user is not fair.

**Bounds.** Two sizes (`MaxSize = 2`), so a window is created with the size asked for
and resized once, or created with another: the properties compare the tenant's size
with the window's, and the flag rises again from an outdated swapchain without bound.
Three sizes pass as well, in five minutes.

## Session

### Matchmaker

The FastAPI handlers await nothing, so each is one step; a client is its
endpoint, host and port. `Host`, `Join`, `JoinRefused`, `Poll` are a request with
what the client does on its answer; an answer may be lost (`ok = FALSE`), which
ends the client but not what the server did, and leaves a ghost in the lobby.
`Restart` empties the dictionary. `LocalId` is the search for oneself in the
player list: the first entry with the same endpoint, or else 0. An id is four
hexadecimal digits and nothing keeps the server from drawing it again, after a
restart or while its lobby lives, when the new lobby silently takes the old one's
place (`api.py:15-16`); `Host` has no guard against it. A client whose id was drawn
again goes on polling and may start the new lobby, which it never entered: it is not
in the list and takes id 0, so two players have it (`NoIdTwice`, refuted below), or
it waits in the new lobby for good (`FullLobbyAlwaysStarts`, refuted). What holds, and
is proved, is that all who start with one token have one list, and that those who
entered this lobby (`entered`, a history field) have an id each; and a client of a
full lobby starts, or ends, unless its id is drawn again first. Fair is
only polling, every half second. Four clients on two hosts and two ids
allow lobbies of two and of three players, two players on one host, and the
same client never twice in a lobby, as it joins once. Tokens are random 63-bit
numbers in the code and fresh numbers here.

### IcePunch

From the locked lobby on. `Enter` takes the status, establishing players with the
same public address at once; `PunchRound` is a round of the handshake, which may
read any part of what has come; `FallBack` ends it: the relay for the peers not
established, and the registering packet. In the game, `GameDirect` and
`GameRelayed` are a frame's packet sent and received in one step, `LatePing` a
ping that outlives the handshake. `addr` is the address the pipe holds of each
peer, the peer's own or the relay's; `Learned` is the rule of `vx_net_recv_all`.

A pair in `Direct` can reach each other, a pair in `Local` has one public address
and is taken to be in `Direct`, as the code does. Pings may be reordered, read
late, and lost on the network that is `Lossy`. `EverybodyReached` assumes that
players run, the time ends, and that of the packets sent again and again some
arrive. Three players are needed: one that relays to two, and a pair that does
not need the relay while a third does.

## What the game thread shares

### InputMailbox

The callbacks on the main thread (`MoveCursor`, `AddDelta`, `PressLeft`,
`StorePress`, `ReleaseLeft`, `Key`) and the frame loop (`ReadActive` to `EndClick`,
`TakeDelta`), one access at a time. A press is a number, and the position and the
flag it stores are this number: a position is that of the press iff it has its
number. The weak compare-exchange may fail for nothing. `MoveFocus` relies on
GLFW, which releases all keys and buttons of a window that loses the focus. The
run has the clicks with one cursor position and the motion with two, as neither
reads the other's fields.

### TransferRing

The game thread requests (`TrySlot`, one compare-exchange at a time, `FillSlot`),
initialises windows and asks for rebuilds; the transfer thread walks over the
slots with each of its exits (`DropJob`, `FenceTimeout`, the second wait whose
result nobody reads); the render thread takes a rebuild. `Hangs` lets each wait of
two seconds run out. Fair are the three threads and the GPU. Two windows are
needed for jobs that interleave, two slots for a ring that fills with three jobs.

### StoreBuffers

Every atomic of the host is stored with release and loaded with acquire order
(`sys_sync.c:25-28`), plain moves on x86. `StoreBuffers` gives each thread a FIFO
store buffer and checks the handshakes of the transfer ring under it: what a flag
publishes is complete (`JobIsWhole`) whatever the order. `WindowIsWhole`, where two
threads each raise a flag and then look at the other's, needs the stronger order
and is false with buffers. All other modules let each store take effect at once:
they show what the protocol achieves, `StoreBuffers` what the build takes back.

## Sequential parts

* **StunReader**: the walk over the attributes of any datagram: every size up to
  60 bytes, claimed lengths up to 65535, well-formed answers with one or two
  attributes. `AddressIsFound` is what a correct walk achieves, `StunPunchEnds`
  that none runs for ever.
* **UdpPipe**: the socket made anew, with each step failing (`Host`), and
  `vx_net_recv_all` in steps (`BeginReceive`, `ReceiveOne`, `EndReceive`) with
  datagrams of the session, of others, short ones and player ids out of range, and
  buffers smaller than the queue.
* **TileLedger**: two players toggle three tiles in an array of three entries, so
  that it wraps within six appended tiles. Terrain stands for elevation, which is a
  function of it.

## What the repository says and the code does not do

Three are findings with runs of their own:

* `halt_never_ends`: packets are sent only when a tick was simulated. If both
  players run to the cap before the other's packets arrive, each then has all
  inputs but waits for an acknowledgement that only a packet of the other could
  carry, and neither sends. The game stops, although nothing was lost.
* `burst_desync`: `tick_playing_state` prepares and polls a frame before it
  decides whether to simulate it, and `send_dynamic_history` sends up to the
  head. A pump that owes two ticks at the cap sends a tick it did not simulate
  and polls it again later, so that a command pressed in between changes an
  input the peers already have.
* `resize_closes_window`: `process_state_machine` reads the resize flag and then
  stores REBUILD. If the render thread acknowledges an earlier REBUILD in between,
  the game thread rebuilds and opens the window in its next round, and the late
  command is acknowledged after that: `wsi_state` is 0 again and the flag is down,
  so every frame is dropped until the user resizes the window once more.

The others are definitions of the modules, each with a comment that quotes the
statement, and a configuration with which TLC prints the counterexample:

| Definition | Configuration | What happens |
|---|---|---|
| `Lockstep!HistoryReachesPeers`, two ticks per pump | `MCBurstGap.cfg`, `MCLockstep` | the halt is decided once a pump: with two owed ticks the player gets further past the acknowledged tick than a packet's history |
| `RenderRing!InitExcludesRender` | `MCRingInit.cfg`, `RenderRing` | the render thread stores `local_read` before it raises its busy flag, so `vx_stream_init` can reset the ring in between, and the late store undoes it |
| `TenantLifecycle!NothingUsedIsDestroyed`, any schedule | `MCLifecycleInUse.cfg`, `TenantLifecycle` | the resize flag of an acknowledgement falls before its command: the game thread rebuilds and opens the window, then ESC begins a kill, and the late CMD_IDLE erases the command that would have idled the GPU: the objects are destroyed while a frame is drawn |
| `TenantLifecycle!VolatileSurfaceSurvives` | `MCLifecycleVolatile.cfg`, `TenantLifecycle` | "Retrying next frame" returns nil, which the caller indexes: the Lua VM ends, nobody calls `mark_finished`, and `main` waits for ever |
| `TenantLifecycle!TenantKnowsItsSize` | `MCLifecycleBoot.cfg`, `TenantLifecycle` | the window is created with another size than the one asked for; the tenant keeps the latter, which the camera and the clicks use (`main.lua:199-220`), until the first resize |
| `Matchmaker!NoIdTwice` | `MCLobbyRedrawn.cfg`, `MCSession` | an id is drawn again and the new lobby fills: a client that still polls for the old one starts with it, finds itself nowhere in the list and takes local id 0, the host's |
| `Matchmaker!FullLobbyAlwaysStarts` | `MCLobbyWaits.cfg`, `MCSession` | the id of a full lobby is drawn again before all have polled: the others wait in the new lobby, which they are no players of |
| `TransferRing!RebuildIsAlone` | `MCTransferRebuild.cfg`, `TransferRing` | the pools are reset before the window is closed, and a transfer starts in between |
| `TransferRing!CompletionMeansCopied` | `MCTransferOrder.cfg`, `TransferRing` | jobs are taken in the order of slots, not of timeline values: a later value is signalled first |
| `StoreBuffers!WindowIsWhole`, `Buffered = TRUE` | `MCStoresTorn.cfg`, `StoreBuffers` | each thread's store of its flag is still in its buffer when it loads the other's |
| `IcePunch!HandshakeCompletes` | `MCIceOneSided.cfg`, `IcePunch` | a player that reads the peer's first ping and its acknowledging ping in one round is established at once and stops pinging, without ever having acknowledged: one side believes in a direct path, the other in the relay. `RoughEverybodyReached` shows that the game heals this |
| `TileLedger!RoomIsUsedFirst` | `MCTilesRoom.cfg`, `MCTiles` | the initial tiles are counted but `head_idx` starts at 0: the first appended tile replaces one |
| `TileLedger!OwnTileIsLowered` | `MCTilesOwn.cfg`, `MCTiles` | a lowered entry matches every player: after one player lowered its entry, the toggle of the other raises this one, although the other has a raised entry of the tile to lower |

## Proofs

Proofs hold for every value of the constants that the module's named assumption
allows. Each module's proofs have one lemma per action or group of actions.

**`LockstepProofs`**: for all players, sizes and burst lengths `InductiveInv` is
invariant, and with it `TypeOK`, `LookaheadBound`, `RollbackInReach` and
`PacketsFitRing`, from `RingSize >= 2 * LookaheadCap + 3` and `HistoryLen <=
RingSize`. None of the three safety properties is inductive. Why a rollback
stays in reach: its target lies after the confirmed tick, so it is at most
`LookaheadCap` back *when it is set*, and it must stay so while the pump goes on
to simulate, which it does only after undoing it (`PumpInv`, `RollbackInv`). Why
packets fit the ring: a node has prepared at most one tick more than it has
simulated, a peer has heard at most what was prepared (`DriftInv`), so two
players are never further apart than twice the cap and two ticks.

The second half of the module is about steady pumps (`SteadySpec`). It adds two
assumptions, `RingSize >= HistoryLen + LookaheadCap + 2` (512 >= 122) and
`HistoryLen >= LookaheadCap` (60 >= 60). `OneLog` says that `SteadySpec`
implements `AgreedLog`, `OneGame` that what two players have settled is never
two games, `HistoriesTrue` and `Together` state the invariants of the run, all for
any number of players and any loss, delay, repetition and order of packets. The argument is `LogInv`, whose yardstick is `Input(p, t)`: what player
p really played at tick t, read off p's own newest snapshot.

* A tick is simulated in the pump that polled it (`PumpIsSteady`), so no step
  changes an input once it exists, and a packet carries nothing else
  (`PacketIsTrue`). This is where bursts fail.
* A slot holds what it is used for: within `OldestFrame` no frame was overwritten,
  and a frame so old that its slot was used again does not pass for its tick
  (`TagsAreKept`). Slots are ticks modulo `RingSize`; the first lemmas say when two
  ticks share one.
* What a node has heard is what the peer played, tick by tick up to what it
  acknowledges (`HeardInputs`, `PeersAreKnown`). A packet that leaves a gap
  advances nothing, so nothing is acknowledged that did not arrive.
* A snapshot is made of the frames up to its tick, and of true inputs up to the
  confirmed tick, except from the earliest misprediction on until it is simulated
  again (`CleanWorlds`, `CleanTo`). The rollback target is what keeps this exact.
* A checksum is sent only of a confirmed world, so two that are compared
  are of one true world (`ChecksumsAreTrue`): no desync.

What a node has settled is the prefix of the confirmed ticks of a clean snapshot,
hence of true inputs, hence of one log: each step maps to one `Settle` or stutters.

**`RenderRingProofs`**: `TypesHold` and `CommandBuffersIdle` under `Spec`, for
every ring. The second is not inductive because `vx_stream_init` makes all
fences signalled, whatever the GPU does; `GpuInv` adds that the rebuild before
it was acknowledged by a drained GPU and that the window is closed since. `ReadsUndisturbed` and
`RingIsAQueue` under `QuietSpec`, from `OneSpare`. The inductive invariant
`RingInv` unrolls the ring: indices are places on an endless line, taken modulo
`RingSlots`, and the slots in use are one stretch of it: frames in rotation,
the one being read, those waiting, and at most one slot being filled. The length
of the stretch bounds which slots are free, and that exactly one is spare makes
the producer's scan find the next place and no other. Each action moves an end of
the stretch or nothing. Lemmas on `%` and `\div` with a symbolic modulus come
first. `RingIsAQueue` maps each step to a commit, a take, a flush or a stutter of
`FrameQueue`.

**`IcePunchProofs`**: `EstablishedPathsWork` (`EstablishedIsHeard`) needs what a ping
in flight means: a ping of 1 is sent only by a player that has heard its addressee
(`HeardInv`). `RelayIsChosen` (`RelayIsNotLearned`) needs that a player in the lobby
holds no relay address yet (`RelayInv`). Any players, and both networks of
`MCSession`: the actions differ in which pings arrive, and the proofs are of
`AnyNext`, a network that may pass on whatever is true and lose the rest, of which
both are instances (`SmoothIsAny`, `RoughIsAny`).

**`InputMailboxProofs`**: `NothingIsLost` (`DeltaConserved`), from `DeltaInv`, which
adds the types it needs and what a callback under way knows of the mailbox. Any
number of windows and positions. `ClicksAreTrue` (`ClickIsOfOnePress`), from
`ClickInv`: a button is down only in the window that has the focus and is the
active one, and then it is the last press; a press that the frame loop acted on is
remembered as long as it is down, so no later frame takes it for a new one; and what
the frame loop reads of a place, in two loads, is never older than the press it saw,
because a press stores its place before the button. `MCThreads` runs the mailbox
with two sets of constants; a step of either is one of `AnyNext`, where the cursor may
go anywhere (`MovedIsAny`).

**`TenantLifecycleProofs`**: `TypesHold` and `WindowIsLast` (`WindowOutlivesSurface`)
under `Spec`, without any schedule. The window is open while the objects live
because a KILL is in the slot only after the purge, and from the purge on the
tenant never builds again; `LifecycleInv` says this of each place of the main and
the game thread. `PromptLosesNothing` (`NothingUsedIsDestroyed`) needs `Prompt` only:
a swapchain may fail, `vx_stream_init` give up, and a command to rebuild come late.
`OrderlyLosesNothing` (`InOrderNothingIsLost`) is of the orderly behaviours of the
run, and adds that no resize is forgotten as long as no command came late. `OrderInv`
says what is true at each store: the command slot and the resize flag fall only when
the window is closed and the GPU has drained, and it stays so until the game thread
opens it again, also while a late command is on its way (`DrainInv`); the main
thread's CMD_IDLE after a boot is stored before the first escape can be taken, so it
cannot erase the command that idles the GPU for a kill (`EscapeInv`). `ResizeInv` is
true until a command comes late: a rebuild is asked for only while the tenant is
suspended and the flag is up (`AskInv`), so that its acknowledgement never lowers the
flag of a later resize, and the size a tenant was built for is that of the window, or
the flag is up or about to be raised (`SizeInv`).

**`MatchmakerProofs`**: `SessionsAgree` (`SessionIsAgreed`), for any clients, room
sizes and lobby ids, drawn again at any time, with refused requests, lost answers
and restarts of the server. What two started players agree on is copied at different
times, so `RoomInv` says why no copy grows old: a token is given to one lobby only,
no two lobbies hold the same one, a lobby is locked only when it is full and then
keeps its players, a polling client is a player of the lobby it entered while that
lives, whatever lobby took its place under the id, and each player is in the list
once. `SessionsAreTyped` (`SessionTypeOK`) adds that a lobby is never more than
full, and from `IcePunchProofs` that nobody enters the game with a peer that is not
established. Both theorems are of `MCSession`.

**`TransferRingProofs`**: `JobsSafe` (`JobsAreSafe`), of `MCThreads`, for any
windows, slots, jobs and rebuilds, and when waits for the GPU run out. `RingInv` says
who owns a slot: the game thread from reserving to filling it, the transfer thread
from taking it to freeing it (`SlotsAreOwned`); that the busy flag of the window is up
while its objects are in use (`FlagsAreUp`); that a fence is signalled only if no copy
of its window is with the GPU (`FencesAreTrue`); and that no two jobs have one value and
no value is both handled and waiting (`ValuesAreOnce`). `ThreadsAreTyped`
(`ThreadsTypeOK`) needs of the values that a published job has one that was given,
so none with the GPU exceeds `MaxJobs` (`RestType`).

**`PartsProofs`**, of the four components of `MCParts`. `PartsAreTyped`
(`PartsTypeOK`) and:

* *StunReader*: `ReadsSafe` (`ReadsInBounds`), for every buffer, every claimed
  length and every datagram. `AddressesFound` (`AddressIsFound`): in an answer of one
  or two attributes of any lengths the reader's padding of a length is the alignment
  of the next attribute, so it stops at the beginning of each and nowhere else, and
  reaches the address.
* *UdpPipe*: `DatagramsDelivered` (`PipeIsTight`), for any descriptors, buffers and
  datagrams. That no descriptor leaks needs that `INVALID_SOCKET` is none
  (`UdpAssumption`). `SessionIsDelivered` is inductive because it says where each
  datagram of the session is: those returned are a prefix of those that came, the
  rest is in the queue, and both are in the order of their numbers, so the first in
  the queue is the next to return.
* *StoreBuffers*: `HandshakesAreSafe` (`HandshakesHold`), for any number of jobs and
  initialisations. `JobInv` follows the slot through its four states, free, reserved,
  published and given back, and says of each which stores may still wait: while the
  job is not published its fields are in memory or wait before the status, as a
  buffer is first in, first out. `WindowInv` is of the stricter order: the flag of the
  transfer thread is in memory before it looks at the window (`FlagIsUp`), the window
  is closed in memory before the game thread looks at the flag (`ClosesFirst`), so
  the copy is alone (`CopiesAlone`).
* *TileLedger*: `RingKeepsNewest` (`NewestAreKept`), for any capacity, players and
  ticks, from `LedgerInv`. The loop over the players is a recursive function; that
  it exists and keeps `LedgerInv` is shown by the least player that would break it.

Every invariant of a passing run, and the two refinements, have a theorem.
Model-checked only: liveness under fairness, which is out of the prover's reach.

## Not modelled

* **Drawing, Vulkan object creation, camera and picking, mathematics**: numeric
  or straight-line code that decides nothing of what the engine does next.
* **Build scripts, code generators**, and what they generate
  (`generated/ssot_render.h` holds types and constants).
* **`host/tenant/tenant_callbacks.c`**: a second copy of the callbacks that no file
  includes; the live ones are `tenant_callbacks_mouse.c` and `_key.c`.
* **`host/ipc/sys_sync.c`** beyond the memory order of its atomics: thread and sleep
  calls of the platform.
* **Full screen, capture, the space bar, the number keys**: single stores that
  nobody else writes.
* **Several windows in the lifecycle**: the windows of a process share the render
  loop's pass and the end of the game; the model has one, and `teardown.lua`'s own
  closing of windows finds none. `InputMailbox` and `TransferRing` have two.
* **The operating system** below the socket calls. Below `send_dynamic_history` the
  network may lose, repeat and reorder, which covers every route `vx_net.c` may
  choose; forged datagrams with the right token are not in the model.
* **Hazards without a property**, with the reason at each in `PROJECT.json`: mostly
  that the code does not keep the two things apart, so that the property is one
  of the refuted statements above.
