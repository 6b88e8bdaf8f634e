------------------------------ MODULE Lockstep ------------------------------
(***************************************************************************)
(* The rollback netcode of network/: every node simulates ahead of its     *)
(* peers on predicted inputs, sends its own recent inputs in each packet   *)
(* and, when an input it predicted arrives and differs, restores a         *)
(* snapshot and simulates again.                                           *)
(*                                                                         *)
(* One node is one LuaJIT thread; nodes share nothing but UDP packets.  A  *)
(* call of NetCore.pump_network is the sequence Receive* StartTicks        *)
(* (PrepareFrame (BeginRollback) ResimulateTick* SimulateForward)*         *)
(* FlushNetwork.                                                           *)
(*                                                                         *)
(* Abstractions.  The deterministic game (SimulateTick) is the finest one: *)
(* a world is the log of the command vectors that produced it, so two      *)
(* worlds are equal here iff they are equal under every deterministic      *)
(* simulation of the same inputs.  A checksum is the world it is taken of  *)
(* (hash collisions are left out); NoChecksum is the code's 0.  Time is    *)
(* counted in whole ticks: a pump is given 0..MaxTicksPerPump of them.     *)
(***************************************************************************)
EXTENDS Integers, FiniteSets, Sequences

CONSTANTS
    Node,             \* the players of the room (peer_active)
    Command,          \* what a player may ask for (opcode # 0)
    Idle,             \* the neutral command (opcode 0)
    LookaheadCap,     \* ConfigNet.LOOKAHEAD_CAP
    HistoryLen,       \* CFG_HISTORY_LEN
    RingSize,         \* CFG_RING_SIZE
    PrimingTicks,     \* inject_local_command ignores the UI before this tick
    MaxTicksPerPump,  \* bound: ticks that one pump may owe (dt <= 0.25: 15)
    MaxTick,          \* bound: last tick a node starts
    MaxCommands       \* bound: commands each player issues

ASSUME NodeAssumption == Node # {} /\ IsFiniteSet(Node)
ASSUME IdleAssumption == Idle \notin Command
ASSUME SizeAssumption == /\ LookaheadCap \in Nat \ {0}
                         /\ HistoryLen \in Nat \ {0}
                         /\ RingSize \in Nat
                         /\ MaxTicksPerPump \in Nat \ {0}
                         /\ PrimingTicks \in Nat
                         /\ MaxTick \in Nat
                         /\ MaxCommands \in Nat
\* 512 >= 123 in the code: no frame a node still needs shares its slot with
\* one that a peer may already be sending.
ASSUME RingAssumption == RingSize >= 2 * LookaheadCap + 3
\* 60 <= 512 in the code.
ASSUME HistoryAssumption == HistoryLen <= RingSize

VARIABLES
    sim_tick_count,    \* next tick to simulate
    confirmed_tick,    \* arena.confirmed_tick
    head_tick,         \* arena.head_tick: last frame prepared
    rollback_target,   \* earliest mispredicted tick; 0 if is_rollback_active = 0
    frames,            \* arena.frames: the ring of NetworkFrames
    peer_highest_tick, \* last tick up to which a peer's inputs are complete
    peer_ack_of_me,    \* what a peer says of my inputs in its peer_acks
    rts_grid,          \* the live world
    snapshot_ring,     \* the world after each of the last RingSize ticks
    pending_ui_cmd,    \* one-slot mailbox between the UI and PollInput
    issued,            \* history: commands issued so far, for the bound
    phase,             \* where the node is in pump_network
    accumulator,       \* ticks still owed in this pump
    tick_before,       \* sim_tick_count when the pump began
    cursor,            \* the tick execute_rollback simulates next
    net                \* packets ever sent: any may arrive, again, or never

clockVars    == <<sim_tick_count, confirmed_tick, head_tick>>
peerVars     == <<peer_highest_tick, peer_ack_of_me>>
worldVars    == <<rts_grid, snapshot_ring>>
inputVars    == <<pending_ui_cmd, issued>>
controlVars  == <<phase, accumulator, tick_before, cursor>>
vars == <<clockVars, rollback_target, frames, peerVars, worldVars, inputVars,
          controlVars, net>>

Peers(n) == Node \ {n}
Slots == 0 .. RingSize - 1
Slot(t) == t % RingSize        \* bit.band(t, RING_MASK), RING_SIZE a power of 2
Commands == Command \cup {Idle}

LocalHorizon   == RingSize - 2
DesyncSweep    == LocalHorizon
HistoryHorizon == HistoryLen - 1

NoChecksum == <<>>
Later(a, b) == IF a >= b THEN a ELSE b
Earlier(a, b) == IF a <= b THEN a ELSE b

\* The least element of S, as a set: empty iff S is empty.
Least(S) == {x \in S : \A y \in S : x <= y}

\* A frame as zero_memory leaves it, tagged with tick t.
EmptyFrame(t) == [tick |-> t, commands |-> [p \in Node |-> Idle],
                  state_checksum |-> NoChecksum, remote_checksum |-> NoChecksum]

Frame(n, t) == frames[n][Slot(t)]

\* The frame a tick t is written into: the slot's own, or a fresh one when
\* the slot still holds an older tick.
Tagged(f, t) == IF f.tick = t THEN f ELSE EmptyFrame(t)

SimulateTick(world, commands) == Append(world, commands)

\* What frame f says at a tick at which the inputs of the peers in guessed have
\* not arrived: their previous command again.
Predict(f, previous, guessed) ==
    [f EXCEPT !.commands =
        [p \in Node |-> IF p \in guessed THEN previous.commands[p] ELSE @[p]]]

\* The peers of n whose inputs of tick t have not arrived.
UnheardLate(n, t) == {p \in Peers(n) : t >= peer_highest_tick[n][p]} \* mutant
Unheard(n, t) == {p \in Peers(n) : t > peer_highest_tick[n][p]}

Init ==
    /\ sim_tick_count = [n \in Node |-> 1]
    /\ confirmed_tick = [n \in Node |-> 0]
    /\ head_tick = [n \in Node |-> 0]
    /\ rollback_target = [n \in Node |-> 0]
    /\ frames = [n \in Node |-> [s \in Slots |-> EmptyFrame(0)]]
    /\ peer_highest_tick = [n \in Node |-> [p \in Node |-> 0]]
    /\ peer_ack_of_me = [n \in Node |-> [p \in Node |-> 0]]
    /\ rts_grid = [n \in Node |-> <<>>]
    /\ snapshot_ring = [n \in Node |-> [s \in Slots |-> <<>>]]
    /\ pending_ui_cmd = [n \in Node |-> Idle]
    /\ issued = [n \in Node |-> 0]
    /\ phase = [n \in Node |-> "idle"]
    /\ accumulator = [n \in Node |-> 0]
    /\ tick_before = [n \in Node |-> 0]
    /\ cursor = [n \in Node |-> 0]
    /\ net = {}

-----------------------------------------------------------------------------
\* NetCore.inject_local_command: the UI hands over one command; a second one
\* before the next tick replaces it.
InjectLocalCommand(n, c) ==
    /\ phase[n] = "idle"
    /\ issued[n] < MaxCommands
    /\ sim_tick_count[n] >= PrimingTicks
    /\ pending_ui_cmd' = [pending_ui_cmd EXCEPT ![n] = c]
    /\ issued' = [issued EXCEPT ![n] = @ + 1]
    /\ UNCHANGED <<clockVars, rollback_target, frames, peerVars, worldVars,
                   controlVars, net>>

\* history_buffer.integrate: the ticks of packet m that node n takes.
Window(n, m) ==
    {t \in m.base_tick .. m.frame_tick :
        /\ t > confirmed_tick[n]
        /\ t >= sim_tick_count[n] - LocalHorizon
        /\ t <= Earlier(sim_tick_count[n], confirmed_tick[n]) + RingSize - 1}

\* The frame of tick t once the command packet m gives for it is stored.
Integrated(n, m, t) ==
    [Tagged(Frame(n, t), t) EXCEPT !.commands[m.player_id] = m.commands[t]]

\* The ring of n after integrate(m).
IntegratedRing(n, m) ==
    [s \in Slots |->
        IF \E t \in Window(n, m) : Slot(t) = s
        THEN Integrated(n, m, CHOOSE t \in Window(n, m) : Slot(t) = s)
        ELSE frames[n][s]]

\* The ticks already simulated for which m contradicts the stored command.
MispredictedTooOld(n, m) ==    \* mutant: the last simulated tick is left out
    {t \in Window(n, m) :
        /\ t < sim_tick_count[n] - 1
        /\ Tagged(Frame(n, t), t).commands[m.player_id] # m.commands[t]}
Mispredicted(n, m) ==
    {t \in Window(n, m) :
        /\ t < sim_tick_count[n]
        /\ Tagged(Frame(n, t), t).commands[m.player_id] # m.commands[t]}

\* The rollback target once m is integrated: the earliest wrong tick, as a set.
RollbackTarget(n, m) ==
    LET wrong == Mispredicted(n, m) \cup ({rollback_target[n]} \ {0})
    IN  IF wrong = {} THEN {0} ELSE Least(wrong)

\* history_buffer.audit_checksum on the integrated ring.
RecordChecksum(n, m, ring) ==
    IF /\ m.state_checksum # NoChecksum
       /\ m.checksum_tick >= Later(0, confirmed_tick[n] - DesyncSweep)
       /\ m.checksum_tick <= sim_tick_count[n]
       /\ ring[Slot(m.checksum_tick)].tick = m.checksum_tick
    THEN [ring EXCEPT ![Slot(m.checksum_tick)].remote_checksum = m.state_checksum]
    ELSE ring

\* net_pump.intercept_network, for one packet.
Receive(n, m) ==
    /\ phase[n] = "idle"
    /\ m.player_id \in Peers(n)
    /\ m.frame_tick >= confirmed_tick[n]
    /\ peer_ack_of_me' =
         [peer_ack_of_me EXCEPT ![n][m.player_id] = Later(@, m.peer_acks[n])]
    /\ peer_highest_tick' =
         [peer_highest_tick EXCEPT ![n][m.player_id] =
            IF m.base_tick <= @ + 1 THEN Later(@, m.frame_tick) ELSE @]
    /\ frames' =
         [frames EXCEPT ![n] = RecordChecksum(n, m, IntegratedRing(n, m))]
    /\ \E t \in RollbackTarget(n, m) :
         rollback_target' = [rollback_target EXCEPT ![n] = t]
    /\ UNCHANGED <<clockVars, worldVars, inputVars, controlVars, net>>

-----------------------------------------------------------------------------
\* true_consensus: what all the peers have delivered, no later than the last
\* tick simulated here.  A set of one element.
ConsensusOfAny(n) ==           \* mutant: the fastest peer decides
    {Earlier(peer_highest_tick[n][p], sim_tick_count[n] - 1) : p \in Peers(n)}
Consensus(n) ==
    Least({peer_highest_tick[n][p] : p \in Peers(n)}
          \cup {Later(0, sim_tick_count[n] - 1)})

\* min_ack_of_me, given the confirmed tick.  A set of one element.
MinAck(n, conf) == IF Peers(n) = {} THEN {conf}
                   ELSE Least({peer_ack_of_me[n][p] : p \in Peers(n)})

SafeHorizonUnacked(conf, ack) == conf    \* mutant
SafeHorizon(conf, ack) == Earlier(conf, ack)

MustHaltEarly(n, safe) == sim_tick_count[n] >= safe + LookaheadCap   \* mutant
MustHalt(n, safe) == sim_tick_count[n] > safe + LookaheadCap

\* pump_network enters tick_playing_state with k ticks owed, and
\* calculate_horizons runs.  (remote_highest is confirmed_tick from here to the
\* end of the pump.)
StartTicks(n, k) ==
    /\ phase[n] = "idle"
    /\ sim_tick_count[n] + k <= MaxTick + 1
    /\ tick_before' = [tick_before EXCEPT ![n] = sim_tick_count[n]]
    /\ \E consensus \in Consensus(n) :
         confirmed_tick' = [confirmed_tick EXCEPT ![n] = Later(@, consensus)]
    /\ \E ack \in MinAck(n, confirmed_tick'[n]) :
         LET speed_up == IF confirmed_tick'[n] > sim_tick_count[n] + 2
                         THEN confirmed_tick'[n] - sim_tick_count[n] ELSE 0
         IN  accumulator' = [accumulator EXCEPT ![n] =
                IF MustHalt(n, SafeHorizon(confirmed_tick'[n], ack))
                THEN 0 ELSE k + speed_up]
    /\ phase' = [phase EXCEPT ![n] = "loop"]
    /\ UNCHANGED <<sim_tick_count, head_tick, rollback_target, frames, peerVars,
                   worldVars, inputVars, cursor, net>>

\* PollInput: the command of n for the frame f, Idle if none is pending.
PollInput(n, f) == [f EXCEPT !.commands[n] = pending_ui_cmd[n]]

\* prepare_frame, then PollInput: tag the slot of the current tick, predict the
\* peers not heard of, and take the pending command.
PrepareFrame(n) ==
    LET t    == sim_tick_count[n]
        mine == PollInput(n, Tagged(Frame(n, t), t))
    IN
    /\ phase[n] = "loop"
    /\ accumulator[n] > 0
    /\ frames' = [frames EXCEPT ![n][Slot(t)] =
                    IF t > 1 THEN Predict(mine, Frame(n, t - 1), Unheard(n, t))
                    ELSE mine]
    /\ head_tick' = [head_tick EXCEPT ![n] = t]
    /\ pending_ui_cmd' = [pending_ui_cmd EXCEPT ![n] = Idle]
    /\ phase' = [phase EXCEPT ![n] =
                    IF rollback_target[n] # 0 THEN "rollback" ELSE "simulate"]
    /\ UNCHANGED <<sim_tick_count, confirmed_tick, rollback_target, peerVars,
                   worldVars, issued, accumulator, tick_before, cursor, net>>

OutOfReach(n) == sim_tick_count[n] - rollback_target[n] > LocalHorizon

RestorePointLate(n) == rollback_target[n]    \* mutant
RestorePoint(n) == rollback_target[n] - 1

\* execute_rollback up to its loop: exit if the target is out of reach, restore
\* the snapshot before the target otherwise.
BeginRollback(n) ==
    /\ phase[n] = "rollback"
    /\ IF OutOfReach(n)
       THEN /\ phase' = [phase EXCEPT ![n] = "horizon_exceeded"]
            /\ UNCHANGED <<rts_grid, cursor>>
       ELSE /\ phase' = [phase EXCEPT ![n] = "resimulate"]
            /\ rts_grid' = [rts_grid EXCEPT ![n] =
                             snapshot_ring[n][Slot(RestorePoint(n))]]
            /\ cursor' = [cursor EXCEPT ![n] = rollback_target[n]]
    /\ UNCHANGED <<clockVars, rollback_target, frames, peerVars, snapshot_ring,
                   inputVars, accumulator, tick_before, net>>

\* SimulateTick, HashState and the snapshot for the frame f of tick t.
Simulated(n, t, f) ==
    LET world == SimulateTick(rts_grid[n], f.commands)
    IN  /\ rts_grid' = [rts_grid EXCEPT ![n] = world]
        /\ snapshot_ring' = [snapshot_ring EXCEPT ![n][Slot(t)] = world]
        /\ frames' = [frames EXCEPT ![n][Slot(t)] =
                        [f EXCEPT !.state_checksum = world]]

\* is_rollback_active once the rollback is done.
StillActive(n) == rollback_target[n]    \* mutant: it is never cleared
NoLongerActive(n) == 0

\* One iteration of execute_rollback's loop; the last one ends the rollback.
ResimulateTick(n) ==
    LET t == cursor[n]
    IN
    /\ phase[n] = "resimulate"
    /\ Simulated(n, t, Predict(Frame(n, t), Frame(n, t - 1), Unheard(n, t)))
    /\ IF t = sim_tick_count[n] - 1
       THEN /\ rollback_target' = [rollback_target EXCEPT ![n] = NoLongerActive(n)]
            /\ phase' = [phase EXCEPT ![n] = "simulate"]
            /\ cursor' = [cursor EXCEPT ![n] = 0]
       ELSE /\ cursor' = [cursor EXCEPT ![n] = t + 1]
            /\ UNCHANGED <<rollback_target, phase>>
    /\ UNCHANGED <<clockVars, peerVars, inputVars, accumulator, tick_before, net>>

\* audit_desyncs on a ring: some audited frame differs from a peer's checksum.
Desynced(n, ring) ==
    \E v \in Later(0, confirmed_tick[n] - DesyncSweep) .. confirmed_tick[n] :
        LET f == ring[Slot(v)]
        IN  /\ f.tick = v
            /\ f.state_checksum # NoChecksum
            /\ f.remote_checksum # NoChecksum
            /\ f.state_checksum # f.remote_checksum

MayAdvanceFreely(n) == TRUE    \* mutant
MayAdvanceOnceMore(n) ==       \* mutant
    sim_tick_count[n] <= confirmed_tick[n] + LookaheadCap + 1
MayAdvance(n) == sim_tick_count[n] <= confirmed_tick[n] + LookaheadCap

\* simulate_forward and audit_desyncs, unless the tick is out of reach; the
\* iteration is paid for either way.
SimulateForward(n) ==
    LET t == sim_tick_count[n]
    IN
    /\ phase[n] = "simulate"
    /\ accumulator' = [accumulator EXCEPT ![n] = @ - 1]
    /\ IF MayAdvance(n)
       THEN /\ Simulated(n, t, Frame(n, t))
            /\ sim_tick_count' = [sim_tick_count EXCEPT ![n] = t + 1]
            /\ phase' = [phase EXCEPT ![n] =
                            IF Desynced(n, frames'[n]) THEN "desync" ELSE "loop"]
       ELSE /\ phase' = [phase EXCEPT ![n] = "loop"]
            /\ UNCHANGED <<sim_tick_count, rts_grid, snapshot_ring, frames>>
    /\ UNCHANGED <<confirmed_tick, head_tick, rollback_target, peerVars,
                   inputVars, tick_before, cursor, net>>

PacketTickUnpolled(n) == sim_tick_count[n]   \* mutant
PacketTick(n) == head_tick[n]

BaseTickUnclamped(tick) == tick - HistoryHorizon   \* mutant
BaseTick(tick) == Later(0, tick - HistoryHorizon)

\* wire_codec.build_outbound.
Packet(n) ==
    LET tick == PacketTick(n)
        base == BaseTick(tick)
    IN  [player_id |-> n,
         frame_tick |-> tick,
         base_tick |-> base,
         commands |-> [t \in base .. tick |-> Frame(n, t).commands[n]],
         checksum_tick |-> IF rollback_target[n] = 0
                           THEN confirmed_tick[n] ELSE 0,
         state_checksum |-> IF rollback_target[n] = 0
                            THEN Frame(n, confirmed_tick[n]).state_checksum
                            ELSE NoChecksum,
         peer_acks |-> peer_highest_tick[n]]

\* The end of pump_network: send_dynamic_history, but only if a tick was made.
FlushNetwork(n) ==
    /\ phase[n] = "loop"
    /\ accumulator[n] = 0
    /\ net' = IF sim_tick_count[n] > tick_before[n]
              THEN net \cup {Packet(n)} ELSE net
    /\ phase' = [phase EXCEPT ![n] = "idle"]
    /\ tick_before' = [tick_before EXCEPT ![n] = 0]
    /\ UNCHANGED <<clockVars, rollback_target, frames, peerVars, worldVars,
                   inputVars, accumulator, cursor>>

-----------------------------------------------------------------------------
Tick(n) == \/ \E k \in 1 .. MaxTicksPerPump : StartTicks(n, k)
           \/ PrepareFrame(n)
           \/ BeginRollback(n)
           \/ ResimulateTick(n)
           \/ SimulateForward(n)
           \/ FlushNetwork(n)

Next == \E n \in Node : \/ \E c \in Command : InjectLocalCommand(n, c)
                        \/ \E m \in net : Receive(n, m)
                        \/ Tick(n)

Spec == Init /\ [][Next]_vars
-----------------------------------------------------------------------------
(* The structures of shared_structs.h and of the app_ctx table.             *)
Worlds == Seq([Node -> Commands])
NetworkFrame == [tick : Nat, commands : [Node -> Commands],
                 state_checksum : Worlds, remote_checksum : Worlds]

IsPacket(m) ==
    /\ DOMAIN m = {"player_id", "frame_tick", "base_tick", "commands",
                   "checksum_tick", "state_checksum", "peer_acks"}
    /\ m.player_id \in Node
    /\ m.frame_tick \in Nat
    /\ m.base_tick \in Nat
    /\ m.commands \in [m.base_tick .. m.frame_tick -> Commands]
    /\ m.checksum_tick \in Nat
    /\ m.state_checksum \in Worlds
    /\ m.peer_acks \in [Node -> Nat]

Phases == {"idle", "loop", "rollback", "resimulate", "simulate",
           "horizon_exceeded", "desync"}

\* Type correctness of every field of app_ctx, RollbackBuffer and the wire.
TypeOK ==
    /\ sim_tick_count \in [Node -> Nat \ {0}]
    /\ confirmed_tick \in [Node -> Nat]
    /\ head_tick \in [Node -> Nat]
    /\ rollback_target \in [Node -> Nat]
    /\ frames \in [Node -> [Slots -> NetworkFrame]]
    /\ peer_highest_tick \in [Node -> [Node -> Nat]]
    /\ peer_ack_of_me \in [Node -> [Node -> Nat]]
    /\ rts_grid \in [Node -> Worlds]
    /\ snapshot_ring \in [Node -> [Slots -> Worlds]]
    /\ pending_ui_cmd \in [Node -> Commands]
    /\ issued \in [Node -> Nat]
    /\ phase \in [Node -> Phases]
    /\ accumulator \in [Node -> Nat]
    /\ tick_before \in [Node -> Nat]
    /\ cursor \in [Node -> Nat]
    /\ \A m \in net : IsPacket(m)

\* A node never runs further ahead of the inputs it has than the cap, and never
\* confirms a tick it has not simulated (fsm_core.lua:39, fsm_pacing.lua:21-24).
LookaheadBound ==
    \A n \in Node : /\ confirmed_tick[n] < sim_tick_count[n]
                    /\ sim_tick_count[n] <= confirmed_tick[n] + LookaheadCap + 1

\* The exit of execute_rollback is never taken: however late an input comes, the
\* snapshot before it is still in the ring (fsm_simulator.lua:46-49).
RollbackInReach == \A n \in Node : phase[n] # "horizon_exceeded"

\* The ring is large enough for the drift between peers: no packet that a node
\* does not skip reaches past the ticks whose slots are free for it, so
\* integrate drops no input that peer_highest_tick counts as received
\* (net_pump.lua:65-68 against history_buffer.lua:16-21).
PacketsFitRing ==
    \A n \in Node : \A m \in net :
        m.player_id # n /\ m.frame_tick >= confirmed_tick[n]
            => m.frame_tick <= confirmed_tick[n] + RingSize - 1

\* The tick the live world of n has reached.
TickOfWorld(n) == IF phase[n] = "resimulate" THEN cursor[n] - 1
                  ELSE sim_tick_count[n] - 1

\* The live world and every snapshot a rollback may restore are those of the
\* very tick they are used for, whatever was restored and overwritten before
\* (fsm_simulator.lua:51-60, 86, 106).
WorldsAreOfTheirTick ==
    \A n \in Node :
        /\ Len(rts_grid[n]) = TickOfWorld(n)
        /\ \A t \in confirmed_tick[n] .. sim_tick_count[n] - 1 :
                Len(snapshot_ring[n][Slot(t)]) = t
        /\ rollback_target[n] # 0 =>
                Len(snapshot_ring[n][Slot(rollback_target[n] - 1)])
                    = rollback_target[n] - 1

\* Up to peer_highest_tick a node holds the inputs its peer really played, in
\* frames still tagged with their tick: no prediction, reset or late packet has
\* overwritten one (fsm_simulator.lua:28, 75 and history_buffer.lua:25-45).
ReceivedInputsAreTrue ==
    \A n \in Node : \A p \in Peers(n) :
        \A t \in Later(1, confirmed_tick[n]) .. peer_highest_tick[n][p] :
            /\ Frame(n, t).tick = t
            /\ Frame(p, t).tick = t =>
                   Frame(n, t).commands[p] = Frame(p, t).commands[p]

\* The last tick of n whose world no input can change any more.
SettledTick(n) == IF rollback_target[n] = 0 THEN confirmed_tick[n]
                  ELSE Earlier(confirmed_tick[n], rollback_target[n] - 1)

\* The world of n at that tick.
SettledWorld(n) == snapshot_ring[n][Slot(SettledTick(n))]

\* The fatal desync of audit_desyncs is never met: no node finds a checksum of a
\* peer that differs from its own (fsm_simulator.lua:117-134).
NoFatalDesync == \A n \in Node : phase[n] # "desync"

\* A packet is never unusable because it starts after a gap: whenever it
\* arrives, its history begins no later than the first tick its receiver misses
\* (wire_codec.lua:31-32 against net_pump.lua:66 and fsm_pacing.lua:41).
HistoryReachesPeers ==
    \A m \in net : \A n \in Peers(m.player_id) :
        m.base_tick <= peer_highest_tick[n][m.player_id] + 1

\* A player's input for a tick is published with one value only: a tick polled,
\* sent and polled again would be two games (fsm_core.lua:29-34).
PublishedOnce ==
    \A m1, m2 \in net : m1.player_id = m2.player_id =>
        \A t \in DOMAIN m1.commands \cap DOMAIN m2.commands :
            m1.commands[t] = m2.commands[t]
-----------------------------------------------------------------------------
(* The inductive invariant behind LookaheadBound, RollbackInReach and       *)
(* PacketsFitRing.                                                          *)

\* Where the node is in its pump agrees with what it owes and must undo.
PumpInv ==
    \A n \in Node :
        /\ phase[n] \in {"rollback", "resimulate", "simulate"} => accumulator[n] > 0
        /\ phase[n] = "rollback" => rollback_target[n] # 0
        /\ phase[n] = "simulate" => rollback_target[n] = 0

\* A pending rollback undoes ticks that were simulated, and few of them.
RollbackInv ==
    \A n \in Node : rollback_target[n] # 0 =>
        /\ rollback_target[n] < sim_tick_count[n]
        /\ sim_tick_count[n] - rollback_target[n] <= LookaheadCap

\* Nobody has heard of a frame that was not prepared, nor confirmed a tick that
\* some peer has not sent.
DriftInv ==
    /\ \A n \in Node : head_tick[n] <= sim_tick_count[n]
    /\ \A m \in net : m.frame_tick <= head_tick[m.player_id]
    /\ \A n \in Node : \A p \in Peers(n) :
         /\ confirmed_tick[n] <= peer_highest_tick[n][p]
         /\ peer_highest_tick[n][p] <= head_tick[p]

\* Every execution keeps this (LockstepProofs proves it from the code's guards).
InductiveInv == /\ TypeOK /\ PumpInv /\ LookaheadBound /\ RollbackInv
                /\ RollbackInReach /\ DriftInv
=============================================================================
