---------------------------- MODULE TransferRing ----------------------------
(***************************************************************************)
(* Copies to device memory beside the frames.  The game thread puts a job  *)
(* in a ring slot (Memory.TransferAsync, vk_transfer_api.c); the transfer  *)
(* thread (vk_transfer_loop.c) takes the slots in the order of their index *)
(* and copies with the command buffer and the fence of the job's window.   *)
(* Two others stand in its way: vx_stream_init on the game thread          *)
(* (ring_stream.c), which replaces the window's Vulkan objects, and a      *)
(* rebuild on the render thread (vk_render_loop.c), which resets its pools.*)
(* All wait for g_transfer_busy; the transfer thread looks at g_wsi_state. *)
(*                                                                         *)
(* A job is named by its timeline value.  A rebuild's command stands for   *)
(* the command and the resize flag (TenantLifecycle has both); the fields  *)
(* of a job are read and written at once, under the protection of status.  *)
(***************************************************************************)
EXTENDS Integers, Sequences, Functions

CONSTANTS
    Windows,
    SlotCount,      \* TRANSFER_RING_SIZE
    MaxJobs,        \* bound on the jobs accepted
    MaxRebuilds,    \* bound on the rebuilds asked for
    Hangs           \* whether a wait of two seconds may be too short

\* What is assumed of the constants.
TransferAssumption ==
    /\ SlotCount \in Nat \ {0} /\ MaxJobs \in Nat \ {0} /\ MaxRebuilds \in Nat
    /\ Hangs \in BOOLEAN /\ Windows # {}

VARIABLES
    ring,               \* the slots: status, window and signal value of the job
    busy, wsi_state,    \* g_transfer_busy, g_wsi_state
    command,            \* windows whose rebuild is asked for, or waits for its ack
    suspended,          \* windows the game thread will initialise again
    fence,              \* g_transfer_fences; "none" before the window is booted
    timeline,           \* Memory.TimelineValue
    rebuilds,
    lua, transfer, render,  \* the places of the threads, with a slot or a window
    gpu,                \* copies submitted and not done, in order
    counter, copied,    \* the value of the semaphore; the copies done
    handled             \* jobs submitted or dropped, in order

windowVars == <<busy, wsi_state, command, suspended, fence>>
gpuVars    == <<gpu, counter, copied>>
vars == <<ring, windowVars, timeline, rebuilds, lua, transfer, render, gpuVars, handled>>

Slots == 1 .. SlotCount
FirstWindow == CHOOSE w \in Windows : TRUE     \* the zero of fresh memory
NoWindow == "none"
At(pc, x) == [pc |-> pc, at |-> x]

\* vx_transfer_setup, and what the loader and vx_init_mailbox leave.
Init ==
    /\ ring = [i \in Slots |-> [status |-> 0, win |-> FirstWindow, val |-> 0]]
    /\ busy = [w \in Windows |-> FALSE] /\ wsi_state = [w \in Windows |-> 0]
    /\ command = {} /\ suspended = {} /\ fence = [w \in Windows |-> "none"]
    /\ timeline = 0 /\ rebuilds = 0
    /\ lua = At("run", 0) /\ transfer = At("scan", 1) /\ render = At("poll", NoWindow)
    /\ gpu = <<>> /\ counter = 0 /\ copied = {} /\ handled = <<>>

Booted == \A w \in Windows : fence[w] # "none"

-----------------------------------------------------------------------------
(* The game thread.                                                         *)

\* vx_stream_allocate_tenant makes pool, buffer and a signalled fence;
\* vx_stream_init, which follows, closes the window.
AllocateTenant(w) ==
    /\ lua.pc = "run" /\ fence[w] = "none"
    /\ fence' = [fence EXCEPT ![w] = "signalled"]
    /\ wsi_state' = [wsi_state EXCEPT ![w] = 0]
    /\ lua' = At("init", w)
    /\ UNCHANGED <<ring, busy, command, suspended, timeline, rebuilds, transfer, render,
                   gpuVars, handled>>

\* TransferAsync takes the next value and scans for a free slot.
RequestTransfer ==
    /\ lua.pc = "run" /\ Booted /\ timeline < MaxJobs
    /\ timeline' = timeline + 1
    /\ lua' = At("request", 1)
    /\ UNCHANGED <<ring, windowVars, rebuilds, transfer, render, gpuVars, handled>>

ReservedOpen == 2                           \* mutant: published before it is filled
Reserved == 1

\* One compare-exchange; past the last slot the job is given up, and its value.
TrySlot ==
    LET i == lua.at
    IN
    /\ lua.pc = "request"
    /\ \/ /\ i \in Slots /\ ring[i].status = 0
          /\ ring' = [ring EXCEPT ![i].status = Reserved]
          /\ lua' = At("fill", i)
          /\ UNCHANGED timeline
       \/ /\ i \in Slots /\ ring[i].status # 0
          /\ lua' = At("request", i + 1)
          /\ UNCHANGED <<ring, timeline>>
       \/ /\ i \notin Slots
          /\ timeline' = timeline - 1
          /\ lua' = At("run", 0)
          /\ UNCHANGED ring
    /\ UNCHANGED <<windowVars, rebuilds, transfer, render, gpuVars, handled>>

FillSlot ==
    /\ lua.pc = "fill"
    /\ \E w \in Windows :
          ring' = [ring EXCEPT ![lua.at] = [status |-> 2, win |-> w, val |-> timeline]]
    /\ lua' = At("run", 0)
    /\ UNCHANGED <<windowVars, timeline, rebuilds, transfer, render, gpuVars, handled>>

\* trigger_wsi_rebuild, for a window resized.
AskRebuild(w) ==
    /\ lua.pc = "run" /\ Booted /\ w \notin suspended /\ rebuilds < MaxRebuilds
    /\ command' = command \cup {w} /\ suspended' = suspended \cup {w}
    /\ rebuilds' = rebuilds + 1
    /\ UNCHANGED <<ring, busy, wsi_state, fence, timeline, lua, transfer, render, gpuVars,
                   handled>>

\* The rebuild is acknowledged: new objects, and vx_stream_init closes the window.
BeginInit(w) ==
    /\ lua.pc = "run" /\ w \in suspended \ command
    /\ suspended' = suspended \ {w}
    /\ wsi_state' = [wsi_state EXCEPT ![w] = 0]
    /\ lua' = At("init", w)
    /\ UNCHANGED <<ring, busy, command, fence, timeline, rebuilds, transfer, render,
                   gpuVars, handled>>

\* Its wait for the transfer thread, which it may give up.
WaitTransfer ==
    /\ lua.pc = "init"
    /\ \/ ~busy[lua.at] /\ lua' = At("write", lua.at)
       \/ busy[lua.at] /\ Hangs /\ lua' = At("run", 0)
    /\ UNCHANGED <<ring, windowVars, timeline, rebuilds, transfer, render, gpuVars, handled>>

\* g_window_wsi is overwritten and the window opened.
OpenStream ==
    /\ lua.pc = "write"
    /\ wsi_state' = [wsi_state EXCEPT ![lua.at] = 1]
    /\ lua' = At("run", 0)
    /\ UNCHANGED <<ring, busy, command, suspended, fence, timeline, rebuilds, transfer,
                   render, gpuVars, handled>>

Lua == \/ \E w \in Windows : AllocateTenant(w) \/ AskRebuild(w) \/ BeginInit(w)
       \/ RequestTransfer \/ TrySlot \/ FillSlot \/ WaitTransfer \/ OpenStream

-----------------------------------------------------------------------------
(* The transfer thread.                                                     *)

job == ring[transfer.at]
Goes(from, to) == transfer.pc = from /\ transfer' = At(to, transfer.at)
luaAndRender == <<command, suspended, timeline, rebuilds, lua, render>>

FollowingShort(i) == (i % (SlotCount - 1)) + 1     \* mutant: the last slot is missed
Following(i) == (i % SlotCount) + 1

\* To the next slot; after the last one it may sleep and begins again.
NextSlot(from) ==
    /\ transfer.pc = from
    /\ transfer' = At("scan", Following(transfer.at))

ScanSlot ==
    /\ IF job.status = 2 THEN Goes("scan", "take") ELSE NextSlot("scan")
    /\ UNCHANGED <<ring, busy, wsi_state, fence, luaAndRender, gpuVars, handled>>

RaisedNot == FALSE                          \* mutant
Raised == TRUE

RaiseBusy ==
    /\ Goes("take", "check")
    /\ busy' = [busy EXCEPT ![job.win] = Raised]
    /\ UNCHANGED <<ring, wsi_state, fence, luaAndRender, gpuVars, handled>>

Free(r, i) == [r EXCEPT ![i].status = 0]

\* A window that is closed: the job is dropped.
DropJob ==
    /\ Goes("check", "release")
    /\ wsi_state[job.win] = 0
    /\ handled' = Append(handled, job.val)
    /\ ring' = Free(ring, transfer.at)
    /\ UNCHANGED <<busy, wsi_state, fence, luaAndRender, gpuVars>>

KeepJob ==
    /\ Goes("check", "wait")
    /\ wsi_state[job.win] = 1
    /\ UNCHANGED <<ring, busy, wsi_state, fence, luaAndRender, gpuVars, handled>>

FenceNotWaited(w) == TRUE                   \* mutant
FenceSignalled(w) == fence[w] = "signalled"

\* The last copy of the window must be done ...
WaitFence ==
    /\ Goes("wait", "record")
    /\ FenceSignalled(job.win)
    /\ UNCHANGED <<ring, busy, wsi_state, fence, luaAndRender, gpuVars, handled>>

\* ... or after two seconds the job is dropped, the window closed, and the pass
\* over the slots broken off.
FenceTimeout ==
    /\ Goes("wait", "break")
    /\ Hangs /\ ~FenceSignalled(job.win)
    /\ handled' = Append(handled, job.val)
    /\ ring' = Free(ring, transfer.at)
    /\ wsi_state' = [wsi_state EXCEPT ![job.win] = 0]
    /\ UNCHANGED <<busy, fence, luaAndRender, gpuVars>>

\* The fence is reset and the command buffer recorded anew.
RecordCopy ==
    /\ Goes("record", "submit")
    /\ fence' = [fence EXCEPT ![job.win] = "unsignalled"]
    /\ UNCHANGED <<ring, busy, wsi_state, luaAndRender, gpuVars, handled>>

SubmitCopy ==
    /\ Goes("submit", "await")
    /\ gpu' = Append(gpu, [win |-> job.win, val |-> job.val])
    /\ handled' = Append(handled, job.val)
    /\ UNCHANGED <<ring, busy, wsi_state, fence, luaAndRender, counter, copied>>

\* The result of the second wait is not looked at.
AwaitCopy ==
    /\ Goes("await", "release")
    /\ FenceSignalled(job.win) \/ Hangs
    /\ ring' = Free(ring, transfer.at)
    /\ UNCHANGED <<busy, wsi_state, fence, luaAndRender, gpuVars, handled>>

BusyKept(w) == busy[w]                      \* mutant
Lowered(w) == FALSE

\* The slot is free already; the thread raised the flag of one window only.
LowerBusy ==
    /\ \/ NextSlot("release")
       \/ transfer.pc = "break" /\ transfer' = At("scan", 1)
    /\ busy' = [w \in Windows |-> Lowered(w)]
    /\ UNCHANGED <<ring, wsi_state, fence, luaAndRender, gpuVars, handled>>

Transfer == \/ ScanSlot \/ RaiseBusy \/ DropJob \/ KeepJob \/ WaitFence
            \/ FenceTimeout \/ RecordCopy \/ SubmitCopy \/ AwaitCopy \/ LowerBusy

-----------------------------------------------------------------------------
(* The render thread, and the GPU.                                          *)

RenderGoes(from, to, w) ==
    /\ render.pc = from /\ render' = At(to, w)
    /\ UNCHANGED <<ring, busy, suspended, fence, timeline, rebuilds, lua, transfer,
                   gpuVars, handled>>

TakeRebuild(w) ==
    /\ w \in command
    /\ RenderGoes("poll", "wait", w)
    /\ UNCHANGED <<command, wsi_state>>

\* The wait for the transfer thread, given up after a while; then both queues.
IdleQueues ==
    /\ RenderGoes("wait", "idle", render.at)
    /\ ~busy[render.at] \/ Hangs
    /\ UNCHANGED <<command, wsi_state>>

\* Once they are idle the pools are reset.
ResetPools ==
    /\ gpu = <<>>
    /\ RenderGoes("idle", "reset", render.at)
    /\ UNCHANGED <<command, wsi_state>>

\* Only now is the window closed, and the command acknowledged.
CloseWindow ==
    /\ RenderGoes("reset", "ack", render.at)
    /\ wsi_state' = [wsi_state EXCEPT ![render.at] = 0]
    /\ UNCHANGED command

AckRebuild ==
    /\ RenderGoes("ack", "poll", NoWindow)
    /\ command' = command \ {render.at}
    /\ UNCHANGED wsi_state

Render == \/ \E w \in Windows : TakeRebuild(w)
          \/ IdleQueues \/ ResetPools \/ CloseWindow \/ AckRebuild

\* A copy is done.  Vulkan leaves open what a signal below the counter does.
GpuDone ==
    /\ gpu # <<>>
    /\ gpu' = Tail(gpu)
    /\ copied' = copied \cup {Head(gpu).val}
    /\ counter' \in IF Head(gpu).val > counter THEN {Head(gpu).val}
                                               ELSE {counter, Head(gpu).val}
    /\ fence' = [fence EXCEPT ![Head(gpu).win] = "signalled"]
    /\ UNCHANGED <<ring, busy, wsi_state, command, suspended, timeline, rebuilds, lua,
                   transfer, render, handled>>

Next == Lua \/ Transfer \/ Render \/ GpuDone

Spec == Init /\ [][Next]_vars

\* The threads run and the GPU works.
Fairness == WF_vars(Lua) /\ WF_vars(Transfer) /\ WF_vars(Render) /\ WF_vars(GpuDone)
FairSpec == Spec /\ Fairness
-----------------------------------------------------------------------------
\* Types of the ring, the windows and the control states; a window is busy only
\* while the transfer thread has a job.
TypeOK ==
    /\ ring \in [Slots -> [status : 0 .. 2, win : Windows,
                       val : 0 .. MaxJobs]]
    /\ busy \in [Windows -> BOOLEAN]
    /\ transfer.pc \in {"scan", "take"} => \A w \in Windows : ~busy[w]
    /\ wsi_state \in [Windows -> {0, 1}]
    /\ command \subseteq suspended /\ suspended \subseteq Windows
    /\ fence \in [Windows -> {"none", "signalled", "unsignalled"}]
    /\ {timeline, counter} \subseteq 0 .. MaxJobs /\ rebuilds \in 0 .. MaxRebuilds
    /\ lua.pc \in {"run", "request", "fill", "init", "write"}
    /\ lua.pc \in {"init", "write"} => lua.at \in Windows
    /\ lua.pc = "fill" => lua.at \in Slots
    /\ transfer.pc \in {"scan", "take", "check", "wait", "record", "submit", "await",
                        "release", "break"}
    /\ transfer.at \in Slots
    /\ render.pc \in {"poll", "wait", "idle", "reset", "ack"}
    /\ gpu \in Seq([win : Windows, val : 1 .. MaxJobs])
    /\ copied \subseteq 1 .. MaxJobs /\ handled \in Seq(0 .. MaxJobs)

\* A job is run or dropped once, and only a job that was published is
\* (vk_transfer_api.c:14-24 against vk_transfer_loop.c:9-16, 79-80).
JobsAreHandledOnce ==
    /\ IsInjective(handled)
    /\ Range(handled) \subseteq 1 .. timeline

\* The command buffer of a window is not recorded while the GPU executes it,
\* even when an earlier wait for its copy ran out (vk_transfer_loop.c:35, 78).
BufferIdle ==
    transfer.pc \in {"record", "submit"} =>
        \A k \in DOMAIN gpu : gpu[k].win # job.win

\* A job that was published does not stay in the ring: its slot is given back, on
\* every path through the loop (vk_transfer_loop.c:16, 23, 38, 80).
SlotsAreGivenBack == \A i \in Slots : ring[i].status = 2 ~> ring[i].status = 0

\* The transfer thread uses the objects of a window.
Uses(w) == transfer.pc \in {"wait", "record", "submit", "await"} /\ job.win = w

\* vx_stream_init overwrites what the transfer thread reads only when it does not:
\* the wait is there "to prevent corruption" (ring_stream.c:58-72 against
\* vk_transfer_loop.c:13-21).
InitIsAlone == lua.pc = "write" => ~Uses(lua.at)

\* Every job is handled once, on a command buffer that is idle and with objects that
\* vx_stream_init is not replacing.
JobsAreSafe == JobsAreHandledOnce /\ BufferIdle /\ InitIsAlone

\* The render thread resets the transfer pool of a window only when no copy uses
\* it: "The C-core already idled the device safely on the Render Thread!"
\* (renderer.lua:43, of vk_render_loop.c:13-34).
RebuildIsAlone == render.pc = "reset" => ~Uses(render.at)

\* "Job dispatched: ... (Target Timeline: %d)": a job is done when the semaphore
\* has reached its value (memory.lua:126, 135-139).
CompletionMeansCopied == \A v \in 1 .. counter : v \in copied
=============================================================================
