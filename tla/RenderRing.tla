----------------------------- MODULE RenderRing -----------------------------
(***************************************************************************)
(* The render ring of one window: the game (Lua) thread acquires a slot,   *)
(* packs a frame into it and commits it (host/ipc/ring_stream.c, main.lua);*)
(* the render thread takes the frames and submits them to the GPU          *)
(* (render/gpu/vk_render_loop.c).  The threads share atomics only.         *)
(*                                                                         *)
(* The four windows have disjoint slots and flags and share one lock mask  *)
(* that is changed by atomic operations only, so one window stands for     *)
(* all; slots are numbered from 0 within the window.  Every action is at   *)
(* most one access to each shared variable that the other thread writes.   *)
(*                                                                         *)
(* A resize is what process_state_machine makes of it for the ring: ask    *)
(* the render thread to idle the GPU, then initialise the stream.  The     *)
(* command mailbox itself is left out: the request is read and cleared in  *)
(* one step.                                                               *)
(***************************************************************************)
EXTENDS Integers, Sequences, FiniteSets

CONSTANTS
    RingSlots,     \* slots of a window (4)
    FrameSlots,    \* frame_slots: command buffers and fences in rotation
    FrameIds       \* bound: frames are numbered modulo this

ASSUME SlotsAssumption == /\ RingSlots \in Nat \ {0, 1}
                          /\ FrameSlots \in 1 .. RingSlots - 1
                          /\ FrameIds \in Nat /\ FrameIds > RingSlots

VARIABLES
    locked_mask,    \* the locked slots
    ready_idx,      \* slot committed last, or -1
    local_read,     \* slot taken last, or -1
    active_slots,   \* active_ring_slots: the slot each command buffer renders
    packets,        \* the frame each slot holds
    wsi_state,      \* 1 if the window may be rendered to
    render_busy,    \* g_render_busy
    window_resized, \* the window's surface is out of date
    rebuild_cmd,    \* CMD_REBUILD_WSI is in the mailbox
    lua_pc,         \* where the game thread is
    scan,           \* vx_stream_acquire: its loop index i
    write_idx,      \* the slot it packs
    last_frame,     \* the frame it committed last
    suspended,      \* tenant.suspended
    render_pc,      \* where the render thread is
    ready,          \* its local copies of ready_idx and local_read
    local_read_val,
    current_frame,  \* t_frame: the command buffer in use
    fence,          \* in_flight: which fences are signalled
    gpu             \* the slot each command buffer is being executed for

ringVars   == <<locked_mask, ready_idx, local_read, active_slots, packets>>
flagVars   == <<wsi_state, render_busy, window_resized, rebuild_cmd>>
luaVars    == <<lua_pc, scan, write_idx, last_frame, suspended>>
renderVars == <<render_pc, ready, local_read_val, current_frame>>
gpuVars    == <<fence, gpu>>
vars == <<ringVars, flagVars, luaVars, renderVars, gpuVars>>

Slots == 0 .. RingSlots - 1
Frames == 0 .. FrameSlots - 1
NoSlot == -1

\* The slot i places after s; NoSlot is before the first.
SlotAfterUnwrapped(s, i) == s + i           \* mutant: no % 4
SlotAfter(s, i) == (s + i) % RingSlots

\* vx_init_mailbox, then vx_stream_init of a booted window.
Init ==
    /\ locked_mask = {}
    /\ ready_idx = NoSlot
    /\ local_read = NoSlot
    /\ active_slots = [f \in Frames |-> NoSlot]
    /\ packets = [s \in Slots |-> 0]
    /\ wsi_state = 1
    /\ render_busy = FALSE
    /\ window_resized = FALSE
    /\ rebuild_cmd = FALSE
    /\ lua_pc = "frame"
    /\ scan = 1
    /\ write_idx = NoSlot
    /\ last_frame = 0
    /\ suspended = FALSE
    /\ render_pc = "commands"
    /\ ready = NoSlot
    /\ local_read_val = NoSlot
    /\ current_frame = 0
    /\ fence = [f \in Frames |-> TRUE]
    /\ gpu = [f \in Frames |-> NoSlot]

-----------------------------------------------------------------------------
(* The game thread.                                                         *)

\* The resize callback of the window.
Resize == /\ window_resized' = TRUE
          /\ UNCHANGED <<ringVars, wsi_state, render_busy, rebuild_cmd, luaVars,
                         renderVars, gpuVars>>

\* process_state_machine sees a resize: ask for the rebuild, skip the frame.
RequestRebuild ==
    /\ lua_pc = "frame"
    /\ window_resized
    /\ rebuild_cmd' = TRUE
    /\ suspended' = TRUE
    /\ UNCHANGED <<ringVars, wsi_state, render_busy, window_resized, lua_pc, scan,
                   write_idx, last_frame, renderVars, gpuVars>>

\* The rebuild was acknowledged: the swapchain is made anew, vx_stream_init
\* begins and closes the window to the render thread.
BeginInit ==
    /\ lua_pc = "frame"
    /\ suspended
    /\ ~window_resized
    /\ suspended' = FALSE
    /\ wsi_state' = 0
    /\ lua_pc' = "init_wait"
    /\ UNCHANGED <<ringVars, render_busy, window_resized, rebuild_cmd, scan,
                   write_idx, last_frame, renderVars, gpuVars>>

\* vx_stream_init sees the render thread not busy ...
WaitForRenderer ==
    /\ lua_pc = "init_wait"
    /\ ~render_busy
    /\ lua_pc' = "init_reset"
    /\ UNCHANGED <<ringVars, flagVars, scan, write_idx, last_frame, suspended,
                   renderVars, gpuVars>>

\* ... or gives up on it.
AbortInit ==
    /\ lua_pc = "init_wait"
    /\ render_busy
    /\ lua_pc' = "frame"
    /\ UNCHANGED <<ringVars, flagVars, scan, write_idx, last_frame, suspended,
                   renderVars, gpuVars>>

\* The end of vx_stream_init: new fences, an empty ring, an open window.
ResetRing ==
    /\ lua_pc = "init_reset"
    /\ locked_mask' = {}
    /\ ready_idx' = NoSlot
    /\ local_read' = NoSlot
    /\ active_slots' = [f \in Frames |-> NoSlot]
    /\ wsi_state' = 1
    /\ fence' = [f \in Frames |-> TRUE]
    /\ lua_pc' = "frame"
    /\ UNCHANGED <<packets, render_busy, window_resized, rebuild_cmd, scan,
                   write_idx, last_frame, suspended, renderVars, gpu>>

\* vx_stream_acquire begins.
BeginAcquire ==
    /\ lua_pc = "frame"
    /\ ~suspended
    /\ ~window_resized
    /\ scan' = 1
    /\ lua_pc' = "scan"
    /\ UNCHANGED <<ringVars, flagVars, write_idx, last_frame, suspended,
                   renderVars, gpuVars>>

\* One iteration of its loop: lock the slot if it is free, go on if it is not,
\* give the frame up after the last one.
ScanSlot ==
    LET s == SlotAfter(ready_idx, scan)
    IN
    /\ lua_pc = "scan"
    /\ IF s \notin locked_mask
       THEN /\ locked_mask' = locked_mask \cup {s}
            /\ write_idx' = s
            /\ lua_pc' = "pack"
            /\ UNCHANGED scan
       ELSE /\ UNCHANGED <<locked_mask, write_idx>>
            /\ IF scan < RingSlots
               THEN scan' = scan + 1 /\ UNCHANGED lua_pc
               ELSE lua_pc' = "frame" /\ UNCHANGED scan
    /\ UNCHANGED <<ready_idx, local_read, active_slots, packets, flagVars,
                   last_frame, suspended, renderVars, gpuVars>>

\* What the ring holds once the next frame is packed into the locked slot, which is
\* written all the time that lua_pc is "pack".
PackFrame == [packets EXCEPT ![write_idx] = (last_frame + 1) % FrameIds]

\* vx_stream_commit.
Commit ==
    /\ lua_pc = "pack"
    /\ last_frame' = (last_frame + 1) % FrameIds
    /\ packets' = PackFrame
    /\ ready_idx' = write_idx
    /\ write_idx' = NoSlot
    /\ lua_pc' = "frame"
    /\ UNCHANGED <<locked_mask, local_read, active_slots, flagVars, scan,
                   suspended, renderVars, gpuVars>>

Lua == \/ RequestRebuild \/ BeginInit \/ WaitForRenderer \/ AbortInit
       \/ ResetRing \/ BeginAcquire \/ ScanSlot \/ Commit

-----------------------------------------------------------------------------
(* The render thread.                                                       *)

\* The top of its loop: it acknowledges a rebuild once the GPU is idle.
TakeCommands ==
    /\ render_pc = "commands"
    /\ IF rebuild_cmd
       THEN /\ \A f \in Frames : gpu[f] = NoSlot
            /\ wsi_state' = 0
            /\ window_resized' = FALSE
            /\ rebuild_cmd' = FALSE
       ELSE UNCHANGED <<wsi_state, window_resized, rebuild_cmd>>
    /\ render_pc' = "poll"
    /\ UNCHANGED <<ringVars, render_busy, luaVars, ready, local_read_val,
                   current_frame, gpuVars>>

LoadReady ==
    /\ render_pc = "poll"
    /\ ready' = ready_idx
    /\ render_pc' = "load_local"
    /\ UNCHANGED <<ringVars, flagVars, luaVars, local_read_val, current_frame,
                   gpuVars>>

NothingNewByOrder(r, l) == r = NoSlot \/ r <= l     \* mutant: slots as a line
NothingNew(r, l) == r = NoSlot \/ r = l

LoadLocal ==
    /\ render_pc = "load_local"
    /\ local_read_val' = local_read
    /\ render_pc' = IF NothingNew(ready, local_read) THEN "commands" ELSE "advance"
    /\ UNCHANGED <<ringVars, flagVars, luaVars, ready, current_frame, gpuVars>>

TakenSlotLatest(r, l) == r                  \* mutant: the latest frame, not the next
TakenSlot(r, l) == SlotAfter(l, 1)

\* The next slot is taken: always the one after the last, whatever ready is.
Advance ==
    /\ render_pc = "advance"
    /\ local_read' = TakenSlot(ready, local_read_val)
    /\ local_read_val' = TakenSlot(ready, local_read_val)
    /\ render_pc' = "raise_busy"
    /\ UNCHANGED <<locked_mask, ready_idx, active_slots, packets, flagVars,
                   luaVars, ready, current_frame, gpuVars>>

\* From here local_read_val is read_idx.
RaiseBusy ==
    /\ render_pc = "raise_busy"
    /\ render_busy' = TRUE
    /\ render_pc' = "retire"
    /\ UNCHANGED <<ringVars, wsi_state, window_resized, rebuild_cmd, luaVars,
                   ready, local_read_val, current_frame, gpuVars>>

RetiredOwn(f, s) == {s}                     \* mutant: the slot just taken
RetiredIfOpen(f, s) ==                      \* mutant: dropped frames retire none
    IF wsi_state = 0 THEN {} ELSE {active_slots[f]} \ {NoSlot, s}
Retired(f, s) == {active_slots[f]} \ {NoSlot, s}

\* The slot this command buffer rendered before is unlocked.
Retire ==
    /\ render_pc = "retire"
    /\ locked_mask' = locked_mask \ Retired(current_frame, local_read_val)
    /\ active_slots' = [active_slots EXCEPT ![current_frame] = local_read_val]
    /\ render_pc' = "check"
    /\ UNCHANGED <<ready_idx, local_read, packets, flagVars, luaVars, ready,
                   local_read_val, current_frame, gpuVars>>

\* A frame for a closed window is dropped, and so is one without extent.
Check ==
    /\ render_pc = "check"
    /\ render_pc' \in {"frame_done"} \cup (IF wsi_state = 0 THEN {} ELSE {"fence"})
    /\ UNCHANGED <<ringVars, flagVars, luaVars, ready, local_read_val,
                   current_frame, gpuVars>>

AfterTimeoutGoOn == "image"                 \* mutant
AfterTimeout == "frame_done"

\* vkWaitForFences: the GPU is done with this command buffer, or two seconds
\* have passed and the frame is dropped.
WaitForFence ==
    /\ render_pc = "fence"
    /\ render_pc' = IF fence[current_frame] THEN "image" ELSE AfterTimeout
    /\ UNCHANGED <<ringVars, flagVars, luaVars, ready, local_read_val,
                   current_frame, gpuVars>>

FenceBeforeImageReset == [fence EXCEPT ![current_frame] = FALSE]   \* mutant
FenceBeforeImage == fence

\* vkAcquireNextImageKHR: an image, or none in time, or a window out of date.
AcquireImage ==
    /\ render_pc = "image"
    /\ fence' = FenceBeforeImage
    /\ \/ render_pc' = "submit" /\ UNCHANGED window_resized
       \/ render_pc' = "frame_done" /\ UNCHANGED window_resized
       \/ render_pc' = "frame_done" /\ window_resized' = TRUE
    /\ UNCHANGED <<ringVars, wsi_state, render_busy, rebuild_cmd, luaVars, ready,
                   local_read_val, current_frame, gpu>>

\* The fence is reset, the command buffer recorded, submitted and presented.
Submit ==
    /\ render_pc = "submit"
    /\ fence' = [fence EXCEPT ![current_frame] = FALSE]
    /\ gpu' = [gpu EXCEPT ![current_frame] = local_read_val]
    /\ render_pc' = "frame_done"
    /\ UNCHANGED <<ringVars, flagVars, luaVars, ready, local_read_val,
                   current_frame>>

FrameDone ==
    /\ render_pc = "frame_done"
    /\ render_busy' = FALSE
    /\ current_frame' = (current_frame + 1) % FrameSlots
    /\ render_pc' = "commands"
    /\ UNCHANGED <<ringVars, wsi_state, window_resized, rebuild_cmd, luaVars,
                   ready, local_read_val, gpuVars>>

Render == \/ TakeCommands \/ LoadReady \/ LoadLocal \/ Advance \/ RaiseBusy
          \/ Retire \/ Check \/ WaitForFence \/ AcquireImage \/ Submit \/ FrameDone

\* The GPU finishes a command buffer and signals its fence.
Finish(f) == /\ gpu[f] # NoSlot
             /\ gpu' = [gpu EXCEPT ![f] = NoSlot]
             /\ fence' = [fence EXCEPT ![f] = TRUE]
             /\ UNCHANGED <<ringVars, flagVars, luaVars, renderVars>>

-----------------------------------------------------------------------------
Next == Resize \/ Lua \/ Render \/ \E f \in Frames : Finish(f)

Spec == Init /\ [][Next]_vars

\* The render thread sleeps between two passes, with no frame left to take.
Quiet == render_pc = "commands" /\ ready_idx \in {NoSlot, local_read}

\* The executions in which the stream is initialised only at such a moment: a
\* rebuild takes long enough for the render thread to drain the ring, and the
\* last stores of vx_stream_init fall into its sleep.  The code enforces neither.
QuietNext == Next /\ (ResetRing => Quiet)

QuietSpec == Init /\ [][QuietNext]_vars

\* Both threads run, and the GPU works.
FairSpec == /\ QuietSpec
            /\ WF_vars(Render)
            /\ WF_vars(Lua /\ (ResetRing => Quiet))
            /\ \A f \in Frames : WF_vars(Finish(f))
-----------------------------------------------------------------------------
Places == Slots \cup {NoSlot}

\* Types of the shared ring and of both threads' locals; and a fence that is not
\* signalled has work behind it that will signal it: no dropped frame leaves one that
\* is waited for in vain (vk_render_loop.c:86-103).
TypeOK ==
    /\ locked_mask \subseteq Slots
    /\ ready_idx \in Places /\ local_read \in Places
    /\ active_slots \in [Frames -> Places]
    /\ packets \in [Slots -> 0 .. FrameIds - 1]
    /\ wsi_state \in {0, 1} /\ render_busy \in BOOLEAN
    /\ window_resized \in BOOLEAN /\ rebuild_cmd \in BOOLEAN
    /\ lua_pc \in {"frame", "scan", "pack", "init_wait", "init_reset"}
    /\ scan \in 1 .. RingSlots /\ write_idx \in Places
    /\ last_frame \in 0 .. FrameIds - 1 /\ suspended \in BOOLEAN
    /\ render_pc \in {"commands", "poll", "load_local", "advance", "raise_busy",
                      "retire", "check", "fence", "image", "submit", "frame_done"}
    /\ ready \in Places /\ local_read_val \in Places
    /\ current_frame \in Frames
    /\ fence \in [Frames -> BOOLEAN] /\ gpu \in [Frames -> Places]
    /\ \A f \in Frames : ~fence[f] => gpu[f] # NoSlot

\* The number of slots committed and not yet taken.
Waiting == IF ready_idx = NoSlot THEN 0
           ELSE IF local_read = NoSlot THEN ready_idx + 1
           ELSE (ready_idx - local_read) % RingSlots

\* What the ring means: the frames in the slots after the one taken last.
Ring == INSTANCE FrameQueue
           WITH Capacity <- RingSlots,
                last <- last_frame,
                queue <- [i \in 1 .. Waiting |-> packets[SlotAfter(local_read, i)]],
                shown <- IF local_read = NoSlot THEN NoSlot ELSE packets[local_read]

\* The ring is a queue of frames: none is lost, repeated or overwritten, and none
\* overtakes another, however the two threads interleave
\* (ring_stream.c:31-54 against vk_render_loop.c:44-69).
ImplementsFrameQueue == Ring!Spec

\* While the render thread reads a packet, from the moment it takes the slot to
\* the submission, the game thread does not pack that slot.
ReadUndisturbed ==
    /\ render_pc \in {"raise_busy", "retire", "check", "fence", "image", "submit"}
    /\ lua_pc = "pack"
    => write_idx # local_read_val

\* A command buffer is recorded again only after the GPU is done with it,
\* whatever was dropped, timed out or rebuilt before (vk_render_loop.c:76-107).
CommandBufferIdle == render_pc = "submit" => gpu[current_frame] = NoSlot

\* The busy flag keeps vx_stream_init out of a pass of the render thread: "Aborting
\* init to prevent corruption" (ring_stream.c:62-68).
InitExcludesRender ==
    lua_pc = "init_reset" =>
        render_pc \notin {"raise_busy", "retire", "check", "fence", "image", "submit"}

\* Every frame committed is taken, or thrown away by a rebuild.
FramesAreTaken == (Waiting > 0) ~> (Waiting = 0 \/ render_pc = "raise_busy")

\* The game thread finds a free slot again and again unless a resize stops it:
\* frames dropped on the way to the GPU give their slots back too ("lock parity",
\* vk_render_loop.c:81-83).
ProducerIsServed == (lua_pc = "scan") ~> (lua_pc = "pack" \/ suspended)
=============================================================================
