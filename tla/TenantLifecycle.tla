-------------------------- MODULE TenantLifecycle --------------------------
(***************************************************************************)
(* The life of one window (a "tenant"): boot, resize and rebuild, kill,    *)
(* shutdown.  Three threads share its mailbox of atomics: the main thread  *)
(* owns the OS window (host/runtime/main_loop.c), the game (Lua) thread    *)
(* owns the Vulkan objects (tenant_registry.lua, tenant_lifecycle.lua,     *)
(* teardown.lua), the render thread uses them (vk_render_loop.c).  One     *)
(* command slot, glfw_cmd, is written by all three.                        *)
(*                                                                         *)
(* The ring is reduced to whether a frame waits in it (see RenderRing) and *)
(* a frame to whether it uses the GPU.  With one window the registry holds *)
(* it or is empty, and teardown.lua finds it empty: the game loop ends     *)
(* only when the last window is gone.  Transfers are left to TransferRing. *)
(* A step is at most one access to each variable another thread writes.    *)
(***************************************************************************)
EXTENDS Naturals

CONSTANTS
    MaxSize,            \* bound: sizes of the window; 1 is the one it is booted with
    SwapchainMayFail    \* whether Swapchain.Init may return nil

ASSUME LifecycleAssumption == MaxSize \in Nat \ {0} /\ SwapchainMayFail \in BOOLEAN

VARIABLES
    mail,       \* the mailbox; win_size stands for win_w and win_h
    flags,      \* the window's atomics beside it, and whether the ring has a frame
    engine,     \* is_running, lua_finished, g_render_thread_active
    window,     \* main thread: whether the window is open, and should close; history:
                \* the size of its framebuffer when it was created
    tenant,     \* game thread: the tenant and whether the registry holds it
    objects,    \* whether what g_window_wsi refers to exists, and whether the
                \* GPU executes command buffers that use it
    main_pc, lua_pc, render_pc

data == <<mail, flags, engine, window, tenant, objects>>
vars == <<data, main_pc, lua_pc, render_pc>>

\* vx_init_mailbox; the render thread is started before the first window.
Init ==
    /\ mail = [glfw_cmd |-> "IDLE", vk_surface |-> FALSE, last_key |-> "none",
               window_resized |-> FALSE, win_size |-> 1]
    /\ flags = [wsi_state |-> 0, render_busy |-> FALSE, frame_waiting |-> FALSE]
    /\ engine = [is_running |-> TRUE, lua_finished |-> FALSE, render_active |-> TRUE]
    /\ window = [open |-> FALSE, should_close |-> FALSE, boot_size |-> 1]
    /\ tenant = [suspended |-> FALSE, kill_state |-> 0, registered |-> FALSE, size |-> 0]
    /\ objects = [live |-> FALSE, gpu_work |-> FALSE]
    /\ main_pc = "poll" /\ lua_pc = "boot" /\ render_pc = "top"

\* The steps of the three threads between their control points.
MainGoes(from, to) ==
    main_pc = from /\ main_pc' = to /\ UNCHANGED <<lua_pc, render_pc>>
LuaGoes(from, to) ==
    lua_pc = from /\ lua_pc' = to /\ UNCHANGED <<main_pc, render_pc>>
RenderGoes(from, to) ==
    render_pc = from /\ render_pc' = to /\ UNCHANGED <<main_pc, lua_pc>>

-----------------------------------------------------------------------------
(* The main thread.                                                         *)

\* glfwPollEvents: what the user may do to the window.
PressEscape ==
    /\ MainGoes("poll", "poll")
    /\ window.open
    /\ mail' = [mail EXCEPT !.last_key = "ESC"]
    /\ UNCHANGED <<flags, engine, window, tenant, objects>>

CloseWindow ==
    /\ MainGoes("poll", "poll")
    /\ window.open
    /\ window' = [window EXCEPT !.should_close = TRUE]
    /\ UNCHANGED <<mail, flags, engine, tenant, objects>>

Resized == [mail EXCEPT !.win_size = @ + 1]
Flagged == [mail EXCEPT !.window_resized = TRUE]

FlagThenSize == <<Flagged, Resized>>        \* mutant
SizeThenFlag == <<Resized, Flagged>>

\* The framebuffer callback, in two stores.
Resize ==
    /\ MainGoes("poll", "resize")
    /\ window.open /\ mail.win_size < MaxSize
    /\ mail' = SizeThenFlag[1]
    /\ UNCHANGED <<flags, engine, window, tenant, objects>>

FlagResize ==
    /\ MainGoes("resize", "poll")
    /\ mail' = SizeThenFlag[2]
    /\ UNCHANGED <<flags, engine, window, tenant, objects>>

ReadCommand ==
    /\ MainGoes("poll", CASE mail.glfw_cmd = "BOOT" /\ ~window.open -> "boot"
                          [] mail.glfw_cmd = "KILL" /\ window.open  -> "kill"
                          [] OTHER                                  -> "close")
    /\ UNCHANGED data

\* The window is created, its size stored, which need not be the one asked for, and, with
\* luck, its surface.
BootWindow ==
    /\ MainGoes("boot", "idle")
    /\ \E made \in BOOLEAN, size \in 1 .. MaxSize :
          /\ window' = [window EXCEPT !.open = TRUE, !.boot_size = size]
          /\ mail' = [mail EXCEPT !.win_size = size, !.vk_surface = made]
    /\ UNCHANGED <<flags, engine, tenant, objects>>

CloseToRenderer ==
    /\ MainGoes("kill", "destroy")
    /\ flags' = [flags EXCEPT !.wsi_state = 0]
    /\ UNCHANGED <<mail, engine, window, tenant, objects>>

\* The wait for the busy flags ends when they fall, or after a while.
DestroyWindow ==
    /\ MainGoes("destroy", "idle")
    /\ window' = [window EXCEPT !.open = FALSE]
    /\ mail' = [mail EXCEPT !.vk_surface = FALSE]
    /\ UNCHANGED <<flags, engine, tenant, objects>>

\* The trailing CMD_IDLE of both commands.
StoreIdle ==
    /\ MainGoes("idle", "close")
    /\ mail' = [mail EXCEPT !.glfw_cmd = "IDLE"]
    /\ UNCHANGED <<flags, engine, window, tenant, objects>>

\* A window that should close sends ESC in every round.
CloseToEscape ==
    /\ MainGoes("close", IF engine.is_running THEN "poll" ELSE "await_lua")
    /\ mail' = IF window.open /\ window.should_close
               THEN [mail EXCEPT !.last_key = "ESC"] ELSE mail
    /\ UNCHANGED <<flags, engine, window, tenant, objects>>

\* The end of main: the game thread has finished and is joined.
Exit ==
    /\ MainGoes("await_lua", "exited")
    /\ engine.lua_finished /\ lua_pc = "done"
    /\ window' = [window EXCEPT !.open = FALSE]
    /\ UNCHANGED <<mail, flags, engine, tenant, objects>>

User == PressEscape \/ CloseWindow \/ Resize
Main == \/ FlagResize \/ ReadCommand \/ BootWindow \/ CloseToRenderer
        \/ DestroyWindow \/ StoreIdle \/ CloseToEscape \/ Exit

-----------------------------------------------------------------------------
(* The game thread.                                                         *)

\* boot_tenant: ask for the window ...
BootTenant ==
    /\ LuaGoes("boot", "surface")
    /\ mail' = [mail EXCEPT !.glfw_cmd = "BOOT"]
    /\ UNCHANGED <<flags, engine, window, tenant, objects>>

\* ... and spin on its surface.
SurfaceReady ==
    /\ LuaGoes("surface", "build")
    /\ mail.vk_surface
    /\ tenant' = [tenant EXCEPT !.size = 1]
    /\ UNCHANGED <<mail, flags, engine, window, objects>>

EscCommandKill == "KILL"                    \* mutant
EscCommand == "REBUILD"

\* A round of process_state_machine takes the last key.  ESC asks the render
\* thread to idle the GPU, and begins the kill.
TakeEscape ==
    /\ LuaGoes("frame", "f5")
    /\ IF mail.last_key = "ESC" /\ tenant.kill_state = 0
       THEN /\ mail' = [mail EXCEPT !.last_key = "none", !.glfw_cmd = EscCommand]
            /\ tenant' = [tenant EXCEPT !.suspended = TRUE, !.kill_state = 1]
       ELSE /\ mail' = [mail EXCEPT !.last_key = "none"]
            /\ UNCHANGED tenant
    /\ UNCHANGED <<flags, engine, window, objects>>

\* The test for F5 takes the last key again, whatever it is.
TakeF5 ==
    /\ LuaGoes("f5", CASE tenant.kill_state = 0 -> "resized"
                       [] tenant.kill_state = 1 -> "busy"
                       [] OTHER                 -> "gone")
    /\ mail' = [mail EXCEPT !.last_key = "none"]
    /\ UNCHANGED <<flags, engine, window, tenant, objects>>

\* The last phase of a kill waits for the main thread to take the surface back.
CheckGone ==
    /\ LuaGoes("gone", IF mail.vk_surface THEN "frame" ELSE "busy")
    /\ UNCHANGED data

\* vx_sys_is_tenant_idle: the busy flag first, then the command.
CheckBusy ==
    /\ LuaGoes("busy", IF flags.render_busy THEN "frame" ELSE "command")
    /\ UNCHANGED data

CommandIsAny(c) == TRUE                     \* mutant: only the busy flag
CommandIsIdle(c) == c = "IDLE"

CheckCommand ==
    /\ LuaGoes("command", IF ~CommandIsIdle(mail.glfw_cmd) THEN "frame"
                          ELSE IF tenant.kill_state = 1 THEN "purge" ELSE "last")
    /\ UNCHANGED data

\* The idle tenant's objects are destroyed, its surface too; then the window.
Purge ==
    /\ LuaGoes("purge", "frame")
    /\ objects' = [objects EXCEPT !.live = FALSE]
    /\ mail' = [mail EXCEPT !.glfw_cmd = "KILL"]
    /\ tenant' = [tenant EXCEPT !.kill_state = 2]
    /\ UNCHANGED <<flags, engine, window>>

\* The window is gone: no tenant is left, shut down, leave the loop.
LastTenantGone ==
    /\ LuaGoes("last", "teardown")
    /\ tenant' = [tenant EXCEPT !.registered = FALSE]
    /\ engine' = [engine EXCEPT !.is_running = FALSE]
    /\ UNCHANGED <<mail, flags, window, objects>>

CheckResize ==
    /\ LuaGoes("resized", IF mail.window_resized THEN "trigger"
                          ELSE IF tenant.suspended THEN "size" ELSE "draw")
    /\ UNCHANGED data

\* trigger_wsi_rebuild, once or while the flag stays up.
TriggerRebuild ==
    /\ LuaGoes("trigger", "frame")
    /\ mail' = [mail EXCEPT !.glfw_cmd = "REBUILD"]
    /\ tenant' = [tenant EXCEPT !.suspended = TRUE]
    /\ UNCHANGED <<flags, engine, window, objects>>

\* The flag has fallen: take the size, destroy the objects of the old one.
BeginRebuild ==
    /\ LuaGoes("size", "build")
    /\ tenant' = [tenant EXCEPT !.size = mail.win_size, !.suspended = FALSE]
    /\ objects' = [objects EXCEPT !.live = FALSE]
    /\ UNCHANGED <<mail, flags, engine, window>>

\* Swapchain.Init, then the objects for it and vx_stream_init, which closes the
\* window to the render thread.
BuildSwapchain ==
    /\ LuaGoes("build", "init")
    /\ flags' = [flags EXCEPT !.wsi_state = 0]
    /\ UNCHANGED <<mail, engine, window, tenant, objects>>

\* Without a swapchain the next line indexes nil: the error ends the VM, the
\* engine is told to stop, and nobody calls mark_finished.
SwapchainFails ==
    /\ LuaGoes("build", "dead")
    /\ SwapchainMayFail
    /\ engine' = [engine EXCEPT !.is_running = FALSE]
    /\ UNCHANGED <<mail, flags, window, tenant, objects>>

\* vx_stream_init sees the render thread not busy ...
RendererIsOut ==
    /\ LuaGoes("init", "open")
    /\ ~flags.render_busy
    /\ UNCHANGED data

\* ... or gives up on it, and the window remains closed.
AbortInit ==
    /\ LuaGoes("init", "frame")
    /\ flags.render_busy
    /\ UNCHANGED data

OpenWindow ==
    /\ LuaGoes("open", "frame")
    /\ objects' = [objects EXCEPT !.live = TRUE]
    /\ flags' = [flags EXCEPT !.frame_waiting = FALSE, !.wsi_state = 1]
    /\ tenant' = [tenant EXCEPT !.registered = TRUE]
    /\ UNCHANGED <<mail, engine, window>>

MakeFrame ==
    /\ LuaGoes("draw", "frame")
    /\ flags' = [flags EXCEPT !.frame_waiting = TRUE]
    /\ UNCHANGED <<mail, engine, window, tenant, objects>>

\* execute_phase_gate: kill_thread stops the render thread ...
KillThread ==
    /\ LuaGoes("teardown", "join")
    /\ engine' = [engine EXCEPT !.render_active = FALSE]
    /\ UNCHANGED <<mail, flags, window, tenant, objects>>

\* ... joins it, idles the device and destroys the pools.
JoinThread ==
    /\ LuaGoes("join", "finish")
    /\ render_pc = "exited" /\ ~objects.gpu_work
    /\ UNCHANGED data

MarkForgotten == FALSE                      \* mutant
Mark == TRUE

MarkFinished ==
    /\ LuaGoes("finish", "done")
    /\ engine' = [engine EXCEPT !.lua_finished = Mark]
    /\ UNCHANGED <<mail, flags, window, tenant, objects>>

Lua == \/ BootTenant \/ SurfaceReady \/ TakeEscape \/ TakeF5 \/ CheckGone
       \/ CheckBusy \/ CheckCommand \/ Purge \/ LastTenantGone \/ CheckResize
       \/ TriggerRebuild \/ BeginRebuild \/ BuildSwapchain \/ SwapchainFails
       \/ RendererIsOut \/ AbortInit \/ OpenWindow \/ MakeFrame \/ KillThread
       \/ JoinThread \/ MarkFinished

-----------------------------------------------------------------------------
(* The render thread.                                                       *)

TakeCommand ==
    /\ RenderGoes("top", IF ~(engine.render_active /\ engine.is_running) THEN "exited"
                         ELSE IF mail.glfw_cmd = "REBUILD" THEN "wait_idle" ELSE "poll")
    /\ UNCHANGED data

\* The acknowledgement of a rebuild, in three stores once the queue is idle.
IdleQueue ==
    /\ RenderGoes("wait_idle", "ack_resize")
    /\ ~objects.gpu_work
    /\ flags' = [flags EXCEPT !.wsi_state = 0]
    /\ UNCHANGED <<mail, engine, window, tenant, objects>>

ResizedKept == mail.window_resized          \* mutant: the flag stays up
ResizedAfterAck == FALSE

AckResize ==
    /\ RenderGoes("ack_resize", "ack_command")
    /\ mail' = [mail EXCEPT !.window_resized = ResizedAfterAck]
    /\ UNCHANGED <<flags, engine, window, tenant, objects>>

CommandKept == mail.glfw_cmd                \* mutant: the command stays
CommandAfterAck == "IDLE"

AckCommand ==
    /\ RenderGoes("ack_command", "poll")
    /\ mail' = [mail EXCEPT !.glfw_cmd = CommandAfterAck]
    /\ UNCHANGED <<flags, engine, window, tenant, objects>>

TakeFrame ==
    /\ RenderGoes("poll", IF flags.frame_waiting THEN "busy" ELSE "top")
    /\ flags' = [flags EXCEPT !.frame_waiting = FALSE]
    /\ UNCHANGED <<mail, engine, window, tenant, objects>>

RaiseBusy ==
    /\ RenderGoes("busy", "check")
    /\ flags' = [flags EXCEPT !.render_busy = TRUE]
    /\ UNCHANGED <<mail, engine, window, tenant, objects>>

CheckWindow ==
    /\ RenderGoes("check", IF flags.wsi_state = 0 THEN "done" ELSE "draw")
    /\ UNCHANGED data

\* Acquire, record, submit and present; or no image; or a window out of date.
Draw ==
    /\ RenderGoes("draw", "done")
    /\ \/ objects' = [objects EXCEPT !.gpu_work = TRUE] /\ UNCHANGED mail
       \/ UNCHANGED <<objects, mail>>
       \/ mail' = [mail EXCEPT !.window_resized = TRUE] /\ UNCHANGED objects
    /\ UNCHANGED <<flags, engine, window, tenant>>

FrameDone ==
    /\ RenderGoes("done", "top")
    /\ flags' = [flags EXCEPT !.render_busy = FALSE]
    /\ UNCHANGED <<mail, engine, window, tenant, objects>>

Render == \/ TakeCommand \/ IdleQueue \/ AckResize \/ AckCommand \/ TakeFrame
          \/ RaiseBusy \/ CheckWindow \/ Draw \/ FrameDone

GpuDone ==
    /\ objects.gpu_work
    /\ objects' = [objects EXCEPT !.gpu_work = FALSE]
    /\ UNCHANGED <<mail, flags, engine, window, tenant, main_pc, lua_pc, render_pc>>

-----------------------------------------------------------------------------
Next == User \/ Main \/ Lua \/ Render \/ GpuDone

Spec == Init /\ [][Next]_vars

\* The game thread takes no step between the stores of an acknowledgement: the render
\* thread is not stopped there.
Prompt == Lua => render_pc \notin {"ack_resize", "ack_command"}

\* The threads run, the GPU works, and the main thread, which stores once in a
\* millisecond, does not for ever do so in the moment between TakeEscape and TakeF5.
Fairness == /\ WF_vars(Main) /\ WF_vars(GpuDone) /\ WF_vars(Render)
            /\ SF_vars(Lua /\ Prompt)
            /\ SF_vars(ReadCommand /\ lua_pc # "f5")
            /\ SF_vars(CloseToEscape /\ lua_pc # "f5")
-----------------------------------------------------------------------------
\* Types of the mailbox, the flags and the control states; the command to kill a
\* window is in the slot only after the game thread purged its objects.
TypeOK ==
    /\ mail \in [glfw_cmd : {"IDLE", "BOOT", "KILL", "REBUILD"}, vk_surface : BOOLEAN,
                 last_key : {"none", "ESC"}, window_resized : BOOLEAN,
                 win_size : 1 .. MaxSize]
    /\ mail.glfw_cmd = "KILL" => tenant.kill_state = 2
    /\ flags \in [wsi_state : {0, 1}, render_busy : BOOLEAN, frame_waiting : BOOLEAN]
    /\ engine \in [is_running : BOOLEAN, lua_finished : BOOLEAN, render_active : BOOLEAN]
    /\ window \in [open : BOOLEAN, should_close : BOOLEAN, boot_size : 1 .. MaxSize]
    /\ tenant \in [suspended : BOOLEAN, kill_state : 0 .. 2, registered : BOOLEAN,
                   size : 0 .. MaxSize]
    /\ objects \in [live : BOOLEAN, gpu_work : BOOLEAN]
    /\ main_pc \in {"poll", "resize", "boot", "kill", "destroy", "idle", "close",
                    "await_lua", "exited"}
    /\ lua_pc \in {"boot", "surface", "frame", "f5", "gone", "busy", "command",
                   "purge", "last", "resized", "trigger", "size", "build", "init",
                   "open", "draw", "teardown", "join", "finish", "done", "dead"}
    /\ render_pc \in {"top", "wait_idle", "ack_resize", "ack_command", "poll", "busy",
                      "check", "draw", "done", "exited"}

\* The game thread destroys the objects of a window only when neither the render
\* thread nor the GPU uses them: "The C-core already idled the device safely on
\* the Render Thread!" (renderer.lua:43, relied on in tenant_lifecycle.lua:28-30
\* and 66-67).
NothingUsedIsDestroyed == render_pc = "draw" \/ objects.gpu_work => objects.live

\* The window outlives the surface and the swapchain made for it
\* (main_loop.c:67 against tenant_lifecycle.lua:32-40).
WindowOutlivesSurface == objects.live => window.open

\* Refuted: a tenant that is not suspended has the size of its window, or the flag is
\* up, or the callback is about to raise it.  A window may be created with another size
\* than the one asked for (main_loop.c:42-45), and nobody tells the game thread.
TenantKnowsItsSize ==
    lua_pc = "frame" /\ ~tenant.suspended =>
        tenant.size = mail.win_size \/ mail.window_resized \/ main_pc = "resize"

NeverResized == mail.win_size = window.boot_size

\* No resize is forgotten, whichever of its two stores an acknowledgement overtakes:
\* a tenant whose window was resized knows its size, or will
\* (tenant_callbacks_key.c:85-87 against vk_render_loop.c:34-36).
NoResizeForgotten == NeverResized \/ TenantKnowsItsSize

\* Once the last window is killed all threads end and main returns
\* (main_loop.c:79-90, teardown.lua, thread_lifecycle.c:15-20).
ShutdownCompletes == ~engine.is_running ~> main_pc = "exited"

\* Clicking the close button of a window in use closes it, whatever else is under
\* way: the key it stands for is stored again until it is taken
\* (main_loop.c:72-74 against tenant_lifecycle.lua:11-20, where the test for F5
\* takes, and loses, any other key).
CloseIsHeeded == window.should_close /\ tenant.registered ~> ~window.open

\* A tenant suspended for a rebuild is rebuilt, unless it is killed: the flag, raised
\* again and again, falls in the end (tenant_lifecycle.lua:58-77).
RebuildEnds ==
    tenant.suspended ~> ~tenant.suspended \/ tenant.kill_state # 0 \/ lua_pc = "dead"

\* "The WSI rebuilder handles it now!" (sequence.lua:73, of a resize): a window
\* comes back, open and of its new size, unless it is killed or never booted.
ResizeIsHandled ==
    []<>(\/ tenant.kill_state # 0 \/ ~tenant.registered \/ lua_pc = "dead"
         \/ /\ objects.live /\ flags.wsi_state = 1
            /\ tenant.size = mail.win_size \/ NeverResized)

\* A swapchain that cannot be made at the moment does not end the game:
\* "Surface volatile. Retrying next frame..." (swapchain.lua:51).
VolatileSurfaceSurvives == lua_pc # "dead"
=============================================================================
