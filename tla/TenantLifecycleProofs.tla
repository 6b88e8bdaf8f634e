------------------------- MODULE TenantLifecycleProofs -------------------------
(***************************************************************************)
(* The life of a window.  TypesHold and WindowIsLast are of every          *)
(* interleaving of the three threads, with no schedule assumed;            *)
(* PromptLosesNothing and OrderlyLosesNothing are of those in which the    *)
(* render thread is not stopped inside an acknowledgement (Prompt).  None  *)
(* assumes how often the user resizes the window, which size it is created *)
(* with, or that a swapchain can be made.                                  *)
(***************************************************************************)
EXTENDS MCLifecycle, TLAPS

Commands == {"IDLE", "BOOT", "KILL", "REBUILD"}
Mailboxes == [glfw_cmd : Commands, vk_surface : BOOLEAN, last_key : {"none", "ESC"},
              window_resized : BOOLEAN, win_size : 1 .. MaxSize]
Flags == [wsi_state : {0, 1}, render_busy : BOOLEAN, frame_waiting : BOOLEAN]
Engines == [is_running : BOOLEAN, lua_finished : BOOLEAN, render_active : BOOLEAN]
OsWindows == [open : BOOLEAN, should_close : BOOLEAN, boot_size : 1 .. MaxSize]
Tenants == [suspended : BOOLEAN, kill_state : 0 .. 2, registered : BOOLEAN,
            size : 0 .. MaxSize]
GpuObjects == [live : BOOLEAN, gpu_work : BOOLEAN]

DataType == /\ mail \in Mailboxes /\ flags \in Flags /\ engine \in Engines
            /\ window \in OsWindows /\ tenant \in Tenants /\ objects \in GpuObjects

ControlType ==
    /\ main_pc \in {"poll", "resize", "boot", "kill", "destroy", "idle", "close",
                    "await_lua", "exited"}
    /\ lua_pc \in {"boot", "surface", "frame", "f5", "gone", "busy", "command",
                   "purge", "last", "resized", "trigger", "size", "build", "init",
                   "open", "draw", "teardown", "join", "finish", "done", "dead"}
    /\ render_pc \in {"top", "wait_idle", "ack_resize", "ack_command", "poll", "busy",
                      "check", "draw", "done", "exited"}

-----------------------------------------------------------------------------
(* A store keeps the type of the record.                                    *)

LEMMA StoreMailboxes ==
    ASSUME NEW r \in Mailboxes
    PROVE  /\ \A v \in Commands : [r EXCEPT !.glfw_cmd = v] \in Mailboxes
           /\ \A v \in BOOLEAN : [r EXCEPT !.vk_surface = v] \in Mailboxes
           /\ \A v \in {"none", "ESC"} : [r EXCEPT !.last_key = v] \in Mailboxes
           /\ \A v \in BOOLEAN : [r EXCEPT !.window_resized = v] \in Mailboxes
           /\ \A v \in 1 .. MaxSize : [r EXCEPT !.win_size = v] \in Mailboxes
<1>1. \A v \in Commands : [r EXCEPT !.glfw_cmd = v] \in Mailboxes
  BY DEF Mailboxes
<1>2. \A v \in BOOLEAN : [r EXCEPT !.vk_surface = v] \in Mailboxes
  BY DEF Mailboxes
<1>3. \A v \in {"none", "ESC"} : [r EXCEPT !.last_key = v] \in Mailboxes
  BY DEF Mailboxes
<1>4. \A v \in BOOLEAN : [r EXCEPT !.window_resized = v] \in Mailboxes
  BY DEF Mailboxes
<1>5. \A v \in 1 .. MaxSize : [r EXCEPT !.win_size = v] \in Mailboxes
  BY DEF Mailboxes
<1>6. QED
  BY <1>1, <1>2, <1>3, <1>4, <1>5

LEMMA StoreFlags ==
    ASSUME NEW r \in Flags
    PROVE  /\ \A v \in {0, 1} : [r EXCEPT !.wsi_state = v] \in Flags
           /\ \A v \in BOOLEAN : [r EXCEPT !.render_busy = v] \in Flags
           /\ \A v \in BOOLEAN : [r EXCEPT !.frame_waiting = v] \in Flags
<1>1. \A v \in {0, 1} : [r EXCEPT !.wsi_state = v] \in Flags
  BY DEF Flags
<1>2. \A v \in BOOLEAN : [r EXCEPT !.render_busy = v] \in Flags
  BY DEF Flags
<1>3. \A v \in BOOLEAN : [r EXCEPT !.frame_waiting = v] \in Flags
  BY DEF Flags
<1>4. QED
  BY <1>1, <1>2, <1>3

LEMMA StoreEngines ==
    ASSUME NEW r \in Engines
    PROVE  /\ \A v \in BOOLEAN : [r EXCEPT !.is_running = v] \in Engines
           /\ \A v \in BOOLEAN : [r EXCEPT !.lua_finished = v] \in Engines
           /\ \A v \in BOOLEAN : [r EXCEPT !.render_active = v] \in Engines
<1>1. \A v \in BOOLEAN : [r EXCEPT !.is_running = v] \in Engines
  BY DEF Engines
<1>2. \A v \in BOOLEAN : [r EXCEPT !.lua_finished = v] \in Engines
  BY DEF Engines
<1>3. \A v \in BOOLEAN : [r EXCEPT !.render_active = v] \in Engines
  BY DEF Engines
<1>4. QED
  BY <1>1, <1>2, <1>3

LEMMA StoreOsWindows ==
    ASSUME NEW r \in OsWindows
    PROVE  /\ \A v \in BOOLEAN : [r EXCEPT !.open = v] \in OsWindows
           /\ \A v \in BOOLEAN : [r EXCEPT !.should_close = v] \in OsWindows
           /\ \A v \in 1 .. MaxSize : [r EXCEPT !.boot_size = v] \in OsWindows
<1>1. \A v \in BOOLEAN : [r EXCEPT !.open = v] \in OsWindows
  BY DEF OsWindows
<1>2. \A v \in BOOLEAN : [r EXCEPT !.should_close = v] \in OsWindows
  BY DEF OsWindows
<1>3. \A v \in 1 .. MaxSize : [r EXCEPT !.boot_size = v] \in OsWindows
  BY DEF OsWindows
<1>4. QED
  BY <1>1, <1>2, <1>3

LEMMA StoreTenants ==
    ASSUME NEW r \in Tenants
    PROVE  /\ \A v \in BOOLEAN : [r EXCEPT !.suspended = v] \in Tenants
           /\ \A v \in 0 .. 2 : [r EXCEPT !.kill_state = v] \in Tenants
           /\ \A v \in BOOLEAN : [r EXCEPT !.registered = v] \in Tenants
           /\ \A v \in 0 .. MaxSize : [r EXCEPT !.size = v] \in Tenants
<1>1. \A v \in BOOLEAN : [r EXCEPT !.suspended = v] \in Tenants
  BY DEF Tenants
<1>2. \A v \in 0 .. 2 : [r EXCEPT !.kill_state = v] \in Tenants
  BY DEF Tenants
<1>3. \A v \in BOOLEAN : [r EXCEPT !.registered = v] \in Tenants
  BY DEF Tenants
<1>4. \A v \in 0 .. MaxSize : [r EXCEPT !.size = v] \in Tenants
  BY DEF Tenants
<1>5. QED
  BY <1>1, <1>2, <1>3, <1>4

LEMMA StoreGpuObjects ==
    ASSUME NEW r \in GpuObjects
    PROVE  /\ \A v \in BOOLEAN : [r EXCEPT !.live = v] \in GpuObjects
           /\ \A v \in BOOLEAN : [r EXCEPT !.gpu_work = v] \in GpuObjects
<1>1. \A v \in BOOLEAN : [r EXCEPT !.live = v] \in GpuObjects
  BY DEF GpuObjects
<1>2. \A v \in BOOLEAN : [r EXCEPT !.gpu_work = v] \in GpuObjects
  BY DEF GpuObjects
<1>3. QED
  BY <1>1, <1>2

-----------------------------------------------------------------------------
(* Types.                                                                   *)

LEMMA DataInit == Init => DataType
  BY LifecycleAssumption
     DEF Init, DataType, Mailboxes, Commands, Flags, Engines, OsWindows, Tenants,
         GpuObjects

\* The main thread, and the user.
LEMMA DataMain == ASSUME DataType, User \/ Main PROVE DataType'
<1> USE DEF DataType, MainGoes
<1>1. CASE PressEscape
  BY <1>1, StoreMailboxes DEF PressEscape
<1>2. CASE CloseWindow
  BY <1>2, StoreOsWindows DEF CloseWindow
<1>3. CASE Resize
  <2>1. mail.win_size + 1 \in 1 .. MaxSize
    BY <1>3, LifecycleAssumption DEF Resize, Mailboxes
  <2>2. mail' = [mail EXCEPT !.win_size = mail.win_size + 1]
    BY <1>3 DEF Resize, SizeThenFlag, Resized
  <2>3. QED
    BY <1>3, <2>1, <2>2, StoreMailboxes DEF Resize
<1>4. CASE FlagResize
  <2>1. mail' = [mail EXCEPT !.window_resized = TRUE]
    BY <1>4 DEF FlagResize, SizeThenFlag, Flagged
  <2>2. QED
    BY <1>4, <2>1, StoreMailboxes DEF FlagResize
<1>5. CASE ReadCommand
  BY <1>5 DEF ReadCommand, data
<1>6. CASE BootWindow
  <2>1. PICK made \in BOOLEAN, size \in 1 .. MaxSize :
          /\ window' = [[window EXCEPT !.open = TRUE] EXCEPT !.boot_size = size]
          /\ mail' = [[mail EXCEPT !.win_size = size] EXCEPT !.vk_surface = made]
    BY <1>6 DEF BootWindow
  <2>2. window' \in OsWindows
    BY <2>1, StoreOsWindows
  <2>3. mail' \in Mailboxes
    BY <2>1, StoreMailboxes
  <2>4. QED
    BY <1>6, <2>2, <2>3 DEF BootWindow
<1>7. CASE CloseToRenderer
  BY <1>7, StoreFlags DEF CloseToRenderer
<1>8. CASE DestroyWindow
  BY <1>8, StoreMailboxes, StoreOsWindows DEF DestroyWindow
<1>9. CASE StoreIdle
  BY <1>9, StoreMailboxes DEF StoreIdle, Commands
<1>10. CASE CloseToEscape
  BY <1>10, StoreMailboxes DEF CloseToEscape
<1>11. CASE Exit
  BY <1>11, StoreOsWindows DEF Exit
<1>12. QED
  BY <1>1, <1>2, <1>3, <1>4, <1>5, <1>6, <1>7, <1>8, <1>9, <1>10, <1>11 DEF User, Main

\* The game thread.
LEMMA DataLua == ASSUME DataType, Lua PROVE DataType'
<1> USE DEF DataType, LuaGoes
<1>1. CASE BootTenant
  BY <1>1, StoreMailboxes DEF BootTenant, Commands
<1>2. CASE SurfaceReady
  <2>1. 1 \in 0 .. MaxSize
    BY LifecycleAssumption
  <2>2. QED
    BY <1>2, <2>1, StoreTenants DEF SurfaceReady
<1>3. CASE TakeEscape
  <2>1. CASE mail.last_key = "ESC" /\ tenant.kill_state = 0
    <3>1. mail' = [[mail EXCEPT !.last_key = "none"] EXCEPT !.glfw_cmd = "REBUILD"]
      BY <1>3, <2>1 DEF TakeEscape, EscCommand
    <3>2. mail' \in Mailboxes
      BY <3>1, StoreMailboxes DEF Commands
    <3>3. tenant' = [[tenant EXCEPT !.suspended = TRUE] EXCEPT !.kill_state = 1]
      BY <1>3, <2>1 DEF TakeEscape
    <3>4. 1 \in 0 .. 2
      OBVIOUS
    <3>5. tenant' \in Tenants
      BY <3>3, <3>4, StoreTenants
    <3>6. QED
      BY <1>3, <3>2, <3>5 DEF TakeEscape
  <2>2. CASE ~(mail.last_key = "ESC" /\ tenant.kill_state = 0)
    BY <1>3, <2>2, StoreMailboxes DEF TakeEscape
  <2>3. QED
    BY <2>1, <2>2
<1>4. CASE TakeF5
  BY <1>4, StoreMailboxes DEF TakeF5
<1>5. CASE CheckGone \/ CheckBusy \/ CheckCommand \/ CheckResize \/ RendererIsOut
           \/ AbortInit \/ JoinThread
  BY <1>5 DEF CheckGone, CheckBusy, CheckCommand, CheckResize, RendererIsOut,
              AbortInit, JoinThread, data
<1>6. CASE Purge
  <2>1. 2 \in 0 .. 2
    OBVIOUS
  <2>2. QED
    BY <1>6, <2>1, StoreMailboxes, StoreTenants, StoreGpuObjects DEF Purge, Commands
<1>7. CASE LastTenantGone
  BY <1>7, StoreTenants, StoreEngines DEF LastTenantGone
<1>8. CASE TriggerRebuild
  BY <1>8, StoreMailboxes, StoreTenants DEF TriggerRebuild, Commands
<1>9. CASE BeginRebuild
  <2>1. mail.win_size \in 0 .. MaxSize
    BY DEF Mailboxes
  <2>2. tenant' = [[tenant EXCEPT !.size = mail.win_size] EXCEPT !.suspended = FALSE]
    BY <1>9 DEF BeginRebuild
  <2>3. tenant' \in Tenants
    BY <2>1, <2>2, StoreTenants
  <2>4. QED
    BY <1>9, <2>3, StoreGpuObjects DEF BeginRebuild
<1>10. CASE BuildSwapchain
  BY <1>10, StoreFlags DEF BuildSwapchain
<1>11. CASE SwapchainFails
  BY <1>11, StoreEngines DEF SwapchainFails
<1>12. CASE OpenWindow
  <2>1. flags' = [[flags EXCEPT !.frame_waiting = FALSE] EXCEPT !.wsi_state = 1]
    BY <1>12 DEF OpenWindow
  <2>2. flags' \in Flags
    BY <2>1, StoreFlags
  <2>3. QED
    BY <1>12, <2>2, StoreTenants, StoreGpuObjects DEF OpenWindow
<1>13. CASE MakeFrame
  BY <1>13, StoreFlags DEF MakeFrame
<1>14. CASE KillThread
  BY <1>14, StoreEngines DEF KillThread
<1>15. CASE MarkFinished
  BY <1>15, StoreEngines DEF MarkFinished, Mark
<1>16. QED
  BY <1>1, <1>2, <1>3, <1>4, <1>5, <1>6, <1>7, <1>8, <1>9, <1>10, <1>11, <1>12,
     <1>13, <1>14, <1>15 DEF Lua

\* The render thread and the GPU.
LEMMA DataRender == ASSUME DataType, Render \/ GpuDone PROVE DataType'
<1> USE DEF DataType, RenderGoes
<1>1. CASE TakeCommand \/ CheckWindow
  BY <1>1 DEF TakeCommand, CheckWindow, data
<1>2. CASE IdleQueue
  BY <1>2, StoreFlags DEF IdleQueue
<1>3. CASE AckResize
  BY <1>3, StoreMailboxes DEF AckResize, ResizedAfterAck
<1>4. CASE AckCommand
  BY <1>4, StoreMailboxes DEF AckCommand, CommandAfterAck, Commands
<1>5. CASE TakeFrame
  BY <1>5, StoreFlags DEF TakeFrame
<1>6. CASE RaiseBusy
  BY <1>6, StoreFlags DEF RaiseBusy
<1>7. CASE Draw
  BY <1>7, StoreMailboxes, StoreGpuObjects DEF Draw
<1>8. CASE FrameDone
  BY <1>8, StoreFlags DEF FrameDone
<1>9. CASE GpuDone
  BY <1>9, StoreGpuObjects DEF GpuDone
<1>10. QED
  BY <1>1, <1>2, <1>3, <1>4, <1>5, <1>6, <1>7, <1>8, <1>9 DEF Render

LEMMA ControlStep == ASSUME ControlType, Next PROVE ControlType'
<1>1. CASE User \/ Main
  BY <1>1 DEF ControlType, MainGoes, User, PressEscape, CloseWindow, Resize, Main,
     FlagResize, ReadCommand, BootWindow, CloseToRenderer, DestroyWindow, StoreIdle,
     CloseToEscape, Exit
<1>2. CASE Lua
  BY <1>2 DEF ControlType, LuaGoes, Lua, BootTenant, SurfaceReady, TakeEscape, TakeF5,
     CheckGone, CheckBusy, CheckCommand, Purge, LastTenantGone, CheckResize,
     TriggerRebuild, BeginRebuild, BuildSwapchain, SwapchainFails, RendererIsOut,
     AbortInit, OpenWindow, MakeFrame, KillThread, JoinThread, MarkFinished
<1>3. CASE Render \/ GpuDone
  BY <1>3 DEF ControlType, RenderGoes, Render, TakeCommand, IdleQueue, AckResize,
     AckCommand, TakeFrame, RaiseBusy, CheckWindow, Draw, FrameDone, GpuDone
<1>4. QED
  BY <1>1, <1>2, <1>3 DEF Next

-----------------------------------------------------------------------------
(* The kill of the window, and the window itself.                           *)

\* How far a kill has come, by the places of the threads and the command slot.
KillPhase ==
    /\ lua_pc \in {"boot", "surface", "resized", "trigger", "size", "build", "init",
                   "open", "draw"} => tenant.kill_state = 0
    /\ lua_pc = "purge" => tenant.kill_state = 1
    /\ lua_pc \in {"busy", "command"} => tenant.kill_state # 0
    /\ lua_pc \in {"gone", "last", "teardown", "join", "finish", "done"} =>
          tenant.kill_state = 2
    /\ mail.glfw_cmd = "KILL" => tenant.kill_state = 2
    /\ main_pc \in {"kill", "destroy"} => tenant.kill_state = 2

\* Whatever was made for the window is there only while the window is.
WindowHolds ==
    /\ objects.live => window.open /\ tenant.kill_state # 2
    /\ mail.vk_surface => window.open \/ tenant.kill_state = 2
    /\ window.open \/ tenant.kill_state = 2 \/ lua_pc \in {"boot", "surface"}

KillInv == KillPhase /\ WindowHolds

LifecycleInv == DataType /\ ControlType /\ KillInv

LEMMA LifecycleInit == Init => LifecycleInv
<1>1. Init => ControlType /\ KillInv
  BY DEF Init, ControlType, KillInv, KillPhase, WindowHolds
<1>2. QED
  BY <1>1, DataInit DEF LifecycleInv

LEMMA KillMain == ASSUME LifecycleInv, User \/ Main PROVE KillInv'
<1> USE DEF LifecycleInv, DataType, KillInv, KillPhase, WindowHolds, MainGoes
<1>1. CASE PressEscape
  BY <1>1 DEF PressEscape, Mailboxes, Tenants, OsWindows, GpuObjects
<1>2. CASE CloseWindow
  BY <1>2 DEF CloseWindow, Mailboxes, Tenants, OsWindows, GpuObjects
<1>3. CASE Resize
  BY <1>3 DEF Resize, SizeThenFlag, Resized, Mailboxes, Tenants, OsWindows, GpuObjects
<1>4. CASE FlagResize
  BY <1>4 DEF FlagResize, SizeThenFlag, Flagged, Mailboxes, Tenants, OsWindows, GpuObjects
<1>5. CASE ReadCommand
  BY <1>5 DEF ReadCommand, data, Mailboxes, Tenants, OsWindows, GpuObjects
<1>6. CASE BootWindow
  BY <1>6 DEF BootWindow, Mailboxes, Tenants, OsWindows, GpuObjects
<1>7. CASE CloseToRenderer
  BY <1>7 DEF CloseToRenderer, Mailboxes, Tenants, OsWindows, GpuObjects
<1>8. CASE DestroyWindow
  BY <1>8 DEF DestroyWindow, Mailboxes, Tenants, OsWindows, GpuObjects
<1>9. CASE StoreIdle
  BY <1>9 DEF StoreIdle, Mailboxes, Tenants, OsWindows, GpuObjects
<1>10. CASE CloseToEscape
  BY <1>10 DEF CloseToEscape, Mailboxes, Tenants, OsWindows, GpuObjects
<1>11. CASE Exit
  BY <1>11 DEF Exit, Mailboxes, Tenants, OsWindows, GpuObjects
<1>12. QED
  BY <1>1, <1>2, <1>3, <1>4, <1>5, <1>6, <1>7, <1>8, <1>9, <1>10, <1>11 DEF
     User, Main

LEMMA KillLua == ASSUME LifecycleInv, Lua PROVE KillInv'
<1> USE DEF LifecycleInv, DataType, KillInv, KillPhase, WindowHolds, LuaGoes
<1>1. CASE BootTenant
  BY <1>1 DEF BootTenant, Mailboxes, Tenants, OsWindows, GpuObjects
<1>2. CASE SurfaceReady
  BY <1>2 DEF SurfaceReady, Mailboxes, Tenants, OsWindows, GpuObjects
<1>3. CASE TakeEscape
  <2> USE DEF TakeEscape
  <2>1. mail'.vk_surface = mail.vk_surface
    BY <1>3 DEF Mailboxes
  <2>2. mail'.glfw_cmd = mail.glfw_cmd \/ mail'.glfw_cmd = "REBUILD"
    BY <1>3 DEF Mailboxes, EscCommand
  <2>3. \/ tenant'.kill_state = tenant.kill_state
        \/ tenant.kill_state = 0 /\ tenant'.kill_state = 1
    BY <1>3 DEF Tenants
  <2>4. QED
    BY <1>3, <2>1, <2>2, <2>3
<1>4. CASE TakeF5
  BY <1>4 DEF TakeF5, Mailboxes, Tenants, OsWindows, GpuObjects
<1>5. CASE CheckGone
  BY <1>5 DEF CheckGone, data, Mailboxes, Tenants, OsWindows, GpuObjects
<1>6. CASE CheckBusy
  BY <1>6 DEF CheckBusy, data, Mailboxes, Tenants, OsWindows, GpuObjects
<1>7. CASE CheckCommand
  BY <1>7 DEF CheckCommand, data, Mailboxes, Tenants, OsWindows, GpuObjects
<1>8. CASE Purge
  BY <1>8 DEF Purge, Mailboxes, Tenants, OsWindows, GpuObjects
<1>9. CASE LastTenantGone
  BY <1>9 DEF LastTenantGone, Mailboxes, Tenants, OsWindows, GpuObjects
<1>10. CASE CheckResize
  BY <1>10 DEF CheckResize, data, Mailboxes, Tenants, OsWindows, GpuObjects
<1>11. CASE TriggerRebuild
  BY <1>11 DEF TriggerRebuild, Mailboxes, Tenants, OsWindows, GpuObjects
<1>12. CASE BeginRebuild
  BY <1>12 DEF BeginRebuild, Mailboxes, Tenants, OsWindows, GpuObjects
<1>13. CASE BuildSwapchain
  BY <1>13 DEF BuildSwapchain, Mailboxes, Tenants, OsWindows, GpuObjects
<1>14. CASE SwapchainFails
  BY <1>14 DEF SwapchainFails, Mailboxes, Tenants, OsWindows, GpuObjects
<1>15. CASE RendererIsOut
  BY <1>15 DEF RendererIsOut, data, Mailboxes, Tenants, OsWindows, GpuObjects
<1>16. CASE AbortInit
  BY <1>16 DEF AbortInit, data, Mailboxes, Tenants, OsWindows, GpuObjects
<1>17. CASE OpenWindow
  BY <1>17 DEF OpenWindow, Mailboxes, Tenants, OsWindows, GpuObjects
<1>18. CASE MakeFrame
  BY <1>18 DEF MakeFrame, Mailboxes, Tenants, OsWindows, GpuObjects
<1>19. CASE KillThread
  BY <1>19 DEF KillThread, Mailboxes, Tenants, OsWindows, GpuObjects
<1>20. CASE JoinThread
  BY <1>20 DEF JoinThread, data, Mailboxes, Tenants, OsWindows, GpuObjects
<1>21. CASE MarkFinished
  BY <1>21 DEF MarkFinished, Mailboxes, Tenants, OsWindows, GpuObjects
<1>22. QED
  BY <1>1, <1>2, <1>3, <1>4, <1>5, <1>6, <1>7, <1>8, <1>9, <1>10, <1>11, <1>12,
     <1>13, <1>14, <1>15, <1>16, <1>17, <1>18, <1>19, <1>20, <1>21 DEF Lua

LEMMA KillRender == ASSUME LifecycleInv, Render \/ GpuDone PROVE KillInv'
<1> USE DEF LifecycleInv, DataType, KillInv, KillPhase, WindowHolds, RenderGoes
<1>1. CASE TakeCommand
  BY <1>1 DEF TakeCommand, data, Mailboxes, Tenants, OsWindows, GpuObjects
<1>2. CASE IdleQueue
  BY <1>2 DEF IdleQueue, Mailboxes, Tenants, OsWindows, GpuObjects
<1>3. CASE AckResize
  BY <1>3 DEF AckResize, Mailboxes, Tenants, OsWindows, GpuObjects
<1>4. CASE AckCommand
  BY <1>4 DEF AckCommand, CommandAfterAck, Mailboxes, Tenants, OsWindows, GpuObjects
<1>5. CASE TakeFrame
  BY <1>5 DEF TakeFrame, Mailboxes, Tenants, OsWindows, GpuObjects
<1>6. CASE RaiseBusy
  BY <1>6 DEF RaiseBusy, Mailboxes, Tenants, OsWindows, GpuObjects
<1>7. CASE CheckWindow
  BY <1>7 DEF CheckWindow, data, Mailboxes, Tenants, OsWindows, GpuObjects
<1>8. CASE Draw
  BY <1>8 DEF Draw, Mailboxes, Tenants, OsWindows, GpuObjects
<1>9. CASE FrameDone
  BY <1>9 DEF FrameDone, Mailboxes, Tenants, OsWindows, GpuObjects
<1>10. CASE GpuDone
  BY <1>10 DEF GpuDone, Mailboxes, Tenants, OsWindows, GpuObjects
<1>11. QED
  BY <1>1, <1>2, <1>3, <1>4, <1>5, <1>6, <1>7, <1>8, <1>9, <1>10 DEF Render

LEMMA LifecycleStep == LifecycleInv /\ [Next]_vars => LifecycleInv'
<1>1. ASSUME LifecycleInv, Next PROVE LifecycleInv'
  <2>1. DataType /\ ControlType
    BY <1>1 DEF LifecycleInv
  <2>2. DataType'
    BY <1>1, <2>1, DataMain, DataLua, DataRender DEF Next
  <2>3. KillInv'
    BY <1>1, KillMain, KillLua, KillRender DEF Next
  <2>4. QED
    BY <1>1, <2>1, <2>2, <2>3, ControlStep DEF LifecycleInv
<1>2. ASSUME LifecycleInv, UNCHANGED vars PROVE LifecycleInv'
  BY <1>2 DEF vars, data, LifecycleInv, DataType, ControlType, KillInv, KillPhase,
              WindowHolds
<1>3. QED
  BY <1>1, <1>2

\* What the threads read from each other is of its type, and the slot asks for a
\* kill only after the game thread purged the window (tenant_lifecycle.lua:28-40).
THEOREM TypesHold == Spec => []TypeOK
<1>1. LifecycleInv => TypeOK
  BY DEF LifecycleInv, DataType, ControlType, KillInv, KillPhase, TypeOK, Mailboxes,
         Commands, Flags, Engines, OsWindows, Tenants, GpuObjects
<1>2. QED
  BY LifecycleInit, LifecycleStep, <1>1, PTL DEF Spec

\* The main thread destroys a window only when no swapchain made for it is left,
\* although it waits for nobody, and its own command slot is written by all three
\* threads (main_loop.c:42-67 against tenant_lifecycle.lua:32-40).
THEOREM WindowIsLast == Spec => []WindowOutlivesSurface
<1>1. LifecycleInv => WindowOutlivesSurface
  BY DEF LifecycleInv, KillInv, WindowHolds, WindowOutlivesSurface
<1>2. QED
  BY LifecycleInit, LifecycleStep, <1>1, PTL DEF Spec

-----------------------------------------------------------------------------
(* A prompt game thread, one that takes no step inside an acknowledgement:  *)
(* what is in use is not destroyed, and only a late command can make a      *)
(* resize forgotten.                                                        *)

\* Nothing of the window is in use, and nobody will begin to use it.
Drained == flags.wsi_state = 0 /\ render_pc # "draw" /\ ~objects.gpu_work

\* A rebuild is asked for, or the render thread is about to acknowledge it.
Acking == render_pc \in {"ack_resize", "ack_command"}
Rebuilding == mail.glfw_cmd = "REBUILD" \/ render_pc = "wait_idle" \/ Acking

\* What may be used exists.
UseInv == render_pc = "draw" \/ objects.gpu_work \/ flags.wsi_state = 1 => objects.live

\* No escape is taken before the main thread has stored the CMD_IDLE of the boot: that
\* store cannot erase the command that idles the GPU for a kill.
EscapeInv ==
    main_pc \in {"boot", "idle"} \/ ~window.open =>
        tenant.kill_state = 2 \/ (tenant.kill_state = 0 /\ mail.last_key = "none")

\* A tenant is suspended from the moment it asks for a rebuild until it begins it.
SuspendInv ==
    /\ tenant.kill_state # 0 => tenant.suspended
    /\ lua_pc \in {"boot", "surface", "build", "init", "open", "draw"} => ~tenant.suspended
    /\ lua_pc = "size" => tenant.suspended

\* The command slot and the resize flag fall only when the window is drained, and it
\* stays so until the game thread opens it again.
DrainInv ==
    /\ Acking => Drained
    /\ tenant.suspended /\ tenant.kill_state = 0 /\ ~mail.window_resized => Drained
    /\ lua_pc = "trigger" /\ ~mail.window_resized => Drained
    /\ lua_pc = "size" => Drained
    /\ tenant.kill_state = 1 /\ mail.glfw_cmd = "IDLE" => Drained
    /\ lua_pc = "purge" => Drained

OrderInv == UseInv /\ EscapeInv /\ SuspendInv /\ DrainInv

\* As long as no command is late, a rebuild is asked for only while the tenant is
\* suspended and the flag is up, so that none outlives the suspension.
AskInv ==
    /\ Rebuilding => tenant.suspended
    /\ tenant.suspended /\ tenant.kill_state = 0 /\ ~mail.window_resized =>
          render_pc = "ack_command" \/ ~Rebuilding
    /\ lua_pc = "size" => ~Rebuilding

\* The size a tenant was built for, or will be, is that of its window, or this was never
\* resized, or the flag is up, or about to be raised.
SizeInv ==
    LET size == IF lua_pc \in {"boot", "surface"} THEN 1 ELSE tenant.size
    IN  tenant.suspended \/ size = mail.win_size \/ NeverResized \/ mail.window_resized
        \/ main_pc = "resize"

ResizeInv == AskInv /\ SizeInv

Late == TriggerRebuild /\ ~mail.window_resized

LEMMA OrderInit == Init => OrderInv /\ ResizeInv
  BY DEF Init, OrderInv, UseInv, EscapeInv, SuspendInv, DrainInv, ResizeInv, AskInv, SizeInv,
         NeverResized, Drained, Rebuilding, Acking

LEMMA OrderMain ==
    ASSUME LifecycleInv, OrderInv, User \/ Main
    PROVE  OrderInv' /\ (ResizeInv => ResizeInv')
<1> USE DEF LifecycleInv, DataType, ControlType, KillInv, KillPhase, WindowHolds, OrderInv,
            UseInv, EscapeInv, SuspendInv, DrainInv, ResizeInv, AskInv, SizeInv,
            NeverResized, Drained, Rebuilding, Acking, Late,
            MainGoes
<1>1. CASE PressEscape
  BY <1>1 DEF PressEscape, Mailboxes, Flags, Tenants, OsWindows, GpuObjects
<1>2. CASE CloseWindow
  BY <1>2 DEF CloseWindow, Mailboxes, Flags, Tenants, OsWindows, GpuObjects
<1>3. CASE Resize
  BY <1>3 DEF Resize, SizeThenFlag, Resized, Mailboxes, Flags, Tenants, OsWindows, GpuObjects
<1>4. CASE FlagResize
  BY <1>4 DEF FlagResize, SizeThenFlag, Flagged, Mailboxes, Flags, Tenants, OsWindows, GpuObjects
<1>5. CASE ReadCommand
  BY <1>5 DEF ReadCommand, data, Mailboxes, Flags, Tenants, OsWindows, GpuObjects
<1>6. CASE BootWindow
  BY <1>6 DEF BootWindow, Mailboxes, Flags, Tenants, OsWindows, GpuObjects
<1>7. CASE CloseToRenderer
  BY <1>7 DEF CloseToRenderer, Mailboxes, Flags, Tenants, OsWindows, GpuObjects
<1>8. CASE DestroyWindow
  BY <1>8 DEF DestroyWindow, Mailboxes, Flags, Tenants, OsWindows, GpuObjects
<1>9. CASE StoreIdle
  BY <1>9 DEF StoreIdle, Mailboxes, Flags, Tenants, OsWindows, GpuObjects
<1>10. CASE CloseToEscape
  BY <1>10 DEF CloseToEscape, Mailboxes, Flags, Tenants, OsWindows, GpuObjects
<1>11. CASE Exit
  BY <1>11 DEF Exit, Mailboxes, Flags, Tenants, OsWindows, GpuObjects
<1> QED
  BY <1>1, <1>2, <1>3, <1>4, <1>5, <1>6, <1>7, <1>8, <1>9, <1>10, <1>11 DEF User, Main

LEMMA OrderLua ==
    ASSUME LifecycleInv, OrderInv, Lua, ~Acking
    PROVE  OrderInv' /\ (ResizeInv /\ ~Late => ResizeInv')
<1> USE DEF LifecycleInv, DataType, ControlType, KillInv, KillPhase, WindowHolds, OrderInv,
            UseInv, EscapeInv, SuspendInv, DrainInv, ResizeInv, AskInv, SizeInv,
            NeverResized, Drained, Rebuilding, Acking, Late,
            LuaGoes
<1>1. CASE BootTenant
  BY <1>1 DEF BootTenant, Mailboxes, Flags, Tenants, OsWindows, GpuObjects
<1>2. CASE SurfaceReady
  BY <1>2 DEF SurfaceReady, Mailboxes, Flags, Tenants, OsWindows, GpuObjects
<1>3. CASE TakeEscape
  <2>1. /\ lua_pc = "frame" /\ lua_pc' = "f5"
        /\ UNCHANGED <<flags, window, objects, main_pc, render_pc>>
    BY <1>3 DEF TakeEscape
  <2>2. CASE mail.last_key = "ESC" /\ tenant.kill_state = 0
    <3>1. /\ mail' = [mail EXCEPT !.last_key = "none", !.glfw_cmd = "REBUILD"]
          /\ tenant' = [tenant EXCEPT !.suspended = TRUE, !.kill_state = 1]
      BY <1>3, <2>2 DEF TakeEscape, EscCommand
    <3> QED BY <2>1, <2>2, <3>1 DEF Mailboxes, Flags, Tenants, OsWindows, GpuObjects
  <2>3. CASE ~(mail.last_key = "ESC" /\ tenant.kill_state = 0)
    <3>1. mail' = [mail EXCEPT !.last_key = "none"] /\ tenant' = tenant
      BY <1>3, <2>3 DEF TakeEscape
    <3> QED BY <2>1, <3>1 DEF Mailboxes, Flags, Tenants, OsWindows, GpuObjects
  <2> QED BY <2>2, <2>3
<1>4. CASE TakeF5
  BY <1>4 DEF TakeF5, Mailboxes, Flags, Tenants, OsWindows, GpuObjects
<1>5. CASE CheckGone
  BY <1>5 DEF CheckGone, data, Mailboxes, Flags, Tenants, OsWindows, GpuObjects
<1>6. CASE CheckBusy
  BY <1>6 DEF CheckBusy, data, Mailboxes, Flags, Tenants, OsWindows, GpuObjects
<1>7. CASE CheckCommand
  <2>1. /\ lua_pc = "command" /\ UNCHANGED <<data, main_pc, render_pc>>
        /\ \/ lua_pc' = "frame" \/ lua_pc' = "last"
           \/ lua_pc' = "purge" /\ mail.glfw_cmd = "IDLE" /\ tenant.kill_state = 1
    BY <1>7 DEF CheckCommand, CommandIsIdle
  <2> QED BY <2>1 DEF data, Mailboxes, Flags, Tenants, OsWindows, GpuObjects
<1>8. CASE Purge
  BY <1>8 DEF Purge, Mailboxes, Flags, Tenants, OsWindows, GpuObjects
<1>9. CASE LastTenantGone
  BY <1>9 DEF LastTenantGone, Mailboxes, Flags, Tenants, OsWindows, GpuObjects
<1>10. CASE CheckResize
  <2>1. /\ lua_pc = "resized" /\ UNCHANGED <<data, main_pc, render_pc>>
        /\ \/ lua_pc' = "trigger" /\ mail.window_resized
           \/ lua_pc' = "size" /\ ~mail.window_resized /\ tenant.suspended
           \/ lua_pc' = "draw" /\ ~tenant.suspended
    BY <1>10 DEF CheckResize
  <2> QED BY <2>1 DEF data, Mailboxes, Flags, Tenants, OsWindows, GpuObjects
<1>11. CASE TriggerRebuild
  BY <1>11 DEF TriggerRebuild, Mailboxes, Flags, Tenants, OsWindows, GpuObjects
<1>12. CASE BeginRebuild
  BY <1>12 DEF BeginRebuild, Mailboxes, Flags, Tenants, OsWindows, GpuObjects
<1>13. CASE BuildSwapchain
  BY <1>13 DEF BuildSwapchain, Mailboxes, Flags, Tenants, OsWindows, GpuObjects
<1>14. CASE SwapchainFails
  BY <1>14 DEF SwapchainFails, Mailboxes, Flags, Tenants, OsWindows, GpuObjects
<1>15. CASE RendererIsOut
  BY <1>15 DEF RendererIsOut, data, Mailboxes, Flags, Tenants, OsWindows, GpuObjects
<1>16. CASE AbortInit
  BY <1>16 DEF AbortInit, data, Mailboxes, Flags, Tenants, OsWindows, GpuObjects
<1>17. CASE OpenWindow
  BY <1>17 DEF OpenWindow, Mailboxes, Flags, Tenants, OsWindows, GpuObjects
<1>18. CASE MakeFrame
  BY <1>18 DEF MakeFrame, Mailboxes, Flags, Tenants, OsWindows, GpuObjects
<1>19. CASE KillThread
  BY <1>19 DEF KillThread, Mailboxes, Flags, Tenants, OsWindows, GpuObjects
<1>20. CASE JoinThread
  BY <1>20 DEF JoinThread, data, Mailboxes, Flags, Tenants, OsWindows, GpuObjects
<1>21. CASE MarkFinished
  BY <1>21 DEF MarkFinished, Mark, Mailboxes, Flags, Tenants, OsWindows, GpuObjects
<1> QED
  BY <1>1, <1>2, <1>3, <1>4, <1>5, <1>6, <1>7, <1>8, <1>9, <1>10, <1>11, <1>12,
     <1>13, <1>14, <1>15, <1>16, <1>17, <1>18, <1>19, <1>20, <1>21 DEF Lua

LEMMA OrderRender ==
    ASSUME LifecycleInv, OrderInv, Render \/ GpuDone
    PROVE  OrderInv' /\ (ResizeInv => ResizeInv')
<1> USE DEF LifecycleInv, DataType, ControlType, KillInv, KillPhase, WindowHolds, OrderInv,
            UseInv, EscapeInv, SuspendInv, DrainInv, ResizeInv, AskInv, SizeInv,
            NeverResized, Drained, Rebuilding, Acking, Late,
            RenderGoes
<1>1. CASE TakeCommand
  BY <1>1 DEF TakeCommand, data, Mailboxes, Flags, Tenants, OsWindows, GpuObjects
<1>2. CASE IdleQueue
  BY <1>2 DEF IdleQueue, Mailboxes, Flags, Tenants, OsWindows, GpuObjects
<1>3. CASE AckResize
  BY <1>3 DEF AckResize, ResizedAfterAck, Mailboxes, Flags, Tenants, OsWindows, GpuObjects
<1>4. CASE AckCommand
  BY <1>4 DEF AckCommand, CommandAfterAck, Mailboxes, Flags, Tenants, OsWindows, GpuObjects
<1>5. CASE TakeFrame
  BY <1>5 DEF TakeFrame, Mailboxes, Flags, Tenants, OsWindows, GpuObjects
<1>6. CASE RaiseBusy
  BY <1>6 DEF RaiseBusy, Mailboxes, Flags, Tenants, OsWindows, GpuObjects
<1>7. CASE CheckWindow
  BY <1>7 DEF CheckWindow, data, Mailboxes, Flags, Tenants, OsWindows, GpuObjects
<1>8. CASE Draw
  BY <1>8 DEF Draw, Mailboxes, Flags, Tenants, OsWindows, GpuObjects
<1>9. CASE FrameDone
  BY <1>9 DEF FrameDone, Mailboxes, Flags, Tenants, OsWindows, GpuObjects
<1>10. CASE GpuDone
  BY <1>10 DEF GpuDone, Mailboxes, Flags, Tenants, OsWindows, GpuObjects
<1> QED
  BY <1>1, <1>2, <1>3, <1>4, <1>5, <1>6, <1>7, <1>8, <1>9, <1>10 DEF Render

LEMMA OrderStutter ==
    UNCHANGED vars => (OrderInv => OrderInv') /\ (ResizeInv => ResizeInv')
  BY DEF vars, data, OrderInv, UseInv, EscapeInv, SuspendInv, DrainInv, ResizeInv,
         AskInv, SizeInv, NeverResized, Drained, Rebuilding, Acking

LEMMA OrderStep ==
    LifecycleInv /\ OrderInv /\ [Next /\ Prompt]_vars =>
        OrderInv' /\ (ResizeInv /\ ~Late => ResizeInv')
<1> SUFFICES ASSUME LifecycleInv, OrderInv, [Next /\ Prompt]_vars
             PROVE  OrderInv' /\ (ResizeInv /\ ~Late => ResizeInv')
  OBVIOUS
<1>1. CASE Next /\ Prompt
  BY <1>1, OrderMain, OrderLua, OrderRender DEF Next, Prompt, Acking
<1>2. CASE UNCHANGED vars
  BY <1>2, OrderStutter
<1> QED BY <1>1, <1>2

LEMMA OrderFollows == OrderInv => NothingUsedIsDestroyed
  BY DEF OrderInv, UseInv, NothingUsedIsDestroyed

LEMMA ResizeFollows == ResizeInv => NoResizeForgotten
  BY DEF ResizeInv, SizeInv, NoResizeForgotten, TenantKnowsItsSize

\* The behaviours of a prompt game thread: failing swapchains, a vx_stream_init that
\* gives up and late commands are among them.
PromptSpec == Init /\ [][Next /\ Prompt]_vars

\* If the game thread takes no step between the stores of an acknowledgement, it destroys
\* nothing that is in use, although no store waits for another, and although a command
\* to rebuild may come when nothing is left to be rebuilt (vk_render_loop.c:26-37
\* against tenant_lifecycle.lua:11-75).
THEOREM PromptLosesNothing == PromptSpec => []NothingUsedIsDestroyed
<1>1. LifecycleInv /\ OrderInv /\ [Next /\ Prompt]_vars => (LifecycleInv /\ OrderInv)'
  BY LifecycleStep, OrderStep
<1> QED BY <1>1, LifecycleInit, OrderInit, OrderFollows, PTL DEF PromptSpec

\* So it is of the orderly behaviours of MCLifecycle, and in those no resize is forgotten
\* as long as no command came late (tenant_lifecycle.lua:59-60 against the two stores of
\* tenant_callbacks_key.c:85-87).
THEOREM OrderlyLosesNothing == MCSpec => []InOrderNothingIsLost
<1> DEFINE Inv == LifecycleInv /\ (orderly => OrderInv /\ (late \/ ResizeInv))
<1>1. MCInit => Inv
  BY LifecycleInit, OrderInit DEF MCInit
<1>2. Inv /\ [MCNext]_<<vars, orderly, late>> => Inv'
  <2> SUFFICES ASSUME Inv, [MCNext]_<<vars, orderly, late>> PROVE Inv'
    OBVIOUS
  <2>1. CASE MCNext
    <3>1. LifecycleInv'
      BY <2>1, LifecycleStep DEF MCNext
    <3>2. ASSUME orderly' PROVE OrderInv' /\ (late' \/ ResizeInv')
      <4>1. orderly /\ Next /\ Prompt
        BY <2>1, <3>2 DEF MCNext
      <4>2. late \/ Late => late'
        BY <2>1 DEF MCNext, Late
      <4> QED BY <4>1, <4>2, OrderStep
    <3> QED BY <3>1, <3>2
  <2>2. CASE UNCHANGED <<vars, orderly, late>>
    BY <2>2, LifecycleStep, OrderStutter
  <2> QED BY <2>1, <2>2
<1>3. Inv => InOrderNothingIsLost
  BY OrderFollows, ResizeFollows DEF InOrderNothingIsLost
<1> QED BY <1>1, <1>2, <1>3, PTL DEF MCSpec
=============================================================================
