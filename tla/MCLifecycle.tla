----------------------------- MODULE MCLifecycle -----------------------------
(***************************************************************************)
(* TenantLifecycle under both schedules in one run.  A behaviour is orderly*)
(* when the render thread is not stopped inside an acknowledgement         *)
(* (Prompt), no frame takes so long that vx_stream_init gives up, and no   *)
(* swapchain fails; otherwise everything TenantLifecycle allows may happen.*)
(* What the code does not promise of a disorderly behaviour is stated for  *)
(* the orderly ones only.                                                  *)
(*                                                                         *)
(* An orderly behaviour may still have a late command: the game thread     *)
(* reads the resize flag, it falls, and a rebuild is asked for that no     *)
(* resize is left for.                                                     *)
(***************************************************************************)
EXTENDS TenantLifecycle

VARIABLES
    orderly,    \* which kind the behaviour is; chosen once
    late        \* history: whether a command came late

MCInit == Init /\ orderly \in BOOLEAN /\ late = FALSE

MCNext ==
    /\ Next /\ UNCHANGED orderly
    /\ orderly => Prompt /\ ~AbortInit /\ ~SwapchainFails
    /\ late' = (late \/ (TriggerRebuild /\ ~mail.window_resized))

MCSpec == MCInit /\ [][MCNext]_<<vars, orderly, late>> /\ Fairness

\* NothingUsedIsDestroyed, of the orderly behaviours, and NoResizeForgotten as long as no
\* command came late: with another store between those of an acknowledgement both fail.
InOrderNothingIsLost ==
    orderly => NothingUsedIsDestroyed /\ (late \/ NoResizeForgotten)

\* ShutdownCompletes and CloseIsHeeded, of the orderly behaviours.
InOrderShutdownCompletes == orderly => ShutdownCompletes
InOrderCloseIsHeeded == orderly => CloseIsHeeded

\* RebuildEnds, of the orderly behaviours, and ResizeIsHandled of those in which no
\* command comes late.
InOrderResizeIsHandled == orderly => RebuildEnds /\ (ResizeIsHandled \/ <>late)

\* Violated: ResizeIsHandled of all orderly behaviours.  The acknowledgement of a late
\* command closes the window after its rebuild, and nobody opens it again
\* (tenant_lifecycle.lua:59-60, vk_render_loop.c:34-40).
InOrderWindowComesBack == orderly => ResizeIsHandled
=============================================================================
