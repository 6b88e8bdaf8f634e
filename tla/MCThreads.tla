------------------------------ MODULE MCThreads ------------------------------
(***************************************************************************)
(* What the game thread shares with its neighbours, in one run: the input  *)
(* of the main thread (InputMailbox, once with clicks and keys, once with  *)
(* the motion of the mouse) and the jobs of the transfer thread            *)
(* (TransferRing).  They share no variable: a behaviour is of one of them, *)
(* chosen at the start, and the others keep still.                         *)
(***************************************************************************)
EXTENDS InputMailbox

CONSTANTS
    MovedPlaces,                            \* the places of the motion
    SlotCount, MaxJobs, MaxRebuilds, Hangs  \* those of TransferRing

VARIABLES
    part, ring, busy, wsi_state, command, suspended, fence, timeline, rebuilds, lua,
    transfer, render, gpu, counter, copied, handled

jobVars == <<ring, busy, wsi_state, command, suspended, fence, timeline, rebuilds, lua,
             transfer, render, gpu, counter, copied, handled>>
allVars == <<part, vars, jobVars>>

Moved == INSTANCE InputMailbox
            WITH Places <- MovedPlaces, Keys <- {}, MaxPresses <- 1
Jobs == INSTANCE TransferRing

ASSUME ThreadsAssumption == Jobs!TransferAssumption /\ MovedPlaces \subseteq Int

MCInit ==
    /\ \/ part = "clicks" /\ Init
       \/ part = "motion" /\ Moved!Init
       \/ part = "jobs" /\ Init /\ active_window = Jobs!FirstWindow /\ focus = active_window
    /\ Jobs!Init

Clicking == part = "clicks" /\ Next       /\ UNCHANGED <<part, jobVars>>
Moving   == part = "motion" /\ Moved!Next /\ UNCHANGED <<part, jobVars>>
Copying  == part = "jobs"   /\ Jobs!Next  /\ UNCHANGED <<part, vars>>

MCNext == Clicking \/ Moving \/ Copying

\* The fairness of the component that moves.
MCFairness ==
    /\ WF_jobVars(part = "jobs" /\ Jobs!Lua) /\ WF_jobVars(part = "jobs" /\ Jobs!Transfer)
    /\ WF_jobVars(part = "jobs" /\ Jobs!Render) /\ WF_jobVars(part = "jobs" /\ Jobs!GpuDone)

MCSpec == MCInit /\ [][MCNext]_allVars /\ MCFairness

\* TypeOK of both components.
ThreadsTypeOK == TypeOK /\ Jobs!TypeOK

\* ClickIsOfOnePress and DeltaConserved of InputMailbox are checked as they stand.

\* Every job is handled once, on a command buffer that is idle and with objects that
\* vx_stream_init is not replacing (JobsAreSafe of TransferRing).
JobsAreSafe == Jobs!JobsAreSafe

\* SlotsAreGivenBack of TransferRing.
SlotsAreGivenBack == Jobs!SlotsAreGivenBack
=============================================================================
