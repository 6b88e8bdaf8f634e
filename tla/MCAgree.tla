------------------------------- MODULE MCAgree -------------------------------
(***************************************************************************)
(* One game, in one run: two players whose pumps owe several ticks within  *)
(* the horizon; two players whose ring wraps; three players, where a       *)
(* packet is one of several and an acknowledgement is for one of several.  *)
(* A behaviour is of one kind, chosen at the start.  The properties speak  *)
(* of p1 and p2, who among three are any two.                              *)
(***************************************************************************)
EXTENDS MCLockstep, LockstepLog

VARIABLE part

Long == INSTANCE Lockstep
            WITH LookaheadCap <- 1, MaxTicksPerPump <- 1, MaxTick <- 10

Three == INSTANCE Lockstep
            WITH Node <- ThreeNodes, LookaheadCap <- 1, HistoryLen <- 1,
                 MaxTicksPerPump <- 1, MaxTick <- 3

MCInit == \/ part = "bursts" /\ Init
          \/ part = "long"   /\ Long!Init
          \/ part = "three"  /\ Three!Init

MCNext == /\ UNCHANGED part
          /\ \/ part = "bursts" /\ SteadyNext
             \/ part = "long"   /\ Long!Next
             \/ part = "three"  /\ Three!Next

MCSpec == MCInit /\ [][MCNext]_<<vars, part>>
=============================================================================
