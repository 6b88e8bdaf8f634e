----------------------------- MODULE MCLockstep -----------------------------
(***************************************************************************)
(* Instances of Lockstep for TLC.                                          *)
(***************************************************************************)
EXTENDS Lockstep, TLC

CONSTANTS p1, p2, p3, go

TwoNodes == {p1, p2}
ThreeNodes == {p1, p2, p3}
OneCommand == {go}
NodeSymmetry == Permutations(Node)

\* Nodes share nothing but the network, which a pump reads before its ticks and
\* writes after them: interleaving the inner steps of two pumps reaches nothing
\* new between pumps.  The larger instances let one pump run at a time.
OnePumpAtATime == Cardinality({n \in DOMAIN phase : phase'[n] # "idle"}) <= 1

\* One command in the whole game, in one of its first two ticks, whose rollbacks may
\* come as late as the run allows.
OneEarlyCommand ==
    \A n \in Node : issued'[n] # issued[n] =>
        sim_tick_count[n] <= 2 /\ \A m \in Node : issued[m] = 0
=============================================================================
