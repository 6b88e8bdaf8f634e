------------------------------ MODULE AgreedLog ------------------------------
(***************************************************************************)
(* What lockstep promises its players: one game.  Each node owns a prefix  *)
(* of one log of command vectors, the part it will never take back.  A     *)
(* step extends the prefix of one node, and never to something that a      *)
(* peer's prefix contradicts.                                              *)
(***************************************************************************)
EXTENDS Sequences, SequencesExt

CONSTANT Node
VARIABLE settled   \* settled[n]: the worlds, as logs, that n has settled

Consistent(s, t) == IsPrefix(s, t) \/ IsPrefix(t, s)

Init == settled = [n \in Node |-> <<>>]

Settle(n) == /\ IsStrictPrefix(settled[n], settled'[n])
             /\ \A p \in Node \ {n} : /\ settled'[p] = settled[p]
                                      /\ Consistent(settled'[n], settled[p])

Next == \E n \in Node : Settle(n)

Spec == Init /\ [][Next]_settled

\* No two players ever settle different games.
Agreement == \A n, p \in Node : Consistent(settled[n], settled[p])
=============================================================================
