------------------------------- MODULE MCTiles -------------------------------
(* Instances of TileLedger: the test pattern cut down to two tiles. *)
EXTENDS TileLedger

Pattern == <<[tile_idx |-> 1, terrain |-> 10], [tile_idx |-> 2, terrain |-> 11]>>
NoPattern == <<>>
=============================================================================
