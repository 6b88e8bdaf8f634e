----------------------------- MODULE TileLedger -----------------------------
(***************************************************************************)
(* The sparse world of the chess plugin: SimulateTick (plugin.lua) keeps   *)
(* the modified tiles in an array of fixed size, filled from game_state.lua*)
(* and then as a ring.  A tile is raised exactly when it has a terrain,    *)
(* 10 + p for player p, so the terrain stands for its elevation too.       *)
(***************************************************************************)
EXTENDS Integers, Sequences

CONSTANTS
    MaxPlayers,     \* CFG_MAX_PLAYERS
    Tiles,          \* indices of tiles, 0 among them
    Capacity,       \* 2048
    InitialTiles,   \* what InitState paints, as entries
    MaxAppends      \* bound on appended entries

Players == 0 .. MaxPlayers - 1
Terrain(p) == 10 + p

\* A modified tile as InitState paints it: raised, in the terrain of a player.
Modified == [tile_idx : Tiles, terrain : {Terrain(p) : p \in Players}]

\* What is assumed of the constants.
LedgerAssumption ==
    /\ 0 \in Tiles /\ Tiles \subseteq Nat
    /\ Capacity \in Nat \ {0} /\ MaxPlayers \in Nat \ {0} /\ MaxAppends \in Nat
    /\ InitialTiles \in Seq(Modified) /\ Len(InitialTiles) <= Capacity

VARIABLES
    game,       \* GameState: tiles, modification_count, head_idx
    commands,   \* the commands of the last tick
    appended    \* tiles appended so far, in order

vars == <<game, commands, appended>>

NoCommand == -1
Blank == [tile_idx |-> 0, terrain |-> 0]    \* zeroed memory
Indices == 0 .. Capacity - 1

\* InitState: add_tile places at modification_count; head_idx is left zero.
Init ==
    /\ game = [tiles |-> [i \in Indices |-> IF i < Len(InitialTiles)
                                            THEN InitialTiles[i + 1] ELSE Blank],
               modification_count |-> Len(InitialTiles), head_idx |-> 0]
    /\ commands = [p \in Players |-> NoCommand]
    /\ appended = <<>>

-----------------------------------------------------------------------------
\* Entries the scan accepts: of the tile, and the player's own or lowered.
Found(g, p, tile) ==
    {i \in 0 .. g.modification_count - 1 :
        g.tiles[i].tile_idx = tile /\ g.tiles[i].terrain \in {Terrain(p), 0}}

First(S) == CHOOSE i \in S : \A j \in S : i <= j

HeadUnwrapped(head) == IF head < Capacity - 1 THEN head + 1 ELSE head   \* mutant
HeadAfter(head) == (head + 1) % Capacity

CountUncapped(count) == count + 1           \* mutant
CountAfter(count) == IF count < Capacity THEN count + 1 ELSE count

Update(g, p, i) ==
    [g EXCEPT !.tiles[i].terrain = IF @ # 0 THEN 0 ELSE Terrain(p)]

AppendTile(g, p, tile) ==
    [tiles |-> [g.tiles EXCEPT ![g.head_idx] = [tile_idx |-> tile, terrain |-> Terrain(p)]],
     modification_count |-> CountAfter(g.modification_count),
     head_idx |-> HeadAfter(g.head_idx)]

\* One player's OP_TOGGLE_TILE, on the game and the tiles appended.
Toggled(s, p, tile) ==
    LET found == Found(s.game, p, tile)
    IN  CASE tile = NoCommand -> s
          [] tile # NoCommand /\ found # {} ->
                [s EXCEPT !.game = Update(@, p, First(found))]
          [] OTHER -> [game |-> AppendTile(s.game, p, tile),
                       appended |-> Append(s.appended, tile)]

\* The loop over the players: what their commands make of s, one after the other.
AllToggled(s, cmds) ==
    LET after[n \in 0 .. MaxPlayers] ==
            IF n = 0 THEN s ELSE Toggled(after[n - 1], n - 1, cmds[n - 1])
    IN  after[MaxPlayers]

SimulateTick ==
    /\ Len(appended) + MaxPlayers <= MaxAppends
    /\ commands' \in [Players -> Tiles \cup {NoCommand}]
    /\ LET s == AllToggled([game |-> game, appended |-> appended], commands')
       IN  game' = s.game /\ appended' = s.appended

Spec == Init /\ [][SimulateTick]_vars
-----------------------------------------------------------------------------
\* Types; what is read is below modification_count and what is written below the
\* capacity, and nothing above the count was ever written (plugin.lua:48, 68-78).
TypeOK ==
    /\ game.tiles \in [Indices -> [tile_idx : Tiles, terrain : {0} \cup
                                       {Terrain(p) : p \in Players}]]
    /\ game.modification_count \in 0 .. Capacity /\ game.head_idx \in Indices
    /\ \A i \in Indices : i >= game.modification_count => game.tiles[i] = Blank
    /\ commands \in [Players -> Tiles \cup {NoCommand}]

\* What the ring gives up is always the oldest: the tiles appended last, as many as
\* it holds, are all there, however often it wrapped and whatever was updated in
\* place meanwhile (plugin.lua:66-73).
NewestAreKept ==
    \A k \in 1 .. Len(appended) : k <= Capacity =>
        game.tiles[(game.head_idx - k) % Capacity].tile_idx
            = appended[Len(appended) + 1 - k]

\* "Update in-place, or Append to the sparse array" (plugin.lua:60): as long as there
\* is room, no tile that is in the array is replaced by another.
RoomIsUsedFirst ==
    [][game'.modification_count < Capacity =>
          \A i \in 0 .. game.modification_count - 1 :
              game'.tiles[i].tile_idx = game.tiles[i].tile_idx]_vars

RaisedBy(g, p, tile) ==
    \E i \in 0 .. g.modification_count - 1 :
        g.tiles[i] = [tile_idx |-> tile, terrain |-> Terrain(p)]

\* "Scan the sparse array for this specific tile & player" (plugin.lua:44): a
\* player's toggle lowers the tile the player had raised.
OwnTileIsLowered ==
    [][\A p \in Players, tile \in Tiles :
          commands'[p] = tile /\ RaisedBy(game, p, tile) => ~RaisedBy(game', p, tile)]_vars
=============================================================================
