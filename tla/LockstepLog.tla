----------------------------- MODULE LockstepLog -----------------------------
(***************************************************************************)
(* One game: what the players of Lockstep agree on, under which condition, *)
(* and the invariant that says why.                                        *)
(*                                                                         *)
(* The condition.  calculate_horizons looks at the horizon once per pump   *)
(* (fsm_pacing.lua:41), for the first of the ticks the pump owes; a burst  *)
(* that outruns the horizon publishes an input and polls it anew.  A pump  *)
(* is steady if all its ticks are within the horizon.  A pump of one tick  *)
(* always is.                                                              *)
(***************************************************************************)
EXTENDS Lockstep

\* 512 >= 60 + 60 + 2 in the code: no frame of a packet's history shares its slot with
\* one that a peer may be sending already.
ASSUME RingHistoryAssumption == RingSize >= HistoryLen + LookaheadCap + 2
\* 60 >= 60 in the code: a history is no shorter than a node may be ahead.
ASSUME HistoryCapAssumption == HistoryLen >= LookaheadCap

\* The ticks that the pump n begins now end within the horizon.
FitsHorizon(n) ==
    accumulator'[n] > 0 =>
        LET last == sim_tick_count[n] + accumulator'[n] - 1
        IN  /\ last <= confirmed_tick'[n] + LookaheadCap
            /\ \A p \in Peers(n) : last <= peer_ack_of_me[n][p] + LookaheadCap

SteadyTick(n) == Tick(n) /\ (phase[n] = "idle" => FitsHorizon(n))

SteadyNext == \E n \in Node : \/ \E c \in Command : InjectLocalCommand(n, c)
                              \/ \E m \in net : Receive(n, m)
                              \/ SteadyTick(n)

SteadySpec == Init /\ [][SteadyNext]_vars

-----------------------------------------------------------------------------
\* All that n has simulated.
Log(n) == snapshot_ring[n][Slot(sim_tick_count[n] - 1)]

\* What p played at tick t, once it simulated it.
Input(p, t) == IF t = 0 THEN Idle ELSE Log(p)[t][p]

\* A world made of the inputs that the players really played.
IsTrue(world) ==
    \A t \in 1 .. Len(world) : \A p \in Node :
        t < sim_tick_count[p] /\ world[t][p] = Input(p, t)

\* The last tick of n whose world no rollback is about to replace.
CleanTo(n) ==
    IF phase[n] = "resimulate" THEN cursor[n] - 1
    ELSE IF rollback_target[n] # 0 THEN rollback_target[n] - 1
    ELSE sim_tick_count[n] - 1

\* From this tick on no frame that n has prepared or heard of was overwritten.
OldestFrame(n) == sim_tick_count[n] + LookaheadCap + 2 - RingSize

Preparing == {"rollback", "resimulate", "simulate"}

-----------------------------------------------------------------------------
(* The invariant, part by part.                                             *)

\* The last tick prepared is the last one simulated or the one under way, and the
\* ticks owed end within the horizon.
PumpIsSteady(n) ==
    /\ tick_before[n] <= sim_tick_count[n]
    /\ head_tick[n] = IF phase[n] \in Preparing THEN sim_tick_count[n]
                      ELSE sim_tick_count[n] - 1
    /\ phase[n] = "resimulate" =>
          /\ rollback_target[n] # 0
          /\ cursor[n] \in rollback_target[n] .. sim_tick_count[n] - 1
    /\ phase[n] \in Preparing \cup {"loop"}
       /\ (accumulator[n] > 0 \/ tick_before[n] < sim_tick_count[n]) =>
          LET last == sim_tick_count[n] + accumulator[n] - 1
          IN  /\ last <= confirmed_tick[n] + LookaheadCap
              /\ \A p \in Peers(n) : last <= peer_ack_of_me[n][p] + LookaheadCap

\* Nobody knows more of a peer than the peer itself.
PeersAreKnown(n) ==
    \A p \in Peers(n) : /\ peer_ack_of_me[n][p] <= peer_highest_tick[p][n]
                        /\ peer_highest_tick[n][p] < sim_tick_count[p]

\* The ring holds the recent frames, and no frame so old that its slot was used again.
TagsAreKept(n) ==
    /\ \A t \in 0 .. head_tick[n] : t >= OldestFrame(n) => Frame(n, t).tick = t
    /\ \A t \in 0 .. head_tick[n] - RingSize : Frame(n, t).tick # t

\* The frames of n hold what n played, and what it has heard of its peers.
OwnInputs(n) ==
    \A t \in 0 .. sim_tick_count[n] - 1 :
        Frame(n, t).tick = t => Frame(n, t).commands[n] = Input(n, t)
HeardInputs(n) ==
    \A p \in Peers(n) : \A t \in 1 .. peer_highest_tick[n][p] :
        t >= OldestFrame(n) =>
            Frame(n, t).tick = t /\ Frame(n, t).commands[p] = Input(p, t)

\* Every snapshot is of its tick and made of what n played; the live world is one.
WorldsAreKept(n) ==
    /\ rts_grid[n] = snapshot_ring[n][Slot(TickOfWorld(n))]
    /\ \A t \in 0 .. sim_tick_count[n] - 1 : t >= sim_tick_count[n] - RingSize =>
          LET world == snapshot_ring[n][Slot(t)]
          IN  /\ Len(world) = t
              /\ \A u \in 1 .. t : world[u][n] = Input(n, u)

\* A clean snapshot agrees with the frames, is true where it is confirmed, and is
\* what the checksum of its frame was taken of.
CleanWorlds(n) ==
    \A t \in 0 .. CleanTo(n) : t >= sim_tick_count[n] - RingSize =>
        LET world == snapshot_ring[n][Slot(t)]
        IN  /\ \A u \in 1 .. t :
                  IF u > confirmed_tick[n] THEN world[u] = Frame(n, u).commands
                  ELSE \A p \in Node : world[u][p] = Input(p, u)
            /\ Frame(n, t).tick = t => Frame(n, t).state_checksum = world

\* A checksum of a peer in a frame is that of a true world of the frame's tick.
ChecksumsAreTrue(n) ==
    \A s \in Slots :
        LET sum == frames[n][s].remote_checksum
        IN  sum # NoChecksum => Len(sum) = frames[n][s].tick /\ IsTrue(sum)

\* A packet carries what its sender played and, perhaps, a true checksum.
PacketIsTrue(m) ==
    /\ m.frame_tick < sim_tick_count[m.player_id]
    /\ \A p \in Peers(m.player_id) : m.peer_acks[p] <= peer_highest_tick[m.player_id][p]
    /\ \A t \in m.base_tick .. m.frame_tick : m.commands[t] = Input(m.player_id, t)
    /\ m.state_checksum # NoChecksum =>
          Len(m.state_checksum) = m.checksum_tick /\ IsTrue(m.state_checksum)

NodeInv(n) ==
    /\ PumpIsSteady(n) /\ TagsAreKept(n) /\ OwnInputs(n) /\ HeardInputs(n)
    /\ WorldsAreKept(n) /\ CleanWorlds(n) /\ ChecksumsAreTrue(n)

LogInv == /\ \A n \in Node : NodeInv(n) /\ PeersAreKnown(n)
          /\ \A m \in net : PacketIsTrue(m)

\* Every world, snapshot and received input of a node is of its tick and is what was
\* played, and each input is published with one value (fsm_core.lua:29-34,
\* fsm_simulator.lua:51-60, history_buffer.lua:25-45).
HistoriesAreTrue == WorldsAreOfTheirTick /\ ReceivedInputsAreTrue /\ PublishedOnce

\* No node ends in a desync, and every packet reaches back to what its reader lacks
\* (fsm_simulator.lua:117-134, wire_codec.lua:31-32).
StayTogether == NoFatalDesync /\ HistoryReachesPeers

\* A node ends in a desync only where audit_desyncs found one.
DesyncIsFound ==
    \A n \in Node : phase[n] = "desync" =>
        rollback_target[n] = 0 /\ Desynced(n, frames[n])

-----------------------------------------------------------------------------
(* What the players settle implements the one log of AgreedLog.             *)

\* The world a node has settled is of its tick and made of what everybody played.
SettledIsTrue ==
    \A n \in Node : /\ SettledWorld(n) \in Worlds
                    /\ Len(SettledWorld(n)) = SettledTick(n)
                    /\ IsTrue(SettledWorld(n))

SettledLog == INSTANCE AgreedLog WITH settled <- [n \in Node |-> SettledWorld(n)]

\* What a node has settled only grows, and never contradicts what a peer has settled.
ImplementsAgreedLog == SettledLog!Spec
=============================================================================
