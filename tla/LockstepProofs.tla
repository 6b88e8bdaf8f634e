--------------------------- MODULE LockstepProofs ---------------------------
(***************************************************************************)
(* Theorems about Lockstep, for every set of players and every size: the   *)
(* invariant that holds whatever a pump owes, then, from the invariant of  *)
(* LockstepLog, that players whose pumps are steady play one game.         *)
(***************************************************************************)
EXTENDS LockstepLog, SequenceTheorems, TLAPS

-----------------------------------------------------------------------------
(* Operators.                                                               *)

\* Every tick has a slot in the ring.
LEMMA SlotType == ASSUME NEW t \in Int PROVE Slot(t) \in Slots
  BY SizeAssumption, RingAssumption DEF Slot, Slots

\* Later and Earlier stay among the naturals.
LEMMA LaterEarlierType ==
    ASSUME NEW a \in Nat, NEW b \in Nat
    PROVE  /\ Later(a, b) \in Nat /\ Later(a, b) >= a /\ Later(a, b) >= b
           /\ Earlier(a, b) \in Nat /\ Earlier(a, b) <= a /\ Earlier(a, b) <= b
  BY DEF Later, Earlier

\* A zeroed frame is a frame.
LEMMA EmptyFrameType == ASSUME NEW t \in Nat PROVE EmptyFrame(t) \in NetworkFrame
  BY DEF EmptyFrame, NetworkFrame, NoChecksum, Worlds, Commands

\* A slot tagged with a tick holds a frame.
LEMMA TaggedType ==
    ASSUME NEW t \in Nat, NEW f \in NetworkFrame
    PROVE  Tagged(f, t) \in NetworkFrame /\ Tagged(f, t).tick = t
  BY EmptyFrameType DEF Tagged, EmptyFrame

\* Storing one player's command in a frame gives a frame.
LEMMA CommandStoreType ==
    ASSUME NEW f \in NetworkFrame, NEW p \in Node, NEW c \in Commands
    PROVE  [f EXCEPT !.commands[p] = c] \in NetworkFrame
  BY DEF NetworkFrame

\* Predicting the commands of some players gives a frame.
LEMMA PredictType ==
    ASSUME NEW f \in NetworkFrame, NEW g \in NetworkFrame, NEW S
    PROVE  Predict(f, g, S) \in NetworkFrame
  BY DEF Predict, NetworkFrame

\* Simulating a tick gives a world.
LEMMA SimulateTickType ==
    ASSUME NEW w \in Worlds, NEW c \in [Node -> Commands]
    PROVE  SimulateTick(w, c) \in Worlds
  BY DEF SimulateTick, Worlds

-----------------------------------------------------------------------------
(* Type correctness.                                                        *)

\* What the ring returns is a frame.
LEMMA FrameType ==
    ASSUME TypeOK, NEW n \in Node, NEW t \in Int
    PROVE  Frame(n, t) \in NetworkFrame
  BY SlotType DEF TypeOK, Frame

\* integrate and audit_checksum leave a ring of frames.
LEMMA ReceiveRingType ==
    ASSUME TypeOK, NEW n \in Node, NEW m, IsPacket(m)
    PROVE  RecordChecksum(n, m, IntegratedRing(n, m)) \in [Slots -> NetworkFrame]
<1>1. ASSUME NEW t \in Window(n, m) PROVE Integrated(n, m, t) \in NetworkFrame
  <2>1. t \in Nat /\ t \in m.base_tick .. m.frame_tick
    BY DEF Window, IsPacket
  <2>2. m.commands[t] \in Commands /\ m.player_id \in Node
    BY <2>1 DEF IsPacket
  <2>3. Tagged(Frame(n, t), t) \in NetworkFrame
    BY <2>1, FrameType, TaggedType
  <2> QED BY <2>2, <2>3, CommandStoreType DEF Integrated
<1>2. ASSUME NEW s \in Slots PROVE IntegratedRing(n, m)[s] \in NetworkFrame
  <2>1. CASE \E t \in Window(n, m) : Slot(t) = s
    <3> DEFINE u == CHOOSE t \in Window(n, m) : Slot(t) = s
    <3>1. u \in Window(n, m) BY <2>1
    <3>2. IntegratedRing(n, m)[s] = Integrated(n, m, u)
      BY <2>1 DEF IntegratedRing
    <3> QED BY <3>1, <3>2, <1>1
  <2>2. CASE ~ \E t \in Window(n, m) : Slot(t) = s
    BY <2>2 DEF IntegratedRing, TypeOK
  <2> QED BY <2>1, <2>2
<1>3. IntegratedRing(n, m) \in [Slots -> NetworkFrame]
  BY <1>2 DEF IntegratedRing
<1>4. ASSUME NEW ring \in [Slots -> NetworkFrame]
      PROVE  RecordChecksum(n, m, ring) \in [Slots -> NetworkFrame]
  <2>1. m.state_checksum \in Worlds BY DEF IsPacket
  <2>2. ASSUME NEW f \in NetworkFrame
        PROVE  [f EXCEPT !.remote_checksum = m.state_checksum] \in NetworkFrame
    BY <2>1 DEF NetworkFrame
  <2> QED BY <2>2 DEF RecordChecksum
<1> QED BY <1>3, <1>4

\* The rollback target stays a tick.
LEMMA RollbackTargetType ==
    ASSUME TypeOK, NEW n \in Node, NEW m, IsPacket(m),
           NEW t \in RollbackTarget(n, m)
    PROVE  t \in Nat
<1>1. rollback_target[n] \in Nat BY DEF TypeOK
<1>2. m.base_tick .. m.frame_tick \subseteq Nat BY DEF IsPacket
<1>3. Mispredicted(n, m) \subseteq Nat
  BY <1>2 DEF Mispredicted, Window
<1> QED BY <1>1, <1>3 DEF RollbackTarget, Least

\* Types hold in app_ctx as netcode.lua:51-73 fills it.
LEMMA TypeInit == Init => TypeOK
<1> SUFFICES ASSUME Init PROVE TypeOK
  OBVIOUS
<1>1. EmptyFrame(0) \in NetworkFrame BY EmptyFrameType
<1>2. <<>> \in Worlds BY DEF Worlds
<1>3. Idle \in Commands BY DEF Commands
<1> QED BY <1>1, <1>2, <1>3 DEF Init, TypeOK, Phases

\* inject_local_command keeps the types.
LEMMA TypeInject ==
    ASSUME TypeOK, NEW n \in Node, NEW c \in Command, InjectLocalCommand(n, c)
    PROVE  TypeOK'
  BY DEF TypeOK, InjectLocalCommand, clockVars, peerVars, worldVars, controlVars,
         Commands

\* intercept_network keeps the types.
LEMMA TypeReceive ==
    ASSUME TypeOK, NEW n \in Node, NEW m \in net, Receive(n, m)
    PROVE  TypeOK'
<1>1. IsPacket(m) BY DEF TypeOK
<1>2. frames' \in [Node -> [Slots -> NetworkFrame]]
  BY <1>1, ReceiveRingType DEF Receive, TypeOK
<1>3. rollback_target' \in [Node -> Nat]
  BY <1>1, RollbackTargetType DEF Receive, TypeOK
<1>4. m.player_id \in Node /\ m.frame_tick \in Nat /\ m.peer_acks[n] \in Nat
  BY <1>1 DEF IsPacket
<1>5. peer_ack_of_me' \in [Node -> [Node -> Nat]]
  <2>1. Later(peer_ack_of_me[n][m.player_id], m.peer_acks[n]) \in Nat
    BY <1>4, LaterEarlierType DEF TypeOK
  <2>2. peer_ack_of_me' = [peer_ack_of_me EXCEPT ![n][m.player_id] =
                             Later(peer_ack_of_me[n][m.player_id], m.peer_acks[n])]
    BY DEF Receive
  <2> QED BY <1>4, <2>1, <2>2 DEF TypeOK
<1>6. peer_highest_tick' \in [Node -> [Node -> Nat]]
  <2> DEFINE h == IF m.base_tick <= peer_highest_tick[n][m.player_id] + 1
                  THEN Later(peer_highest_tick[n][m.player_id], m.frame_tick)
                  ELSE peer_highest_tick[n][m.player_id]
  <2>1. h \in Nat
    BY <1>4, LaterEarlierType DEF TypeOK
  <2>2. peer_highest_tick' = [peer_highest_tick EXCEPT ![n][m.player_id] = h]
    BY DEF Receive
  <2> HIDE DEF h
  <2> QED BY <1>4, <2>1, <2>2 DEF TypeOK
<1> QED BY <1>2, <1>3, <1>5, <1>6
        DEF TypeOK, Receive, clockVars, worldVars, inputVars, controlVars

\* calculate_horizons keeps the types.
LEMMA TypeStartTicks ==
    ASSUME TypeOK, NEW n \in Node, NEW k \in 1 .. MaxTicksPerPump, StartTicks(n, k)
    PROVE  TypeOK'
<1>1. \A c \in Consensus(n) : c \in Nat
  BY DEF Consensus, Least, TypeOK, Peers, Later
<1>2. confirmed_tick' \in [Node -> Nat]
  BY <1>1, LaterEarlierType DEF StartTicks, TypeOK
<1>3. accumulator' \in [Node -> Nat]
  BY <1>2, SizeAssumption DEF StartTicks, TypeOK
<1>4. /\ tick_before' \in [Node -> Nat]
      /\ phase' \in [Node -> Phases]
  BY DEF StartTicks, TypeOK, Phases
<1> QED BY <1>2, <1>3, <1>4
        DEF TypeOK, StartTicks, peerVars, worldVars, inputVars

\* prepare_frame and PollInput keep the types.
LEMMA TypePrepareFrame ==
    ASSUME TypeOK, NEW n \in Node, PrepareFrame(n)
    PROVE  TypeOK'
<1> DEFINE t == sim_tick_count[n]
           mine == PollInput(n, Tagged(Frame(n, t), t))
<1>1. t \in Nat /\ t - 1 \in Int /\ pending_ui_cmd[n] \in Commands
  BY DEF TypeOK
<1>2. mine \in NetworkFrame
  BY <1>1, FrameType, TaggedType, CommandStoreType DEF PollInput
<1>3. Predict(mine, Frame(n, t - 1), Unheard(n, t)) \in NetworkFrame
  BY <1>1, <1>2, FrameType, PredictType
<1>4. Slot(t) \in Slots BY <1>1, SlotType
<1> HIDE DEF mine
<1>5. frames' \in [Node -> [Slots -> NetworkFrame]]
  BY <1>2, <1>3, <1>4 DEF PrepareFrame, TypeOK, mine
<1> QED BY <1>1, <1>5 DEF TypeOK, PrepareFrame, peerVars, worldVars, Phases, Commands

\* The head of execute_rollback keeps the types.
LEMMA TypeBeginRollback ==
    ASSUME TypeOK, NEW n \in Node, BeginRollback(n)
    PROVE  TypeOK'
<1>1. RestorePoint(n) \in Int BY DEF RestorePoint, TypeOK
<1>2. snapshot_ring[n][Slot(RestorePoint(n))] \in Worlds
  BY <1>1, SlotType DEF TypeOK
<1> QED BY <1>2 DEF TypeOK, BeginRollback, clockVars, peerVars, inputVars, Phases

\* Simulating a frame keeps worlds worlds and frames frames.
LEMMA SimulatedType ==
    ASSUME TypeOK, NEW n \in Node, NEW t \in Int, NEW f \in NetworkFrame,
           Simulated(n, t, f)
    PROVE  /\ rts_grid' \in [Node -> Worlds]
           /\ snapshot_ring' \in [Node -> [Slots -> Worlds]]
           /\ frames' \in [Node -> [Slots -> NetworkFrame]]
<1> DEFINE world == SimulateTick(rts_grid[n], f.commands)
           g == [f EXCEPT !.state_checksum = world]
<1>1. world \in Worlds
  BY SimulateTickType DEF TypeOK, NetworkFrame
<1>2. Slot(t) \in Slots BY SlotType
<1> HIDE DEF world
<1>3. g \in NetworkFrame BY <1>1 DEF NetworkFrame
<1> HIDE DEF g
<1>4. /\ rts_grid' = [rts_grid EXCEPT ![n] = world]
      /\ snapshot_ring' = [snapshot_ring EXCEPT ![n][Slot(t)] = world]
      /\ frames' = [frames EXCEPT ![n][Slot(t)] = g]
  BY DEF Simulated, world, g
<1> QED BY <1>1, <1>2, <1>3, <1>4 DEF TypeOK

\* An iteration of execute_rollback keeps the types.
LEMMA TypeResimulateTick ==
    ASSUME TypeOK, NEW n \in Node, ResimulateTick(n)
    PROVE  TypeOK'
<1> DEFINE t == cursor[n]
           f == Predict(Frame(n, t), Frame(n, t - 1), Unheard(n, t))
<1>1. t \in Nat /\ t \in Int /\ t - 1 \in Int BY DEF TypeOK
<1>2. f \in NetworkFrame BY <1>1, FrameType, PredictType
<1>3. Simulated(n, t, f) BY DEF ResimulateTick, NoLongerActive
<1> HIDE DEF f
<1>4. /\ rts_grid' \in [Node -> Worlds]
      /\ snapshot_ring' \in [Node -> [Slots -> Worlds]]
      /\ frames' \in [Node -> [Slots -> NetworkFrame]]
  BY <1>1, <1>2, <1>3, SimulatedType
<1>5. /\ IF t = sim_tick_count[n] - 1
         THEN /\ rollback_target' = [rollback_target EXCEPT ![n] = 0]
              /\ phase' = [phase EXCEPT ![n] = "simulate"]
              /\ cursor' = [cursor EXCEPT ![n] = 0]
         ELSE /\ cursor' = [cursor EXCEPT ![n] = t + 1]
              /\ UNCHANGED <<rollback_target, phase>>
  BY DEF ResimulateTick, NoLongerActive
<1>6. phase' \in [Node -> Phases]
  BY <1>5 DEF TypeOK, Phases
<1>7. cursor \in [Node -> Nat] /\ rollback_target \in [Node -> Nat]
  BY DEF TypeOK
<1>8. cursor' \in [Node -> Nat]
  BY <1>1, <1>5, <1>7
<1>9. rollback_target' \in [Node -> Nat]
  BY <1>5, <1>7
<1>10. UNCHANGED <<clockVars, peerVars, inputVars, accumulator, tick_before, net>>
  BY DEF ResimulateTick, NoLongerActive
<1> QED BY <1>4, <1>10, <1>6, <1>8, <1>9 DEF TypeOK, clockVars, peerVars, inputVars

\* simulate_forward and audit_desyncs keep the types.
LEMMA TypeSimulateForward ==
    ASSUME TypeOK, NEW n \in Node, SimulateForward(n), accumulator[n] > 0
    PROVE  TypeOK'
<1> DEFINE t == sim_tick_count[n]
<1>1. t \in Nat \ {0} /\ t \in Int BY DEF TypeOK
<1>2. /\ rts_grid' \in [Node -> Worlds]
      /\ snapshot_ring' \in [Node -> [Slots -> Worlds]]
      /\ frames' \in [Node -> [Slots -> NetworkFrame]]
  <2>1. CASE MayAdvance(n)
    <3>1. Simulated(n, t, Frame(n, t)) BY <2>1 DEF SimulateForward
    <3> QED BY <1>1, <3>1, FrameType, SimulatedType
  <2>2. CASE ~ MayAdvance(n)
    BY <2>2 DEF SimulateForward, TypeOK
  <2> QED BY <2>1, <2>2
<1>3. sim_tick_count' \in [Node -> Nat \ {0}]
  BY <1>1 DEF SimulateForward, TypeOK
<1>4. phase' \in [Node -> Phases]
  BY DEF SimulateForward, TypeOK, Phases
<1>5. accumulator' \in [Node -> Nat]
  BY DEF SimulateForward, TypeOK
<1>6. UNCHANGED <<confirmed_tick, head_tick, rollback_target, peerVars,
                  inputVars, tick_before, cursor, net>>
  BY DEF SimulateForward
<1> QED BY <1>2, <1>3, <1>4, <1>5, <1>6 DEF TypeOK, peerVars, inputVars

\* What build_outbound builds is a packet.
LEMMA PacketType ==
    ASSUME TypeOK, NEW n \in Node
    PROVE  IsPacket(Packet(n))
<1> DEFINE tick == PacketTick(n)
           base == BaseTick(tick)
           cmds == [t \in base .. tick |-> Frame(n, t).commands[n]]
<1>1. tick \in Nat BY DEF PacketTick, TypeOK
<1>2. base \in Nat
  BY <1>1, SizeAssumption DEF BaseTick, Later, HistoryHorizon
<1>3. cmds \in [base .. tick -> Commands]
  <2>1. ASSUME NEW t \in base .. tick PROVE Frame(n, t).commands[n] \in Commands
    <3>1. Frame(n, t) \in NetworkFrame BY <1>1, <1>2, FrameType
    <3> QED BY <3>1 DEF NetworkFrame
  <2> QED BY <2>1
<1>4. /\ confirmed_tick[n] \in Nat
      /\ Frame(n, confirmed_tick[n]).state_checksum \in Worlds
  <2>1. confirmed_tick[n] \in Nat BY DEF TypeOK
  <2>2. Frame(n, confirmed_tick[n]) \in NetworkFrame BY <2>1, FrameType
  <2> QED BY <2>1, <2>2 DEF NetworkFrame
<1>5. NoChecksum \in Worlds BY DEF NoChecksum, Worlds
<1>6. peer_highest_tick[n] \in [Node -> Nat] BY DEF TypeOK
<1> HIDE DEF tick, base, cmds
<1> DEFINE ct == IF rollback_target[n] = 0 THEN confirmed_tick[n] ELSE 0
           sc == IF rollback_target[n] = 0
                 THEN Frame(n, confirmed_tick[n]).state_checksum ELSE NoChecksum
<1>7. ct \in Nat /\ sc \in Worlds BY <1>4, <1>5
<1>8. Packet(n) = [player_id |-> n, frame_tick |-> tick, base_tick |-> base,
                   commands |-> cmds, checksum_tick |-> ct, state_checksum |-> sc,
                   peer_acks |-> peer_highest_tick[n]]
  BY DEF Packet, tick, base, cmds
<1> HIDE DEF ct, sc
<1> QED BY <1>1, <1>2, <1>3, <1>6, <1>7, <1>8 DEF IsPacket

\* send_dynamic_history keeps the types, also those of the wire.
LEMMA TypeFlushNetwork ==
    ASSUME TypeOK, NEW n \in Node, FlushNetwork(n)
    PROVE  TypeOK'
<1>1. \A m \in net' : IsPacket(m)
  BY PacketType DEF FlushNetwork, TypeOK
<1> QED BY <1>1 DEF TypeOK, FlushNetwork, clockVars, peerVars, worldVars,
                    inputVars, Phases

\* Every step keeps the types, given that a tick is paid for before it is made.
LEMMA TypeStep == TypeOK /\ PumpInv /\ [Next]_vars => TypeOK'
<1> SUFFICES ASSUME TypeOK, PumpInv, [Next]_vars PROVE TypeOK'
  OBVIOUS
<1>1. CASE UNCHANGED vars
  BY <1>1 DEF TypeOK, vars, clockVars, peerVars, worldVars, inputVars, controlVars
<1>2. ASSUME NEW n \in Node, NEW c \in Command, InjectLocalCommand(n, c)
      PROVE  TypeOK'
  BY <1>2, TypeInject
<1>3. ASSUME NEW n \in Node, NEW m \in net, Receive(n, m) PROVE TypeOK'
  BY <1>3, TypeReceive
<1>4. ASSUME NEW n \in Node, Tick(n) PROVE TypeOK'
  <2>1. ASSUME NEW k \in 1 .. MaxTicksPerPump, StartTicks(n, k) PROVE TypeOK'
    BY <2>1, TypeStartTicks
  <2>2. CASE PrepareFrame(n)    BY <2>2, TypePrepareFrame
  <2>3. CASE BeginRollback(n)   BY <2>3, TypeBeginRollback
  <2>4. CASE ResimulateTick(n)  BY <2>4, TypeResimulateTick
  <2>5. CASE SimulateForward(n)
    <3>1. accumulator[n] > 0 BY <2>5 DEF SimulateForward, PumpInv
    <3> QED BY <2>5, <3>1, TypeSimulateForward
  <2>6. CASE FlushNetwork(n)    BY <2>6, TypeFlushNetwork
  <2> QED BY <1>4, <2>1, <2>2, <2>3, <2>4, <2>5, <2>6 DEF Tick
<1> QED BY <1>1, <1>2, <1>3, <1>4 DEF Next

-----------------------------------------------------------------------------
(* The inductive step, one lemma per action.                                *)

\* The inductive invariant holds at the start of a match.
LEMMA InvInit == Init => InductiveInv
<1> SUFFICES ASSUME Init PROVE InductiveInv
  OBVIOUS
<1>1. TypeOK BY TypeInit
<1>2. PumpInv /\ RollbackInv /\ RollbackInReach
  BY DEF Init, PumpInv, RollbackInv, RollbackInReach
<1>3. LookaheadBound BY SizeAssumption DEF Init, LookaheadBound
<1>4. DriftInv BY DEF Init, DriftInv, Peers
<1> QED BY <1>1, <1>2, <1>3, <1>4 DEF InductiveInv

\* A click touches none of what the invariant relates.
LEMMA InvInject ==
    ASSUME InductiveInv, NEW n \in Node, NEW c \in Command, InjectLocalCommand(n, c)
    PROVE  /\ PumpInv' /\ LookaheadBound' /\ RollbackInv'
           /\ RollbackInReach' /\ DriftInv'
<1>1. UNCHANGED <<sim_tick_count, confirmed_tick, head_tick, rollback_target,
                  peer_highest_tick, phase, accumulator, net>>
  BY DEF InjectLocalCommand, clockVars, peerVars, controlVars
<1> QED BY <1>1 DEF InductiveInv, PumpInv, LookaheadBound, RollbackInv,
                    RollbackInReach, DriftInv

\* What a packet adds to what is known of its sender: never beyond its frame.
LEMMA InvReceive ==
    ASSUME InductiveInv, NEW n \in Node, NEW m \in net, Receive(n, m)
    PROVE  /\ PumpInv' /\ LookaheadBound' /\ RollbackInv'
           /\ RollbackInReach' /\ DriftInv'
<1> DEFINE q == m.player_id
<1>1. UNCHANGED <<sim_tick_count, confirmed_tick, head_tick, phase, accumulator, net>>
  BY DEF Receive, clockVars, controlVars
<1>2. /\ phase[n] = "idle" /\ q \in Peers(n) /\ IsPacket(m)
      /\ TypeOK
  BY DEF Receive, InductiveInv, TypeOK
<1>3. LookaheadBound' /\ RollbackInReach'
  BY <1>1 DEF InductiveInv, LookaheadBound, RollbackInReach
<1>4. PICK t \in RollbackTarget(n, m) :
           rollback_target' = [rollback_target EXCEPT ![n] = t]
  BY DEF Receive
<1>5. /\ rollback_target \in [Node -> Nat]
      /\ sim_tick_count \in [Node -> Nat \ {0}]
      /\ confirmed_tick \in [Node -> Nat]
      /\ peer_highest_tick \in [Node -> [Node -> Nat]]
      /\ head_tick \in [Node -> Nat]
  BY <1>2 DEF TypeOK
<1>6. PumpInv'
  BY <1>1, <1>2, <1>4, <1>5 DEF InductiveInv, PumpInv
<1>7. RollbackInv'
  <2>1. ASSUME NEW u \in Mispredicted(n, m)
        PROVE  /\ u < sim_tick_count[n]
               /\ sim_tick_count[n] - u <= LookaheadCap
    <3>1. u \in Nat /\ u < sim_tick_count[n] /\ u > confirmed_tick[n]
      BY <1>2 DEF Mispredicted, Window, IsPacket
    <3>2. sim_tick_count[n] <= confirmed_tick[n] + LookaheadCap + 1
      BY DEF InductiveInv, LookaheadBound
    <3> QED BY <1>5, <3>1, <3>2, SizeAssumption
  <2>2. t # 0 => t \in Mispredicted(n, m) \/ (t = rollback_target[n])
    BY <1>4 DEF RollbackTarget, Least
  <2>3. t # 0 => t < sim_tick_count[n] /\ sim_tick_count[n] - t <= LookaheadCap
    BY <2>1, <2>2 DEF InductiveInv, RollbackInv
  <2> QED BY <1>1, <1>4, <1>5, <2>3 DEF InductiveInv, RollbackInv
<1>8. DriftInv'
  <2>1. m.frame_tick <= head_tick[q] /\ m.frame_tick \in Nat /\ q \in Node /\ q # n
    BY <1>2 DEF InductiveInv, DriftInv, Peers, IsPacket
  <2> DEFINE h == IF m.base_tick <= peer_highest_tick[n][q] + 1
                  THEN Later(peer_highest_tick[n][q], m.frame_tick)
                  ELSE peer_highest_tick[n][q]
  <2>2. peer_highest_tick' = [peer_highest_tick EXCEPT ![n][q] = h]
    BY DEF Receive
  <2>3. peer_highest_tick[n][q] <= h /\ h <= head_tick[q] /\ h \in Nat
    BY <1>2, <1>5, <2>1 DEF InductiveInv, DriftInv, Later
  <2> HIDE DEF h
  <2>4. ASSUME NEW a \in Node, NEW b \in Peers(a)
        PROVE  /\ confirmed_tick[a] <= peer_highest_tick'[a][b]
               /\ peer_highest_tick'[a][b] <= head_tick[b]
    <3>1. /\ confirmed_tick[a] <= peer_highest_tick[a][b]
          /\ peer_highest_tick[a][b] <= head_tick[b]
          /\ b \in Node
      BY DEF InductiveInv, DriftInv, Peers
    <3>2. CASE a = n /\ b = q
      BY <1>5, <2>1, <2>2, <2>3, <3>1, <3>2
    <3>3. CASE ~ (a = n /\ b = q)
      BY <1>5, <2>1, <2>2, <3>1, <3>3
    <3> QED BY <3>2, <3>3
  <2> QED BY <1>1, <2>4 DEF InductiveInv, DriftInv, Peers
<1> QED BY <1>3, <1>6, <1>7, <1>8

\* Confirming moves the confirmed tick towards what every peer has delivered,
\* and only brings the caps closer.
LEMMA InvStartTicks ==
    ASSUME InductiveInv, NEW n \in Node, NEW k \in 1 .. MaxTicksPerPump, StartTicks(n, k)
    PROVE  /\ PumpInv' /\ LookaheadBound' /\ RollbackInv'
           /\ RollbackInReach' /\ DriftInv'
<1>1. /\ UNCHANGED <<sim_tick_count, head_tick, rollback_target,
                     peer_highest_tick, net>>
      /\ phase' = [phase EXCEPT ![n] = "loop"]
      /\ \A p \in Node : p # n => accumulator'[p] = accumulator[p]
  BY DEF StartTicks, peerVars, InductiveInv, TypeOK
<1>2. /\ rollback_target \in [Node -> Nat]
      /\ sim_tick_count \in [Node -> Nat \ {0}]
      /\ confirmed_tick \in [Node -> Nat]
      /\ peer_highest_tick \in [Node -> [Node -> Nat]]
      /\ phase \in [Node -> Phases]
  BY DEF InductiveInv, TypeOK
<1>3. PICK c \in Consensus(n) :
           confirmed_tick' = [confirmed_tick EXCEPT ![n] = Later(confirmed_tick[n], c)]
  BY DEF StartTicks
<1>4. /\ c \in Nat /\ c <= sim_tick_count[n] - 1
      /\ \A p \in Peers(n) : c <= peer_highest_tick[n][p]
  <2> DEFINE S == {peer_highest_tick[n][p] : p \in Peers(n)}
                  \cup {Later(0, sim_tick_count[n] - 1)}
  <2>1. c \in S /\ \A y \in S : c <= y
    BY DEF Consensus, Least
  <2>2. sim_tick_count[n] \in Nat /\ sim_tick_count[n] # 0
    BY <1>2
  <2>3. Later(0, sim_tick_count[n] - 1) = sim_tick_count[n] - 1
    BY <2>2 DEF Later
  <2>4. /\ \A p \in Peers(n) : peer_highest_tick[n][p] \in Nat
        /\ sim_tick_count[n] - 1 \in Nat
    BY <1>2, <2>2 DEF Peers
  <2>5. S \subseteq Nat
    BY <2>3, <2>4
  <2>6. sim_tick_count[n] - 1 \in S
    BY <2>3
  <2>7. \A p \in Peers(n) : peer_highest_tick[n][p] \in S
    OBVIOUS
  <2> QED BY <2>1, <2>5, <2>6, <2>7
<1>5. PumpInv'
  BY <1>1, <1>2 DEF InductiveInv, PumpInv
<1>6. RollbackInv' /\ RollbackInReach'
  BY <1>1, <1>2 DEF InductiveInv, RollbackInv, RollbackInReach
<1>7. LookaheadBound'
  <2>1. /\ confirmed_tick[n] < sim_tick_count[n]
        /\ sim_tick_count[n] <= confirmed_tick[n] + LookaheadCap + 1
    BY DEF InductiveInv, LookaheadBound
  <2>2. /\ Later(confirmed_tick[n], c) \in Nat
        /\ Later(confirmed_tick[n], c) < sim_tick_count[n]
        /\ Later(confirmed_tick[n], c) >= confirmed_tick[n]
    BY <1>2, <1>4, <2>1 DEF Later
  <2>3. sim_tick_count[n] <= Later(confirmed_tick[n], c) + LookaheadCap + 1
    BY <1>2, <2>1, <2>2, SizeAssumption
  <2> QED BY <1>1, <1>2, <1>3, <2>2, <2>3 DEF InductiveInv, LookaheadBound
<1>8. DriftInv'
  <2>1. \A p \in Peers(n) : Later(confirmed_tick[n], c) <= peer_highest_tick[n][p]
    BY <1>2, <1>4 DEF Later, InductiveInv, DriftInv
  <2>2. \A a \in Node : \A p \in Peers(a) :
            confirmed_tick'[a] <= peer_highest_tick[a][p]
    BY <1>2, <1>3, <2>1 DEF InductiveInv, DriftInv
  <2> QED BY <1>1, <2>2 DEF InductiveInv, DriftInv
<1> QED BY <1>5, <1>6, <1>7, <1>8

\* The head is the tick being simulated.
LEMMA InvPrepareFrame ==
    ASSUME InductiveInv, NEW n \in Node, PrepareFrame(n)
    PROVE  /\ PumpInv' /\ LookaheadBound' /\ RollbackInv'
           /\ RollbackInReach' /\ DriftInv'
<1>1. /\ UNCHANGED <<sim_tick_count, confirmed_tick, rollback_target,
                     peer_highest_tick, accumulator, net>>
      /\ accumulator[n] > 0
      /\ head_tick' = [head_tick EXCEPT ![n] = sim_tick_count[n]]
      /\ phase' = [phase EXCEPT ![n] =
                     IF rollback_target[n] # 0 THEN "rollback" ELSE "simulate"]
  BY DEF PrepareFrame, peerVars
<1>2. /\ sim_tick_count \in [Node -> Nat \ {0}]
      /\ head_tick \in [Node -> Nat]
      /\ peer_highest_tick \in [Node -> [Node -> Nat]]
      /\ phase \in [Node -> Phases]
      /\ \A m \in net : m.player_id \in Node /\ m.frame_tick \in Nat
  BY DEF InductiveInv, TypeOK, IsPacket
<1>3. PumpInv'
  BY <1>1, <1>2 DEF InductiveInv, PumpInv
<1>4. LookaheadBound' /\ RollbackInv' /\ RollbackInReach'
  BY <1>1, <1>2 DEF InductiveInv, LookaheadBound, RollbackInv, RollbackInReach
<1>5. DriftInv'
  <2>1. \A p \in Node : head_tick'[p] \in Nat /\ head_tick[p] <= head_tick'[p]
    BY <1>1, <1>2 DEF InductiveInv, DriftInv
  <2>2. \A p \in Node : head_tick'[p] <= sim_tick_count[p]
    BY <1>1, <1>2 DEF InductiveInv, DriftInv
  <2>3. \A m \in net : m.frame_tick <= head_tick'[m.player_id]
    BY <1>2, <2>1 DEF InductiveInv, DriftInv
  <2>4. \A a \in Node : \A p \in Peers(a) : peer_highest_tick[a][p] <= head_tick'[p]
    BY <1>2, <2>1 DEF InductiveInv, DriftInv, Peers
  <2> QED BY <1>1, <2>2, <2>3, <2>4 DEF InductiveInv, DriftInv
<1> QED BY <1>3, <1>4, <1>5

\* The rollback target is never out of reach: it is at most LookaheadCap back.
LEMMA InvBeginRollback ==
    ASSUME InductiveInv, NEW n \in Node, BeginRollback(n)
    PROVE  /\ PumpInv' /\ LookaheadBound' /\ RollbackInv'
           /\ RollbackInReach' /\ DriftInv'
<1>1. /\ UNCHANGED <<sim_tick_count, confirmed_tick, head_tick, rollback_target,
                     peer_highest_tick, accumulator, net>>
      /\ phase[n] = "rollback"
  BY DEF BeginRollback, clockVars, peerVars
<1>2. ~ OutOfReach(n)
  <2>1. /\ rollback_target[n] # 0
        /\ sim_tick_count[n] - rollback_target[n] <= LookaheadCap
    BY <1>1 DEF InductiveInv, PumpInv, RollbackInv
  <2>2. rollback_target[n] \in Nat /\ sim_tick_count[n] \in Nat
    BY DEF InductiveInv, TypeOK
  <2> QED BY <2>1, <2>2, SizeAssumption, RingAssumption
          DEF OutOfReach, LocalHorizon
<1>3. phase' = [phase EXCEPT ![n] = "resimulate"]
  BY <1>2 DEF BeginRollback
<1>4. phase \in [Node -> Phases] BY DEF InductiveInv, TypeOK
<1> QED BY <1>1, <1>3, <1>4 DEF InductiveInv, PumpInv, LookaheadBound,
                                RollbackInv, RollbackInReach, DriftInv

\* The loop of a rollback ends with nothing left to undo.
LEMMA InvResimulateTick ==
    ASSUME InductiveInv, NEW n \in Node, ResimulateTick(n)
    PROVE  /\ PumpInv' /\ LookaheadBound' /\ RollbackInv'
           /\ RollbackInReach' /\ DriftInv'
<1>1. /\ UNCHANGED <<sim_tick_count, confirmed_tick, head_tick,
                     peer_highest_tick, accumulator, net>>
      /\ phase[n] = "resimulate"
      /\ \/ /\ rollback_target' = [rollback_target EXCEPT ![n] = 0]
            /\ phase' = [phase EXCEPT ![n] = "simulate"]
         \/ UNCHANGED <<rollback_target, phase>>
  BY DEF ResimulateTick, NoLongerActive, clockVars, peerVars
<1>2. /\ phase \in [Node -> Phases]
      /\ rollback_target \in [Node -> Nat]
  BY DEF InductiveInv, TypeOK
<1> QED BY <1>1, <1>2 DEF InductiveInv, PumpInv, LookaheadBound,
                          RollbackInv, RollbackInReach, DriftInv

\* The guard of simulate_forward keeps the node within the cap.
LEMMA InvSimulateForward ==
    ASSUME InductiveInv, NEW n \in Node, SimulateForward(n)
    PROVE  /\ PumpInv' /\ LookaheadBound' /\ RollbackInv'
           /\ RollbackInReach' /\ DriftInv'
<1>1. /\ UNCHANGED <<confirmed_tick, head_tick, rollback_target,
                     peer_highest_tick, net>>
      /\ phase[n] = "simulate"
      /\ accumulator' = [accumulator EXCEPT ![n] = accumulator[n] - 1]
  BY DEF SimulateForward, peerVars
<1>2. /\ phase \in [Node -> Phases]
      /\ accumulator \in [Node -> Nat]
      /\ sim_tick_count \in [Node -> Nat \ {0}]
      /\ confirmed_tick \in [Node -> Nat]
      /\ head_tick \in [Node -> Nat]
      /\ rollback_target \in [Node -> Nat]
  BY DEF InductiveInv, TypeOK
<1>3. \E x \in {"desync", "loop"} : phase' = [phase EXCEPT ![n] = x]
  BY DEF SimulateForward
<1>4. \/ sim_tick_count' = sim_tick_count
      \/ /\ MayAdvance(n)
         /\ sim_tick_count' = [sim_tick_count EXCEPT ![n] = sim_tick_count[n] + 1]
  BY DEF SimulateForward
<1>5. rollback_target[n] = 0 BY <1>1 DEF InductiveInv, PumpInv
<1>6. PumpInv' /\ RollbackInReach'
  BY <1>1, <1>2, <1>3 DEF InductiveInv, PumpInv, RollbackInReach
<1>7. LookaheadBound'
  BY <1>1, <1>2, <1>4, SizeAssumption DEF InductiveInv, LookaheadBound, MayAdvance
<1>8. RollbackInv'
  BY <1>1, <1>2, <1>4, <1>5 DEF InductiveInv, RollbackInv
<1>9. DriftInv'
  BY <1>1, <1>2, <1>4 DEF InductiveInv, DriftInv
<1> QED BY <1>6, <1>7, <1>8, <1>9

\* A packet sent carries the head of its sender.
LEMMA InvFlushNetwork ==
    ASSUME InductiveInv, NEW n \in Node, FlushNetwork(n)
    PROVE  /\ PumpInv' /\ LookaheadBound' /\ RollbackInv'
           /\ RollbackInReach' /\ DriftInv'
<1>1. /\ UNCHANGED <<sim_tick_count, confirmed_tick, head_tick, rollback_target,
                     peer_highest_tick, accumulator>>
      /\ phase' = [phase EXCEPT ![n] = "idle"]
      /\ net' \subseteq net \cup {Packet(n)}
  BY DEF FlushNetwork, clockVars, peerVars
<1>2. phase \in [Node -> Phases] /\ head_tick \in [Node -> Nat]
  BY DEF InductiveInv, TypeOK
<1>3. Packet(n).player_id = n /\ Packet(n).frame_tick = head_tick[n]
  BY DEF Packet, PacketTick
<1>4. \A m \in net' : m.frame_tick <= head_tick[m.player_id]
  BY <1>1, <1>2, <1>3 DEF InductiveInv, DriftInv
<1>5. DriftInv'
  BY <1>1, <1>4 DEF InductiveInv, DriftInv
<1>6. PumpInv' /\ RollbackInReach'
  BY <1>1, <1>2 DEF InductiveInv, PumpInv, RollbackInReach
<1> QED BY <1>1, <1>5, <1>6 DEF InductiveInv, LookaheadBound, RollbackInv

\* Every step keeps the inductive invariant.
LEMMA InvStep == InductiveInv /\ [Next]_vars => InductiveInv'
<1> SUFFICES ASSUME InductiveInv, [Next]_vars PROVE InductiveInv'
  OBVIOUS
<1>1. TypeOK' BY TypeStep DEF InductiveInv
<1> DEFINE Rest == /\ PumpInv /\ LookaheadBound /\ RollbackInv
                   /\ RollbackInReach /\ DriftInv
<1>2. CASE UNCHANGED vars
  BY <1>2, <1>1 DEF vars, clockVars, peerVars, controlVars, InductiveInv, PumpInv,
              LookaheadBound, RollbackInv, RollbackInReach, DriftInv
<1>3. ASSUME NEW n \in Node, NEW c \in Command, InjectLocalCommand(n, c)
      PROVE  Rest'
  BY <1>3, InvInject
<1>4. ASSUME NEW n \in Node, NEW m \in net, Receive(n, m) PROVE Rest'
  BY <1>4, InvReceive
<1>5. ASSUME NEW n \in Node, Tick(n) PROVE Rest'
  <2>1. ASSUME NEW k \in 1 .. MaxTicksPerPump, StartTicks(n, k) PROVE Rest'
    BY <2>1, InvStartTicks
  <2>2. CASE PrepareFrame(n)     BY <2>2, InvPrepareFrame
  <2>3. CASE BeginRollback(n)    BY <2>3, InvBeginRollback
  <2>4. CASE ResimulateTick(n)   BY <2>4, InvResimulateTick
  <2>5. CASE SimulateForward(n)  BY <2>5, InvSimulateForward
  <2>6. CASE FlushNetwork(n)     BY <2>6, InvFlushNetwork
  <2> HIDE DEF Rest
  <2> QED BY <1>5, <2>1, <2>2, <2>3, <2>4, <2>5, <2>6 DEF Tick
<1>6. CASE Next
  <2> HIDE DEF Rest
  <2>1. Rest' BY <1>6, <1>3, <1>4, <1>5 DEF Next
  <2> USE DEF Rest
  <2> QED BY <1>1, <2>1 DEF InductiveInv
<1> QED BY <1>2, <1>6

-----------------------------------------------------------------------------
(* The theorems.                                                            *)

\* The inductive invariant holds of every execution.
THEOREM Invariance == Spec => []InductiveInv
  BY InvInit, InvStep, PTL DEF Spec

\* Every variable keeps its type, and so does every packet on the wire.
THEOREM TypeCorrect == Spec => []TypeOK
<1>1. InductiveInv => TypeOK BY DEF InductiveInv
<1> QED BY <1>1, Invariance, PTL

\* However many ticks a pump owes and however packets are lost, repeated and
\* reordered, a node stays within the cap of what it has confirmed, and
\* confirms only what it has simulated.
THEOREM LookaheadSafe == Spec => []LookaheadBound
<1>1. InductiveInv => LookaheadBound BY DEF InductiveInv
<1> QED BY <1>1, Invariance, PTL

\* The fatal exit of execute_rollback is dead code.
THEOREM RollbackSafe == Spec => []RollbackInReach
<1>1. InductiveInv => RollbackInReach BY DEF InductiveInv
<1> QED BY <1>1, Invariance, PTL

\* A ring of 2 * LookaheadCap + 3 frames is enough: no packet that is not
\* skipped reaches past the window of integrate.
THEOREM RingSafe == Spec => []PacketsFitRing
<1>1. ASSUME InductiveInv PROVE PacketsFitRing
  <2> SUFFICES ASSUME NEW n \in Node, NEW m \in net, m.player_id # n
               PROVE  m.frame_tick <= confirmed_tick[n] + RingSize - 1
    BY DEF PacketsFitRing
  <2> DEFINE p == m.player_id
  <2>1. /\ p \in Node /\ m.frame_tick \in Nat
        /\ p \in Peers(n) /\ n \in Peers(p)
    BY <1>1 DEF InductiveInv, TypeOK, IsPacket, Peers
  <2>2. /\ confirmed_tick[n] \in Nat /\ confirmed_tick[p] \in Nat
        /\ sim_tick_count[n] \in Nat /\ sim_tick_count[p] \in Nat
        /\ head_tick[n] \in Nat /\ head_tick[p] \in Nat
        /\ peer_highest_tick[p][n] \in Nat
    BY <1>1, <2>1 DEF InductiveInv, TypeOK
  <2>3. m.frame_tick <= head_tick[p] /\ head_tick[p] <= sim_tick_count[p]
    BY <1>1, <2>1 DEF InductiveInv, DriftInv
  <2>4. sim_tick_count[p] <= confirmed_tick[p] + LookaheadCap + 1
    BY <1>1, <2>1 DEF InductiveInv, LookaheadBound
  <2>5. /\ confirmed_tick[p] <= peer_highest_tick[p][n]
        /\ peer_highest_tick[p][n] <= head_tick[n]
        /\ head_tick[n] <= sim_tick_count[n]
    BY <1>1, <2>1 DEF InductiveInv, DriftInv
  <2>6. sim_tick_count[n] <= confirmed_tick[n] + LookaheadCap + 1
    BY <1>1 DEF InductiveInv, LookaheadBound
  <2> HIDE DEF p
  <2> QED BY <2>1, <2>2, <2>3, <2>4, <2>5, <2>6, SizeAssumption, RingAssumption
<1> QED BY <1>1, Invariance, PTL

-----------------------------------------------------------------------------
(* Slots of the ring.                                                       *)

LEMMA DivMod ==
    ASSUME NEW N \in Nat \ {0}, NEW x \in Int
    PROVE  x = N * (x \div N) + (x % N) /\ x \div N \in Int /\ x % N \in 0 .. N - 1
  BY SMTT(30)

\* Two ticks less than a ring apart do not share a slot.
LEMMA SlotInjective ==
    ASSUME NEW a \in Int, NEW b \in Int,
           Slot(a) = Slot(b), a - b < RingSize, b - a < RingSize
    PROVE  a = b
<1> DEFINE q == a \div RingSize
           p == b \div RingSize
           m == a % RingSize
           d == RingSize * q
           e == RingSize * p
<1>1. RingSize \in Nat \ {0}
  BY SizeAssumption, RingAssumption
<1>2. q \in Int /\ p \in Int /\ m \in Int /\ a = d + m /\ b = e + m
  BY <1>1, DivMod DEF Slot
<1>3. d \in Int /\ e \in Int /\ d - e = RingSize * (q - p)
  BY <1>1, <1>2
<1>4. /\ \A k \in Int : k >= 1 => RingSize * k >= RingSize
      /\ \A k \in Int : k <= -1 => RingSize * k <= 0 - RingSize
  BY <1>1
<1> HIDE DEF q, p, m, d, e
<1>5. a - b = RingSize * (q - p)
  BY <1>2, <1>3
<1>6. q - p = 0
  BY <1>1, <1>2, <1>4, <1>5
<1>7. RingSize * 0 = 0
  BY <1>1
<1> QED BY <1>2, <1>5, <1>6, <1>7

\* The tick a ring earlier has the same slot.
LEMMA SlotBack == ASSUME NEW a \in Int PROVE Slot(a - RingSize) = Slot(a)
<1> DEFINE q == a \div RingSize
           m == a % RingSize
           d == RingSize * q
<1>1. RingSize \in Nat \ {0}
  BY SizeAssumption, RingAssumption
<1>2. q \in Int /\ m \in 0 .. RingSize - 1 /\ a = d + m
  BY <1>1, DivMod
<1>3. d \in Int /\ d - RingSize = RingSize * (q - 1)
  BY <1>1, <1>2
<1>4. m = Slot(a)
  BY DEF Slot
<1> HIDE DEF q, m, d
<1>5. q - 1 \in Int /\ a - RingSize = RingSize * (q - 1) + m
  BY <1>1, <1>2, <1>3
<1>6. \A k \in Int : (RingSize * k + m) % RingSize = m
  BY <1>1, <1>2
<1> QED BY <1>4, <1>5, <1>6 DEF Slot

-----------------------------------------------------------------------------
(* Numbers that the invariants relate.                                      *)

\* Where a node is, as numbers.
LEMMA TickBounds ==
    ASSUME InductiveInv, NEW n \in Node
    PROVE  /\ sim_tick_count[n] \in Nat \ {0} /\ confirmed_tick[n] \in Nat
           /\ head_tick[n] \in Nat /\ rollback_target[n] \in Nat
           /\ accumulator[n] \in Nat /\ tick_before[n] \in Nat /\ cursor[n] \in Nat
           /\ confirmed_tick[n] < sim_tick_count[n]
           /\ sim_tick_count[n] <= confirmed_tick[n] + LookaheadCap + 1
           /\ head_tick[n] <= sim_tick_count[n]
           /\ rollback_target[n] # 0 =>
                /\ rollback_target[n] < sim_tick_count[n]
                /\ sim_tick_count[n] - rollback_target[n] <= LookaheadCap
           /\ LookaheadCap \in Nat \ {0} /\ RingSize \in Nat
           /\ RingSize >= 2 * LookaheadCap + 3
  BY SizeAssumption, RingAssumption
     DEF InductiveInv, TypeOK, LookaheadBound, DriftInv, RollbackInv

\* What a node has heard of a peer.
LEMMA HeardBounds ==
    ASSUME InductiveInv, NEW n \in Node, PeersAreKnown(n), NEW p \in Peers(n)
    PROVE  /\ p \in Node /\ n \in Peers(p) /\ p # n
           /\ peer_highest_tick[n][p] \in Nat /\ peer_ack_of_me[n][p] \in Nat
           /\ confirmed_tick[n] <= peer_highest_tick[n][p]
           /\ peer_highest_tick[n][p] < sim_tick_count[p]
           /\ peer_highest_tick[n][p] <= sim_tick_count[n] + LookaheadCap
<1>1. p \in Node /\ n \in Peers(p) /\ p # n
  BY DEF Peers
<1>2. /\ peer_highest_tick[n][p] \in Nat /\ peer_ack_of_me[n][p] \in Nat
      /\ peer_highest_tick[p][n] \in Nat
  BY <1>1 DEF InductiveInv, TypeOK
<1>3. /\ confirmed_tick[n] <= peer_highest_tick[n][p]
      /\ confirmed_tick[p] <= peer_highest_tick[p][n]
      /\ peer_highest_tick[p][n] <= head_tick[n]
  BY <1>1 DEF InductiveInv, DriftInv
<1>4. peer_highest_tick[n][p] < sim_tick_count[p]
  BY DEF PeersAreKnown
<1> QED BY <1>1, <1>2, <1>3, <1>4, TickBounds

\* How far a packet of a peer reaches.
LEMMA PacketBounds ==
    ASSUME InductiveInv, NEW n \in Node, NEW m \in net, PacketIsTrue(m),
           m.player_id \in Peers(n)
    PROVE  /\ IsPacket(m) /\ m.player_id \in Node /\ m.player_id # n
           /\ m.base_tick \in Nat /\ m.frame_tick \in Nat
           /\ m.frame_tick <= sim_tick_count[n] + LookaheadCap
<1> DEFINE q == m.player_id
<1>1. IsPacket(m) /\ q \in Node /\ q # n /\ n \in Peers(q)
  BY DEF Peers, InductiveInv, TypeOK
<1>2. m.base_tick \in Nat /\ m.frame_tick \in Nat
  BY <1>1 DEF IsPacket
<1>3. /\ confirmed_tick[q] <= peer_highest_tick[q][n]
      /\ peer_highest_tick[q][n] <= head_tick[n]
      /\ peer_highest_tick[q][n] \in Nat
  BY <1>1 DEF InductiveInv, DriftInv, TypeOK
<1>4. m.frame_tick < sim_tick_count[q]
  BY DEF PacketIsTrue
<1> HIDE DEF q
<1> QED BY <1>1, <1>2, <1>3, <1>4, TickBounds DEF q

-----------------------------------------------------------------------------
(* Truth.                                                                   *)

\* Nobody's inputs change: a node only appends to what it played.
InputsStay ==
    \A p \in Node :
        /\ sim_tick_count[p] <= sim_tick_count'[p]
        /\ \A t \in 0 .. sim_tick_count[p] - 1 : Input(p, t)' = Input(p, t)

\* The log of a node holds one vector for each tick that it simulated.
LEMMA LogType ==
    ASSUME InductiveInv, NEW n \in Node
    PROVE  \A t \in Int : snapshot_ring[n][Slot(t)] \in Worlds
  BY SlotType DEF InductiveInv, TypeOK

\* What was true stays true.
LEMMA TruthStays ==
    ASSUME InductiveInv, InductiveInv', InputsStay, NEW w \in Worlds, IsTrue(w)
    PROVE  IsTrue(w)'
<1>1. SUFFICES ASSUME NEW t \in 1 .. Len(w), NEW p \in Node
               PROVE  t < sim_tick_count'[p] /\ w[t][p] = Input(p, t)'
  BY DEF IsTrue
<1>2. t \in Nat /\ t < sim_tick_count[p] /\ w[t][p] = Input(p, t)
  BY LenProperties DEF IsTrue, Worlds
<1>3. sim_tick_count[p] \in Nat /\ sim_tick_count'[p] \in Nat
  BY DEF InductiveInv, TypeOK
<1> QED BY <1>2, <1>3 DEF InputsStay

\* There is one true world of each length.
LEMMA TruthIsOne ==
    ASSUME NEW v \in Worlds, NEW w \in Worlds, IsTrue(v), IsTrue(w), Len(v) = Len(w)
    PROVE  v = w
<1>1. ASSUME NEW t \in 1 .. Len(v) PROVE v[t] = w[t]
  <2>1. v[t] \in [Node -> Commands] /\ w[t] \in [Node -> Commands]
    BY ElementOfSeq DEF Worlds
  <2>2. \A p \in Node : v[t][p] = w[t][p]
    BY DEF IsTrue
  <2> QED BY <2>1, <2>2
<1> QED BY <1>1, SeqEqual DEF Worlds

\* A packet stays true.
LEMMA PacketStays ==
    ASSUME InductiveInv, InductiveInv', InputsStay, NEW m \in net, PacketIsTrue(m),
           \A n, p \in Node : peer_highest_tick[n][p] <= peer_highest_tick'[n][p]
    PROVE  PacketIsTrue(m)'
<1>1. /\ IsPacket(m) /\ m.player_id \in Node /\ m.frame_tick \in Nat /\ m.base_tick \in Nat
      /\ m.state_checksum \in Worlds
  BY DEF InductiveInv, TypeOK, IsPacket
<1>2. sim_tick_count[m.player_id] \in Nat /\ sim_tick_count'[m.player_id] \in Nat
  BY <1>1 DEF InductiveInv, TypeOK
<1>3. m.frame_tick < sim_tick_count'[m.player_id]
  BY <1>1, <1>2 DEF PacketIsTrue, InputsStay
<1>4. ASSUME NEW p \in Peers(m.player_id)
      PROVE  m.peer_acks[p] <= peer_highest_tick'[m.player_id][p]
  <2>1. /\ p \in Node /\ m.peer_acks[p] \in Nat
        /\ peer_highest_tick[m.player_id][p] \in Nat
        /\ peer_highest_tick'[m.player_id][p] \in Nat
    BY <1>1 DEF Peers, IsPacket, InductiveInv, TypeOK
  <2>2. /\ m.peer_acks[p] <= peer_highest_tick[m.player_id][p]
        /\ peer_highest_tick[m.player_id][p] <= peer_highest_tick'[m.player_id][p]
    BY <1>1, <2>1 DEF PacketIsTrue
  <2> QED BY <2>1, <2>2
<1>5. ASSUME NEW t \in m.base_tick .. m.frame_tick
      PROVE  m.commands[t] = Input(m.player_id, t)'
  <2>1. t \in 0 .. sim_tick_count[m.player_id] - 1
    BY <1>1, <1>2 DEF PacketIsTrue
  <2> QED BY <1>1, <2>1 DEF PacketIsTrue, InputsStay
<1>6. m.state_checksum # NoChecksum =>
          Len(m.state_checksum) = m.checksum_tick /\ IsTrue(m.state_checksum)'
  BY <1>1, TruthStays DEF PacketIsTrue
<1> QED BY <1>3, <1>4, <1>5, <1>6 DEF PacketIsTrue

-----------------------------------------------------------------------------
(* Nodes that a step leaves alone.                                          *)

\* The variables of one node, but for those that others look at.
nodeVars(n) == <<sim_tick_count[n], confirmed_tick[n], head_tick[n], rollback_target[n],
                 frames[n], peer_highest_tick[n], peer_ack_of_me[n], rts_grid[n],
                 snapshot_ring[n], phase[n], accumulator[n], tick_before[n], cursor[n]>>

\* The invariants of a node that does nothing speak of inputs that stay.
LEMMA NodeStays ==
    ASSUME InductiveInv, InductiveInv', InputsStay, NEW n \in Node, NodeInv(n),
           PeersAreKnown(n), UNCHANGED nodeVars(n)
    PROVE  NodeInv(n)'
<1>1. /\ sim_tick_count'[n] = sim_tick_count[n] /\ confirmed_tick'[n] = confirmed_tick[n]
      /\ head_tick'[n] = head_tick[n] /\ rollback_target'[n] = rollback_target[n]
      /\ frames'[n] = frames[n] /\ peer_highest_tick'[n] = peer_highest_tick[n]
      /\ peer_ack_of_me'[n] = peer_ack_of_me[n] /\ rts_grid'[n] = rts_grid[n]
      /\ snapshot_ring'[n] = snapshot_ring[n] /\ phase'[n] = phase[n]
      /\ accumulator'[n] = accumulator[n] /\ tick_before'[n] = tick_before[n]
      /\ cursor'[n] = cursor[n]
  BY DEF nodeVars
<1>2. sim_tick_count[n] \in Nat \ {0} /\ confirmed_tick[n] \in Nat
  BY TickBounds
<1>3. \A t \in 0 .. sim_tick_count[n] - 1 : Input(n, t)' = Input(n, t)
  BY DEF InputsStay
<1>4. ASSUME NEW p \in Peers(n), NEW t \in 0 .. peer_highest_tick[n][p]
      PROVE  Input(p, t)' = Input(p, t)
  <2>1. p \in Node /\ peer_highest_tick[n][p] < sim_tick_count[p]
        /\ peer_highest_tick[n][p] \in Nat /\ sim_tick_count[p] \in Nat
    BY HeardBounds, TickBounds
  <2> QED BY <2>1 DEF InputsStay
<1>5. PumpIsSteady(n)'
  BY <1>1 DEF NodeInv, PumpIsSteady
<1>6. TagsAreKept(n)'
  BY <1>1 DEF NodeInv, TagsAreKept, OldestFrame, Frame
<1>7. OwnInputs(n)'
  BY <1>1, <1>3 DEF NodeInv, OwnInputs, Frame
<1>8. HeardInputs(n)'
  <2> SUFFICES ASSUME NEW p \in Peers(n), NEW t \in 1 .. peer_highest_tick[n][p],
                      t >= OldestFrame(n)
               PROVE  Frame(n, t).tick = t /\ Frame(n, t).commands[p] = Input(p, t)'
    BY <1>1 DEF HeardInputs, OldestFrame, Frame
  <2>1. t \in 0 .. peer_highest_tick[n][p]
    BY HeardBounds
  <2> QED BY <1>4, <2>1 DEF NodeInv, HeardInputs
<1>9. WorldsAreKept(n)'
  <2>1. rts_grid'[n] = snapshot_ring'[n][Slot(TickOfWorld(n))']
    BY <1>1 DEF NodeInv, WorldsAreKept, TickOfWorld, Slot
  <2>2. ASSUME NEW t \in 0 .. sim_tick_count[n] - 1, t >= sim_tick_count[n] - RingSize,
               NEW u \in 1 .. t
        PROVE  snapshot_ring[n][Slot(t)][u][n] = Input(n, u)'
    <3>1. u \in 0 .. sim_tick_count[n] - 1
      BY <1>2
    <3> QED BY <1>3, <2>2, <3>1 DEF NodeInv, WorldsAreKept
  <2> QED BY <1>1, <2>1, <2>2 DEF NodeInv, WorldsAreKept
<1>10. CleanWorlds(n)'
  <2>1. CleanTo(n)' = CleanTo(n)
    BY <1>1 DEF CleanTo
  <2>2. ASSUME NEW t \in 0 .. CleanTo(n), t >= sim_tick_count[n] - RingSize,
               NEW u \in 1 .. t, ~(u > confirmed_tick[n]), NEW p \in Node
        PROVE  snapshot_ring[n][Slot(t)][u][p] = Input(p, u)'
    <3>1. snapshot_ring[n][Slot(t)][u][p] = Input(p, u)
      BY <2>2 DEF NodeInv, CleanWorlds
    <3>2. u \in 0 .. confirmed_tick[n]
      BY <1>2, <2>2
    <3>3. CASE p = n
      BY <1>2, <1>3, <3>1, <3>2, <3>3, TickBounds
    <3>4. CASE p # n
      <4>1. p \in Peers(n) /\ u \in 0 .. peer_highest_tick[n][p]
        BY <1>2, <3>2, <3>4, HeardBounds DEF Peers
      <4> QED BY <1>4, <3>1, <4>1
    <3> QED BY <3>3, <3>4
  <2> QED BY <1>1, <2>1, <2>2 DEF NodeInv, CleanWorlds, Frame
<1>11. ChecksumsAreTrue(n)'
  <2> SUFFICES ASSUME NEW s \in Slots, NEW w, w = frames[n][s].remote_checksum,
                      w # NoChecksum
               PROVE  Len(w) = frames[n][s].tick /\ IsTrue(w)'
    BY <1>1 DEF ChecksumsAreTrue, IsTrue
  <2>1. w \in Worlds /\ IsTrue(w) /\ Len(w) = frames[n][s].tick
    BY DEF NodeInv, ChecksumsAreTrue, InductiveInv, TypeOK, NetworkFrame
  <2> QED BY <2>1, TruthStays
<1> QED BY <1>5, <1>6, <1>7, <1>8, <1>9, <1>10, <1>11 DEF NodeInv

\* A step of n keeps the whole invariant if it keeps that of n and what others know
\* of n, and sends nothing false.
LEMMA StepOfOne ==
    ASSUME InductiveInv, InductiveInv', LogInv, InputsStay, NEW n \in Node,
           \A q \in Node : q # n => UNCHANGED nodeVars(q),
           \A q, p \in Node : peer_highest_tick[q][p] <= peer_highest_tick'[q][p],
           NodeInv(n)', PeersAreKnown(n)',
           \A m \in net' : m \in net \/ PacketIsTrue(m)'
    PROVE  LogInv'
<1>1. ASSUME NEW q \in Node PROVE NodeInv(q)'
  <2>1. CASE q # n
    BY <2>1, NodeStays DEF LogInv
  <2> QED BY <2>1
<1>2. ASSUME NEW q \in Node PROVE PeersAreKnown(q)'
  <2>1. CASE q # n
    <3> SUFFICES ASSUME NEW p \in Peers(q)
                 PROVE  /\ peer_ack_of_me'[q][p] <= peer_highest_tick'[p][q]
                        /\ peer_highest_tick'[q][p] < sim_tick_count'[p]
      BY DEF PeersAreKnown
    <3>1. p \in Node /\ PeersAreKnown(q)
      BY DEF Peers, LogInv
    <3>2. /\ peer_ack_of_me[q][p] <= peer_highest_tick[p][q]
          /\ peer_highest_tick[q][p] < sim_tick_count[p]
      BY <3>1 DEF PeersAreKnown
    <3>3. /\ peer_ack_of_me'[q] = peer_ack_of_me[q]
          /\ peer_highest_tick'[q] = peer_highest_tick[q]
      BY <2>1 DEF nodeVars
    <3>4. /\ peer_highest_tick[p][q] <= peer_highest_tick'[p][q]
          /\ sim_tick_count[p] <= sim_tick_count'[p]
      BY <3>1 DEF InputsStay
    <3>5. /\ peer_ack_of_me[q][p] \in Nat /\ peer_highest_tick[p][q] \in Nat
          /\ peer_highest_tick'[p][q] \in Nat /\ peer_highest_tick[q][p] \in Nat
          /\ sim_tick_count[p] \in Nat /\ sim_tick_count'[p] \in Nat
      BY <3>1 DEF InductiveInv, TypeOK
    <3> QED BY <3>2, <3>3, <3>4, <3>5
  <2> QED BY <2>1
<1>3. ASSUME NEW m \in net' PROVE PacketIsTrue(m)'
  BY PacketStays DEF LogInv
<1> QED BY <1>1, <1>2, <1>3 DEF LogInv

\* Without a packet nobody learns of anybody.
LEMMA PeersStay ==
    ASSUME InductiveInv, InductiveInv', InputsStay, UNCHANGED peerVars,
           NEW n \in Node, PeersAreKnown(n)
    PROVE  /\ PeersAreKnown(n)'
           /\ \A q, p \in Node : peer_highest_tick[q][p] <= peer_highest_tick'[q][p]
<1>1. \A p \in Node : /\ sim_tick_count[p] <= sim_tick_count'[p]
                      /\ sim_tick_count[p] \in Nat /\ sim_tick_count'[p] \in Nat
  BY DEF InputsStay, InductiveInv, TypeOK
<1>2. \A q, p \in Node : peer_highest_tick[q][p] \in Nat
  BY DEF InductiveInv, TypeOK
<1> QED BY <1>1, <1>2 DEF peerVars, PeersAreKnown, Peers

\* Inputs stay where no log changes.
LEMMA InputsOfLogs ==
    ASSUME InductiveInv, UNCHANGED <<sim_tick_count, snapshot_ring>>
    PROVE  InputsStay
  BY DEF InputsStay, Input, Log, InductiveInv, TypeOK

-----------------------------------------------------------------------------
(* Steps that change neither frames nor worlds.                             *)

\* Nothing of the invariant is about what the player may still ask for.
LEMMA LogStutter ==
    ASSUME InductiveInv, InductiveInv', LogInv, UNCHANGED net,
           \A n \in Node : UNCHANGED nodeVars(n),
           UNCHANGED <<sim_tick_count, snapshot_ring, peerVars>>
    PROVE  LogInv'
<1>1. InputsStay
  BY InputsOfLogs
<1>2. ASSUME NEW n \in Node PROVE NodeInv(n)' /\ PeersAreKnown(n)'
  BY <1>1, NodeStays, PeersStay DEF LogInv
<1>3. ASSUME NEW m \in net' PROVE PacketIsTrue(m)'
  <2>1. \A q, p \in Node : peer_highest_tick[q][p] <= peer_highest_tick'[q][p]
    BY DEF peerVars, InductiveInv, TypeOK
  <2> QED BY <1>1, <2>1, PacketStays DEF LogInv
<1> QED BY <1>2, <1>3 DEF LogInv

\* calculate_horizons: what every peer delivered and n simulated is confirmed; there
\* the frames agree with the truth, so the worlds do.
LEMMA LogStartTicks ==
    ASSUME InductiveInv, InductiveInv', LogInv, NEW n \in Node,
           NEW k \in 1 .. MaxTicksPerPump, StartTicks(n, k), FitsHorizon(n)
    PROVE  LogInv'
<1>1. /\ UNCHANGED <<sim_tick_count, head_tick, rollback_target, frames, peerVars, rts_grid,
                     snapshot_ring, cursor, net>>
      /\ phase[n] = "idle" /\ phase' = [phase EXCEPT ![n] = "loop"]
      /\ tick_before' = [tick_before EXCEPT ![n] = sim_tick_count[n]]
      /\ \A q \in Node : q # n => /\ confirmed_tick'[q] = confirmed_tick[q]
                                  /\ accumulator'[q] = accumulator[q]
  BY DEF StartTicks, worldVars, InductiveInv, TypeOK
<1>2. /\ phase \in [Node -> Phases] /\ tick_before \in [Node -> Nat]
      /\ confirmed_tick[n] \in Nat /\ confirmed_tick'[n] \in Nat
      /\ confirmed_tick[n] <= confirmed_tick'[n]
      /\ accumulator'[n] \in Nat
  <2>1. \E c \in Consensus(n) :
           confirmed_tick' = [confirmed_tick EXCEPT ![n] = Later(confirmed_tick[n], c)]
    BY DEF StartTicks
  <2>2. confirmed_tick \in [Node -> Nat]
    BY DEF InductiveInv, TypeOK
  <2>3. confirmed_tick'[n] \in Nat /\ accumulator'[n] \in Nat
    BY DEF InductiveInv, TypeOK
  <2> QED BY <2>1, <2>2, <2>3 DEF InductiveInv, TypeOK, Later
<1>3. InputsStay
  BY <1>1, InputsOfLogs
<1>4. \A q \in Node : q # n => UNCHANGED nodeVars(q)
  BY <1>1, <1>2 DEF nodeVars, peerVars
<1>5. phase'[n] = "loop" /\ tick_before'[n] = sim_tick_count[n]
  BY <1>1, <1>2
<1>6. NodeInv(n)
  BY DEF LogInv
<1>7. PumpIsSteady(n)'
  <2>1. head_tick'[n] = sim_tick_count'[n] - 1 /\ sim_tick_count[n] \in Nat
    BY <1>1, <1>6, TickBounds DEF NodeInv, PumpIsSteady, Preparing
  <2>2. accumulator'[n] > 0 =>
            LET last == sim_tick_count'[n] + accumulator'[n] - 1
            IN  /\ last <= confirmed_tick'[n] + LookaheadCap
                /\ \A p \in Peers(n) : last <= peer_ack_of_me'[n][p] + LookaheadCap
    BY <1>1 DEF FitsHorizon, peerVars
  <2> QED BY <1>1, <1>5, <2>1, <2>2 DEF PumpIsSteady, Preparing
<1>8. TagsAreKept(n)' /\ OwnInputs(n)' /\ HeardInputs(n)' /\ ChecksumsAreTrue(n)'
  BY <1>1, <1>6 DEF NodeInv, TagsAreKept, OwnInputs, HeardInputs, ChecksumsAreTrue,
                    OldestFrame, Frame, Input, Log, IsTrue, peerVars
<1>9. WorldsAreKept(n)'
  BY <1>1, <1>5, <1>6 DEF NodeInv, WorldsAreKept, TickOfWorld, Input, Log
<1>10. CleanWorlds(n)'
  <2>1. CleanTo(n)' = CleanTo(n)
    BY <1>1, <1>5 DEF CleanTo
  <2>2. ASSUME NEW t \in 0 .. CleanTo(n), t >= sim_tick_count[n] - RingSize,
               NEW u \in 1 .. t, u > confirmed_tick[n], ~(u > confirmed_tick'[n]),
               NEW p \in Node
        PROVE  snapshot_ring[n][Slot(t)][u][p] = Input(p, u)
    <3>1. snapshot_ring[n][Slot(t)][u] = Frame(n, u).commands
      BY <1>6, <2>2 DEF NodeInv, CleanWorlds
    <3>2. /\ u \in Nat /\ u <= confirmed_tick'[n] /\ u >= OldestFrame(n)
          /\ confirmed_tick'[n] < sim_tick_count[n]
      BY <1>1, <1>2, <2>2, TickBounds DEF OldestFrame, InductiveInv, LookaheadBound
    <3>3. CASE p = n
      <4>1. u \in 0 .. head_tick[n] /\ u \in 0 .. sim_tick_count[n] - 1
        BY <1>1, <1>2, <1>6, <3>2, TickBounds DEF NodeInv, PumpIsSteady, Preparing
      <4>2. Frame(n, u).tick = u
        BY <1>6, <3>2, <4>1 DEF NodeInv, TagsAreKept
      <4> QED BY <1>6, <3>1, <3>3, <4>1, <4>2 DEF NodeInv, OwnInputs
    <3>4. CASE p # n
      <4>1. p \in Peers(n) /\ confirmed_tick'[n] <= peer_highest_tick[n][p]
            /\ peer_highest_tick[n][p] \in Nat
        BY <1>1, <3>4 DEF Peers, InductiveInv, DriftInv, TypeOK, peerVars
      <4>2. u \in 1 .. peer_highest_tick[n][p]
        BY <1>2, <3>2, <4>1
      <4> QED BY <1>6, <3>1, <3>2, <4>1, <4>2 DEF NodeInv, HeardInputs
    <3> QED BY <3>3, <3>4
  <2>3. ASSUME NEW t \in 0 .. CleanTo(n), t >= sim_tick_count[n] - RingSize,
               NEW u \in 1 .. t
        PROVE  IF u > confirmed_tick'[n]
               THEN snapshot_ring[n][Slot(t)][u] = Frame(n, u).commands
               ELSE \A p \in Node : snapshot_ring[n][Slot(t)][u][p] = Input(p, u)
    <3>1. CASE u > confirmed_tick'[n]
      BY <1>2, <1>6, <2>3, <3>1 DEF NodeInv, CleanWorlds
    <3>2. CASE ~(u > confirmed_tick[n])
      BY <1>2, <1>6, <2>3, <3>2 DEF NodeInv, CleanWorlds
    <3> QED BY <2>2, <2>3, <3>1, <3>2
  <2> QED BY <1>1, <1>6, <2>1, <2>3 DEF NodeInv, CleanWorlds, Frame, Input, Log
<1>11. NodeInv(n)'
  BY <1>7, <1>8, <1>9, <1>10 DEF NodeInv
<1>12. PeersAreKnown(n)'
       /\ \A q, p \in Node : peer_highest_tick[q][p] <= peer_highest_tick'[q][p]
  BY <1>1, <1>3, PeersStay DEF LogInv
<1> QED BY <1>1, <1>3, <1>4, <1>11, <1>12, StepOfOne

\* execute_rollback's head: the live world becomes the snapshot before the target, the
\* last clean one.
LEMMA LogBeginRollback ==
    ASSUME InductiveInv, InductiveInv', LogInv, NEW n \in Node, BeginRollback(n)
    PROVE  LogInv'
<1>1. /\ UNCHANGED <<sim_tick_count, confirmed_tick, head_tick, rollback_target, frames,
                     peerVars, snapshot_ring, accumulator, tick_before, net>>
      /\ phase[n] = "rollback"
  BY DEF BeginRollback, clockVars
<1>2. /\ phase \in [Node -> Phases] /\ cursor \in [Node -> Nat] /\ rts_grid \in [Node -> Worlds]
      /\ phase'[n] # "horizon_exceeded"
  BY DEF InductiveInv, TypeOK, RollbackInReach
<1>3. ~OutOfReach(n)
  BY <1>2 DEF BeginRollback
<1>4. /\ phase' = [phase EXCEPT ![n] = "resimulate"]
      /\ rts_grid' = [rts_grid EXCEPT ![n] = snapshot_ring[n][Slot(rollback_target[n] - 1)]]
      /\ cursor' = [cursor EXCEPT ![n] = rollback_target[n]]
  BY <1>3 DEF BeginRollback, RestorePoint
<1>5. /\ phase'[n] = "resimulate" /\ cursor'[n] = rollback_target[n]
      /\ rts_grid'[n] = snapshot_ring[n][Slot(rollback_target[n] - 1)]
  BY <1>2, <1>4
<1>6. InputsStay
  BY <1>1, InputsOfLogs
<1>7. \A q \in Node : q # n => UNCHANGED nodeVars(q)
  BY <1>1, <1>2, <1>4 DEF nodeVars, peerVars
<1>8. NodeInv(n) /\ rollback_target[n] # 0
  BY <1>1 DEF LogInv, InductiveInv, PumpInv
<1>9. PumpIsSteady(n)'
  <2>1. cursor'[n] \in rollback_target[n] .. sim_tick_count[n] - 1
    BY <1>5, <1>8, TickBounds
  <2> QED BY <1>1, <1>5, <1>8, <2>1 DEF NodeInv, PumpIsSteady, Preparing, peerVars
<1>10. TagsAreKept(n)' /\ OwnInputs(n)' /\ HeardInputs(n)' /\ ChecksumsAreTrue(n)'
  BY <1>1, <1>8 DEF NodeInv, TagsAreKept, OwnInputs, HeardInputs, ChecksumsAreTrue,
                    OldestFrame, Frame, Input, Log, IsTrue, peerVars
<1>11. WorldsAreKept(n)'
  BY <1>1, <1>5, <1>8 DEF NodeInv, WorldsAreKept, TickOfWorld, Input, Log
<1>12. CleanWorlds(n)'
  <2>1. CleanTo(n)' = CleanTo(n)
    BY <1>1, <1>5, <1>8 DEF CleanTo
  <2> QED BY <1>1, <1>8, <2>1 DEF NodeInv, CleanWorlds, Frame, Input, Log
<1>13. NodeInv(n)'
  BY <1>9, <1>10, <1>11, <1>12 DEF NodeInv
<1>14. PeersAreKnown(n)'
       /\ \A q, p \in Node : peer_highest_tick[q][p] <= peer_highest_tick'[q][p]
  BY <1>1, <1>6, PeersStay DEF LogInv
<1> QED BY <1>1, <1>6, <1>7, <1>13, <1>14, StepOfOne

\* What build_outbound packs is what the node played, if the ring holds a whole history
\* of frames that nothing overwrites, and its checksum is of a confirmed tick.
LEMMA PacketOfNode ==
    ASSUME InductiveInv, LogInv, NEW n \in Node,
           phase[n] = "loop"
    PROVE  PacketIsTrue(Packet(n))
<1> DEFINE m == Packet(n)
           base == BaseTick(head_tick[n])
<1>1. NodeInv(n) /\ head_tick[n] = sim_tick_count[n] - 1
  BY DEF LogInv, NodeInv, PumpIsSteady, Preparing
<1>2. /\ m.player_id = n /\ m.frame_tick = head_tick[n] /\ m.base_tick = base
      /\ m.commands = [t \in base .. head_tick[n] |-> Frame(n, t).commands[n]]
      /\ m.peer_acks = peer_highest_tick[n]
      /\ m.state_checksum # NoChecksum =>
            /\ rollback_target[n] = 0 /\ m.checksum_tick = confirmed_tick[n]
            /\ m.state_checksum = Frame(n, confirmed_tick[n]).state_checksum
  BY DEF Packet, PacketTick
<1>3. /\ HistoryLen \in Nat /\ base \in Nat
      /\ base >= head_tick[n] - HistoryLen + 1
  BY SizeAssumption, TickBounds DEF BaseTick, HistoryHorizon, Later
<1> HIDE DEF m, base
<1>4. m.frame_tick < sim_tick_count[n]
  BY <1>1, <1>2, TickBounds
<1>5. ASSUME NEW p \in Peers(n) PROVE m.peer_acks[p] <= peer_highest_tick[n][p]
  BY <1>2, HeardBounds DEF LogInv
<1>6. ASSUME NEW t \in base .. head_tick[n] PROVE m.commands[t] = Input(n, t)
  <2>1. /\ t \in 0 .. head_tick[n] /\ t \in 0 .. sim_tick_count[n] - 1
        /\ t >= OldestFrame(n)
    BY <1>1, <1>3, TickBounds, RingHistoryAssumption DEF OldestFrame
  <2>2. Frame(n, t).tick = t
    BY <1>1, <2>1 DEF NodeInv, TagsAreKept
  <2> QED BY <1>1, <1>2, <2>1, <2>2 DEF NodeInv, OwnInputs
<1>7. ASSUME m.state_checksum # NoChecksum
      PROVE  Len(m.state_checksum) = m.checksum_tick /\ IsTrue(m.state_checksum)
  <2> DEFINE c == confirmed_tick[n]
             world == snapshot_ring[n][Slot(c)]
  <2>1. /\ c \in 0 .. head_tick[n] /\ c >= OldestFrame(n)
        /\ c >= sim_tick_count[n] - RingSize /\ c \in 0 .. sim_tick_count[n] - 1
    BY <1>1, TickBounds DEF OldestFrame
  <2>2. CleanTo(n) = sim_tick_count[n] - 1
    BY <1>2, <1>7 DEF CleanTo
  <2>3. Frame(n, c).tick = c
    BY <1>1, <2>1 DEF NodeInv, TagsAreKept
  <2>4. m.state_checksum = world
    BY <1>1, <1>2, <1>7, <2>1, <2>2, <2>3 DEF NodeInv, CleanWorlds
  <2>5. Len(world) = c
    BY <1>1, <2>1 DEF NodeInv, WorldsAreKept
  <2>6. ASSUME NEW u \in 1 .. c, NEW p \in Node
        PROVE  u < sim_tick_count[p] /\ world[u][p] = Input(p, u)
    <3>1. world[u][p] = Input(p, u)
      BY <1>1, <2>1, <2>2, <2>6 DEF NodeInv, CleanWorlds
    <3>2. CASE p = n
      BY <2>1, <3>1, <3>2, TickBounds
    <3>3. CASE p # n
      <4>1. p \in Peers(n) /\ PeersAreKnown(n)
        BY <3>3 DEF Peers, LogInv
      <4> QED BY <2>1, <3>1, <4>1, HeardBounds, TickBounds
    <3> QED BY <3>2, <3>3
  <2> HIDE DEF world
  <2> QED BY <1>2, <1>7, <2>4, <2>5, <2>6 DEF IsTrue
<1> QED BY <1>2, <1>4, <1>5, <1>6, <1>7 DEF PacketIsTrue, m

\* send_dynamic_history.
LEMMA LogFlushNetwork ==
    ASSUME InductiveInv, InductiveInv', LogInv, NEW n \in Node,
           FlushNetwork(n)
    PROVE  LogInv'
<1>1. /\ UNCHANGED <<sim_tick_count, confirmed_tick, head_tick, rollback_target, frames,
                     peerVars, rts_grid, snapshot_ring, accumulator, cursor>>
      /\ phase[n] = "loop" /\ phase' = [phase EXCEPT ![n] = "idle"]
      /\ tick_before' = [tick_before EXCEPT ![n] = 0]
      /\ \A m \in net' : m \in net \/ m = Packet(n)
  BY DEF FlushNetwork, clockVars, worldVars
<1>2. phase \in [Node -> Phases] /\ tick_before \in [Node -> Nat]
  BY DEF InductiveInv, TypeOK
<1>3. InputsStay
  BY <1>1, InputsOfLogs
<1>4. \A q \in Node : q # n => UNCHANGED nodeVars(q)
  BY <1>1, <1>2 DEF nodeVars, peerVars
<1>5. NodeInv(n) /\ phase'[n] = "idle" /\ tick_before'[n] = 0
  BY <1>1, <1>2 DEF LogInv
<1>6. PumpIsSteady(n)'
  BY <1>1, <1>5, TickBounds DEF NodeInv, PumpIsSteady, Preparing
<1>7. /\ TagsAreKept(n)' /\ OwnInputs(n)' /\ HeardInputs(n)' /\ ChecksumsAreTrue(n)'
  BY <1>1, <1>5 DEF NodeInv, TagsAreKept, OwnInputs, HeardInputs, ChecksumsAreTrue,
                    OldestFrame, Frame, Input, Log, IsTrue, peerVars
<1>8. WorldsAreKept(n)' /\ CleanWorlds(n)'
  BY <1>1, <1>5 DEF NodeInv, WorldsAreKept, CleanWorlds, TickOfWorld, CleanTo, Frame,
                    Input, Log
<1>9. NodeInv(n)'
  BY <1>6, <1>7, <1>8 DEF NodeInv
<1>10. PeersAreKnown(n)'
       /\ \A q, p \in Node : peer_highest_tick[q][p] <= peer_highest_tick'[q][p]
  BY <1>1, <1>3, PeersStay DEF LogInv
<1>11. ASSUME NEW m \in net', m \notin net PROVE PacketIsTrue(m)'
  <2>1. m = Packet(n) /\ PacketIsTrue(m)
    BY <1>1, <1>11, PacketOfNode
  <2> QED BY <1>1, <2>1 DEF PacketIsTrue, IsTrue, Input, Log, peerVars
<1> QED BY <1>3, <1>4, <1>9, <1>10, <1>11, StepOfOne

-----------------------------------------------------------------------------
(* Receiving a packet.                                                      *)

\* integrate leaves a slot alone, or puts the command of a tick of its own into it.
LEMMA IntegratedSlot ==
    ASSUME InductiveInv, NEW n \in Node, NEW m \in net, NEW s \in Slots
    PROVE  LET f == frames[n][s]
               g == IntegratedRing(n, m)[s]
           IN  \/ g = f /\ \A u \in Window(n, m) : Slot(u) # s
               \/ \E u \in Window(n, m) : Slot(u) = s /\ g = Integrated(n, m, u)
<1>1. CASE \E u \in Window(n, m) : Slot(u) = s
  <2> DEFINE u == CHOOSE u \in Window(n, m) : Slot(u) = s
  <2>1. u \in Window(n, m) /\ Slot(u) = s
    BY <1>1
  <2>2. IntegratedRing(n, m)[s] = Integrated(n, m, u)
    BY <1>1 DEF IntegratedRing
  <2> HIDE DEF u
  <2> QED BY <2>1, <2>2
<1>2. CASE ~ \E u \in Window(n, m) : Slot(u) = s
  BY <1>2 DEF IntegratedRing
<1> QED BY <1>1, <1>2

\* What audit_checksum adds to a slot.
LEMMA RecordedSlot ==
    ASSUME NEW n \in Node, NEW m, NEW ring \in [Slots -> NetworkFrame], NEW s \in Slots,
           m.state_checksum \in Worlds
    PROVE  LET f == ring[s]
               g == RecordChecksum(n, m, ring)[s]
           IN  /\ g.tick = f.tick /\ g.commands = f.commands
               /\ g.state_checksum = f.state_checksum
               /\ \/ g.remote_checksum = f.remote_checksum
                  \/ /\ g.remote_checksum = m.state_checksum
                     /\ m.state_checksum # NoChecksum /\ g.tick = m.checksum_tick
<1> DEFINE c == m.checksum_tick
<1>1. CASE RecordChecksum(n, m, ring) = ring
  BY <1>1
<1>2. CASE /\ RecordChecksum(n, m, ring) =
                 [ring EXCEPT ![Slot(c)].remote_checksum = m.state_checksum]
           /\ m.state_checksum # NoChecksum /\ ring[Slot(c)].tick = c
  <2>1. CASE s = Slot(c)
    <3>1. RecordChecksum(n, m, ring)[s] = [ring[s] EXCEPT !.remote_checksum = m.state_checksum]
      BY <1>2, <2>1
    <3> QED BY <1>2, <2>1, <3>1 DEF NetworkFrame
  <2>2. CASE s # Slot(c)
    BY <1>2, <2>2
  <2> QED BY <2>1, <2>2
<1> QED BY <1>1, <1>2 DEF RecordChecksum

\* A slot after a packet was received.
LEMMA ReceivedSlot ==
    ASSUME InductiveInv, NEW n \in Node, NEW m \in net, Receive(n, m), NEW s \in Slots
    PROVE  LET f == frames[n][s]
               g == frames'[n][s]
               q == m.player_id
           IN  /\ \/ /\ g.tick = f.tick /\ g.commands = f.commands
                     /\ g.state_checksum = f.state_checksum
                     /\ \A u \in Window(n, m) : Slot(u) # s
                  \/ \E u \in Window(n, m) :
                        /\ Slot(u) = s /\ g.tick = u /\ g.commands[q] = m.commands[u]
                        /\ f.tick = u =>
                             /\ g.state_checksum = f.state_checksum
                             /\ g.commands = [f.commands EXCEPT ![q] = m.commands[u]]
               /\ \/ g.remote_checksum = NoChecksum
                  \/ g.remote_checksum = f.remote_checksum /\ g.tick = f.tick
                  \/ /\ g.remote_checksum = m.state_checksum
                     /\ m.state_checksum # NoChecksum /\ g.tick = m.checksum_tick
<1> DEFINE f == frames[n][s]
           h == IntegratedRing(n, m)[s]
           g == frames'[n][s]
           q == m.player_id
<1>1. IsPacket(m) /\ q \in Node /\ m.state_checksum \in Worlds /\ TypeOK
  BY DEF InductiveInv, TypeOK, IsPacket
<1>2. g = RecordChecksum(n, m, IntegratedRing(n, m))[s]
  <2>1. frames \in [Node -> [Slots -> NetworkFrame]]
    BY <1>1 DEF TypeOK
  <2> QED BY <2>1 DEF Receive
<1>3. IntegratedRing(n, m) \in [Slots -> NetworkFrame]
  <2>1. ASSUME NEW t \in Window(n, m) PROVE Integrated(n, m, t) \in NetworkFrame
    <3>1. t \in Nat /\ t \in m.base_tick .. m.frame_tick
      BY <1>1 DEF Window, IsPacket
    <3>2. m.commands[t] \in Commands
      BY <1>1, <3>1 DEF IsPacket
    <3>3. Tagged(Frame(n, t), t) \in NetworkFrame
      BY <1>1, <3>1, FrameType, TaggedType
    <3> QED BY <1>1, <3>2, <3>3, CommandStoreType DEF Integrated
  <2>2. ASSUME NEW i \in Slots PROVE IntegratedRing(n, m)[i] \in NetworkFrame
    <3>1. frames[n][i] \in NetworkFrame
      BY <1>1 DEF TypeOK
    <3>2. \/ IntegratedRing(n, m)[i] = frames[n][i]
          \/ \E u \in Window(n, m) : IntegratedRing(n, m)[i] = Integrated(n, m, u)
      BY IntegratedSlot
    <3> QED BY <2>1, <3>1, <3>2
  <2> QED BY <2>2 DEF IntegratedRing
<1>4. /\ g.tick = h.tick /\ g.commands = h.commands /\ g.state_checksum = h.state_checksum
      /\ \/ g.remote_checksum = h.remote_checksum
         \/ /\ g.remote_checksum = m.state_checksum
            /\ m.state_checksum # NoChecksum /\ g.tick = m.checksum_tick
  BY <1>1, <1>2, <1>3, RecordedSlot
<1>5. f \in NetworkFrame
  BY <1>1 DEF TypeOK
<1>6. CASE h = f /\ \A u \in Window(n, m) : Slot(u) # s
  BY <1>4, <1>6
<1>7. ASSUME NEW u \in Window(n, m), Slot(u) = s, h = Integrated(n, m, u)
      PROVE  /\ h.tick = u /\ h.commands[q] = m.commands[u]
             /\ f.tick = u =>
                  /\ h.state_checksum = f.state_checksum
                  /\ h.remote_checksum = f.remote_checksum
                  /\ h.commands = [f.commands EXCEPT ![q] = m.commands[u]]
             /\ f.tick # u => h.remote_checksum = NoChecksum
  <2> DEFINE k == Tagged(f, u)
  <2>1. u \in Nat
    BY <1>1 DEF Window, IsPacket
  <2>2. k \in NetworkFrame /\ k.tick = u
    BY <1>5, <2>1, TaggedType
  <2>3. h = [k EXCEPT !.commands[q] = m.commands[u]]
    BY <1>7 DEF Integrated, Frame
  <2>4. f.tick = u => k = f
    BY DEF Tagged
  <2>5. f.tick # u => k.remote_checksum = NoChecksum
    BY DEF Tagged, EmptyFrame
  <2> HIDE DEF k, h, f
  <2>6. /\ h.tick = u /\ h.state_checksum = k.state_checksum
        /\ h.remote_checksum = k.remote_checksum
        /\ h.commands = [k.commands EXCEPT ![q] = m.commands[u]]
    BY <2>2, <2>3 DEF NetworkFrame
  <2>7. h.commands[q] = m.commands[u]
    BY <1>1, <2>2, <2>6 DEF NetworkFrame
  <2> QED BY <2>4, <2>5, <2>6, <2>7
<1> HIDE DEF f, g, h, q
<1>8. CASE \E u \in Window(n, m) : Slot(u) = s /\ h = Integrated(n, m, u)
  <2>1. PICK u \in Window(n, m) : Slot(u) = s /\ h = Integrated(n, m, u)
    BY <1>8
  <2>2. /\ h.tick = u /\ h.commands[q] = m.commands[u]
        /\ f.tick = u =>
             /\ h.state_checksum = f.state_checksum
             /\ h.remote_checksum = f.remote_checksum
             /\ h.commands = [f.commands EXCEPT ![q] = m.commands[u]]
        /\ f.tick # u => h.remote_checksum = NoChecksum
    BY <1>7, <2>1
  <2>3. /\ Slot(u) = s /\ g.tick = u /\ g.commands[q] = m.commands[u]
        /\ f.tick = u =>
             /\ g.state_checksum = f.state_checksum
             /\ g.commands = [f.commands EXCEPT ![q] = m.commands[u]]
    BY <1>4, <2>1, <2>2
  <2>4. \/ g.remote_checksum = NoChecksum
        \/ g.remote_checksum = f.remote_checksum /\ g.tick = f.tick
        \/ /\ g.remote_checksum = m.state_checksum
           /\ m.state_checksum # NoChecksum /\ g.tick = m.checksum_tick
    BY <1>4, <2>2
  <2> QED BY <2>1, <2>3, <2>4 DEF f, g, q
<1>9. \/ h = f /\ \A u \in Window(n, m) : Slot(u) # s
      \/ \E u \in Window(n, m) : Slot(u) = s /\ h = Integrated(n, m, u)
  BY IntegratedSlot DEF f, h
<1> QED BY <1>6, <1>8, <1>9 DEF f, g, q

\* A packet changes the frame of a tick through its own window only.
LEMMA ReceivedFrame ==
    ASSUME InductiveInv, NEW n \in Node, NEW m \in net, Receive(n, m),
           NEW t \in Nat, Frame(n, t).tick' = t
    PROVE  LET f == Frame(n, t)
               g == Frame(n, t)'
               q == m.player_id
           IN  \/ /\ f.tick = t /\ g.commands = f.commands
                  /\ g.state_checksum = f.state_checksum
               \/ /\ t \in Window(n, m)
                  /\ f.tick = t =>
                       /\ g.state_checksum = f.state_checksum
                       /\ g.commands = [f.commands EXCEPT ![q] = m.commands[t]]
<1> DEFINE s == Slot(t)
           f == frames[n][s]
           g == frames'[n][s]
           q == m.player_id
<1>1. Frame(n, t) = f /\ Frame(n, t)' = g /\ g.tick = t
  BY DEF Frame, Slot
<1>2. s \in Slots
  BY SlotType
<1> HIDE DEF s
<1>3. \/ /\ g.tick = f.tick /\ g.commands = f.commands
         /\ g.state_checksum = f.state_checksum
      \/ \E u \in Window(n, m) :
            /\ g.tick = u
            /\ f.tick = u => /\ g.state_checksum = f.state_checksum
                            /\ g.commands = [f.commands EXCEPT ![q] = m.commands[u]]
  BY <1>2, ReceivedSlot
<1> HIDE DEF f, g, q
<1>4. \/ /\ f.tick = t /\ g.commands = f.commands
         /\ g.state_checksum = f.state_checksum
      \/ /\ t \in Window(n, m)
         /\ f.tick = t => /\ g.state_checksum = f.state_checksum
                         /\ g.commands = [f.commands EXCEPT ![q] = m.commands[t]]
  BY <1>1, <1>3
<1> QED BY <1>1, <1>4 DEF q

\* In the part of the ring that no old frame shares, the window decides.
LEMMA ReceivedTick ==
    ASSUME InductiveInv, NEW n \in Node, NEW m \in net, PacketIsTrue(m), Receive(n, m),
           NEW t \in Nat, t >= OldestFrame(n), t <= sim_tick_count[n] + LookaheadCap
    PROVE  LET f == Frame(n, t)
               g == Frame(n, t)'
               q == m.player_id
           IN  IF t \in Window(n, m)
               THEN /\ g.tick = t /\ g.commands[q] = m.commands[t]
                    /\ f.tick = t =>
                         /\ g.state_checksum = f.state_checksum
                         /\ g.commands = [f.commands EXCEPT ![q] = m.commands[t]]
               ELSE /\ g.tick = f.tick /\ g.commands = f.commands
                    /\ g.state_checksum = f.state_checksum
<1> DEFINE s == Slot(t)
           f == frames[n][s]
           g == frames'[n][s]
           q == m.player_id
<1>1. Frame(n, t) = f /\ Frame(n, t)' = g
  BY DEF Frame, Slot
<1>2. s \in Slots
  BY SlotType
<1>3. ASSUME NEW u \in Window(n, m), Slot(u) = s PROVE u = t
  <2>1. /\ m.base_tick \in Nat /\ m.frame_tick \in Nat
        /\ m.frame_tick <= sim_tick_count[n] + LookaheadCap
    BY PacketBounds DEF Receive
  <2>2. u \in m.base_tick .. m.frame_tick /\ u > confirmed_tick[n]
    BY DEF Window
  <2>3. u \in Nat /\ u - t < RingSize /\ t - u < RingSize
    BY <2>1, <2>2, TickBounds DEF OldestFrame
  <2> QED BY <1>3, <2>3, SlotInjective
<1> HIDE DEF s
<1>4. \/ /\ g.tick = f.tick /\ g.commands = f.commands
         /\ g.state_checksum = f.state_checksum
         /\ \A u \in Window(n, m) : Slot(u) # s
      \/ \E u \in Window(n, m) :
            /\ Slot(u) = s /\ g.tick = u /\ g.commands[q] = m.commands[u]
            /\ f.tick = u => /\ g.state_checksum = f.state_checksum
                            /\ g.commands = [f.commands EXCEPT ![q] = m.commands[u]]
  BY <1>2, ReceivedSlot
<1> HIDE DEF f, g, q
<1>5. t \in Window(n, m) => Slot(t) = s
  BY DEF s
<1>6. CASE t \in Window(n, m)
  <2>1. /\ g.tick = t /\ g.commands[q] = m.commands[t]
        /\ f.tick = t => /\ g.state_checksum = f.state_checksum
                        /\ g.commands = [f.commands EXCEPT ![q] = m.commands[t]]
    BY <1>3, <1>4, <1>5, <1>6
  <2> QED BY <1>1, <1>6, <2>1 DEF q
<1>7. CASE t \notin Window(n, m)
  <2>1. g.tick = f.tick /\ g.commands = f.commands /\ g.state_checksum = f.state_checksum
    BY <1>3, <1>4, <1>7
  <2> QED BY <1>1, <1>7, <2>1
<1> QED BY <1>6, <1>7

\* What a packet completes lies in its window.
LEMMA CompletedTicks ==
    ASSUME InductiveInv, LogInv, NEW n \in Node, NEW m \in net, Receive(n, m),
           NEW p \in Peers(n), NEW t \in Nat,
           t > peer_highest_tick[n][p], t <= peer_highest_tick'[n][p]
    PROVE  p = m.player_id /\ t \in Window(n, m)
<1> DEFINE q == m.player_id
           old == peer_highest_tick[n][q]
<1>1. /\ m.base_tick \in Nat /\ m.frame_tick \in Nat /\ q \in Node
      /\ m.frame_tick <= sim_tick_count[n] + LookaheadCap
  BY PacketBounds DEF Receive, LogInv
<1>2. /\ peer_highest_tick \in [Node -> [Node -> Nat]] /\ old \in Nat
      /\ p \in Node /\ peer_highest_tick[n][p] \in Nat
  BY <1>1 DEF InductiveInv, TypeOK, Peers
<1>3. peer_highest_tick' = [peer_highest_tick EXCEPT ![n][q] =
                              IF m.base_tick <= old + 1 THEN Later(old, m.frame_tick) ELSE old]
  BY DEF Receive
<1> HIDE DEF q, old
<1>4. p = q
  BY <1>2, <1>3
<1>5. peer_highest_tick'[n][q] =
        IF m.base_tick <= old + 1 THEN Later(old, m.frame_tick) ELSE old
  BY <1>1, <1>2, <1>3
<1>6. /\ t \in m.base_tick .. m.frame_tick /\ t > old
  BY <1>1, <1>2, <1>4, <1>5 DEF Later, old
<1>7. confirmed_tick[n] <= old
  BY <1>4 DEF InductiveInv, DriftInv, old
<1>8. /\ t > confirmed_tick[n]
      /\ t >= sim_tick_count[n] - LocalHorizon
      /\ t <= Earlier(sim_tick_count[n], confirmed_tick[n]) + RingSize - 1
  BY <1>1, <1>2, <1>6, <1>7, TickBounds DEF LocalHorizon, Earlier
<1> QED BY <1>4, <1>6, <1>8 DEF Window, q

\* A packet takes back no clean world but those it contradicts.
LEMMA ReceivedTarget ==
    ASSUME InductiveInv, InductiveInv', NEW n \in Node, NEW m \in net, Receive(n, m)
    PROVE  /\ CleanTo(n)' <= CleanTo(n) /\ CleanTo(n) < sim_tick_count[n]
           /\ CleanTo(n) \in Int /\ CleanTo(n)' \in Int
           /\ \A u \in Mispredicted(n, m) : u > CleanTo(n)'
<1> DEFINE wrong == Mispredicted(n, m) \cup ({rollback_target[n]} \ {0})
           new == rollback_target'[n]
<1>1. PICK r \in RollbackTarget(n, m) :
           rollback_target' = [rollback_target EXCEPT ![n] = r]
  BY DEF Receive
<1>2. rollback_target \in [Node -> Nat] /\ new \in Nat /\ rollback_target[n] \in Nat
  BY DEF InductiveInv, TypeOK
<1>3. new = r
  BY <1>1, <1>2
<1>4. /\ wrong = {} => new = 0
      /\ wrong # {} => new \in wrong /\ \A y \in wrong : new <= y
  BY <1>1, <1>3 DEF RollbackTarget, Least
<1>5. /\ UNCHANGED sim_tick_count /\ phase[n] = "idle" /\ UNCHANGED phase
  BY DEF Receive, clockVars, controlVars
<1>6. \A u \in Mispredicted(n, m) : u \in Nat /\ u < sim_tick_count[n] /\ u > 0
  <2>1. m.base_tick \in Nat /\ m.frame_tick \in Nat /\ confirmed_tick[n] \in Nat
    BY TickBounds DEF InductiveInv, TypeOK, IsPacket
  <2> QED BY <2>1 DEF Mispredicted, Window
<1>7. /\ CleanTo(n) = IF rollback_target[n] # 0 THEN rollback_target[n] - 1
                      ELSE sim_tick_count[n] - 1
      /\ CleanTo(n)' = IF new # 0 THEN new - 1 ELSE sim_tick_count[n] - 1
  BY <1>5 DEF CleanTo
<1>8. rollback_target[n] # 0 => new <= rollback_target[n] /\ new # 0
  BY <1>2, <1>4, <1>6
<1>9. new < sim_tick_count[n] /\ sim_tick_count[n] \in Nat
  BY <1>5, TickBounds DEF InductiveInv, RollbackInv, TypeOK
<1>10. \A u \in Mispredicted(n, m) : new # 0 /\ new <= u
  BY <1>4, <1>6
<1> HIDE DEF wrong, new
<1>11. rollback_target[n] < sim_tick_count[n]
  BY TickBounds
<1> QED BY <1>2, <1>6, <1>7, <1>8, <1>9, <1>10, <1>11

\* intercept_network: every input it stores is the one that was played, and the worlds
\* that it does not condemn agree with the frames as they are now.
LEMMA LogReceive ==
    ASSUME InductiveInv, InductiveInv', LogInv, NEW n \in Node, NEW m \in net,
           Receive(n, m)
    PROVE  LogInv'
<1> DEFINE q == m.player_id
<1>1. /\ UNCHANGED <<sim_tick_count, confirmed_tick, head_tick, rts_grid, snapshot_ring,
                     phase, accumulator, tick_before, cursor, net>>
      /\ phase[n] = "idle" /\ q \in Peers(n) /\ q \in Node /\ q # n /\ n \in Peers(q)
  BY DEF Receive, clockVars, worldVars, controlVars, Peers
<1>2. InputsStay
  BY <1>1, InputsOfLogs
<1>3. NodeInv(n) /\ PeersAreKnown(n) /\ PacketIsTrue(m)
  BY DEF LogInv
<1>4. /\ peer_ack_of_me' = [peer_ack_of_me EXCEPT ![n][q] =
                              Later(peer_ack_of_me[n][q], m.peer_acks[n])]
      /\ peer_highest_tick' =
            [peer_highest_tick EXCEPT ![n][q] =
               IF m.base_tick <= peer_highest_tick[n][q] + 1
               THEN Later(peer_highest_tick[n][q], m.frame_tick)
               ELSE peer_highest_tick[n][q]]
      /\ \E r : frames' = [frames EXCEPT ![n] = r]
      /\ \E t : rollback_target' = [rollback_target EXCEPT ![n] = t]
  BY DEF Receive
<1>5. /\ peer_ack_of_me \in [Node -> [Node -> Nat]] /\ rollback_target \in [Node -> Nat]
      /\ peer_highest_tick \in [Node -> [Node -> Nat]]
      /\ frames \in [Node -> [Slots -> NetworkFrame]]
      /\ frames' \in [Node -> [Slots -> NetworkFrame]]
      /\ IsPacket(m) /\ m.peer_acks[n] \in Nat /\ m.frame_tick \in Nat /\ m.base_tick \in Nat
      /\ m.state_checksum \in Worlds
  BY DEF InductiveInv, TypeOK, IsPacket
<1>6. /\ sim_tick_count[n] \in Nat \ {0} /\ confirmed_tick[n] \in Nat
      /\ confirmed_tick[n] < sim_tick_count[n]
      /\ sim_tick_count[n] <= confirmed_tick[n] + LookaheadCap + 1
      /\ LookaheadCap \in Nat /\ RingSize \in Nat /\ RingSize >= 2 * LookaheadCap + 3
      /\ head_tick[n] = sim_tick_count[n] - 1
      /\ OldestFrame(n) = sim_tick_count[n] + LookaheadCap + 2 - RingSize
  BY <1>1, <1>3, TickBounds DEF NodeInv, PumpIsSteady, Preparing, OldestFrame
<1> HIDE DEF q
<1>7. \A p \in Node : p # n => UNCHANGED nodeVars(p)
  <2> SUFFICES ASSUME NEW p \in Node, p # n PROVE UNCHANGED nodeVars(p)
    OBVIOUS
  <2>1. /\ peer_ack_of_me'[p] = peer_ack_of_me[p] /\ peer_highest_tick'[p] = peer_highest_tick[p]
        /\ frames'[p] = frames[p] /\ rollback_target'[p] = rollback_target[p]
    BY <1>1, <1>4, <1>5
  <2> QED BY <1>1, <2>1 DEF nodeVars
<1>8. \A a, b \in Node : peer_highest_tick[a][b] <= peer_highest_tick'[a][b]
  BY <1>1, <1>4, <1>5 DEF Later
<1>9. PeersAreKnown(n)'
  <2> SUFFICES ASSUME NEW p \in Peers(n)
               PROVE  /\ peer_ack_of_me'[n][p] <= peer_highest_tick'[p][n]
                      /\ peer_highest_tick'[n][p] < sim_tick_count[p]
    BY <1>1 DEF PeersAreKnown
  <2>1. /\ p \in Node /\ p # n
        /\ peer_ack_of_me[n][p] <= peer_highest_tick[p][n]
        /\ peer_highest_tick[n][p] < sim_tick_count[p]
    BY <1>3 DEF Peers, PeersAreKnown
  <2>2. peer_highest_tick'[p][n] = peer_highest_tick[p][n]
    BY <1>1, <1>4, <1>5, <2>1
  <2>3. CASE p # q
    <3>1. /\ peer_ack_of_me'[n][p] = peer_ack_of_me[n][p]
          /\ peer_highest_tick'[n][p] = peer_highest_tick[n][p]
      BY <1>1, <1>4, <1>5, <2>1, <2>3
    <3> QED BY <2>1, <2>2, <3>1
  <2>4. CASE p = q
    <3>1. m.peer_acks[n] <= peer_highest_tick[q][n] /\ m.frame_tick < sim_tick_count[q]
      BY <1>1, <1>3 DEF PacketIsTrue, q
    <3>2. /\ peer_ack_of_me'[n][q] = Later(peer_ack_of_me[n][q], m.peer_acks[n])
          /\ \/ peer_highest_tick'[n][q] = peer_highest_tick[n][q]
             \/ peer_highest_tick'[n][q] = Later(peer_highest_tick[n][q], m.frame_tick)
      BY <1>1, <1>4, <1>5
    <3> QED BY <2>1, <2>2, <2>4, <3>1, <3>2 DEF Later
  <2> QED BY <2>3, <2>4
<1>10. \A t \in Window(n, m) : t \in Nat /\ t > confirmed_tick[n] /\ t <= m.frame_tick
                               /\ m.commands[t] = Input(q, t)
  BY <1>3, <1>5, <1>6 DEF Window, PacketIsTrue, q
<1>11. \A t \in Nat : /\ Frame(n, t) = frames[n][Slot(t)] /\ Frame(n, t)' = frames'[n][Slot(t)]
                      /\ Frame(n, t) \in NetworkFrame
  BY <1>5, SlotType DEF Frame, Slot
<1>12. \A t \in Nat : t <= head_tick[n] /\ t >= OldestFrame(n) => Frame(n, t).tick = t
  BY <1>3, <1>6 DEF NodeInv, TagsAreKept
<1>13. PumpIsSteady(n)'
  BY <1>1, <1>3 DEF NodeInv, PumpIsSteady, Preparing
<1>14. TagsAreKept(n)'
  <2>1. ASSUME NEW t \in 0 .. head_tick[n], t >= OldestFrame(n) PROVE Frame(n, t)'.tick = t
    <3>1. t \in Nat /\ t <= sim_tick_count[n] + LookaheadCap /\ Frame(n, t).tick = t
      BY <1>6, <1>12, <2>1
    <3> QED BY <1>3, <2>1, <3>1, ReceivedTick
  <2>2. ASSUME NEW t \in 0 .. head_tick[n] - RingSize, Frame(n, t)'.tick = t PROVE FALSE
    <3>1. t \in Nat /\ t \notin Window(n, m)
      BY <1>6, <1>10
    <3>2. Frame(n, t).tick = t
      BY <2>2, <3>1, ReceivedFrame
    <3> QED BY <1>3, <3>2 DEF NodeInv, TagsAreKept
  <2> QED BY <1>1, <2>1, <2>2 DEF TagsAreKept, OldestFrame
<1>15. OwnInputs(n)'
  <2> SUFFICES ASSUME NEW t \in 0 .. sim_tick_count[n] - 1, Frame(n, t)'.tick = t
               PROVE  Frame(n, t)'.commands[n] = Input(n, t)
    BY <1>1 DEF OwnInputs, Input, Log
  <2>1. t \in Nat /\ t <= head_tick[n]
    BY <1>6
  <2>2. CASE Frame(n, t).tick = t /\ Frame(n, t)'.commands = Frame(n, t).commands
    BY <1>3, <2>2 DEF NodeInv, OwnInputs
  <2>3. CASE t \in Window(n, m) /\ (Frame(n, t).tick = t =>
                Frame(n, t)'.commands = [Frame(n, t).commands EXCEPT ![q] = m.commands[t]])
    <3>1. Frame(n, t).tick = t
      BY <1>6, <1>10, <1>12, <2>1, <2>3
    <3>2. Frame(n, t)'.commands[n] = Frame(n, t).commands[n]
      BY <1>1, <1>11, <2>1, <2>3, <3>1 DEF NetworkFrame
    <3> QED BY <1>3, <3>1, <3>2 DEF NodeInv, OwnInputs
  <2> QED BY <2>1, <2>2, <2>3, ReceivedFrame DEF q
<1>16. HeardInputs(n)'
  <2> SUFFICES ASSUME NEW p \in Peers(n), NEW t \in 1 .. peer_highest_tick'[n][p],
                      t >= OldestFrame(n)
               PROVE  Frame(n, t)'.tick = t /\ Frame(n, t)'.commands[p] = Input(p, t)
    BY <1>1 DEF HeardInputs, OldestFrame, Input, Log
  <2>1. /\ p \in Node /\ t \in Nat /\ t >= 1 /\ peer_highest_tick[n][p] \in Nat
        /\ peer_highest_tick'[n][p] \in Nat /\ t <= peer_highest_tick'[n][p]
        /\ peer_highest_tick[n][p] <= sim_tick_count[n] + LookaheadCap
    BY <1>3, <1>5, HeardBounds DEF Peers, InductiveInv, TypeOK
  <2>2. CASE t <= peer_highest_tick[n][p]
    <3>1. /\ t \in 1 .. peer_highest_tick[n][p] /\ t <= sim_tick_count[n] + LookaheadCap
          /\ Frame(n, t) \in NetworkFrame
      BY <1>6, <1>11, <2>1, <2>2
    <3>2. Frame(n, t).tick = t /\ Frame(n, t).commands[p] = Input(p, t)
      BY <1>3, <3>1 DEF NodeInv, HeardInputs
    <3>3. CASE t \notin Window(n, m)
      BY <1>3, <2>1, <3>1, <3>2, <3>3, ReceivedTick
    <3>4. CASE t \in Window(n, m)
      <4>1. /\ Frame(n, t)'.tick = t
            /\ Frame(n, t)'.commands = [Frame(n, t).commands EXCEPT ![q] = m.commands[t]]
        BY <1>3, <2>1, <3>1, <3>2, <3>4, ReceivedTick DEF q
      <4>2. m.commands[t] = Input(q, t)
        BY <1>10, <3>4
      <4> QED BY <2>1, <3>1, <3>2, <4>1, <4>2 DEF NetworkFrame
    <3> QED BY <3>3, <3>4
  <2>3. CASE t > peer_highest_tick[n][p]
    <3>1. p = q /\ t \in Window(n, m)
      BY <2>1, <2>3, CompletedTicks DEF q
    <3>2. t <= sim_tick_count[n] + LookaheadCap
      BY <1>3, <1>5, <1>6, <1>10, <3>1, <1>1, PacketBounds DEF q
    <3> QED BY <1>3, <1>10, <2>1, <3>1, <3>2, ReceivedTick DEF q
  <2> QED BY <2>1, <2>2, <2>3
<1>17. WorldsAreKept(n)'
  BY <1>1, <1>3 DEF NodeInv, WorldsAreKept, TickOfWorld, Input, Log
<1>18. CleanWorlds(n)'
  <2>1. /\ CleanTo(n)' <= CleanTo(n) /\ CleanTo(n) < sim_tick_count[n]
        /\ CleanTo(n) \in Int /\ CleanTo(n)' \in Int
        /\ \A u \in Mispredicted(n, m) : u > CleanTo(n)'
    BY ReceivedTarget
  <2>2. ASSUME NEW t \in 0 .. CleanTo(n)', NEW u \in 1 .. t, u > confirmed_tick[n]
        PROVE  Frame(n, u)'.commands = Frame(n, u).commands
    <3>1. /\ u \in Nat /\ u < sim_tick_count[n] /\ u <= CleanTo(n)'
          /\ u >= OldestFrame(n) /\ u <= sim_tick_count[n] + LookaheadCap
          /\ u <= head_tick[n]
      BY <1>6, <2>1, <2>2
    <3>2. Frame(n, u).tick = u /\ Frame(n, u) \in NetworkFrame
      BY <1>11, <1>12, <3>1
    <3>3. CASE u \notin Window(n, m)
      BY <1>3, <3>1, <3>3, ReceivedTick
    <3>4. CASE u \in Window(n, m)
      <4>1. Frame(n, u)'.commands = [Frame(n, u).commands EXCEPT ![q] = m.commands[u]]
        BY <1>3, <3>1, <3>2, <3>4, ReceivedTick DEF q
      <4>2. u \notin Mispredicted(n, m)
        BY <2>1, <3>1
      <4>3. Frame(n, u).commands[q] = m.commands[u]
        BY <3>1, <3>2, <3>4, <4>2 DEF Mispredicted, Tagged, q
      <4> QED BY <3>2, <4>1, <4>3 DEF NetworkFrame
    <3> QED BY <3>3, <3>4
  <2>3. ASSUME NEW t \in 0 .. CleanTo(n)', t >= sim_tick_count[n] - RingSize
        PROVE  Frame(n, t)'.tick = t =>
                  Frame(n, t)'.state_checksum = snapshot_ring[n][Slot(t)]
    <3>1. t \in Nat /\ t \in 0 .. CleanTo(n) /\ t <= head_tick[n]
      BY <1>6, <2>1
    <3>2. Frame(n, t).tick = t => Frame(n, t).state_checksum = snapshot_ring[n][Slot(t)]
      BY <1>3, <2>3, <3>1 DEF NodeInv, CleanWorlds
    <3>3. t \in Window(n, m) => Frame(n, t).tick = t
      BY <1>6, <1>10, <1>12, <3>1
    <3> QED BY <3>1, <3>2, <3>3, ReceivedFrame
  <2>4. ASSUME NEW t \in 0 .. CleanTo(n)', t >= sim_tick_count[n] - RingSize,
               NEW u \in 1 .. t
        PROVE  IF u > confirmed_tick[n]
               THEN snapshot_ring[n][Slot(t)][u] = Frame(n, u)'.commands
               ELSE \A p \in Node : snapshot_ring[n][Slot(t)][u][p] = Input(p, u)
    <3>1. t \in 0 .. CleanTo(n)
      BY <2>1
    <3> QED BY <1>3, <2>2, <2>4, <3>1 DEF NodeInv, CleanWorlds
  <2> QED BY <1>1, <2>3, <2>4 DEF CleanWorlds, Input, Log, Slot
<1>19. ChecksumsAreTrue(n)'
  <2> SUFFICES ASSUME NEW s \in Slots, NEW w, w = frames'[n][s].remote_checksum,
                      w # NoChecksum
               PROVE  Len(w) = frames'[n][s].tick /\ IsTrue(w)'
    BY DEF ChecksumsAreTrue, IsTrue
  <2>1. \/ w = frames[n][s].remote_checksum /\ frames'[n][s].tick = frames[n][s].tick
        \/ /\ w = m.state_checksum /\ m.state_checksum # NoChecksum
           /\ frames'[n][s].tick = m.checksum_tick
    BY ReceivedSlot
  <2>2. w \in Worlds /\ IsTrue(w) /\ Len(w) = frames'[n][s].tick
    BY <1>3, <1>5, <2>1 DEF NodeInv, ChecksumsAreTrue, PacketIsTrue, NetworkFrame
  <2> QED BY <1>2, <2>2, TruthStays
<1>20. NodeInv(n)'
  BY <1>13, <1>14, <1>15, <1>16, <1>17, <1>18, <1>19 DEF NodeInv
<1> QED BY <1>1, <1>2, <1>7, <1>8, <1>9, <1>20, StepOfOne

-----------------------------------------------------------------------------
(* Preparing the frame of a tick.                                           *)

\* The frame prepared: of its tick, and with the inputs that peers have delivered.
LEMMA PreparedFrame ==
    ASSUME InductiveInv, NEW n \in Node, PrepareFrame(n)
    PROVE  LET t == sim_tick_count[n]
               f == Frame(n, t)
               g == frames'[n][Slot(t)]
           IN  /\ g.tick = t
               /\ f.tick = t => \A p \in Peers(n) : t <= peer_highest_tick[n][p] =>
                                    g.commands[p] = f.commands[p]
               /\ g.remote_checksum # NoChecksum =>
                    f.tick = t /\ g.remote_checksum = f.remote_checksum
               /\ \A s \in Slots : s # Slot(t) => frames'[n][s] = frames[n][s]
<1> DEFINE t == sim_tick_count[n]
           f == Frame(n, t)
           k == Tagged(f, t)
           mine == PollInput(n, k)
           g == frames'[n][Slot(t)]
           final == IF t > 1 THEN Predict(mine, Frame(n, t - 1), Unheard(n, t)) ELSE mine
<1>1. /\ t \in Nat /\ Slot(t) \in Slots /\ f \in NetworkFrame /\ TypeOK
      /\ frames \in [Node -> [Slots -> NetworkFrame]] /\ pending_ui_cmd[n] \in Commands
  BY SlotType, FrameType DEF InductiveInv, TypeOK
<1>2. frames' = [frames EXCEPT ![n][Slot(t)] = final]
  BY DEF PrepareFrame
<1> HIDE DEF final
<1>3. g = final /\ \A s \in Slots : s # Slot(t) => frames'[n][s] = frames[n][s]
  BY <1>1, <1>2
<1>4. /\ k \in NetworkFrame /\ k.tick = t
      /\ f.tick = t => k = f
      /\ k.remote_checksum # NoChecksum => k = f
  BY <1>1, TaggedType DEF Tagged, EmptyFrame
<1> HIDE DEF k, f, t
<1>5. mine = [k EXCEPT !.commands[n] = pending_ui_cmd[n]]
  BY DEF PollInput
<1> HIDE DEF mine
<1>6. /\ mine.tick = t /\ mine.remote_checksum = k.remote_checksum
      /\ mine.commands = [k.commands EXCEPT ![n] = pending_ui_cmd[n]]
  BY <1>4, <1>5 DEF NetworkFrame
<1>7. mine \in NetworkFrame
  BY <1>1, <1>4, <1>5, CommandStoreType
<1>8. /\ final.tick = t /\ final.remote_checksum = k.remote_checksum
      /\ \A p \in Node : p \notin Unheard(n, t) => final.commands[p] = mine.commands[p]
  BY <1>6, <1>7 DEF Predict, NetworkFrame, final
<1>9. \A p \in Peers(n) : /\ p \in Node /\ p # n
                          /\ t <= peer_highest_tick[n][p] => p \notin Unheard(n, t)
  BY <1>1 DEF Peers, Unheard, TypeOK
<1>10. \A p \in Peers(n) : t <= peer_highest_tick[n][p] => final.commands[p] = k.commands[p]
  <2> SUFFICES ASSUME NEW p \in Peers(n), t <= peer_highest_tick[n][p]
               PROVE  final.commands[p] = k.commands[p]
    OBVIOUS
  <2>1. final.commands[p] = mine.commands[p] /\ p # n
    BY <1>8, <1>9
  <2>2. k.commands \in [Node -> Commands]
    BY <1>4 DEF NetworkFrame
  <2> QED BY <1>6, <2>1, <2>2
<1> QED BY <1>3, <1>4, <1>8, <1>10 DEF f, t

\* A tick of the ring's window does not share the slot of the next one.
LEMMA OtherSlot ==
    ASSUME InductiveInv, NEW n \in Node, NEW u \in Int,
           u > sim_tick_count[n] - RingSize, u < sim_tick_count[n] + RingSize
    PROVE  Slot(u) = Slot(sim_tick_count[n]) <=> u = sim_tick_count[n]
<1>1. sim_tick_count[n] \in Int /\ RingSize \in Nat
  BY TickBounds
<1>2. u - sim_tick_count[n] < RingSize /\ sim_tick_count[n] - u < RingSize
  BY <1>1
<1> QED BY <1>1, <1>2, SlotInjective

\* prepare_frame and PollInput: the slot of the tick is free, and what peers have sent
\* for it is kept.
LEMMA LogPrepareFrame ==
    ASSUME InductiveInv, InductiveInv', LogInv, NEW n \in Node, PrepareFrame(n)
    PROVE  LogInv'
<1> DEFINE t == sim_tick_count[n]
<1>1. /\ UNCHANGED <<sim_tick_count, confirmed_tick, rollback_target, peerVars, rts_grid,
                     snapshot_ring, accumulator, tick_before, cursor, net>>
      /\ phase[n] = "loop" /\ accumulator[n] > 0
      /\ phase' = [phase EXCEPT ![n] = IF rollback_target[n] # 0 THEN "rollback"
                                       ELSE "simulate"]
      /\ head_tick' = [head_tick EXCEPT ![n] = t]
      /\ \E s, f : frames' = [frames EXCEPT ![n][s] = f]
  BY DEF PrepareFrame, worldVars
<1>2. phase \in [Node -> Phases] /\ head_tick \in [Node -> Nat]
      /\ frames \in [Node -> [Slots -> NetworkFrame]]
  BY DEF InductiveInv, TypeOK
<1>3. InputsStay
  BY <1>1, InputsOfLogs
<1>4. \A q \in Node : q # n => UNCHANGED nodeVars(q)
  BY <1>1, <1>2 DEF nodeVars, peerVars
<1>5. /\ NodeInv(n) /\ PeersAreKnown(n) /\ phase'[n] \in {"rollback", "simulate"}
      /\ head_tick'[n] = t /\ head_tick[n] = t - 1
  BY <1>1, <1>2 DEF LogInv, NodeInv, PumpIsSteady, Preparing
<1>6. /\ t \in Nat \ {0} /\ confirmed_tick[n] \in Nat /\ confirmed_tick[n] < t
      /\ t <= confirmed_tick[n] + LookaheadCap + 1
      /\ LookaheadCap \in Nat /\ RingSize \in Nat /\ RingSize >= 2 * LookaheadCap + 3
      /\ OldestFrame(n) = t + LookaheadCap + 2 - RingSize
  BY TickBounds DEF OldestFrame
<1>7. /\ frames'[n][Slot(t)].tick = t
      /\ \A s \in Slots : s # Slot(t) => frames'[n][s] = frames[n][s]
  BY PreparedFrame
<1>8. \A u \in Int : /\ Frame(n, u) = frames[n][Slot(u)] /\ Frame(n, u)' = frames'[n][Slot(u)]
                     /\ Slot(u) \in Slots
  BY SlotType DEF Frame, Slot
<1>9. ASSUME NEW u \in Int, u # t, u > t - RingSize, u < t + RingSize
      PROVE  Frame(n, u)' = Frame(n, u)
  BY <1>7, <1>8, <1>9, OtherSlot
<1>10. ASSUME NEW u \in Int, u # t, Frame(n, u)'.tick = u PROVE Frame(n, u)' = Frame(n, u)
  BY <1>7, <1>8, <1>10
<1> HIDE DEF t
<1>11. PumpIsSteady(n)'
  BY <1>1, <1>5, <1>6 DEF NodeInv, PumpIsSteady, Preparing, peerVars, t
<1>12. TagsAreKept(n)'
  <2>1. ASSUME NEW u \in 0 .. t, u >= OldestFrame(n) PROVE Frame(n, u)'.tick = u
    <3>1. CASE u = t
      BY <1>6, <1>7, <1>8, <3>1
    <3>2. CASE u # t
      <4>1. u \in 0 .. head_tick[n] /\ Frame(n, u)' = Frame(n, u)
        BY <1>5, <1>6, <1>9, <2>1, <3>2
      <4> QED BY <1>5, <2>1, <4>1 DEF NodeInv, TagsAreKept
    <3> QED BY <3>1, <3>2
  <2>2. ASSUME NEW u \in 0 .. t - RingSize, Frame(n, u)'.tick = u PROVE FALSE
    <3>1. u \in Int /\ u # t
      BY <1>6
    <3>2. Frame(n, u).tick = u
      BY <1>10, <2>2, <3>1
    <3>3. u # t - RingSize
      <4>1. t - RingSize # t /\ Slot(t - RingSize) = Slot(t) /\ t - RingSize \in Int
        BY <1>6, SlotBack
      <4> QED BY <1>7, <1>8, <2>2, <3>1, <4>1
    <3> QED BY <1>5, <1>6, <3>2, <3>3 DEF NodeInv, TagsAreKept
  <2> QED BY <1>1, <1>5, <2>1, <2>2 DEF TagsAreKept, OldestFrame
<1>13. OwnInputs(n)'
  <2> SUFFICES ASSUME NEW u \in 0 .. t - 1, Frame(n, u)'.tick = u
               PROVE  Frame(n, u)'.commands[n] = Input(n, u)
    BY <1>1 DEF OwnInputs, Input, Log, t
  <2>1. Frame(n, u)' = Frame(n, u)
    BY <1>6, <1>10
  <2> QED BY <1>5, <2>1 DEF NodeInv, OwnInputs, t
<1>14. HeardInputs(n)'
  <2> SUFFICES ASSUME NEW p \in Peers(n), NEW u \in 1 .. peer_highest_tick[n][p],
                      u >= OldestFrame(n)
               PROVE  Frame(n, u)'.tick = u /\ Frame(n, u)'.commands[p] = Input(p, u)
    BY <1>1 DEF HeardInputs, OldestFrame, Input, Log, peerVars
  <2>1. Frame(n, u).tick = u /\ Frame(n, u).commands[p] = Input(p, u)
    BY <1>5 DEF NodeInv, HeardInputs
  <2>2. u \in Int /\ u <= t + LookaheadCap /\ u <= peer_highest_tick[n][p]
    BY <1>5, <1>6, HeardBounds DEF t
  <2>3. CASE u = t
    <3>1. Frame(n, u)'.tick = t /\ Frame(n, u)'.commands[p] = Frame(n, u).commands[p]
      BY <1>8, <2>1, <2>2, <2>3, PreparedFrame DEF t
    <3> QED BY <2>1, <2>3, <3>1
  <2>4. CASE u # t
    BY <1>6, <1>9, <2>1, <2>2, <2>4
  <2> QED BY <2>3, <2>4
<1>15. WorldsAreKept(n)'
  BY <1>1, <1>5 DEF NodeInv, WorldsAreKept, TickOfWorld, Input, Log
<1>16. CleanWorlds(n)'
  <2>1. CleanTo(n)' = CleanTo(n)
    BY <1>1, <1>5 DEF CleanTo
  <2>2. CleanTo(n) \in Int /\ CleanTo(n) < t
    BY <1>1, TickBounds DEF CleanTo, t
  <2>3. ASSUME NEW v \in 0 .. CleanTo(n), v >= t - RingSize, NEW u \in 1 .. v
        PROVE  IF u > confirmed_tick[n]
               THEN snapshot_ring[n][Slot(v)][u] = Frame(n, u)'.commands
               ELSE \A p \in Node : snapshot_ring[n][Slot(v)][u][p] = Input(p, u)
    <3>1. CASE u > confirmed_tick[n]
      <4>1. Frame(n, u)' = Frame(n, u)
        BY <1>6, <1>9, <2>2, <2>3, <3>1
      <4> QED BY <1>5, <2>3, <3>1, <4>1 DEF NodeInv, CleanWorlds, t
    <3>2. CASE ~(u > confirmed_tick[n])
      BY <1>5, <2>3, <3>2 DEF NodeInv, CleanWorlds, t
    <3> QED BY <3>1, <3>2
  <2>4. ASSUME NEW v \in 0 .. CleanTo(n), v >= t - RingSize, Frame(n, v)'.tick = v
        PROVE  Frame(n, v)'.state_checksum = snapshot_ring[n][Slot(v)]
    <3>1. Frame(n, v)' = Frame(n, v)
      BY <1>6, <1>10, <2>2, <2>4
    <3> QED BY <1>5, <2>4, <3>1 DEF NodeInv, CleanWorlds, t
  <2> QED BY <1>1, <2>1, <2>3, <2>4 DEF CleanWorlds, Input, Log, Slot, t
<1>17. ChecksumsAreTrue(n)'
  <2> SUFFICES ASSUME NEW s \in Slots, NEW w, w = frames'[n][s].remote_checksum,
                      w # NoChecksum
               PROVE  Len(w) = frames'[n][s].tick /\ IsTrue(w)'
    BY DEF ChecksumsAreTrue, IsTrue
  <2>1. w = frames[n][s].remote_checksum /\ frames'[n][s].tick = frames[n][s].tick
    BY <1>7, PreparedFrame DEF Frame, t
  <2>2. w \in Worlds /\ IsTrue(w) /\ Len(w) = frames'[n][s].tick
    BY <1>2, <1>5, <2>1 DEF NodeInv, ChecksumsAreTrue, NetworkFrame
  <2> QED BY <1>3, <2>2, TruthStays
<1>18. NodeInv(n)'
  BY <1>11, <1>12, <1>13, <1>14, <1>15, <1>16, <1>17 DEF NodeInv
<1>19. PeersAreKnown(n)'
       /\ \A q, p \in Node : peer_highest_tick[q][p] <= peer_highest_tick'[q][p]
  BY <1>1, <1>3, PeersStay DEF LogInv
<1> QED BY <1>1, <1>3, <1>4, <1>18, <1>19, StepOfOne

-----------------------------------------------------------------------------
(* Simulating a tick, forward or again.                                     *)

\* What SimulateTick, HashState and the snapshot change.
LEMMA SimulatedSlots ==
    ASSUME InductiveInv, NEW n \in Node, NEW t \in Nat, NEW f \in NetworkFrame,
           Simulated(n, t, f)
    PROVE  LET world == rts_grid'[n]
               g == frames'[n][Slot(t)]
           IN  /\ world \in Worlds /\ Len(world) = Len(rts_grid[n]) + 1
               /\ \A u \in 1 .. Len(rts_grid[n]) : world[u] = rts_grid[n][u]
               /\ world[Len(world)] = f.commands
               /\ snapshot_ring'[n][Slot(t)] = world
               /\ g.tick = f.tick /\ g.commands = f.commands
               /\ g.remote_checksum = f.remote_checksum /\ g.state_checksum = world
               /\ \A s \in Slots : s # Slot(t) => /\ frames'[n][s] = frames[n][s]
                                                  /\ snapshot_ring'[n][s] = snapshot_ring[n][s]
               /\ \A q \in Node : q # n => /\ frames'[q] = frames[q]
                                           /\ snapshot_ring'[q] = snapshot_ring[q]
                                           /\ rts_grid'[q] = rts_grid[q]
<1> DEFINE old == rts_grid[n]
           world == Append(old, f.commands)
           g == [f EXCEPT !.state_checksum = world]
<1>1. /\ rts_grid \in [Node -> Worlds] /\ snapshot_ring \in [Node -> [Slots -> Worlds]]
      /\ frames \in [Node -> [Slots -> NetworkFrame]] /\ Slot(t) \in Slots
      /\ f.commands \in [Node -> Commands] /\ old \in Worlds
  BY SlotType DEF InductiveInv, TypeOK, NetworkFrame
<1>2. /\ world \in Worlds /\ Len(world) = Len(old) + 1
      /\ \A u \in 1 .. Len(old) : world[u] = old[u]
      /\ world[Len(old) + 1] = f.commands
  BY <1>1, AppendProperties DEF Worlds
<1>3. /\ rts_grid' = [rts_grid EXCEPT ![n] = world]
      /\ snapshot_ring' = [snapshot_ring EXCEPT ![n][Slot(t)] = world]
      /\ frames' = [frames EXCEPT ![n][Slot(t)] = g]
  BY DEF Simulated, SimulateTick
<1> HIDE DEF world
<1>4. /\ g.tick = f.tick /\ g.commands = f.commands
      /\ g.remote_checksum = f.remote_checksum /\ g.state_checksum = world
  BY DEF NetworkFrame
<1> HIDE DEF g, old
<1>5. rts_grid'[n] = world /\ \A q \in Node : q # n => rts_grid'[q] = rts_grid[q]
  BY <1>1, <1>3
<1>6. /\ snapshot_ring'[n][Slot(t)] = world
      /\ \A s \in Slots : s # Slot(t) => snapshot_ring'[n][s] = snapshot_ring[n][s]
      /\ \A q \in Node : q # n => snapshot_ring'[q] = snapshot_ring[q]
  BY <1>1, <1>3
<1>7. /\ frames'[n][Slot(t)] = g
      /\ \A s \in Slots : s # Slot(t) => frames'[n][s] = frames[n][s]
      /\ \A q \in Node : q # n => frames'[q] = frames[q]
  BY <1>1, <1>3
<1> QED BY <1>2, <1>4, <1>5, <1>6, <1>7 DEF old

\* Tick t is simulated from its frame, whose missing inputs are predicted once more.
SimulatesTick(n, t, f) ==
    /\ Simulated(n, t, f) /\ f \in NetworkFrame /\ t \in Nat \ {0}
    /\ t <= sim_tick_count[n] /\ t >= sim_tick_count[n] - LookaheadCap
    /\ t <= head_tick[n]
    /\ f.tick = t /\ f.commands[n] = Frame(n, t).commands[n]
    /\ f.remote_checksum = Frame(n, t).remote_checksum
    /\ \A p \in Peers(n) : t <= peer_highest_tick[n][p] =>
                               f.commands[p] = Frame(n, t).commands[p]
    /\ TickOfWorld(n) = t - 1 /\ CleanTo(n) = t - 1
    /\ TickOfWorld(n)' = t /\ CleanTo(n)' = t
    /\ sim_tick_count' = [sim_tick_count EXCEPT ![n] = Later(@, t + 1)]
    /\ UNCHANGED <<confirmed_tick, head_tick, peerVars, net>>

\* Where a node simulates a tick: numbers.
LEMMA SimulatesBounds ==
    ASSUME InductiveInv, LogInv, NEW n \in Node, NEW t, NEW f, SimulatesTick(n, t, f)
    PROVE  /\ t \in Nat /\ t >= 1 /\ sim_tick_count[n] \in Nat /\ confirmed_tick[n] \in Nat
           /\ confirmed_tick[n] < sim_tick_count[n]
           /\ sim_tick_count[n] <= confirmed_tick[n] + LookaheadCap + 1
           /\ t <= sim_tick_count[n] /\ t >= sim_tick_count[n] - LookaheadCap
           /\ LookaheadCap \in Nat /\ RingSize \in Nat /\ RingSize >= 2 * LookaheadCap + 3
           /\ OldestFrame(n) = sim_tick_count[n] + LookaheadCap + 2 - RingSize
           /\ t < sim_tick_count[n] => sim_tick_count'[n] = sim_tick_count[n]
           /\ t = sim_tick_count[n] => sim_tick_count'[n] = t + 1
           /\ \A p \in Node : p # n => sim_tick_count'[p] = sim_tick_count[p]
           /\ Frame(n, t).tick = t
           /\ rts_grid[n] = snapshot_ring[n][Slot(t - 1)] /\ Len(rts_grid[n]) = t - 1
           /\ \A u \in 1 .. t - 1 : rts_grid[n][u][n] = Input(n, u)
<1>1. /\ sim_tick_count \in [Node -> Nat \ {0}] /\ NodeInv(n) /\ TypeOK
  BY DEF InductiveInv, TypeOK, LogInv
<1>2. /\ t \in Nat /\ t >= 1 /\ t <= head_tick[n] /\ t <= sim_tick_count[n]
      /\ t >= sim_tick_count[n] - LookaheadCap /\ TickOfWorld(n) = t - 1
      /\ sim_tick_count' = [sim_tick_count EXCEPT ![n] = Later(sim_tick_count[n], t + 1)]
  BY DEF SimulatesTick
<1>3. /\ t < sim_tick_count[n] => sim_tick_count'[n] = sim_tick_count[n]
      /\ t = sim_tick_count[n] => sim_tick_count'[n] = t + 1
      /\ \A p \in Node : p # n => sim_tick_count'[p] = sim_tick_count[p]
  BY <1>1, <1>2 DEF Later
<1>4. t \in 0 .. head_tick[n] /\ t >= OldestFrame(n)
  BY <1>2, TickBounds DEF OldestFrame
<1>5. Frame(n, t).tick = t
  BY <1>1, <1>4 DEF NodeInv, TagsAreKept
<1>6. t - 1 \in 0 .. sim_tick_count[n] - 1 /\ t - 1 >= sim_tick_count[n] - RingSize
  BY <1>2, TickBounds
<1>7. rts_grid[n] = snapshot_ring[n][Slot(t - 1)]
  BY <1>1, <1>2 DEF NodeInv, WorldsAreKept
<1>8. /\ Len(snapshot_ring[n][Slot(t - 1)]) = t - 1
      /\ \A u \in 1 .. t - 1 : snapshot_ring[n][Slot(t - 1)][u][n] = Input(n, u)
  BY <1>1, <1>6 DEF NodeInv, WorldsAreKept
<1> QED BY <1>2, <1>3, <1>5, <1>7, <1>8, TickBounds DEF OldestFrame

\* A tick simulated again has the inputs of the node that it had before.
LEMMA SimulatesInputs ==
    ASSUME InductiveInv, LogInv, NEW n \in Node, NEW t, NEW f, SimulatesTick(n, t, f)
    PROVE  /\ InputsStay
           /\ Input(n, t)' = Frame(n, t).commands[n]
           /\ \A u \in 1 .. t : rts_grid'[n][u][n] = Input(n, u)'
<1> DEFINE world == rts_grid'[n]
           sim == sim_tick_count[n]
<1>1. /\ t \in Nat /\ t >= 1 /\ sim \in Nat /\ t <= sim /\ t >= sim - LookaheadCap
      /\ LookaheadCap \in Nat /\ RingSize \in Nat /\ RingSize >= 2 * LookaheadCap + 3
      /\ t < sim => sim_tick_count'[n] = sim
      /\ t = sim => sim_tick_count'[n] = t + 1
  BY SimulatesBounds
<1>2. /\ \A p \in Node : p # n => sim_tick_count'[p] = sim_tick_count[p]
      /\ Frame(n, t).tick = t
      /\ Len(rts_grid[n]) = t - 1
      /\ \A u \in 1 .. t - 1 : rts_grid[n][u][n] = Input(n, u)
  BY SimulatesBounds
<1>3. Simulated(n, t, f) /\ f \in NetworkFrame /\ f.commands[n] = Frame(n, t).commands[n]
  BY DEF SimulatesTick
<1>4. /\ Len(world) = Len(rts_grid[n]) + 1 /\ world[Len(world)] = f.commands
      /\ \A u \in 1 .. Len(rts_grid[n]) : world[u] = rts_grid[n][u]
      /\ snapshot_ring'[n][Slot(t)] = world
      /\ \A s \in Slots : s # Slot(t) => snapshot_ring'[n][s] = snapshot_ring[n][s]
      /\ \A p \in Node : p # n => snapshot_ring'[p] = snapshot_ring[p]
  BY <1>1, <1>3, SimulatedSlots
<1> HIDE DEF world, sim
<1>5. /\ world[t] = f.commands
      /\ \A u \in 1 .. t - 1 : world[u] = rts_grid[n][u]
  BY <1>1, <1>2, <1>4
<1>6. t < sim => world[t][n] = Input(n, t)
  <2>1. t < sim => t \in 0 .. sim - 1
    BY <1>1
  <2> QED BY <1>2, <1>3, <1>5, <2>1 DEF LogInv, NodeInv, OwnInputs, sim
<1>7. \A p \in Node, u \in Nat \ {0} :
          /\ Input(p, u) = snapshot_ring[p][Slot(sim_tick_count[p] - 1)][u][p]
          /\ Input(p, u)' = snapshot_ring'[p][Slot(sim_tick_count'[p] - 1)][u][p]
  BY DEF Input, Log, Slot
<1>8. \A p \in Node : Input(p, 0) = Idle /\ Input(p, 0)' = Idle
  BY DEF Input
<1>9. ASSUME NEW u \in 1 .. sim - 1 PROVE Input(n, u)' = Input(n, u)
  <2>1. u \in Nat \ {0}
    BY <1>1
  <2>2. CASE t >= sim - 1
    <3>1. sim_tick_count'[n] - 1 = t
      BY <1>1, <2>2
    <3>2. Input(n, u)' = world[u][n]
      BY <1>4, <1>7, <2>1, <3>1
    <3>3. CASE u = t
      <4>1. t < sim
        BY <1>1, <3>3
      <4> QED BY <1>6, <3>2, <3>3, <4>1
    <3>4. CASE u # t
      <4>1. u \in 1 .. t - 1
        BY <1>1, <2>2, <3>4
      <4> QED BY <1>2, <1>5, <3>2, <4>1
    <3> QED BY <3>3, <3>4
  <2>3. CASE t < sim - 1
    <3>1. /\ sim_tick_count'[n] = sim /\ sim - 1 \in Int /\ t \in Int
          /\ sim - 1 - t < RingSize /\ t - (sim - 1) < RingSize /\ t # sim - 1
      BY <1>1, <2>3
    <3>2. Slot(sim - 1) # Slot(t)
      BY <3>1, SlotInjective
    <3>3. Slot(sim - 1) \in Slots
      BY <3>1, SlotType
    <3>4. snapshot_ring'[n][Slot(sim - 1)] = snapshot_ring[n][Slot(sim - 1)]
      BY <1>4, <3>2, <3>3
    <3> QED BY <1>7, <2>1, <3>1, <3>4 DEF sim
  <2> QED BY <1>1, <2>2, <2>3
<1>10. InputsStay
  <2>1. ASSUME NEW p \in Node, p # n, NEW u \in 0 .. sim_tick_count[p] - 1
        PROVE  Input(p, u)' = Input(p, u)
    BY <1>2, <1>4, <2>1 DEF Input, Log, Slot
  <2>2. ASSUME NEW u \in 0 .. sim - 1 PROVE Input(n, u)' = Input(n, u)
    <3>1. u = 0 \/ u \in 1 .. sim - 1
      BY <1>1
    <3> QED BY <1>8, <1>9, <3>1
  <2>3. ASSUME NEW p \in Node PROVE sim_tick_count[p] <= sim_tick_count'[p]
    <3>1. CASE p = n
      BY <1>1, <3>1 DEF sim
    <3>2. CASE p # n
      <4>1. sim_tick_count[p] \in Nat
        BY DEF InductiveInv, TypeOK
      <4> QED BY <1>2, <3>2, <4>1
    <3> QED BY <3>1, <3>2
  <2> QED BY <2>1, <2>2, <2>3 DEF InputsStay, sim
<1>11. Input(n, t)' = world[t][n]
  <2>1. CASE t = sim
    <3>1. sim_tick_count'[n] - 1 = t /\ t \in Nat \ {0}
      BY <1>1, <2>1
    <3> QED BY <1>4, <1>7, <3>1
  <2>2. CASE t < sim
    <3>1. t \in 1 .. sim - 1
      BY <1>1, <2>2
    <3> QED BY <1>6, <1>9, <2>2, <3>1
  <2> QED BY <1>1, <2>1, <2>2
<1>12. ASSUME NEW u \in 1 .. t PROVE world[u][n] = Input(n, u)'
  <2>1. CASE u = t
    BY <1>11, <2>1
  <2>2. CASE u # t
    <3>1. u \in 1 .. t - 1 /\ u \in 1 .. sim - 1
      BY <1>1, <2>2
    <3> QED BY <1>2, <1>5, <1>9, <3>1
  <2> QED BY <2>1, <2>2
<1> QED BY <1>3, <1>5, <1>10, <1>11, <1>12 DEF world

\* The world of the tick is made of what the frames hold, and true where it is confirmed.
LEMMA SimulatesWorld ==
    ASSUME InductiveInv, LogInv, NEW n \in Node, NEW t, NEW f, SimulatesTick(n, t, f)
    PROVE  \A u \in 1 .. t :
              IF u > confirmed_tick[n] THEN rts_grid'[n][u] = Frame(n, u)'.commands
              ELSE \A p \in Node : rts_grid'[n][u][p] = Input(p, u)
<1> DEFINE world == rts_grid'[n]
           conf == confirmed_tick[n]
           sim == sim_tick_count[n]
<1>1. /\ t \in Nat /\ t >= 1 /\ sim \in Nat /\ t <= sim /\ t >= sim - LookaheadCap
      /\ conf \in Nat /\ conf < sim /\ sim <= conf + LookaheadCap + 1
      /\ LookaheadCap \in Nat /\ RingSize \in Nat /\ RingSize >= 2 * LookaheadCap + 3
      /\ OldestFrame(n) = sim + LookaheadCap + 2 - RingSize
  BY SimulatesBounds
<1>2. /\ Frame(n, t).tick = t
      /\ rts_grid[n] = snapshot_ring[n][Slot(t - 1)] /\ Len(rts_grid[n]) = t - 1
  BY SimulatesBounds
<1>3. /\ Simulated(n, t, f) /\ f \in NetworkFrame /\ f.commands[n] = Frame(n, t).commands[n]
      /\ \A p \in Peers(n) : t <= peer_highest_tick[n][p] =>
                                 f.commands[p] = Frame(n, t).commands[p]
      /\ NodeInv(n) /\ PeersAreKnown(n) /\ CleanTo(n) = t - 1
  BY DEF LogInv, SimulatesTick
<1>4. /\ Len(world) = Len(rts_grid[n]) + 1 /\ world[Len(world)] = f.commands
      /\ \A u \in 1 .. Len(rts_grid[n]) : world[u] = rts_grid[n][u]
      /\ frames'[n][Slot(t)].commands = f.commands
      /\ \A s \in Slots : s # Slot(t) => frames'[n][s] = frames[n][s]
  BY <1>1, <1>3, SimulatedSlots
<1> HIDE DEF world, sim, conf
<1>5. /\ world[t] = f.commands
      /\ \A u \in 1 .. t - 1 : world[u] = rts_grid[n][u]
  BY <1>1, <1>2, <1>4
<1>6. \A u \in 1 .. t - 1 : IF u > conf THEN rts_grid[n][u] = Frame(n, u).commands
                            ELSE \A p \in Node : rts_grid[n][u][p] = Input(p, u)
  <2>1. t - 1 \in 0 .. t - 1 /\ t - 1 >= sim - RingSize
    BY <1>1
  <2> QED BY <1>2, <1>3, <2>1 DEF NodeInv, CleanWorlds, sim, conf
<1>7. ASSUME NEW u \in 1 .. t - 1, u > conf PROVE world[u] = Frame(n, u)'.commands
  <2>1. u \in Int /\ t \in Int /\ u - t < RingSize /\ t - u < RingSize /\ u # t
    BY <1>1, <1>7
  <2>2. Slot(u) # Slot(t)
    BY <2>1, SlotInjective
  <2>3. Slot(u) \in Slots
    BY <2>1, SlotType
  <2>4. Frame(n, u)' = Frame(n, u)
    BY <1>4, <2>2, <2>3 DEF Frame, Slot
  <2> QED BY <1>5, <1>6, <1>7, <2>4
<1>8. world[t] = Frame(n, t)'.commands
  BY <1>4, <1>5 DEF Frame, Slot
<1>9. ASSUME t <= conf, NEW p \in Node PROVE world[t][p] = Input(p, t)
  <2>1. CASE p = n
    <3>1. t \in 0 .. sim - 1
      BY <1>1, <1>9
    <3> QED BY <1>2, <1>3, <1>5, <2>1, <3>1 DEF NodeInv, OwnInputs, sim
  <2>2. CASE p # n
    <3>1. /\ p \in Peers(n) /\ conf <= peer_highest_tick[n][p]
          /\ peer_highest_tick[n][p] \in Nat
      BY <1>3, <2>2, HeardBounds DEF Peers, conf
    <3>2. /\ t \in 1 .. peer_highest_tick[n][p] /\ t >= OldestFrame(n)
          /\ t <= peer_highest_tick[n][p]
      BY <1>1, <1>9, <3>1
    <3>3. Frame(n, t).commands[p] = Input(p, t)
      BY <1>3, <3>1, <3>2 DEF NodeInv, HeardInputs
    <3> QED BY <1>3, <1>5, <3>1, <3>2, <3>3
  <2> QED BY <2>1, <2>2
<1>10. ASSUME NEW u \in 1 .. t
       PROVE  IF u > conf THEN world[u] = Frame(n, u)'.commands
              ELSE \A p \in Node : world[u][p] = Input(p, u)
  <2>1. CASE u = t
    BY <1>1, <1>8, <1>9, <2>1
  <2>2. CASE u # t
    <3>1. u \in 1 .. t - 1
      BY <1>1, <2>2
    <3> QED BY <1>5, <1>6, <1>7, <3>1
  <2> QED BY <2>1, <2>2
<1> QED BY <1>10 DEF world, conf

\* Simulating a tick keeps the histories.
LEMMA LogSimulated ==
    ASSUME InductiveInv, InductiveInv', LogInv, NEW n \in Node, NEW t, NEW f,
           SimulatesTick(n, t, f)
    PROVE  /\ TagsAreKept(n)' /\ OwnInputs(n)' /\ HeardInputs(n)'
           /\ WorldsAreKept(n)' /\ CleanWorlds(n)' /\ ChecksumsAreTrue(n)'
<1> DEFINE world == rts_grid'[n]
           conf == confirmed_tick[n]
           sim == sim_tick_count[n]
           now == sim_tick_count'[n]
<1>1. /\ t \in Nat /\ t >= 1 /\ sim \in Nat /\ t <= sim /\ t >= sim - LookaheadCap
      /\ conf \in Nat /\ conf < sim /\ sim <= conf + LookaheadCap + 1
      /\ LookaheadCap \in Nat /\ RingSize \in Nat /\ RingSize >= 2 * LookaheadCap + 3
      /\ OldestFrame(n) = sim + LookaheadCap + 2 - RingSize
      /\ t < sim => now = sim
      /\ t = sim => now = t + 1
  BY SimulatesBounds
<1>2. /\ Frame(n, t).tick = t /\ Len(rts_grid[n]) = t - 1
  BY SimulatesBounds
<1>3. /\ Simulated(n, t, f) /\ f \in NetworkFrame /\ f.commands[n] = Frame(n, t).commands[n]
      /\ \A p \in Peers(n) : t <= peer_highest_tick[n][p] =>
                                 f.commands[p] = Frame(n, t).commands[p]
      /\ f.tick = t /\ f.remote_checksum = Frame(n, t).remote_checksum
      /\ NodeInv(n) /\ PeersAreKnown(n) /\ CleanTo(n) = t - 1
      /\ UNCHANGED <<confirmed_tick, head_tick, peerVars>>
      /\ TickOfWorld(n)' = t /\ CleanTo(n)' = t
  BY DEF LogInv, SimulatesTick
<1>4. /\ Len(world) = Len(rts_grid[n]) + 1
      /\ snapshot_ring'[n][Slot(t)] = world
      /\ \A s \in Slots : s # Slot(t) => /\ frames'[n][s] = frames[n][s]
                                         /\ snapshot_ring'[n][s] = snapshot_ring[n][s]
  BY <1>1, <1>3, SimulatedSlots
<1>5. /\ frames'[n][Slot(t)].tick = t /\ frames'[n][Slot(t)].commands = f.commands
      /\ frames'[n][Slot(t)].remote_checksum = frames[n][Slot(t)].remote_checksum
      /\ frames'[n][Slot(t)].state_checksum = world
      /\ frames[n][Slot(t)].tick = t
  BY <1>1, <1>2, <1>3, SimulatedSlots DEF Frame
<1> HIDE DEF world, sim, conf, now
<1>6. Len(world) = t
  BY <1>1, <1>2, <1>4
<1>7. /\ InputsStay
      /\ Input(n, t)' = Frame(n, t).commands[n]
      /\ \A u \in 1 .. t : world[u][n] = Input(n, u)'
  BY SimulatesInputs DEF world
<1>8. \A u \in Int : /\ Frame(n, u) = frames[n][Slot(u)] /\ Frame(n, u)' = frames'[n][Slot(u)]
                     /\ Slot(u) \in Slots
  BY SlotType DEF Frame, Slot
<1>9. ASSUME NEW u \in Int, u # t, u - t < RingSize, t - u < RingSize
      PROVE  Slot(u) # Slot(t)
  <2>1. t \in Int
    BY <1>1
  <2> QED BY <1>9, <2>1, SlotInjective
<1>10. ASSUME NEW s \in Slots PROVE frames'[n][s].tick = frames[n][s].tick
  BY <1>4, <1>5
<1>11. ASSUME NEW u \in Int, u # t, Frame(n, u).tick = u
       PROVE  Frame(n, u)' = Frame(n, u)
  <2>1. Slot(u) # Slot(t)
    BY <1>5, <1>8, <1>11
  <2> QED BY <1>4, <1>8, <2>1
<1>12. \A u \in 0 .. sim - 1 : Input(n, u)' = Input(n, u)
  BY <1>7 DEF InputsStay, sim
<1>13. /\ OldestFrame(n)' >= OldestFrame(n) /\ OldestFrame(n)' \in Int /\ OldestFrame(n) \in Int
       /\ head_tick[n] \in Nat /\ head_tick'[n] = head_tick[n]
  <2>1. OldestFrame(n)' = now + LookaheadCap + 2 - RingSize
    BY DEF OldestFrame, now
  <2> QED BY <1>1, <1>3, <2>1, TickBounds
<1>14. TagsAreKept(n)'
  <2>1. \A u \in 0 .. head_tick[n] : u >= OldestFrame(n) => Frame(n, u)'.tick = u
    BY <1>3, <1>8, <1>10, <1>13 DEF NodeInv, TagsAreKept
  <2>2. \A u \in 0 .. head_tick[n] - RingSize : Frame(n, u)'.tick # u
    BY <1>1, <1>3, <1>8, <1>10, <1>13 DEF NodeInv, TagsAreKept
  <2>3. \A u \in 0 .. head_tick[n] : u >= OldestFrame(n)' => u >= OldestFrame(n)
    BY <1>13
  <2> QED BY <1>13, <2>1, <2>2, <2>3 DEF TagsAreKept
<1>15. OwnInputs(n)'
  <2> SUFFICES ASSUME NEW u \in 0 .. now - 1, Frame(n, u)'.tick = u
               PROVE  Frame(n, u)'.commands[n] = Input(n, u)'
    BY DEF OwnInputs, now
  <2>1. u \in Int /\ Frame(n, u).tick = u
    BY <1>8, <1>10
  <2>2. CASE u = t
    BY <1>3, <1>5, <1>7, <1>8, <2>1, <2>2
  <2>3. CASE u # t
    <3>1. u \in 0 .. sim - 1
      BY <1>1, <2>3
    <3>2. Frame(n, u)' = Frame(n, u)
      BY <1>11, <2>1, <2>3
    <3> QED BY <1>3, <1>12, <2>1, <3>1, <3>2 DEF NodeInv, OwnInputs, sim
  <2> QED BY <2>2, <2>3
<1>16. HeardInputs(n)'
  <2> SUFFICES ASSUME NEW p \in Peers(n), NEW u \in 1 .. peer_highest_tick[n][p],
                      u >= OldestFrame(n)'
               PROVE  Frame(n, u)'.tick = u /\ Frame(n, u)'.commands[p] = Input(p, u)'
    BY <1>3 DEF HeardInputs, peerVars
  <2>1. /\ u \in Int /\ u >= OldestFrame(n) /\ u <= peer_highest_tick[n][p]
        /\ p \in Node /\ u \in 0 .. sim_tick_count[p] - 1
    BY <1>3, <1>13, HeardBounds, TickBounds
  <2>2. Frame(n, u).tick = u /\ Frame(n, u).commands[p] = Input(p, u)
    BY <1>3, <2>1 DEF NodeInv, HeardInputs
  <2>3. Input(p, u)' = Input(p, u)
    BY <1>7, <2>1 DEF InputsStay
  <2>4. CASE u = t
    <3>1. Frame(n, u)'.tick = u /\ Frame(n, u)'.commands[p] = Frame(n, u).commands[p]
      BY <1>3, <1>5, <1>8, <2>1, <2>4
    <3> QED BY <2>2, <2>3, <3>1
  <2>5. CASE u # t
    BY <1>11, <2>1, <2>2, <2>3, <2>5
  <2> QED BY <2>4, <2>5
<1>17. WorldsAreKept(n)'
  <2>1. rts_grid'[n] = snapshot_ring'[n][Slot(TickOfWorld(n))']
    <3>1. Slot(TickOfWorld(n))' = Slot(t)
      BY <1>3 DEF Slot
    <3> QED BY <1>4, <3>1 DEF world
  <2>2. ASSUME NEW v \in 0 .. now - 1, v >= now - RingSize, v # t
        PROVE  /\ Len(snapshot_ring'[n][Slot(v)]) = v
               /\ \A u \in 1 .. v : snapshot_ring'[n][Slot(v)][u][n] = Input(n, u)'
    <3>1. /\ v \in 0 .. sim - 1 /\ v >= sim - RingSize /\ v \in Int
          /\ v - t < RingSize /\ t - v < RingSize
      BY <1>1, <2>2
    <3>2. snapshot_ring'[n][Slot(v)] = snapshot_ring[n][Slot(v)]
      BY <1>4, <1>8, <1>9, <2>2, <3>1
    <3>3. /\ Len(snapshot_ring[n][Slot(v)]) = v
          /\ \A u \in 1 .. v : snapshot_ring[n][Slot(v)][u][n] = Input(n, u)
      BY <1>3, <3>1 DEF NodeInv, WorldsAreKept, sim
    <3>4. \A u \in 1 .. v : u \in 0 .. sim - 1
      BY <1>1, <3>1
    <3> QED BY <1>12, <3>2, <3>3, <3>4
  <2> QED BY <1>4, <1>6, <1>7, <2>1, <2>2 DEF WorldsAreKept, now, Slot
<1>18. CleanWorlds(n)'
  <2>1. ASSUME NEW v \in 0 .. t, v >= now - RingSize, NEW u \in 1 .. v
        PROVE  IF u > conf
               THEN snapshot_ring'[n][Slot(v)][u] = Frame(n, u)'.commands
               ELSE \A p \in Node : snapshot_ring'[n][Slot(v)][u][p] = Input(p, u)
    <3>1. CASE v = t
      BY <1>4, <2>1, <3>1, SimulatesWorld DEF world, conf
    <3>2. CASE v # t
      <4>1. /\ v \in 0 .. t - 1 /\ v \in Int /\ v >= sim - RingSize
            /\ v - t < RingSize /\ t - v < RingSize
        BY <1>1, <2>1, <3>2
      <4>2. snapshot_ring'[n][Slot(v)] = snapshot_ring[n][Slot(v)]
        BY <1>4, <1>8, <1>9, <3>2, <4>1
      <4>3. IF u > conf
            THEN snapshot_ring[n][Slot(v)][u] = Frame(n, u).commands
            ELSE \A p \in Node : snapshot_ring[n][Slot(v)][u][p] = Input(p, u)
        BY <1>3, <2>1, <4>1 DEF NodeInv, CleanWorlds, sim, conf
      <4>4. ASSUME u > conf PROVE Frame(n, u)' = Frame(n, u)
        <5>1. u \in Int /\ u # t /\ u - t < RingSize /\ t - u < RingSize
          BY <1>1, <2>1, <4>1, <4>4
        <5> QED BY <1>4, <1>8, <1>9, <5>1
      <4> QED BY <4>2, <4>3, <4>4
    <3> QED BY <3>1, <3>2
  <2>2. ASSUME NEW u \in Nat, u <= conf, NEW p \in Node PROVE Input(p, u)' = Input(p, u)
    <3>1. CASE p = n
      <4>1. u \in 0 .. sim - 1
        BY <1>1, <2>2
      <4> QED BY <1>12, <3>1, <4>1
    <3>2. CASE p # n
      <4>1. /\ p \in Peers(n) /\ conf <= peer_highest_tick[n][p]
            /\ peer_highest_tick[n][p] \in Nat /\ sim_tick_count[p] \in Nat
            /\ peer_highest_tick[n][p] < sim_tick_count[p]
        BY <1>3, <3>2, HeardBounds, TickBounds DEF Peers, conf
      <4>2. u \in 0 .. sim_tick_count[p] - 1
        BY <1>1, <2>2, <4>1
      <4> QED BY <1>7, <4>2 DEF InputsStay
    <3> QED BY <3>1, <3>2
  <2>3. ASSUME NEW v \in 0 .. t, v >= now - RingSize, NEW u \in 1 .. v
        PROVE  IF u > conf
               THEN snapshot_ring'[n][Slot(v)][u] = Frame(n, u)'.commands
               ELSE \A p \in Node : snapshot_ring'[n][Slot(v)][u][p] = Input(p, u)'
    <3>1. u \in Nat /\ (~(u > conf) => u <= conf)
      BY <1>1, <2>3
    <3> QED BY <2>1, <2>2, <2>3, <3>1
  <2>4. ASSUME NEW v \in 0 .. t, v >= now - RingSize, Frame(n, v)'.tick = v
        PROVE  Frame(n, v)'.state_checksum = snapshot_ring'[n][Slot(v)]
    <3>1. CASE v = t
      BY <1>4, <1>5, <1>8, <3>1
    <3>2. CASE v # t
      <4>1. /\ v \in 0 .. t - 1 /\ v \in Int /\ v >= sim - RingSize
            /\ v - t < RingSize /\ t - v < RingSize
        BY <1>1, <2>4, <3>2
      <4>2. /\ snapshot_ring'[n][Slot(v)] = snapshot_ring[n][Slot(v)]
            /\ Frame(n, v)' = Frame(n, v)
        BY <1>4, <1>8, <1>9, <3>2, <4>1
      <4>3. Frame(n, v).state_checksum = snapshot_ring[n][Slot(v)]
        BY <1>3, <2>4, <4>1, <4>2 DEF NodeInv, CleanWorlds, sim
      <4> QED BY <4>2, <4>3
    <3> QED BY <3>1, <3>2
  <2>5. confirmed_tick'[n] = conf /\ CleanTo(n)' = t
    BY <1>3 DEF conf
  <2> HIDE DEF conf
  <2> QED BY <2>3, <2>4, <2>5 DEF CleanWorlds, now, Slot
<1>19. ChecksumsAreTrue(n)'
  <2> SUFFICES ASSUME NEW s \in Slots, NEW w, w = frames'[n][s].remote_checksum,
                      w # NoChecksum
               PROVE  Len(w) = frames'[n][s].tick /\ IsTrue(w)'
    BY DEF ChecksumsAreTrue, IsTrue
  <2>1. w = frames[n][s].remote_checksum /\ frames'[n][s].tick = frames[n][s].tick
    BY <1>4, <1>5
  <2>2. w \in Worlds /\ IsTrue(w) /\ Len(w) = frames'[n][s].tick
    BY <1>3, <2>1 DEF NodeInv, ChecksumsAreTrue, NetworkFrame, InductiveInv, TypeOK
  <2> QED BY <1>7, <2>2, TruthStays
<1> QED BY <1>14, <1>15, <1>16, <1>17, <1>18, <1>19

\* An iteration of execute_rollback simulates its tick.
LEMMA ResimulatesTick ==
    ASSUME InductiveInv, LogInv, NEW n \in Node, ResimulateTick(n)
    PROVE  SimulatesTick(n, cursor[n], Predict(Frame(n, cursor[n]), Frame(n, cursor[n] - 1),
                                               Unheard(n, cursor[n])))
           /\ PumpIsSteady(n)'
<1> DEFINE t == cursor[n]
           f == Predict(Frame(n, t), Frame(n, t - 1), Unheard(n, t))
           sim == sim_tick_count[n]
           target == rollback_target[n]
<1>1. /\ phase[n] = "resimulate" /\ TypeOK /\ NodeInv(n)
      /\ phase \in [Node -> Phases] /\ cursor \in [Node -> Nat] /\ rollback_target \in [Node -> Nat]
      /\ sim_tick_count \in [Node -> Nat \ {0}]
  BY DEF ResimulateTick, NoLongerActive, LogInv, InductiveInv, TypeOK
<1>2. /\ target # 0 /\ t \in target .. sim - 1 /\ head_tick[n] = sim
  BY <1>1 DEF NodeInv, PumpIsSteady, Preparing
<1>3. /\ t \in Nat /\ t >= 1 /\ target \in Nat /\ t >= target /\ t < sim /\ sim \in Nat
      /\ t >= sim - LookaheadCap /\ t \in 0 .. head_tick[n] /\ t >= OldestFrame(n)
      /\ t <= head_tick[n]
  BY <1>2, TickBounds DEF OldestFrame
<1>4. Frame(n, t).tick = t
  BY <1>1, <1>3 DEF NodeInv, TagsAreKept
<1>5. Frame(n, t) \in NetworkFrame /\ Frame(n, t - 1) \in NetworkFrame /\ f \in NetworkFrame
  BY <1>1, <1>3, FrameType, PredictType
<1>6. /\ Simulated(n, t, f)
      /\ IF t = sim - 1
         THEN /\ rollback_target' = [rollback_target EXCEPT ![n] = 0]
              /\ phase' = [phase EXCEPT ![n] = "simulate"]
              /\ cursor' = [cursor EXCEPT ![n] = 0]
         ELSE /\ cursor' = [cursor EXCEPT ![n] = t + 1]
              /\ UNCHANGED <<rollback_target, phase>>
      /\ UNCHANGED <<sim_tick_count, confirmed_tick, head_tick, peerVars, accumulator,
                     tick_before, net>>
  BY DEF ResimulateTick, NoLongerActive, clockVars
<1>7. \A p \in Node : p \notin Unheard(n, t) => f.commands[p] = Frame(n, t).commands[p]
  BY <1>5 DEF Predict, NetworkFrame
<1>8. /\ n \notin Unheard(n, t)
      /\ \A p \in Peers(n) : /\ p \in Node
                             /\ t <= peer_highest_tick[n][p] => p \notin Unheard(n, t)
  BY <1>1, <1>3 DEF Unheard, Peers, TypeOK
<1>9. f.tick = t /\ f.remote_checksum = Frame(n, t).remote_checksum
  BY <1>4, <1>5 DEF Predict, NetworkFrame
<1>10. TickOfWorld(n) = t - 1 /\ CleanTo(n) = t - 1
  BY <1>1 DEF TickOfWorld, CleanTo
<1>11. TickOfWorld(n)' = t /\ CleanTo(n)' = t /\ PumpIsSteady(n)'
  <2>1. CASE t = sim - 1
    <3>1. rollback_target'[n] = 0 /\ phase'[n] = "simulate" /\ sim_tick_count'[n] = sim
      BY <1>1, <1>6, <2>1
    <3>2. PumpIsSteady(n)'
      BY <1>1, <1>2, <1>6, <3>1 DEF NodeInv, PumpIsSteady, Preparing, peerVars
    <3> QED BY <2>1, <3>1, <3>2 DEF TickOfWorld, CleanTo
  <2>2. CASE t # sim - 1
    <3>1. /\ cursor'[n] = t + 1 /\ phase'[n] = "resimulate" /\ sim_tick_count'[n] = sim
          /\ rollback_target'[n] = target
      BY <1>1, <1>6, <2>2
    <3>2. cursor'[n] \in target .. sim - 1 /\ cursor'[n] - 1 = t
      BY <1>3, <2>2, <3>1
    <3>3. PumpIsSteady(n)'
      BY <1>1, <1>2, <1>6, <3>1, <3>2 DEF NodeInv, PumpIsSteady, Preparing, peerVars
    <3> QED BY <3>1, <3>2, <3>3 DEF TickOfWorld, CleanTo
  <2> QED BY <2>1, <2>2
<1>12. sim_tick_count' = [sim_tick_count EXCEPT ![n] = Later(sim_tick_count[n], t + 1)]
  BY <1>1, <1>3, <1>6 DEF Later
<1>13. /\ f.commands[n] = Frame(n, t).commands[n]
       /\ \A p \in Peers(n) : t <= peer_highest_tick[n][p] =>
                                  f.commands[p] = Frame(n, t).commands[p]
  BY <1>7, <1>8
<1>14. /\ t \in Nat \ {0} /\ t <= sim /\ t >= sim - LookaheadCap /\ t <= head_tick[n]
       /\ UNCHANGED <<confirmed_tick, head_tick, peerVars, net>>
  BY <1>3, <1>6
<1> HIDE DEF f, t
<1>15. SimulatesTick(n, t, f)
  BY <1>5, <1>6, <1>9, <1>10, <1>11, <1>12, <1>13, <1>14 DEF SimulatesTick
<1> QED BY <1>11, <1>15 DEF f, t

\* simulate_forward simulates its tick: the pump stays within the horizon.
LEMMA SimulatesForward ==
    ASSUME InductiveInv, LogInv, NEW n \in Node, SimulateForward(n)
    PROVE  /\ SimulatesTick(n, sim_tick_count[n], Frame(n, sim_tick_count[n]))
           /\ PumpIsSteady(n)'
           /\ phase' = [phase EXCEPT ![n] = IF Desynced(n, frames'[n]) THEN "desync" ELSE "loop"]
<1> DEFINE t == sim_tick_count[n]
<1>1. /\ phase[n] = "simulate" /\ TypeOK /\ NodeInv(n) /\ accumulator[n] > 0
      /\ rollback_target[n] = 0
      /\ phase \in [Node -> Phases] /\ accumulator \in [Node -> Nat]
      /\ sim_tick_count \in [Node -> Nat \ {0}] /\ t \in Nat
  BY DEF SimulateForward, LogInv, InductiveInv, TypeOK, PumpInv
<1>2. /\ head_tick[n] = t
      /\ t + accumulator[n] - 1 <= confirmed_tick[n] + LookaheadCap
      /\ \A p \in Peers(n) : t + accumulator[n] - 1 <= peer_ack_of_me[n][p] + LookaheadCap
      /\ tick_before[n] <= t
  BY <1>1 DEF NodeInv, PumpIsSteady, Preparing
<1>3. MayAdvance(n)
  BY <1>1, <1>2, TickBounds DEF MayAdvance
<1>4. /\ Simulated(n, t, Frame(n, t))
      /\ sim_tick_count' = [sim_tick_count EXCEPT ![n] = t + 1]
      /\ phase' = [phase EXCEPT ![n] = IF Desynced(n, frames'[n]) THEN "desync" ELSE "loop"]
      /\ accumulator' = [accumulator EXCEPT ![n] = accumulator[n] - 1]
      /\ UNCHANGED <<confirmed_tick, head_tick, rollback_target, peerVars, tick_before, cursor,
                     net>>
  BY <1>3 DEF SimulateForward
<1>5. /\ phase'[n] \in {"desync", "loop"} /\ sim_tick_count'[n] = t + 1
      /\ accumulator'[n] = accumulator[n] - 1
  BY <1>1, <1>4
<1>6. /\ t >= 1 /\ t \in 0 .. head_tick[n] /\ t >= OldestFrame(n) /\ t >= t - LookaheadCap
      /\ t <= head_tick[n]
  BY <1>1, <1>2, TickBounds DEF OldestFrame
<1>7. Frame(n, t).tick = t
  BY <1>1, <1>6 DEF NodeInv, TagsAreKept
<1>8. Frame(n, t) \in NetworkFrame
  BY <1>1, FrameType
<1>9. /\ TickOfWorld(n) = t - 1 /\ CleanTo(n) = t - 1
      /\ TickOfWorld(n)' = t /\ CleanTo(n)' = t
  BY <1>1, <1>4, <1>5 DEF TickOfWorld, CleanTo
<1>10. sim_tick_count' = [sim_tick_count EXCEPT ![n] = Later(sim_tick_count[n], t + 1)]
  <2>1. Later(t, t + 1) = t + 1
    BY <1>1 DEF Later
  <2> QED BY <1>4, <2>1
<1>11. PumpIsSteady(n)'
  <2>1. /\ tick_before'[n] <= sim_tick_count'[n] /\ head_tick'[n] = sim_tick_count'[n] - 1
        /\ sim_tick_count'[n] + accumulator'[n] - 1 = t + accumulator[n] - 1
    BY <1>1, <1>2, <1>4, <1>5, TickBounds
  <2> QED BY <1>2, <1>4, <1>5, <2>1 DEF PumpIsSteady, Preparing, peerVars
<1>12. /\ t \in Nat \ {0} /\ t <= sim_tick_count[n] /\ t >= sim_tick_count[n] - LookaheadCap
       /\ t <= head_tick[n] /\ UNCHANGED <<confirmed_tick, head_tick, peerVars, net>>
  BY <1>1, <1>4, <1>6
<1> HIDE DEF t
<1>13. SimulatesTick(n, t, Frame(n, t))
  BY <1>4, <1>7, <1>8, <1>9, <1>10, <1>12 DEF SimulatesTick
<1> QED BY <1>4, <1>11, <1>13 DEF t

\* A tick simulated keeps the invariant.
LEMMA LogTick ==
    ASSUME InductiveInv, InductiveInv', LogInv, NEW n \in Node, NEW t, NEW f,
           SimulatesTick(n, t, f), PumpIsSteady(n)',
           \A q \in Node : q # n =>
              UNCHANGED <<rollback_target[q], phase[q], accumulator[q], tick_before[q], cursor[q]>>
    PROVE  LogInv'
<1>1. /\ Simulated(n, t, f) /\ f \in NetworkFrame /\ t \in Nat
      /\ sim_tick_count' = [sim_tick_count EXCEPT ![n] = Later(sim_tick_count[n], t + 1)]
      /\ UNCHANGED <<confirmed_tick, head_tick, peerVars, net>>
  BY DEF SimulatesTick
<1>2. InputsStay
  BY SimulatesInputs
<1>3. \A q \in Node : q # n => UNCHANGED nodeVars(q)
  <2>1. \A q \in Node : q # n => /\ frames'[q] = frames[q]
                                 /\ snapshot_ring'[q] = snapshot_ring[q]
                                 /\ rts_grid'[q] = rts_grid[q]
    BY <1>1, SimulatedSlots
  <2>2. \A q \in Node : q # n => sim_tick_count'[q] = sim_tick_count[q]
    BY SimulatesBounds
  <2> QED BY <1>1, <2>1, <2>2 DEF nodeVars, peerVars
<1>4. NodeInv(n)'
  BY LogSimulated DEF NodeInv
<1>5. PeersAreKnown(n)'
      /\ \A q, p \in Node : peer_highest_tick[q][p] <= peer_highest_tick'[q][p]
  BY <1>1, <1>2, PeersStay DEF LogInv
<1> QED BY <1>1, <1>2, <1>3, <1>4, <1>5, StepOfOne

\* execute_rollback's loop.
LEMMA LogResimulateTick ==
    ASSUME InductiveInv, InductiveInv', LogInv, NEW n \in Node, ResimulateTick(n)
    PROVE  LogInv'
<1>1. \A q \in Node : q # n =>
         UNCHANGED <<rollback_target[q], phase[q], accumulator[q], tick_before[q], cursor[q]>>
  <2>1. /\ phase \in [Node -> Phases] /\ cursor \in [Node -> Nat]
        /\ rollback_target \in [Node -> Nat]
    BY DEF InductiveInv, TypeOK
  <2> QED BY <2>1 DEF ResimulateTick, NoLongerActive
<1> QED BY <1>1, ResimulatesTick, LogTick

\* simulate_forward.
LEMMA LogSimulateForward ==
    ASSUME InductiveInv, InductiveInv', LogInv, NEW n \in Node, SimulateForward(n)
    PROVE  LogInv'
<1>1. \A q \in Node : q # n =>
         UNCHANGED <<rollback_target[q], phase[q], accumulator[q], tick_before[q], cursor[q]>>
  <2>1. phase \in [Node -> Phases] /\ accumulator \in [Node -> Nat]
    BY DEF InductiveInv, TypeOK
  <2>2. \E x : phase' = [phase EXCEPT ![n] = x]
    BY SimulatesForward
  <2> QED BY <2>1, <2>2 DEF SimulateForward
<1> QED BY <1>1, SimulatesForward, LogTick

-----------------------------------------------------------------------------
(* The invariant of the log.                                                *)

\* No one has played anything at the start of a match.
LEMMA LogInit == Init => LogInv
<1> SUFFICES ASSUME Init PROVE LogInv
  OBVIOUS
<1>1. RingSize \in Nat /\ RingSize >= 1 /\ LookaheadCap \in Nat /\ RingSize >= LookaheadCap + 3
  BY SizeAssumption, RingAssumption
<1>2. ASSUME NEW n \in Node
      PROVE  /\ sim_tick_count[n] = 1 /\ confirmed_tick[n] = 0 /\ head_tick[n] = 0
             /\ rollback_target[n] = 0 /\ rts_grid[n] = <<>> /\ phase[n] = "idle"
             /\ accumulator[n] = 0 /\ tick_before[n] = 0
             /\ \A p \in Node : peer_highest_tick[n][p] = 0 /\ peer_ack_of_me[n][p] = 0
             /\ \A s \in Slots : /\ frames[n][s].tick = 0
                                 /\ frames[n][s].commands = [p \in Node |-> Idle]
                                 /\ frames[n][s].state_checksum = <<>>
                                 /\ frames[n][s].remote_checksum = <<>>
                                 /\ snapshot_ring[n][s] = <<>>
  BY DEF Init, EmptyFrame, NoChecksum
<1>3. \A t \in Int : Slot(t) \in Slots
  BY SlotType
<1>4. Len(<<>>) = 0
  OBVIOUS
<1>5. ASSUME NEW n \in Node PROVE NodeInv(n)
  <2>1. PumpIsSteady(n)
    BY <1>2 DEF PumpIsSteady, Preparing
  <2>2. TagsAreKept(n)
    BY <1>1, <1>2, <1>3 DEF TagsAreKept, Frame, OldestFrame
  <2>3. OwnInputs(n)
    BY <1>2, <1>3 DEF OwnInputs, Frame, Input
  <2>4. HeardInputs(n)
    BY <1>2 DEF HeardInputs, Peers
  <2>5. WorldsAreKept(n)
    <3>1. \A t \in 0 .. sim_tick_count[n] - 1 : t = 0
      BY <1>2
    <3>2. TickOfWorld(n) = 0
      BY <1>2 DEF TickOfWorld
    <3> QED BY <1>2, <1>3, <1>4, <3>1, <3>2 DEF WorldsAreKept
  <2>6. CleanWorlds(n)
    <3>1. \A t \in 0 .. CleanTo(n) : t = 0
      BY <1>2 DEF CleanTo
    <3> QED BY <1>2, <1>3, <3>1 DEF CleanWorlds, Frame
  <2>7. ChecksumsAreTrue(n)
    BY <1>2 DEF ChecksumsAreTrue, NoChecksum
  <2> QED BY <2>1, <2>2, <2>3, <2>4, <2>5, <2>6, <2>7 DEF NodeInv
<1>6. ASSUME NEW n \in Node PROVE PeersAreKnown(n)
  BY <1>2 DEF PeersAreKnown, Peers
<1>7. net = {}
  BY DEF Init
<1> QED BY <1>5, <1>6, <1>7 DEF LogInv

\* A steady step is a step.
LEMMA SteadyIsNext == SteadyNext => Next
  BY DEF SteadyNext, SteadyTick, Next

\* A step of the steady system keeps the invariant.
LEMMA LogStep ==
    ASSUME InductiveInv, LogInv, [SteadyNext]_vars
    PROVE  LogInv'
<1>1. InductiveInv'
  BY InvStep, SteadyIsNext
<1>2. CASE UNCHANGED vars
  <2>1. /\ UNCHANGED net /\ \A n \in Node : UNCHANGED nodeVars(n)
        /\ UNCHANGED <<sim_tick_count, snapshot_ring, peerVars>>
    BY <1>2 DEF vars, nodeVars, clockVars, peerVars, worldVars, controlVars
  <2> QED BY <1>1, <2>1, LogStutter
<1>3. ASSUME NEW n \in Node, NEW c \in Command, InjectLocalCommand(n, c) PROVE LogInv'
  <2>1. /\ UNCHANGED net /\ \A q \in Node : UNCHANGED nodeVars(q)
        /\ UNCHANGED <<sim_tick_count, snapshot_ring, peerVars>>
    BY <1>3 DEF InjectLocalCommand, nodeVars, clockVars, peerVars, worldVars, controlVars
  <2> QED BY <1>1, <2>1, LogStutter
<1>4. ASSUME NEW n \in Node, NEW m \in net, Receive(n, m) PROVE LogInv'
  BY <1>1, <1>4, LogReceive
<1>5. ASSUME NEW n \in Node, SteadyTick(n) PROVE LogInv'
  <2>1. ASSUME NEW k \in 1 .. MaxTicksPerPump, StartTicks(n, k) PROVE LogInv'
    <3>1. FitsHorizon(n)
      BY <1>5, <2>1 DEF SteadyTick, StartTicks
    <3> QED BY <1>1, <2>1, <3>1, LogStartTicks
  <2>2. CASE PrepareFrame(n)     BY <1>1, <2>2, LogPrepareFrame
  <2>3. CASE BeginRollback(n)    BY <1>1, <2>3, LogBeginRollback
  <2>4. CASE ResimulateTick(n)   BY <1>1, <2>4, LogResimulateTick
  <2>5. CASE SimulateForward(n)  BY <1>1, <2>5, LogSimulateForward
  <2>6. CASE FlushNetwork(n)     BY <1>1, <2>6, LogFlushNetwork
  <2> QED BY <1>5, <2>1, <2>2, <2>3, <2>4, <2>5, <2>6 DEF SteadyTick, Tick
<1> QED BY <1>2, <1>3, <1>4, <1>5 DEF SteadyNext

\* Pumps of one tick are steady: the horizon is looked at for each tick, and nothing is
\* ever to be caught up, since no node confirms what it has not simulated.
LEMMA OneTickIsSteady ==
    ASSUME MaxTicksPerPump = 1, InductiveInv, [Next]_vars
    PROVE  [SteadyNext]_vars
<1>1. InductiveInv'
  BY InvStep
<1>2. ASSUME NEW n \in Node, NEW k \in 1 .. MaxTicksPerPump, StartTicks(n, k)
      PROVE  FitsHorizon(n)
  <2> DEFINE conf == confirmed_tick'[n]
             sim == sim_tick_count[n]
  <2>1. /\ conf \in Nat /\ sim \in Nat /\ conf < sim /\ k = 1 /\ LookaheadCap \in Nat
        /\ accumulator \in [Node -> Nat]
    BY <1>1, <1>2, SizeAssumption DEF InductiveInv, TypeOK, LookaheadBound, StartTicks
  <2>2. PICK ack \in MinAck(n, conf) :
          accumulator' = [accumulator EXCEPT ![n] =
             IF MustHalt(n, SafeHorizon(conf, ack)) THEN 0
             ELSE k + (IF conf > sim + 2 THEN conf - sim ELSE 0)]
    BY <1>2 DEF StartTicks
  <2> HIDE DEF conf, sim
  <2>3. accumulator'[n] > 0 => accumulator'[n] = 1 /\ ~MustHalt(n, SafeHorizon(conf, ack))
    BY <2>1, <2>2
  <2>4. \A p \in Peers(n) : ack <= peer_ack_of_me[n][p]
    BY <2>2 DEF MinAck, Least
  <2>5. ack \in Nat
    BY <2>1, <2>2 DEF MinAck, Least, Peers, InductiveInv, TypeOK
  <2>6. \A p \in Peers(n) : peer_ack_of_me[n][p] \in Nat
    BY DEF Peers, InductiveInv, TypeOK
  <2>7. ~MustHalt(n, SafeHorizon(conf, ack)) =>
           sim <= conf + LookaheadCap /\ sim <= ack + LookaheadCap
    BY <2>1, <2>5 DEF MustHalt, SafeHorizon, Earlier, sim
  <2> QED BY <2>1, <2>3, <2>4, <2>5, <2>6, <2>7 DEF FitsHorizon, conf, sim
<1>3. ASSUME NEW n \in Node, Tick(n) PROVE SteadyTick(n)
  <2>1. phase[n] = "idle" => \E k \in 1 .. MaxTicksPerPump : StartTicks(n, k)
    BY <1>3 DEF Tick, PrepareFrame, BeginRollback, ResimulateTick, NoLongerActive, SimulateForward,
                FlushNetwork
  <2> QED BY <1>2, <1>3, <2>1 DEF SteadyTick
<1> QED BY <1>3 DEF Next, SteadyNext

-----------------------------------------------------------------------------
(* What the players agree on.                                               *)

\* Every world of a node in reach is of its tick.
LEMMA WorldsInReach ==
    ASSUME InductiveInv, LogInv, NEW n \in Node
    PROVE  /\ TickOfWorld(n) \in 0 .. sim_tick_count[n] - 1
           /\ TickOfWorld(n) >= sim_tick_count[n] - RingSize
           /\ rts_grid[n] = snapshot_ring[n][Slot(TickOfWorld(n))]
           /\ \A t \in 0 .. sim_tick_count[n] - 1 : t >= sim_tick_count[n] - RingSize =>
                 Len(snapshot_ring[n][Slot(t)]) = t
<1>1. NodeInv(n)
  BY DEF LogInv
<1>2. phase[n] = "resimulate" =>
         rollback_target[n] # 0 /\ cursor[n] \in rollback_target[n] .. sim_tick_count[n] - 1
  BY <1>1 DEF NodeInv, PumpIsSteady
<1>3. /\ TickOfWorld(n) \in 0 .. sim_tick_count[n] - 1
      /\ TickOfWorld(n) >= sim_tick_count[n] - RingSize
  BY <1>2, TickBounds DEF TickOfWorld
<1> QED BY <1>1, <1>3 DEF NodeInv, WorldsAreKept

\* Every world is of its tick.
LEMMA WorldsFollow == InductiveInv /\ LogInv => WorldsAreOfTheirTick
<1> SUFFICES ASSUME InductiveInv, LogInv, NEW n \in Node
             PROVE  /\ Len(rts_grid[n]) = TickOfWorld(n)
                    /\ \A t \in confirmed_tick[n] .. sim_tick_count[n] - 1 :
                            Len(snapshot_ring[n][Slot(t)]) = t
                    /\ rollback_target[n] # 0 =>
                            Len(snapshot_ring[n][Slot(rollback_target[n] - 1)])
                                = rollback_target[n] - 1
  BY DEF WorldsAreOfTheirTick
<1>1. Len(rts_grid[n]) = TickOfWorld(n)
  BY WorldsInReach
<1>2. ASSUME NEW t \in confirmed_tick[n] .. sim_tick_count[n] - 1
      PROVE  Len(snapshot_ring[n][Slot(t)]) = t
  <2>1. t \in 0 .. sim_tick_count[n] - 1 /\ t >= sim_tick_count[n] - RingSize
    BY TickBounds
  <2> QED BY <2>1, WorldsInReach
<1>3. ASSUME rollback_target[n] # 0
      PROVE  Len(snapshot_ring[n][Slot(rollback_target[n] - 1)]) = rollback_target[n] - 1
  <2>1. /\ rollback_target[n] - 1 \in 0 .. sim_tick_count[n] - 1
        /\ rollback_target[n] - 1 >= sim_tick_count[n] - RingSize
    BY <1>3, TickBounds
  <2> QED BY <2>1, WorldsInReach
<1> QED BY <1>1, <1>2, <1>3

\* What was received is what was played.
LEMMA InputsFollow == InductiveInv /\ LogInv => ReceivedInputsAreTrue
<1> SUFFICES ASSUME InductiveInv, LogInv, NEW n \in Node, NEW p \in Peers(n),
                    NEW t \in Later(1, confirmed_tick[n]) .. peer_highest_tick[n][p]
             PROVE  /\ Frame(n, t).tick = t
                    /\ Frame(p, t).tick = t => Frame(n, t).commands[p] = Frame(p, t).commands[p]
  BY DEF ReceivedInputsAreTrue
<1>1. NodeInv(n) /\ PeersAreKnown(n) /\ p \in Node /\ NodeInv(p)
  BY DEF LogInv, Peers
<1>2. /\ t \in 1 .. peer_highest_tick[n][p] /\ t >= OldestFrame(n)
      /\ t \in 0 .. sim_tick_count[p] - 1
  BY <1>1, TickBounds, HeardBounds DEF Later, OldestFrame
<1>3. Frame(n, t).tick = t /\ Frame(n, t).commands[p] = Input(p, t)
  BY <1>1, <1>2 DEF NodeInv, HeardInputs
<1>4. Frame(p, t).tick = t => Frame(p, t).commands[p] = Input(p, t)
  BY <1>1, <1>2 DEF NodeInv, OwnInputs
<1> QED BY <1>3, <1>4

\* What is published for a tick is what was played at it.
LEMMA PublishedFollows == InductiveInv /\ LogInv => PublishedOnce
<1> SUFFICES ASSUME InductiveInv, LogInv, NEW m1 \in net, NEW m2 \in net,
                    m1.player_id = m2.player_id,
                    NEW t \in DOMAIN m1.commands \cap DOMAIN m2.commands
             PROVE  m1.commands[t] = m2.commands[t]
  BY DEF PublishedOnce
<1>1. ASSUME NEW m \in net, t \in DOMAIN m.commands
      PROVE  m.commands[t] = Input(m.player_id, t)
  <2>1. IsPacket(m) /\ PacketIsTrue(m)
    BY DEF InductiveInv, TypeOK, LogInv
  <2> QED BY <1>1, <2>1 DEF IsPacket, PacketIsTrue
<1> QED BY <1>1

\* Where no world is condemned, no checksum of a peer differs from the node's own: both are
\* of the one true world of the tick.
LEMMA ChecksumsMatch ==
    ASSUME InductiveInv, LogInv, NEW n \in Node, rollback_target[n] = 0,
           phase[n] # "resimulate"
    PROVE  ~Desynced(n, frames[n])
<1> SUFFICES ASSUME NEW v \in Later(0, confirmed_tick[n] - DesyncSweep) .. confirmed_tick[n],
                    frames[n][Slot(v)].tick = v,
                    frames[n][Slot(v)].remote_checksum # NoChecksum
             PROVE  frames[n][Slot(v)].state_checksum = frames[n][Slot(v)].remote_checksum
  BY DEF Desynced
<1> DEFINE sum == frames[n][Slot(v)].remote_checksum
           world == snapshot_ring[n][Slot(v)]
<1>1. NodeInv(n)
  BY DEF LogInv
<1>2. v \in Nat /\ v <= confirmed_tick[n] /\ v \in 0 .. CleanTo(n)
      /\ v \in 0 .. sim_tick_count[n] - 1
  BY TickBounds DEF Later, CleanTo, DesyncSweep, LocalHorizon
<1>3. v >= sim_tick_count[n] - RingSize
  <2>1. head_tick[n] >= sim_tick_count[n] - 1
    BY <1>1, TickBounds DEF NodeInv, PumpIsSteady
  <2>2. v \notin 0 .. head_tick[n] - RingSize
    BY <1>1 DEF NodeInv, TagsAreKept, Frame
  <2> QED BY <1>2, <2>1, <2>2, TickBounds
<1>4. frames[n][Slot(v)].state_checksum = world /\ Len(world) = v
  BY <1>1, <1>2, <1>3 DEF NodeInv, CleanWorlds, WorldsAreKept, Frame
<1>5. sum \in Worlds /\ world \in Worlds
  BY <1>2, SlotType DEF InductiveInv, TypeOK, NetworkFrame
<1>6. IsTrue(sum) /\ Len(sum) = v
  BY <1>1, <1>2, SlotType DEF NodeInv, ChecksumsAreTrue
<1>7. \A u \in 1 .. v : \A p \in Node : u < sim_tick_count[p] /\ world[u][p] = Input(p, u)
  <2> SUFFICES ASSUME NEW u \in 1 .. v, NEW p \in Node
               PROVE  u < sim_tick_count[p] /\ world[u][p] = Input(p, u)
    OBVIOUS
  <2>1. ~(u > confirmed_tick[n])
    BY <1>2, TickBounds
  <2>2. world[u][p] = Input(p, u)
    BY <1>1, <1>2, <1>3, <2>1 DEF NodeInv, CleanWorlds
  <2>3. CASE p = n
    BY <1>2, <2>2, <2>3, TickBounds
  <2>4. CASE p # n
    <3>1. p \in Peers(n) /\ PeersAreKnown(n)
      BY <2>4 DEF Peers, LogInv
    <3> QED BY <1>2, <2>2, <3>1, HeardBounds, TickBounds
  <2> QED BY <2>3, <2>4
<1>8. IsTrue(world)
  BY <1>4, <1>7 DEF IsTrue
<1> QED BY <1>4, <1>5, <1>6, <1>8, TruthIsOne

-----------------------------------------------------------------------------
(* What a step leaves as it was.                                            *)

\* A step of n leaves the worlds of others and all inputs as they are, and forgets
\* nothing that was heard.
StepKeeps(n) ==
    /\ InputsStay
    /\ \A q \in Node : q # n => UNCHANGED <<confirmed_tick[q], rollback_target[q],
                                            snapshot_ring[q]>>
    /\ \A q, p \in Node : peer_highest_tick[q][p] <= peer_highest_tick'[q][p]
    /\ SettledTick(n) <= SettledTick(n)'

\* What is settled stays settled while nothing but the consensus moves.
LEMMA SettledGrows ==
    ASSUME InductiveInv, InductiveInv', NEW n \in Node,
           confirmed_tick[n] <= confirmed_tick'[n],
           \/ rollback_target'[n] = rollback_target[n]
           \/ rollback_target'[n] = 0
           \/ rollback_target'[n] > confirmed_tick[n] /\ confirmed_tick'[n] = confirmed_tick[n]
    PROVE  SettledTick(n) <= SettledTick(n)'
<1>1. /\ confirmed_tick[n] \in Nat /\ confirmed_tick'[n] \in Nat
      /\ rollback_target[n] \in Nat /\ rollback_target'[n] \in Nat
  BY DEF InductiveInv, TypeOK
<1>2. /\ SettledTick(n) = IF rollback_target[n] = 0 THEN confirmed_tick[n]
                          ELSE IF confirmed_tick[n] <= rollback_target[n] - 1
                          THEN confirmed_tick[n] ELSE rollback_target[n] - 1
      /\ SettledTick(n)' = IF rollback_target'[n] = 0 THEN confirmed_tick'[n]
                           ELSE IF confirmed_tick'[n] <= rollback_target'[n] - 1
                           THEN confirmed_tick'[n] ELSE rollback_target'[n] - 1
  BY DEF SettledTick, Earlier
<1> QED BY <1>1, <1>2

\* Nothing is heard of while no packet is read.
LEMMA HeardStays ==
    ASSUME InductiveInv, UNCHANGED peerVars
    PROVE  \A q, p \in Node : peer_highest_tick[q][p] <= peer_highest_tick'[q][p]
<1>1. \A q, p \in Node : peer_highest_tick[q][p] \in Nat
  BY DEF InductiveInv, TypeOK
<1> QED BY <1>1 DEF peerVars

\* Every step of the steady system is one of some node that keeps all that.
LEMMA StepsKeep ==
    ASSUME InductiveInv, LogInv, [SteadyNext]_vars
    PROVE  (\E n \in Node : StepKeeps(n)) \/ UNCHANGED vars
<1>1. InductiveInv'
  BY InvStep, SteadyIsNext
<1>2. /\ confirmed_tick \in [Node -> Nat] /\ rollback_target \in [Node -> Nat]
      /\ \A n \in Node : confirmed_tick[n] \in Nat
  BY DEF InductiveInv, TypeOK
<1>3. ASSUME NEW n \in Node,
             UNCHANGED <<sim_tick_count, snapshot_ring, confirmed_tick, rollback_target, peerVars>>
      PROVE  StepKeeps(n)
  <2>1. SettledTick(n) <= SettledTick(n)'
    BY <1>1, <1>2, <1>3, SettledGrows
  <2> QED BY <1>3, <2>1, InputsOfLogs, HeardStays DEF StepKeeps
<1>4. ASSUME NEW n \in Node, NEW c \in Command, InjectLocalCommand(n, c) PROVE StepKeeps(n)
  BY <1>3, <1>4 DEF InjectLocalCommand, clockVars, worldVars
<1>5. ASSUME NEW n \in Node, NEW m \in net, Receive(n, m) PROVE StepKeeps(n)
  <2>1. /\ UNCHANGED <<sim_tick_count, snapshot_ring, confirmed_tick>>
        /\ IsPacket(m) /\ m.player_id \in Node
    BY <1>5 DEF Receive, clockVars, worldVars, InductiveInv, TypeOK, IsPacket
  <2>2. PICK r \in RollbackTarget(n, m) :
             rollback_target' = [rollback_target EXCEPT ![n] = r]
    BY <1>5 DEF Receive
  <2>3. r = 0 \/ r = rollback_target[n] \/ r \in Mispredicted(n, m)
    BY DEF RollbackTarget, Least
  <2>4. \A u \in Mispredicted(n, m) : u > confirmed_tick[n]
    BY DEF Mispredicted, Window
  <2>5. rollback_target'[n] = r
    BY <1>2, <2>2
  <2>6. SettledTick(n) <= SettledTick(n)'
    BY <1>1, <1>2, <2>1, <2>3, <2>4, <2>5, SettledGrows
  <2>7. \A q, p \in Node : peer_highest_tick[q][p] <= peer_highest_tick'[q][p]
    <3>1. peer_highest_tick' =
            [peer_highest_tick EXCEPT ![n][m.player_id] =
               IF m.base_tick <= peer_highest_tick[n][m.player_id] + 1
               THEN Later(peer_highest_tick[n][m.player_id], m.frame_tick)
               ELSE peer_highest_tick[n][m.player_id]]
      BY <1>5 DEF Receive
    <3>2. peer_highest_tick \in [Node -> [Node -> Nat]] /\ m.frame_tick \in Nat
      BY <2>1 DEF InductiveInv, TypeOK, IsPacket
    <3> QED BY <2>1, <3>1, <3>2 DEF Later
  <2> QED BY <1>2, <2>1, <2>2, <2>6, <2>7, InputsOfLogs DEF StepKeeps
<1>6. ASSUME NEW n \in Node, NEW k \in 1 .. MaxTicksPerPump, StartTicks(n, k)
      PROVE  StepKeeps(n)
  <2>1. UNCHANGED <<sim_tick_count, snapshot_ring, rollback_target, peerVars>>
    BY <1>6 DEF StartTicks, worldVars
  <2>2. PICK c \in Consensus(n) :
          confirmed_tick' = [confirmed_tick EXCEPT ![n] = Later(confirmed_tick[n], c)]
    BY <1>6 DEF StartTicks
  <2>3. confirmed_tick'[n] = Later(confirmed_tick[n], c) /\ confirmed_tick'[n] \in Nat
    BY <1>1, <1>2, <2>2 DEF InductiveInv, TypeOK
  <2>4. confirmed_tick[n] <= confirmed_tick'[n]
    BY <1>2, <2>3 DEF Later
  <2>5. SettledTick(n) <= SettledTick(n)'
    BY <1>1, <2>1, <2>4, SettledGrows
  <2> QED BY <1>2, <2>1, <2>2, <2>5, InputsOfLogs, HeardStays DEF StepKeeps
<1>7. ASSUME NEW n \in Node, NEW t, NEW f, SimulatesTick(n, t, f),
             \A q \in Node : q # n => rollback_target'[q] = rollback_target[q],
             rollback_target'[n] = rollback_target[n] \/ rollback_target'[n] = 0
      PROVE  StepKeeps(n)
  <2>1. /\ Simulated(n, t, f) /\ f \in NetworkFrame /\ t \in Nat
        /\ UNCHANGED <<confirmed_tick, peerVars>>
    BY <1>7 DEF SimulatesTick
  <2>2. \A q \in Node : q # n => snapshot_ring'[q] = snapshot_ring[q]
    BY <2>1, SimulatedSlots
  <2>3. SettledTick(n) <= SettledTick(n)'
    BY <1>1, <1>2, <1>7, <2>1, SettledGrows
  <2> QED BY <1>7, <2>1, <2>2, <2>3, SimulatesInputs, HeardStays DEF StepKeeps
<1>8. ASSUME NEW n \in Node, ResimulateTick(n) PROVE StepKeeps(n)
  <2>1. \/ rollback_target' = [rollback_target EXCEPT ![n] = 0]
        \/ UNCHANGED rollback_target
    BY <1>8 DEF ResimulateTick, NoLongerActive
  <2>2. /\ \A q \in Node : q # n => rollback_target'[q] = rollback_target[q]
        /\ rollback_target'[n] = rollback_target[n] \/ rollback_target'[n] = 0
    BY <1>2, <2>1
  <2> QED BY <1>7, <1>8, <2>2, ResimulatesTick
<1>9. ASSUME NEW n \in Node, SimulateForward(n) PROVE StepKeeps(n)
  <2>1. UNCHANGED rollback_target
    BY <1>9 DEF SimulateForward
  <2> QED BY <1>7, <1>9, <2>1, SimulatesForward
<1>10. ASSUME NEW n \in Node, PrepareFrame(n) \/ BeginRollback(n) \/ FlushNetwork(n)
       PROVE  StepKeeps(n)
  BY <1>3, <1>10 DEF PrepareFrame, BeginRollback, FlushNetwork, clockVars, worldVars
<1>11. ASSUME NEW n \in Node, Tick(n) PROVE StepKeeps(n)
  BY <1>6, <1>8, <1>9, <1>10, <1>11 DEF Tick
<1> QED BY <1>4, <1>5, <1>11 DEF SteadyNext, SteadyTick

-----------------------------------------------------------------------------
(* One log.                                                                 *)

\* The world a node has settled is clean and confirmed.
LEMMA SettledFollows == InductiveInv /\ LogInv => SettledIsTrue
<1> SUFFICES ASSUME InductiveInv, LogInv, NEW n \in Node
             PROVE  /\ SettledWorld(n) \in Worlds
                    /\ Len(SettledWorld(n)) = SettledTick(n)
                    /\ IsTrue(SettledWorld(n))
  BY DEF SettledIsTrue
<1> DEFINE s == SettledTick(n)
           world == snapshot_ring[n][Slot(s)]
<1>1. NodeInv(n) /\ PeersAreKnown(n)
  BY DEF LogInv
<1>2. phase[n] = "resimulate" =>
         rollback_target[n] # 0 /\ cursor[n] \in rollback_target[n] .. sim_tick_count[n] - 1
  BY <1>1 DEF NodeInv, PumpIsSteady
<1>3. /\ s \in Nat /\ s <= confirmed_tick[n] /\ s \in 0 .. CleanTo(n)
      /\ s >= sim_tick_count[n] - RingSize /\ s \in 0 .. sim_tick_count[n] - 1
  BY <1>2, TickBounds DEF SettledTick, CleanTo, Earlier
<1>4. world \in Worlds /\ Len(world) = s
  BY <1>1, <1>3, LogType DEF NodeInv, WorldsAreKept
<1>5. \A u \in 1 .. s : \A p \in Node : u < sim_tick_count[p] /\ world[u][p] = Input(p, u)
  <2> SUFFICES ASSUME NEW u \in 1 .. s, NEW p \in Node
               PROVE  u < sim_tick_count[p] /\ world[u][p] = Input(p, u)
    OBVIOUS
  <2>1. ~(u > confirmed_tick[n]) /\ u <= confirmed_tick[n] /\ u \in Nat
    BY <1>3, TickBounds
  <2>2. world[u][p] = Input(p, u)
    BY <1>1, <1>3, <2>1 DEF NodeInv, CleanWorlds
  <2>3. CASE p = n
    BY <2>1, <2>2, <2>3, TickBounds
  <2>4. CASE p # n
    <3>1. p \in Peers(n)
      BY <2>4 DEF Peers
    <3> QED BY <1>1, <2>1, <2>2, <3>1, HeardBounds, TickBounds
  <2> QED BY <2>3, <2>4
<1>6. IsTrue(world)
  BY <1>4, <1>5 DEF IsTrue
<1>7. SettledWorld(n) = world
  BY DEF SettledWorld
<1> HIDE DEF world, s
<1> QED BY <1>4, <1>6, <1>7 DEF s

\* A log that agrees with a longer one is a prefix of it.
LEMMA PrefixOf ==
    ASSUME NEW v \in Worlds, NEW w \in Worlds, Len(v) <= Len(w),
           \A t \in 1 .. Len(v) : \A p \in Node : v[t][p] = w[t][p]
    PROVE  /\ SettledLog!IsPrefix(v, w)
           /\ Len(v) = Len(w) => v = w
<1>1. /\ Len(v) \in Nat /\ Len(w) \in Nat
      /\ v \in Seq([Node -> Commands]) /\ w \in Seq([Node -> Commands])
  BY LenProperties DEF Worlds
<1>2. ASSUME NEW t \in 1 .. Len(v) PROVE v[t] = w[t]
  <2>1. v[t] \in [Node -> Commands] /\ w[t] \in [Node -> Commands]
    BY <1>1, ElementOfSeq
  <2> QED BY <2>1
<1>3. \A n \in 0 .. Len(w) : /\ SubSeq(w, 1, n) \in Seq([Node -> Commands])
                             /\ Len(SubSeq(w, 1, n)) = n
                             /\ \A i \in 1 .. n : SubSeq(w, 1, n)[i] = w[i]
  BY <1>1
<1>4. SubSeq(w, 1, Len(v)) = v
  BY <1>1, <1>2, <1>3, SeqEqual
<1>5. SubSeq(v, 1, Len(v)) = v
  BY <1>1, SubSeqFull
<1>6. Len(v) = Len(w) => v = w
  BY <1>1, <1>2, SeqEqual
<1> QED BY <1>4, <1>5, <1>6 DEF SettledLog!IsPrefix

\* Two logs of what was played agree as far as both go.
LEMMA OneGameFollows == SettledIsTrue => SettledLog!Agreement
<1> SUFFICES ASSUME SettledIsTrue, NEW n \in Node, NEW p \in Node
             PROVE  SettledLog!Consistent(SettledWorld(n), SettledWorld(p))
  BY DEF SettledLog!Agreement
<1> DEFINE settled(q) == SettledWorld(q)
<1>1. ASSUME NEW q \in Node
      PROVE  /\ settled(q) \in Worlds /\ Len(settled(q)) \in Nat
             /\ \A t \in 1 .. Len(settled(q)) : \A r \in Node : settled(q)[t][r] = Input(r, t)
  <2>1. settled(q) \in Worlds /\ IsTrue(settled(q))
    BY DEF SettledIsTrue
  <2> QED BY <2>1, LenProperties DEF Worlds, IsTrue
<1> HIDE DEF settled
<1>2. ASSUME NEW q \in Node, NEW r \in Node, Len(settled(q)) <= Len(settled(r))
      PROVE  SettledLog!IsPrefix(settled(q), settled(r))
  <2>1. \A t \in 1 .. Len(settled(q)) : \A m \in Node : settled(q)[t][m] = settled(r)[t][m]
    BY <1>1, <1>2
  <2> QED BY <1>1, <1>2, <2>1, PrefixOf
<1>3. Len(settled(n)) <= Len(settled(p)) \/ Len(settled(p)) <= Len(settled(n))
  BY <1>1
<1>4. SettledLog!Consistent(settled(n), settled(p))
  BY <1>2, <1>3 DEF SettledLog!Consistent
<1> QED BY <1>4 DEF settled

\* At the start nobody has settled anything.
LEMMA SettledInit == Init => SettledLog!Init
<1> SUFFICES ASSUME Init, NEW n \in Node PROVE SettledWorld(n) = <<>>
  BY DEF SettledLog!Init
<1>1. SettledTick(n) = 0
  BY DEF Init, SettledTick
<1> QED BY <1>1, SlotType DEF Init, SettledWorld

\* A step settles more at one node, or nothing.
LEMMA SettledStep ==
    ASSUME InductiveInv, InductiveInv', SettledIsTrue, SettledIsTrue',
           NEW n \in Node, StepKeeps(n)
    PROVE  [SettledLog!Next]_([q \in Node |-> SettledWorld(q)])
<1> DEFINE old(q) == SettledWorld(q)
           new(q) == SettledWorld(q)'
<1>1. ASSUME NEW q \in Node, q # n PROVE new(q) = old(q)
  BY <1>1 DEF StepKeeps, SettledWorld, SettledTick, Slot
<1>2. ASSUME NEW q \in Node
      PROVE  /\ old(q) \in Worlds /\ new(q) \in Worlds
             /\ Len(old(q)) \in Nat /\ Len(new(q)) \in Nat
             /\ \A t \in 1 .. Len(new(q)) : \A p \in Node : new(q)[t][p] = Input(p, t)'
  <2>1. new(q) \in Worlds /\ old(q) \in Worlds
    BY DEF SettledIsTrue
  <2>2. \A t \in 1 .. Len(new(q)) : \A p \in Node : new(q)[t][p] = Input(p, t)'
    BY DEF SettledIsTrue, IsTrue
  <2> QED BY <2>1, <2>2, LenProperties DEF Worlds
<1>3. ASSUME NEW t \in 1 .. Len(old(n)), NEW p \in Node PROVE old(n)[t][p] = Input(p, t)'
  <2>1. t < sim_tick_count[p] /\ old(n)[t][p] = Input(p, t)
    BY DEF SettledIsTrue, IsTrue
  <2>2. sim_tick_count[p] \in Nat /\ Len(old(n)) \in Nat
    BY <1>2 DEF InductiveInv, TypeOK
  <2>3. t \in 0 .. sim_tick_count[p] - 1
    BY <2>1, <2>2
  <2> QED BY <2>1, <2>3 DEF StepKeeps, InputsStay
<1>4. Len(old(n)) <= Len(new(n))
  BY DEF SettledIsTrue, StepKeeps
<1> HIDE DEF old, new
<1>5. /\ SettledLog!IsPrefix(old(n), new(n))
      /\ Len(old(n)) = Len(new(n)) => old(n) = new(n)
  <2>1. \A t \in 1 .. Len(old(n)) : \A p \in Node : old(n)[t][p] = new(n)[t][p]
    BY <1>2, <1>3, <1>4
  <2> QED BY <1>2, <1>4, <2>1, PrefixOf
<1>6. ASSUME NEW q \in Node
      PROVE  SettledLog!IsPrefix(new(n), new(q)) \/ SettledLog!IsPrefix(new(q), new(n))
  <2>1. CASE Len(new(n)) <= Len(new(q))
    <3>1. \A t \in 1 .. Len(new(n)) : \A p \in Node : new(n)[t][p] = new(q)[t][p]
      BY <1>2, <2>1
    <3> QED BY <1>2, <2>1, <3>1, PrefixOf
  <2>2. CASE Len(new(q)) <= Len(new(n))
    <3>1. \A t \in 1 .. Len(new(q)) : \A p \in Node : new(q)[t][p] = new(n)[t][p]
      BY <1>2, <2>2
    <3> QED BY <1>2, <2>2, <3>1, PrefixOf
  <2> QED BY <1>2, <2>1, <2>2
<1>7. CASE old(n) = new(n)
  <2>1. \A q \in Node : new(q) = old(q)
    BY <1>1, <1>7
  <2>2. [q \in Node |-> new(q)] = [q \in Node |-> old(q)]
    BY <2>1
  <2> QED BY <2>2 DEF old, new
<1>8. CASE old(n) # new(n)
  <2>1. SettledLog!IsStrictPrefix(old(n), new(n))
    BY <1>5, <1>8 DEF SettledLog!IsStrictPrefix
  <2>2. \A p \in Node \ {n} : new(p) = old(p) /\ SettledLog!Consistent(new(n), old(p))
    BY <1>1, <1>6 DEF SettledLog!Consistent
  <2>3. SettledLog!Settle(n)
    BY <2>1, <2>2 DEF SettledLog!Settle, old, new
  <2> QED BY <2>3 DEF SettledLog!Next
<1> QED BY <1>7, <1>8

-----------------------------------------------------------------------------
(* Desyncs and gaps.                                                        *)

\* A desync is found in frames that no later step of the node changes.
LEMMA DesyncStep ==
    ASSUME InductiveInv, DesyncIsFound, [Next]_vars
    PROVE  DesyncIsFound'
<1> SUFFICES ASSUME NEW q \in Node, phase'[q] = "desync"
             PROVE  rollback_target'[q] = 0 /\ Desynced(q, frames[q])'
  BY DEF DesyncIsFound
<1>1. /\ phase \in [Node -> Phases] /\ rollback_target \in [Node -> Nat]
      /\ confirmed_tick \in [Node -> Nat] /\ frames \in [Node -> [Slots -> NetworkFrame]]
  BY DEF InductiveInv, TypeOK
<1>2. ASSUME phase[q] = "desync",
             UNCHANGED <<rollback_target[q], frames[q], confirmed_tick[q]>>
      PROVE  rollback_target'[q] = 0 /\ Desynced(q, frames[q])'
  BY <1>2 DEF DesyncIsFound, Desynced, Slot, DesyncSweep, LocalHorizon, Later
<1> DEFINE Goal == rollback_target'[q] = 0 /\ Desynced(q, frames[q])'
<1> HIDE DEF Goal
<1>3. ASSUME UNCHANGED <<phase, rollback_target, frames, confirmed_tick>> PROVE Goal
  BY <1>2, <1>3 DEF Goal
<1>4. ASSUME UNCHANGED vars PROVE Goal
  BY <1>3, <1>4 DEF vars, clockVars, controlVars
<1>5. ASSUME NEW n \in Node, NEW c \in Command, InjectLocalCommand(n, c) PROVE Goal
  BY <1>3, <1>5 DEF InjectLocalCommand, clockVars, controlVars
<1>6. ASSUME NEW n \in Node, NEW m \in net, Receive(n, m) PROVE Goal
  <2>1. /\ phase[n] = "idle" /\ UNCHANGED <<phase, confirmed_tick>>
        /\ \E r : frames' = [frames EXCEPT ![n] = r]
        /\ \E t : rollback_target' = [rollback_target EXCEPT ![n] = t]
    BY <1>6 DEF Receive, clockVars, controlVars
  <2>2. q # n
    BY <2>1
  <2> QED BY <1>1, <1>2, <2>1, <2>2 DEF Goal
<1>7. ASSUME NEW n \in Node, NEW k \in 1 .. MaxTicksPerPump, StartTicks(n, k) PROVE Goal
  <2>1. /\ phase' = [phase EXCEPT ![n] = "loop"] /\ UNCHANGED <<rollback_target, frames>>
        /\ \E c : confirmed_tick' = [confirmed_tick EXCEPT ![n] = c]
    BY <1>7 DEF StartTicks
  <2>2. q # n
    BY <1>1, <2>1
  <2> QED BY <1>1, <1>2, <2>1, <2>2 DEF Goal
<1>8. ASSUME NEW n \in Node, PrepareFrame(n) PROVE Goal
  <2>1. /\ \E x : x # "desync" /\ phase' = [phase EXCEPT ![n] = x]
        /\ UNCHANGED <<rollback_target, confirmed_tick>>
        /\ \E s, f : frames' = [frames EXCEPT ![n][s] = f]
    BY <1>8 DEF PrepareFrame
  <2>2. q # n
    BY <1>1, <2>1
  <2> QED BY <1>1, <1>2, <2>1, <2>2 DEF Goal
<1>9. ASSUME NEW n \in Node, BeginRollback(n) PROVE Goal
  <2>1. /\ \E x : x # "desync" /\ phase' = [phase EXCEPT ![n] = x]
        /\ UNCHANGED <<rollback_target, confirmed_tick, frames>>
    BY <1>9 DEF BeginRollback, clockVars
  <2>2. q # n
    BY <1>1, <2>1
  <2> QED BY <1>1, <1>2, <2>1, <2>2 DEF Goal
<1>10. ASSUME NEW n \in Node, ResimulateTick(n) PROVE Goal
  <2>1. /\ phase[n] = "resimulate" /\ UNCHANGED confirmed_tick
        /\ \E s, f : frames' = [frames EXCEPT ![n][s] = f]
        /\ \/ /\ rollback_target' = [rollback_target EXCEPT ![n] = 0]
              /\ phase' = [phase EXCEPT ![n] = "simulate"]
           \/ UNCHANGED <<rollback_target, phase>>
    BY <1>10 DEF ResimulateTick, NoLongerActive, Simulated, clockVars
  <2>2. q # n
    BY <1>1, <2>1
  <2> QED BY <1>1, <1>2, <2>1, <2>2 DEF Goal
<1>11. ASSUME NEW n \in Node, SimulateForward(n) PROVE Goal
  <2>1. CASE q = n
    <3>1. rollback_target[n] = 0 /\ UNCHANGED <<rollback_target, confirmed_tick>>
      BY <1>11 DEF SimulateForward, InductiveInv, PumpInv
    <3>2. Desynced(n, frames'[n])
      BY <1>1, <1>11, <2>1 DEF SimulateForward
    <3> QED BY <2>1, <3>1, <3>2
            DEF Goal, Desynced, Slot, DesyncSweep, LocalHorizon, Later
  <2>2. CASE q # n
    <3>1. /\ \E x : phase' = [phase EXCEPT ![n] = x]
          /\ UNCHANGED <<rollback_target, confirmed_tick>>
          /\ \/ \E s, f : frames' = [frames EXCEPT ![n][s] = f]
             \/ UNCHANGED frames
      BY <1>11 DEF SimulateForward, Simulated
    <3> QED BY <1>1, <1>2, <2>2, <3>1 DEF Goal
  <2> QED BY <2>1, <2>2
<1>12. ASSUME NEW n \in Node, FlushNetwork(n) PROVE Goal
  <2>1. /\ phase' = [phase EXCEPT ![n] = "idle"]
        /\ UNCHANGED <<rollback_target, confirmed_tick, frames>>
    BY <1>12 DEF FlushNetwork, clockVars
  <2>2. q # n
    BY <1>1, <2>1
  <2> QED BY <1>1, <1>2, <2>1, <2>2 DEF Goal
<1>13. ASSUME NEW n \in Node, Tick(n) PROVE Goal
  BY <1>7, <1>8, <1>9, <1>10, <1>11, <1>12, <1>13 DEF Tick
<1>14. Goal
  BY <1>4, <1>5, <1>6, <1>13 DEF Next
<1> QED BY <1>14 DEF Goal

\* So it is never found: the checksums of a peer match.
LEMMA NoDesyncFollows == InductiveInv /\ LogInv /\ DesyncIsFound => NoFatalDesync
<1> SUFFICES ASSUME InductiveInv, LogInv, DesyncIsFound, NEW n \in Node,
                    phase[n] = "desync"
             PROVE  FALSE
  BY DEF NoFatalDesync
<1>1. rollback_target[n] = 0 /\ Desynced(n, frames[n])
  BY DEF DesyncIsFound
<1> QED BY <1>1, ChecksumsMatch

\* A packet of a node that is no further ahead than a history is long reaches back to what
\* each peer has acknowledged; and peers forget nothing.
LEMMA ReachStep ==
    ASSUME InductiveInv, LogInv, HistoryReachesPeers, [SteadyNext]_vars
    PROVE  HistoryReachesPeers'
<1>1. InductiveInv'
  BY InvStep, SteadyIsNext
<1>2. \A q, p \in Node : peer_highest_tick[q][p] <= peer_highest_tick'[q][p]
  <2>1. CASE UNCHANGED vars
    BY <2>1, HeardStays DEF vars
  <2> QED BY <2>1, StepsKeep DEF StepKeeps
<1>3. \A q, p \in Node : peer_highest_tick[q][p] \in Nat /\ peer_highest_tick'[q][p] \in Nat
  BY <1>1 DEF InductiveInv, TypeOK
<1>4. ASSUME NEW m \in net, NEW q \in Peers(m.player_id)
      PROVE  m.base_tick <= peer_highest_tick'[q][m.player_id] + 1
  <2>1. /\ m.base_tick <= peer_highest_tick[q][m.player_id] + 1
        /\ m.base_tick \in Nat /\ q \in Node /\ m.player_id \in Node
    BY DEF HistoryReachesPeers, Peers, InductiveInv, TypeOK, IsPacket
  <2> QED BY <1>2, <1>3, <2>1
<1>5. ASSUME NEW n \in Node, FlushNetwork(n), sim_tick_count[n] > tick_before[n],
             NEW q \in Peers(n)
      PROVE  Packet(n).base_tick <= peer_highest_tick'[q][n] + 1
  <2>1. /\ phase[n] = "loop" /\ accumulator[n] = 0 /\ NodeInv(n) /\ PeersAreKnown(n)
        /\ q \in Node /\ peer_ack_of_me[n][q] \in Nat
    BY <1>5 DEF FlushNetwork, LogInv, Peers, InductiveInv, TypeOK
  <2>2. /\ head_tick[n] = sim_tick_count[n] - 1
        /\ sim_tick_count[n] + 0 - 1 <= peer_ack_of_me[n][q] + LookaheadCap
    BY <1>5, <2>1, TickBounds DEF NodeInv, PumpIsSteady, Preparing
  <2>3. peer_ack_of_me[n][q] <= peer_highest_tick[q][n]
    BY <2>1 DEF PeersAreKnown
  <2>4. head_tick[n] - HistoryHorizon <= peer_highest_tick'[q][n] + 1
    BY <1>2, <1>3, <2>1, <2>2, <2>3, TickBounds, SizeAssumption, HistoryCapAssumption
       DEF HistoryHorizon
  <2>5. Packet(n).base_tick = Later(0, head_tick[n] - HistoryHorizon)
    BY DEF Packet, BaseTick, PacketTick
  <2> QED BY <1>3, <2>1, <2>4, <2>5 DEF Later
<1>6. ASSUME NEW m \in net', m \notin net
      PROVE  \E n \in Node : /\ FlushNetwork(n) /\ sim_tick_count[n] > tick_before[n]
                             /\ m = Packet(n)
  <2>1. net' # net
    BY <1>6
  <2>2. ASSUME NEW n \in Node, Tick(n) PROVE FlushNetwork(n)
    BY <2>1, <2>2 DEF Tick, StartTicks, PrepareFrame, BeginRollback, ResimulateTick, NoLongerActive,
                      SimulateForward
  <2>3. \E n \in Node : FlushNetwork(n)
    BY <2>1, <2>2 DEF SteadyNext, SteadyTick, InjectLocalCommand, Receive, vars
  <2> QED BY <1>6, <2>3 DEF FlushNetwork
<1>7. ASSUME NEW m \in net', m \notin net, NEW q \in Peers(m.player_id)
      PROVE  m.base_tick <= peer_highest_tick'[q][m.player_id] + 1
  <2>1. PICK n \in Node : /\ FlushNetwork(n) /\ sim_tick_count[n] > tick_before[n]
                          /\ m = Packet(n)
    BY <1>6, <1>7
  <2>2. m.player_id = n
    BY <2>1 DEF Packet
  <2> QED BY <1>5, <2>1, <2>2
<1> QED BY <1>4, <1>7 DEF HistoryReachesPeers, Peers

-----------------------------------------------------------------------------
(* The theorems about one game.                                             *)

\* Steady behaviours are behaviours.
LEMMA SteadyIsSpec == SteadySpec => Spec
<1>1. [SteadyNext]_vars => [Next]_vars
  BY SteadyIsNext
<1> QED BY <1>1, PTL DEF SteadySpec, Spec

\* Behaviours whose pumps owe one tick at a time are steady: what is said below of
\* SteadySpec holds of every match without bursts.
THEOREM OneTickPumps == MaxTicksPerPump = 1 => (Spec => SteadySpec)
<1> SUFFICES ASSUME MaxTicksPerPump = 1 PROVE Spec => SteadySpec
  OBVIOUS
<1>1. InductiveInv /\ [Next]_vars => [SteadyNext]_vars
  BY OneTickIsSteady
<1> QED BY <1>1, Invariance, PTL DEF Spec, SteadySpec

\* Players whose pumps are steady keep the invariant of the log.
THEOREM LogKept == SteadySpec => []LogInv
<1>1. InductiveInv /\ LogInv /\ [SteadyNext]_vars => LogInv'
  BY LogStep
<1>2. SteadySpec => []InductiveInv
  BY SteadyIsSpec, Invariance, PTL
<1> QED BY <1>1, <1>2, LogInit, PTL DEF SteadySpec

\* However packets are lost, repeated and reordered, what a steady player holds is what
\* was played.
THEOREM HistoriesTrue == SteadySpec => []HistoriesAreTrue
<1>1. SteadySpec => []InductiveInv
  BY SteadyIsSpec, Invariance, PTL
<1>2. InductiveInv /\ LogInv => HistoriesAreTrue
  BY WorldsFollow, InputsFollow, PublishedFollows DEF HistoriesAreTrue
<1> QED BY <1>1, <1>2, LogKept, PTL

\* Steady players neither meet a desync nor a packet that they cannot use for its gap.
THEOREM Together == SteadySpec => []StayTogether
<1>1. SteadySpec => []InductiveInv
  BY SteadyIsSpec, Invariance, PTL
<1>2. Init => DesyncIsFound /\ HistoryReachesPeers
  BY DEF Init, DesyncIsFound, HistoryReachesPeers
<1>3. InductiveInv /\ DesyncIsFound /\ [SteadyNext]_vars => DesyncIsFound'
  BY DesyncStep, SteadyIsNext
<1>4. InductiveInv /\ LogInv /\ HistoryReachesPeers /\ [SteadyNext]_vars
        => HistoryReachesPeers'
  BY ReachStep
<1>5. SteadySpec => []DesyncIsFound
  BY <1>1, <1>2, <1>3, PTL DEF SteadySpec
<1>6. SteadySpec => []HistoryReachesPeers
  BY <1>1, <1>2, <1>4, LogKept, PTL DEF SteadySpec
<1>7. InductiveInv /\ LogInv /\ DesyncIsFound /\ HistoryReachesPeers => StayTogether
  BY NoDesyncFollows DEF StayTogether
<1> QED BY <1>1, <1>5, <1>6, <1>7, LogKept, PTL

\* The prefixes that steady players have settled are those of one log, and only grow.
THEOREM OneLog == SteadySpec => ImplementsAgreedLog
<1>1. SteadySpec => []InductiveInv
  BY SteadyIsSpec, Invariance, PTL
<1>2. SteadySpec => []SettledIsTrue
  BY <1>1, LogKept, SettledFollows, PTL
<1>3. /\ InductiveInv /\ InductiveInv' /\ LogInv /\ SettledIsTrue /\ SettledIsTrue'
      /\ [SteadyNext]_vars
      => [SettledLog!Next]_([n \in Node |-> SettledWorld(n)])
  <2> SUFFICES ASSUME InductiveInv, InductiveInv', LogInv, SettledIsTrue, SettledIsTrue',
                      [SteadyNext]_vars
               PROVE  [SettledLog!Next]_([n \in Node |-> SettledWorld(n)])
    OBVIOUS
  <2>1. CASE \E n \in Node : StepKeeps(n)
    BY <2>1, SettledStep
  <2>2. CASE UNCHANGED vars
    BY <2>2 DEF vars, clockVars, worldVars, SettledWorld, SettledTick, Slot
  <2> QED BY <2>1, <2>2, StepsKeep
<1>4. SteadySpec => [][SteadyNext]_vars
  BY PTL DEF SteadySpec
<1>5. SteadySpec => [][SettledLog!Next]_([n \in Node |-> SettledWorld(n)])
  BY <1>1, <1>2, <1>3, <1>4, LogKept, PTL
<1>6. SteadySpec => SettledLog!Init
  BY SettledInit DEF SteadySpec
<1>7. SettledLog!Init /\ [][SettledLog!Next]_([n \in Node |-> SettledWorld(n)])
        => SettledLog!Spec
  BY DEF SettledLog!Spec
<1>8. SteadySpec => SettledLog!Spec
  BY <1>5, <1>6, <1>7, PTL
<1> QED BY <1>8 DEF ImplementsAgreedLog

\* No two steady players ever settle different games: of what two of them have settled
\* at any moment, one is the beginning of the other.
THEOREM OneGame == SteadySpec => []SettledLog!Agreement
<1>1. SteadySpec => []InductiveInv
  BY SteadyIsSpec, Invariance, PTL
<1> QED BY <1>1, LogKept, SettledFollows, OneGameFollows, PTL
=============================================================================
