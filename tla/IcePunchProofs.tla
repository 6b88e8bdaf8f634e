---------------------------- MODULE IcePunchProofs ----------------------------
(***************************************************************************)
(* The handshake of any number of players, on both networks of MCSession:  *)
(* what a player believes of a path is founded, and the relay is not taken *)
(* for a peer.                                                             *)
(***************************************************************************)
EXTENDS MCSession, TLAPS

-----------------------------------------------------------------------------
(* What the proofs use of a network.  It passes on what is true, or loses  *)
(* it; which pairs reach each other, and whether pings get lost, does not  *)
(* matter.                                                                 *)

TruePings(p) == {m \in [from : {p}, to : Players, is_ping : {0, 1}] :
                    m.is_ping = 1 => m.to \in heard[p]}

AnyRound(p, S) ==
    /\ phase[p] = "punch" /\ S \subseteq Inbox(p)
    /\ heard' = [heard EXCEPT ![p] = @ \cup {m.from : m \in S}]
    /\ path' = [path EXCEPT ![p] = [q \in Players |->
                   IF @[q] = "none" /\ \E m \in S : m.from = q /\ m.is_ping = 1
                   THEN "direct" ELSE @[q]]]
    /\ net' \subseteq net \cup TruePings(p)
    /\ UNCHANGED <<phase, addr, room>>

AnyFallBack(p) ==
    LET failed == {q \in Peers(p) : path[p][q] = "none"}
    IN
    /\ phase[p] = "punch"
    /\ phase' = [phase EXCEPT ![p] = "game"]
    /\ addr' = [addr EXCEPT ![p] = [q \in Players |->
                   IF q \in failed THEN "relay" ELSE @[q]]]
    /\ path' = [path EXCEPT ![p] = [q \in Players |->
                   IF q \in failed THEN "relay" ELSE @[q]]]
    /\ room' \subseteq room \cup {p}
    /\ UNCHANGED <<heard, net>>

AnyLoss == net' \subseteq net /\ UNCHANGED <<phase, addr, heard, path, room>>

AnyDirect(p, q) ==
    /\ addr' = Learned(q, p, "peer")
    /\ heard' = IF phase[q] = "punch" THEN [heard EXCEPT ![q] = @ \cup {p}] ELSE heard
    /\ UNCHANGED <<phase, path, net, room>>

AnyNext ==
    \/ \E p \in Players : \/ Enter(p) \/ AnyFallBack(p)
                           \/ \E S \in SUBSET Inbox(p) : AnyRound(p, S)
    \/ \E m \in net : LatePing(m)
    \/ AnyLoss
    \/ \E p \in Players : \E q \in Peers(p) : AnyDirect(p, q) \/ GameRelayed(p, q)

\* The pings of a player are packets, and say what it heard.
LEMMA PingsAreTrue ==
    ASSUME NEW p \in Players
    PROVE  Pings(p) \subseteq TruePings(p) /\ Rough!Pings(p) \subseteq TruePings(p)
<1>1. ASSUME NEW m \in Pings(p) PROVE m \in TruePings(p)
  <2>1. PICK q \in Players : m = [from |-> p, to |-> q, is_ping |-> IsPing(p, q)]
    BY DEF Pings, Peers
  <2>2. QED
    BY <2>1 DEF IsPing, TruePings
<1>2. ASSUME NEW m \in Rough!Pings(p) PROVE m \in TruePings(p)
  <2>1. PICK q \in Players : m = [from |-> p, to |-> q, is_ping |-> Rough!IsPing(p, q)]
    BY DEF Rough!Pings, Rough!Peers
  <2>2. QED
    BY <2>1 DEF Rough!IsPing, TruePings
<1>3. QED
  BY <1>1, <1>2

LEMMA SmoothIsAny == Next => AnyNext
<1> SUFFICES ASSUME Next PROVE AnyNext
  OBVIOUS
<1>1. ASSUME NEW p \in Players, NEW S \in SUBSET Inbox(p), PunchRound(p, S)
      PROVE  AnyRound(p, S)
  BY <1>1, PingsAreTrue DEF PunchRound, AnyRound
<1>2. ASSUME NEW p \in Players, FallBack(p) PROVE AnyFallBack(p)
  BY <1>2 DEF FallBack, AnyFallBack, FallbackPath
<1>3. ASSUME NEW m \in net, Lose(m) PROVE AnyLoss
  BY <1>3 DEF Lose, AnyLoss
<1>4. ASSUME NEW p \in Players, NEW q \in Peers(p), GameDirect(p, q) PROVE AnyDirect(p, q)
  BY <1>4 DEF GameDirect, AnyDirect
<1>5. QED
  BY <1>1, <1>2, <1>3, <1>4 DEF Next, Handshake, AnyNext

LEMMA RoughIsAny == Rough!Next => AnyNext
<1> SUFFICES ASSUME Rough!Next PROVE AnyNext
  OBVIOUS
<1> USE DEF Rough!Inbox, Rough!Peers, Inbox, Peers
<1>1. ASSUME NEW p \in Players, NEW S \in SUBSET Inbox(p), Rough!PunchRound(p, S)
      PROVE  AnyRound(p, S)
  BY <1>1, PingsAreTrue DEF Rough!PunchRound, AnyRound
<1>2. ASSUME NEW p \in Players, Rough!FallBack(p) PROVE AnyFallBack(p)
  BY <1>2 DEF Rough!FallBack, Rough!FallbackPath, AnyFallBack
<1>3. ASSUME NEW m \in net, Rough!Lose(m) PROVE AnyLoss
  BY <1>3 DEF Rough!Lose, AnyLoss
<1>4. ASSUME NEW p \in Players, NEW q \in Peers(p), Rough!GameDirect(p, q)
      PROVE  AnyDirect(p, q)
  BY <1>4
     DEF Rough!GameDirect, Rough!Learned, Rough!LearnsFrom, AnyDirect, Learned, LearnsFrom
<1>5. ASSUME NEW p \in Players, Rough!Enter(p) PROVE Enter(p)
  BY <1>5 DEF Rough!Enter, Enter
<1>6. ASSUME NEW m \in net, Rough!LatePing(m) PROVE LatePing(m)
  BY <1>6 DEF Rough!LatePing, Rough!Learned, Rough!LearnsFrom, LatePing, Learned, LearnsFrom
<1>7. ASSUME NEW p \in Players, NEW q \in Peers(p), Rough!GameRelayed(p, q)
      PROVE  GameRelayed(p, q)
  BY <1>7
     DEF Rough!GameRelayed, Rough!Learned, Rough!LearnsFrom, GameRelayed, Learned, LearnsFrom
<1>8. QED
  BY <1>1, <1>2, <1>3, <1>4, <1>5, <1>6, <1>7 DEF Rough!Next, Rough!Handshake, AnyNext

\* A step of MCSession is one on some network, or leaves the players alone.
LEMMA SessionStep == [MCNext]_allVars => AnyNext \/ UNCHANGED vars
  BY SmoothIsAny, RoughIsAny DEF MCNext, Smooth, Uneven, Lobby, allVars

-----------------------------------------------------------------------------
(* Types.                                                                   *)

IceType ==
    /\ phase \in [Players -> {"lobby", "punch", "game"}]
    /\ addr \in [Players -> [Players -> {"peer", "relay"}]]
    /\ heard \in [Players -> SUBSET Players]
    /\ path \in [Players -> [Players -> {"none", "direct", "relay"}]]
    /\ net \subseteq [from : Players, to : Players, is_ping : {0, 1}]
    /\ room \subseteq Players

-----------------------------------------------------------------------------
(* A path that is believed in works both ways.                              *)

\* Who says it has heard somebody has: in a packet, and in what became of one.
SaysWhatItHeard == \A m \in net : m.is_ping = 1 => m.to \in heard[m.from]

\* A player in the lobby has established nobody.
LobbyIsNew ==
    \A p \in Players : phase[p] = "lobby" =>
        \A q \in Players : path[p][q] = "none" /\ addr[p][q] = "peer"

HeardInv == IceType /\ SaysWhatItHeard /\ EstablishedIsHeard

LEMMA HeardInit == Init => HeardInv
  BY DEF Init, HeardInv, IceType, SaysWhatItHeard, EstablishedIsHeard, Peers

\* Hearing more, and sending nothing that is untrue, keeps what was said true.
LEMMA HeardGrows ==
    ASSUME HeardInv, IceType', UNCHANGED path,
           \A p \in Players : heard[p] \subseteq heard'[p],
           net' \subseteq net
    PROVE  HeardInv'
<1>1. SaysWhatItHeard'
  BY DEF HeardInv, IceType, SaysWhatItHeard
<1>2. EstablishedIsHeard'
  BY DEF HeardInv, EstablishedIsHeard, Peers
<1>3. QED
  BY <1>1, <1>2 DEF HeardInv

LEMMA HeardPunch ==
    ASSUME HeardInv, NEW p \in Players, NEW S \in SUBSET Inbox(p), AnyRound(p, S)
    PROVE  HeardInv'
<1>1. /\ heard' = [heard EXCEPT ![p] = @ \cup {m.from : m \in S}]
      /\ path' = [path EXCEPT ![p] = [q \in Players |->
                   IF @[q] = "none" /\ \E m \in S : m.from = q /\ m.is_ping = 1
                   THEN "direct" ELSE @[q]]]
      /\ net' \subseteq net \cup TruePings(p)
      /\ UNCHANGED <<phase, addr, room>>
  BY DEF AnyRound
<1>2. \A m \in S : m \in net /\ m.to = p /\ m.from \in Players
  BY DEF Inbox, HeardInv, IceType
<1>3. IceType'
  <2>1. heard' \in [Players -> SUBSET Players]
    BY <1>1, <1>2 DEF HeardInv, IceType
  <2>2. path' \in [Players -> [Players -> {"none", "direct", "relay"}]]
    BY <1>1 DEF HeardInv, IceType
  <2>3. net' \subseteq [from : Players, to : Players, is_ping : {0, 1}]
    BY <1>1 DEF HeardInv, IceType, TruePings
  <2>4. QED
    BY <1>1, <2>1, <2>2, <2>3 DEF HeardInv, IceType
<1>4. \A q \in Players : heard[q] \subseteq heard'[q]
  BY <1>1 DEF HeardInv, IceType
<1>5. SaysWhatItHeard'
  <2> SUFFICES ASSUME NEW m \in net', m.is_ping = 1 PROVE m.to \in heard'[m.from]
    BY DEF SaysWhatItHeard
  <2>1. m.from \in Players /\ m.to \in Players
    BY <1>3 DEF IceType
  <2>2. CASE m \in net
    BY <1>4, <2>1, <2>2 DEF HeardInv, SaysWhatItHeard
  <2>3. CASE m \in TruePings(p)
    BY <1>4, <2>1, <2>3 DEF TruePings
  <2>4. QED
    BY <1>1, <2>2, <2>3
<1>6. EstablishedIsHeard'
  <2> SUFFICES ASSUME NEW r \in Players, NEW q \in Peers(r),
                      path'[r][q] = "direct", {r, q} \notin Local
               PROVE  r \in heard'[q]
    BY DEF EstablishedIsHeard
  <2>1. q \in Players
    BY DEF Peers
  <2>2. CASE path[r][q] = "direct"
    BY <1>4, <2>1, <2>2 DEF HeardInv, EstablishedIsHeard
  <2>3. CASE path[r][q] # "direct"
    <3>1. r = p /\ \E m \in S : m.from = q /\ m.is_ping = 1
      BY <1>1, <2>1, <2>3 DEF HeardInv, IceType
    <3>2. r \in heard[q]
      BY <1>2, <3>1 DEF HeardInv, SaysWhatItHeard
    <3>3. QED
      BY <1>4, <2>1, <3>2
  <2>4. QED
    BY <2>2, <2>3
<1>7. QED
  BY <1>3, <1>5, <1>6 DEF HeardInv

LEMMA HeardEnter ==
    ASSUME HeardInv, NEW p \in Players, Enter(p)
    PROVE  HeardInv'
<1>1. /\ phase' = [phase EXCEPT ![p] = "punch"]
      /\ path' = [path EXCEPT ![p] = [q \in Players |->
                   IF {p, q} \in Local THEN "direct" ELSE "none"]]
      /\ UNCHANGED <<addr, heard, net, room>>
  BY DEF Enter
<1>2. IceType'
  BY <1>1 DEF HeardInv, IceType
<1>3. EstablishedIsHeard'
  <2> SUFFICES ASSUME NEW r \in Players, NEW q \in Peers(r),
                      path'[r][q] = "direct", {r, q} \notin Local
               PROVE  r \in heard'[q]
    BY DEF EstablishedIsHeard
  <2>1. q \in Players
    BY DEF Peers
  <2>2. path[r][q] = "direct"
    BY <1>1, <2>1 DEF HeardInv, IceType
  <2>3. QED
    BY <1>1, <2>2 DEF HeardInv, EstablishedIsHeard
<1>4. QED
  BY <1>1, <1>2, <1>3 DEF HeardInv, SaysWhatItHeard

LEMMA HeardFallBack ==
    ASSUME HeardInv, NEW p \in Players, AnyFallBack(p)
    PROVE  HeardInv'
<1> DEFINE failed == {q \in Peers(p) : path[p][q] = "none"}
<1>1. /\ phase' = [phase EXCEPT ![p] = "game"]
      /\ addr' = [addr EXCEPT ![p] = [q \in Players |->
                   IF q \in failed THEN "relay" ELSE @[q]]]
      /\ path' = [path EXCEPT ![p] = [q \in Players |->
                   IF q \in failed THEN "relay" ELSE @[q]]]
      /\ room' \subseteq room \cup {p}
      /\ UNCHANGED <<heard, net>>
  BY DEF AnyFallBack
<1>2. IceType'
  BY <1>1 DEF HeardInv, IceType
<1>3. EstablishedIsHeard'
  <2> SUFFICES ASSUME NEW r \in Players, NEW q \in Peers(r),
                      path'[r][q] = "direct", {r, q} \notin Local
               PROVE  r \in heard'[q]
    BY DEF EstablishedIsHeard
  <2>1. q \in Players
    BY DEF Peers
  <2>2. path[r][q] = "direct"
    BY <1>1, <2>1 DEF HeardInv, IceType
  <2>3. QED
    BY <1>1, <2>2 DEF HeardInv, EstablishedIsHeard
<1>4. QED
  BY <1>1, <1>2, <1>3 DEF HeardInv, SaysWhatItHeard

\* Learning an address keeps the addresses addresses.
LEMMA LearnedType ==
    ASSUME IceType, NEW p \in Players, NEW q \in Players, NEW via \in {"peer", "relay"}
    PROVE  Learned(p, q, via) \in [Players -> [Players -> {"peer", "relay"}]]
  BY DEF IceType, Learned, LearnsFrom

LEMMA HeardStep == HeardInv /\ (AnyNext \/ UNCHANGED vars) => HeardInv'
<1> SUFFICES ASSUME HeardInv, AnyNext \/ UNCHANGED vars PROVE HeardInv'
  OBVIOUS
<1>1. ASSUME NEW p \in Players, Enter(p) PROVE HeardInv'
  BY <1>1, HeardEnter
<1>2. ASSUME NEW p \in Players, NEW S \in SUBSET Inbox(p), AnyRound(p, S)
      PROVE  HeardInv'
  BY <1>2, HeardPunch
<1>3. ASSUME NEW p \in Players, AnyFallBack(p) PROVE HeardInv'
  BY <1>3, HeardFallBack
<1>4. ASSUME NEW m \in net, LatePing(m) PROVE HeardInv'
  <2>1. m.to \in Players /\ m.from \in Players
    BY DEF HeardInv, IceType
  <2>2. IceType'
    BY <1>4, <2>1, LearnedType DEF LatePing, HeardInv, IceType
  <2>3. QED
    BY <1>4, <2>2, HeardGrows DEF LatePing
<1>5. CASE AnyLoss
  <2>1. IceType'
    BY <1>5 DEF AnyLoss, HeardInv, IceType
  <2>2. QED
    BY <1>5, <2>1, HeardGrows DEF AnyLoss
<1>6. ASSUME NEW p \in Players, NEW q \in Peers(p), AnyDirect(p, q) PROVE HeardInv'
  <2>1. q \in Players
    BY DEF Peers
  <2>2. heard' \in [Players -> SUBSET Players]
        /\ \A r \in Players : heard[r] \subseteq heard'[r]
    BY <1>6, <2>1 DEF AnyDirect, HeardInv, IceType
  <2>3. IceType'
    BY <1>6, <2>1, <2>2, LearnedType DEF AnyDirect, HeardInv, IceType
  <2>4. QED
    BY <1>6, <2>2, <2>3, HeardGrows DEF AnyDirect
<1>7. ASSUME NEW p \in Players, NEW q \in Peers(p), GameRelayed(p, q) PROVE HeardInv'
  <2>1. q \in Players
    BY DEF Peers
  <2>2. addr' \in [Players -> [Players -> {"peer", "relay"}]]
    BY <1>7, <2>1, LearnedType DEF GameRelayed, HeardInv, IceType
  <2>3. IceType'
    BY <1>7, <2>2 DEF GameRelayed, HeardInv, IceType
  <2>4. QED
    BY <1>7, <2>3, HeardGrows DEF GameRelayed
<1>8. CASE UNCHANGED vars
  BY <1>8 DEF vars, HeardInv, IceType, SaysWhatItHeard, EstablishedIsHeard
<1>9. QED
  BY <1>1, <1>2, <1>3, <1>4, <1>5, <1>6, <1>7, <1>8 DEF AnyNext

-----------------------------------------------------------------------------
(* The relay is used for whom it was chosen.                                *)

RelayInv == IceType /\ LobbyIsNew /\ RelayIsNotLearned

LEMMA RelayInit == Init => RelayInv
  BY DEF Init, RelayInv, IceType, LobbyIsNew, RelayIsNotLearned, Peers

\* Learning only turns the relay's address into the peer's.
LEMMA LearnedKeeps ==
    ASSUME IceType, NEW p \in Players, NEW q \in Players, NEW via \in {"peer", "relay"}
    PROVE  \A r, s \in Players :
              Learned(p, q, via)[r][s] = addr[r][s] \/ Learned(p, q, via)[r][s] = "peer"
  BY DEF IceType, Learned, LearnsFrom

\* A step that only learns addresses.
LEMMA RelayLearns ==
    ASSUME RelayInv, IceType', UNCHANGED <<phase, path>>,
           \A r, s \in Players : addr'[r][s] = addr[r][s] \/ addr'[r][s] = "peer"
    PROVE  RelayInv'
<1>1. LobbyIsNew'
  BY DEF RelayInv, LobbyIsNew
<1>2. RelayIsNotLearned'
  BY DEF RelayInv, RelayIsNotLearned, Peers
<1>3. QED
  BY <1>1, <1>2 DEF RelayInv

LEMMA RelayStep == HeardInv /\ HeardInv' /\ RelayInv /\ (AnyNext \/ UNCHANGED vars) => RelayInv'
<1> SUFFICES ASSUME HeardInv, HeardInv', RelayInv, AnyNext \/ UNCHANGED vars PROVE RelayInv'
  OBVIOUS
<1>1. IceType /\ IceType'
  BY DEF HeardInv
<1>2. ASSUME NEW p \in Players, Enter(p) PROVE RelayInv'
  <2>1. /\ phase[p] = "lobby"
        /\ phase' = [phase EXCEPT ![p] = "punch"]
        /\ path' = [path EXCEPT ![p] = [q \in Players |->
                     IF {p, q} \in Local THEN "direct" ELSE "none"]]
        /\ UNCHANGED addr
    BY <1>2 DEF Enter
  <2>2. \A r \in Players : r # p => path'[r] = path[r] /\ phase'[r] = phase[r]
    BY <1>1, <2>1 DEF IceType
  <2>3. phase'[p] = "punch" /\ \A q \in Players : addr[p][q] = "peer"
    BY <1>1, <2>1 DEF IceType, RelayInv, LobbyIsNew
  <2>4. LobbyIsNew'
    BY <2>1, <2>2, <2>3 DEF RelayInv, LobbyIsNew
  <2>5. RelayIsNotLearned'
    BY <2>1, <2>2, <2>3 DEF RelayInv, RelayIsNotLearned, Peers
  <2>6. QED
    BY <1>1, <2>4, <2>5 DEF RelayInv
<1>3. ASSUME NEW p \in Players, NEW S \in SUBSET Inbox(p), AnyRound(p, S)
      PROVE  RelayInv'
  <2>1. /\ phase[p] = "punch"
        /\ path' = [path EXCEPT ![p] = [q \in Players |->
                     IF @[q] = "none" /\ \E m \in S : m.from = q /\ m.is_ping = 1
                     THEN "direct" ELSE @[q]]]
        /\ UNCHANGED <<phase, addr>>
    BY <1>3 DEF AnyRound
  <2>2. \A r, q \in Players : path'[r][q] = path[r][q] \/ path[r][q] = "none"
    BY <1>1, <2>1 DEF IceType
  <2>3. \A r \in Players : r # p => path'[r] = path[r]
    BY <1>1, <2>1 DEF IceType
  <2>4. LobbyIsNew'
    BY <2>1, <2>3 DEF RelayInv, LobbyIsNew
  <2>5. RelayIsNotLearned'
    BY <2>1, <2>2 DEF RelayInv, RelayIsNotLearned, Peers
  <2>6. QED
    BY <1>1, <2>4, <2>5 DEF RelayInv
<1>4. ASSUME NEW p \in Players, AnyFallBack(p) PROVE RelayInv'
  <2> DEFINE failed == {q \in Peers(p) : path[p][q] = "none"}
  <2>1. /\ phase' = [phase EXCEPT ![p] = "game"]
        /\ addr' = [addr EXCEPT ![p] = [q \in Players |->
                     IF q \in failed THEN "relay" ELSE @[q]]]
        /\ path' = [path EXCEPT ![p] = [q \in Players |->
                     IF q \in failed THEN "relay" ELSE @[q]]]
    BY <1>4 DEF AnyFallBack
  <2>2. \A r \in Players : r # p =>
           path'[r] = path[r] /\ phase'[r] = phase[r] /\ addr'[r] = addr[r]
    BY <1>1, <2>1 DEF IceType
  <2>3. /\ phase'[p] = "game"
        /\ \A q \in Players :
              IF q \in failed THEN addr'[p][q] = "relay" /\ path'[p][q] = "relay"
              ELSE addr'[p][q] = addr[p][q] /\ path'[p][q] = path[p][q]
    BY <1>1, <2>1 DEF IceType
  <2>4. LobbyIsNew'
    BY <2>2, <2>3 DEF RelayInv, LobbyIsNew
  <2>5. RelayIsNotLearned'
    BY <2>2, <2>3 DEF RelayInv, RelayIsNotLearned, Peers
  <2>6. QED
    BY <1>1, <2>4, <2>5 DEF RelayInv
<1>5. ASSUME NEW m \in net, LatePing(m) PROVE RelayInv'
  <2>1. m.to \in Players /\ m.from \in Players
    BY <1>1 DEF IceType
  <2>2. QED
    BY <1>1, <1>5, <2>1, LearnedKeeps, RelayLearns DEF LatePing
<1>6. CASE AnyLoss
  BY <1>1, <1>6, RelayLearns DEF AnyLoss
<1>7. ASSUME NEW p \in Players, NEW q \in Peers(p), AnyDirect(p, q) PROVE RelayInv'
  BY <1>1, <1>7, LearnedKeeps, RelayLearns DEF AnyDirect, Peers
<1>8. ASSUME NEW p \in Players, NEW q \in Peers(p), GameRelayed(p, q) PROVE RelayInv'
  <2>1. \A r, s \in Players : addr'[r][s] = addr[r][s] \/ addr'[r][s] = "peer"
    BY <1>1, <1>8, LearnedKeeps DEF GameRelayed, Peers
  <2>2. QED
    BY <1>1, <1>8, <2>1, RelayLearns DEF GameRelayed
<1>9. CASE UNCHANGED vars
  BY <1>1, <1>9, RelayLearns DEF vars
<1>10. QED
  BY <1>2, <1>3, <1>4, <1>5, <1>6, <1>7, <1>8, <1>9 DEF AnyNext

-----------------------------------------------------------------------------
(* The game begins with everybody established.                              *)

GameIsEstablished ==
    \A p \in Players : \A q \in Peers(p) : phase[p] = "game" => path[p][q] # "none"

LEMMA GameStep ==
    HeardInv /\ GameIsEstablished /\ (AnyNext \/ UNCHANGED vars) => GameIsEstablished'
<1> SUFFICES ASSUME HeardInv, GameIsEstablished, AnyNext \/ UNCHANGED vars,
                    NEW p \in Players, NEW q \in Peers(p), phase'[p] = "game"
             PROVE  path'[p][q] # "none"
  BY DEF GameIsEstablished, Peers
<1>1. IceType /\ q \in Players
  BY DEF HeardInv, Peers
<1>2. CASE UNCHANGED <<phase, path>>
  BY <1>2 DEF GameIsEstablished
<1>3. ASSUME NEW r \in Players, Enter(r) PROVE path'[p][q] # "none"
  <2>1. r # p /\ phase[p] = "game" /\ path'[p] = path[p]
    BY <1>1, <1>3 DEF Enter, IceType
  <2>2. QED
    BY <2>1 DEF GameIsEstablished
<1>4. ASSUME NEW r \in Players, AnyFallBack(r) PROVE path'[p][q] # "none"
  <2>1. CASE r = p
    BY <1>1, <1>4, <2>1 DEF AnyFallBack, IceType
  <2>2. CASE r # p
    <3>1. phase[p] = "game" /\ path'[p] = path[p]
      BY <1>1, <1>4, <2>2 DEF AnyFallBack, IceType
    <3>2. QED
      BY <3>1 DEF GameIsEstablished
  <2>3. QED
    BY <2>1, <2>2
<1>5. ASSUME NEW r \in Players, NEW S \in SUBSET Inbox(r), AnyRound(r, S)
      PROVE  path'[p][q] # "none"
  <2>1. phase[p] = "game" /\ (path'[p][q] = path[p][q] \/ path'[p][q] = "direct")
    BY <1>1, <1>5 DEF AnyRound, IceType
  <2>2. QED
    BY <2>1 DEF GameIsEstablished
<1>6. QED
  BY <1>2, <1>3, <1>4, <1>5 DEF AnyNext, LatePing, AnyLoss, AnyDirect, GameRelayed, vars

-----------------------------------------------------------------------------
(* The theorems.                                                            *)

IceInv == HeardInv /\ RelayInv /\ GameIsEstablished

LEMMA IceInit == MCInit => IceInv
<1> SUFFICES ASSUME Init PROVE IceInv
  BY DEF MCInit
<1>1. GameIsEstablished
  BY DEF Init, GameIsEstablished
<1>2. QED
  BY <1>1, HeardInit, RelayInit DEF IceInv

LEMMA IceStep == IceInv /\ [MCNext]_allVars => IceInv'
  BY SessionStep, HeardStep, RelayStep, GameStep DEF IceInv

\* Types, and the game is entered with every peer established.
LEMMA IceIsTyped == IceInv => TypeOK
  BY DEF IceInv, HeardInv, IceType, GameIsEstablished, TypeOK

\* A peer established by the handshake has heard this player: neither side takes a
\* path that only works one way, whoever can reach whom and however pings are lost,
\* delayed and reordered (net_utils.lua:276, 289-291).
THEOREM EstablishedPathsWork == MCSpec => []EstablishedIsHeard
<1>1. IceInv => EstablishedIsHeard
  BY DEF IceInv, HeardInv
<1>2. QED
  BY IceInit, IceStep, <1>1, PTL DEF MCSpec

\* The relay's address is used only for a peer that was given up: whatever the
\* relay passes on, to whom and when, no direct path is replaced by it
\* (vx_net.c:237 against relay.py:29-31).
THEOREM RelayIsChosen == MCSpec => []RelayIsNotLearned
<1>1. IceInv => RelayIsNotLearned
  BY DEF IceInv, RelayInv
<1>2. QED
  BY IceInit, IceStep, <1>1, PTL DEF MCSpec
=============================================================================
