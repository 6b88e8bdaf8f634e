------------------------------ MODULE IcePunch ------------------------------
(***************************************************************************)
(* How the players of a locked lobby find a path to each other             *)
(* (BootstrapNetworkTopology in net_utils.lua, from line 227 on): each     *)
(* punches at the public address of every other until its start time, then *)
(* falls back to the relay (relay.py) for those it did not establish; in   *)
(* the game the UDP pipe (vx_net.c) goes on learning addresses from what   *)
(* arrives directly.                                                       *)
(*                                                                         *)
(* A pair in Direct can reach each other without the relay; a packet       *)
(* between the others, sent directly, never arrives.  Pings in flight are  *)
(* a set: the network may delay and reorder them, and lose them if Lossy.  *)
(* A frame's packet is sent and received in one step, as each is like the  *)
(* next; a ping may outlive the handshake.                                 *)
(***************************************************************************)
EXTENDS Naturals

CONSTANTS
    Players,
    Direct,     \* pairs that can reach each other directly
    Local,      \* pairs with the same public address, which connect locally
    Lossy

ASSUME IceAssumption ==
    /\ Local \subseteq Direct
    /\ \A pair \in Direct : \E p, q \in Players : p # q /\ pair = {p, q}
    /\ Lossy \in BOOLEAN

VARIABLES
    phase,      \* where a player is: in the lobby, the handshake, the game
    addr,       \* g_net.peers: the peer's own address, or the relay's
    heard,      \* p2p_heard
    path,       \* p2p_established, and how
    net,        \* pings in flight
    room        \* players whose address the relay knows

vars == <<phase, addr, heard, path, net, room>>

Peers(p) == Players \ {p}

\* All have joined, and poll the status of the lobby with a bound socket.
Init ==
    /\ phase = [p \in Players |-> "lobby"]
    /\ addr = [p \in Players |-> [q \in Players |-> "peer"]]
    /\ heard = [p \in Players |-> {}]
    /\ path = [p \in Players |-> [q \in Players |-> "none"]]
    /\ net = {} /\ room = {}

-----------------------------------------------------------------------------
LearnsAlways(via) == TRUE                   \* mutant: the relay's address too
LearnsNever(via) == FALSE                   \* mutant
LearnsFrom(via) == via = "peer"

\* vx_net_recv_all: the sender's address is taken from the packet, unless it is
\* the relay's.
Learned(p, q, via) == [addr EXCEPT ![p][q] = IF LearnsFrom(via) THEN via ELSE @]

\* The status says locked: peers behind the same address are established at once.
Enter(p) ==
    /\ phase[p] = "lobby"
    /\ phase' = [phase EXCEPT ![p] = "punch"]
    /\ path' = [path EXCEPT ![p] = [q \in Players |->
                   IF {p, q} \in Local THEN "direct" ELSE "none"]]
    /\ UNCHANGED <<addr, heard, net, room>>

AlwaysOne(p, q) == 1                        \* mutant: not only once heard
IsPing(p, q) == IF q \in heard[p] THEN 1 ELSE 0

\* Pings to the peers not established; one to a peer out of reach is lost.
Pings(p) ==
    {[from |-> p, to |-> q, is_ping |-> IsPing(p, q)] :
        q \in {q \in Peers(p) : path[p][q] = "none" /\ {p, q} \in Direct}}

Inbox(p) == {m \in net : m.to = p}

\* A round of the handshake: ping, then take all that has come, S of the inbox.
PunchRound(p, S) ==
    /\ phase[p] = "punch" /\ S \subseteq Inbox(p)
    /\ heard' = [heard EXCEPT ![p] = @ \cup {m.from : m \in S}]
    /\ path' = [path EXCEPT ![p] = [q \in Players |->
                   IF @[q] = "none" /\ \E m \in S : m.from = q /\ m.is_ping = 1
                   THEN "direct" ELSE @[q]]]
    /\ net' = (net \ S) \cup Pings(p)
    /\ UNCHANGED <<phase, addr, room>>

FallbackForgotten == "none"                 \* mutant: not marked established
FallbackPath == "relay"

\* The time is over: the relay for the others, and a packet to register there.
FallBack(p) ==
    LET failed == {q \in Peers(p) : path[p][q] = "none"}
    IN
    /\ phase[p] = "punch"
    /\ phase' = [phase EXCEPT ![p] = "game"]
    /\ addr' = [addr EXCEPT ![p] = [q \in Players |->
                   IF q \in failed THEN "relay" ELSE @[q]]]
    /\ path' = [path EXCEPT ![p] = [q \in Players |->
                   IF q \in failed THEN FallbackPath ELSE @[q]]]
    /\ \/ failed # {} /\ room' = room \cup {p}
       \/ (failed = {} \/ Lossy) /\ UNCHANGED room
    /\ UNCHANGED <<heard, net>>

-----------------------------------------------------------------------------
\* A ping that comes after the handshake: the pump drops it, the pipe learns.
LatePing(m) ==
    /\ m \in net /\ phase[m.to] = "game"
    /\ addr' = Learned(m.to, m.from, "peer")
    /\ net' = net \ {m}
    /\ UNCHANGED <<phase, heard, path, room>>

\* A frame's packet sent directly; for a peer in its handshake it is a ping of 0.
GameDirect(p, q) ==
    /\ phase[p] = "game" /\ phase[q] # "lobby"
    /\ addr[p][q] = "peer" /\ {p, q} \in Direct
    /\ addr' = Learned(q, p, "peer")
    /\ heard' = IF phase[q] = "punch" THEN [heard EXCEPT ![q] = @ \cup {p}] ELSE heard
    /\ UNCHANGED <<phase, path, net, room>>

\* A frame's packet sent to the relay, which registers its sender and passes it
\* on to all it knows, q among them.
GameRelayed(p, q) ==
    /\ phase[p] = "game" /\ \E r \in Peers(p) : addr[p][r] = "relay"
    /\ room' = room \cup {p}
    /\ addr' = IF q \in room THEN Learned(q, p, "relay") ELSE addr
    /\ UNCHANGED <<phase, heard, path, net>>

Lose(m) ==
    /\ Lossy /\ m \in net
    /\ net' = net \ {m}
    /\ UNCHANGED <<phase, addr, heard, path, room>>

Handshake == \E p \in Players : Enter(p) \/ \E S \in SUBSET Inbox(p) : PunchRound(p, S)

Next == \/ Handshake
        \/ \E p \in Players : FallBack(p)
        \/ \E m \in net : LatePing(m) \/ Lose(m)
        \/ \E p \in Players : \E q \in Peers(p) : GameDirect(p, q) \/ GameRelayed(p, q)

Spec == Init /\ [][Next]_vars

\* The players run, the time ends, and of the packets sent again and again from
\* one player to another some arrive.
Fairness ==
    /\ \A p \in Players : WF_vars(Enter(p)) /\ WF_vars(FallBack(p))
    /\ \A p \in Players : \A q \in Peers(p) :
          WF_vars(GameDirect(p, q)) /\ WF_vars(GameRelayed(p, q))
FairSpec == Spec /\ Fairness

\* The handshake without an end, in which every packet is received in time.
EndlessSpec ==
    /\ Init /\ [][Handshake]_vars
    /\ \A p \in Players : WF_vars(Enter(p)) /\ WF_vars(PunchRound(p, Inbox(p)))
-----------------------------------------------------------------------------
\* Types; and in the game every peer is established, so that the pump's own
\* fallback, to a peer id the pipe refuses, is never taken (net_pump.lua:32-38,
\* vx_net.c:192).
TypeOK ==
    /\ phase \in [Players -> {"lobby", "punch", "game"}]
    /\ addr \in [Players -> [Players -> {"peer", "relay"}]]
    /\ heard \in [Players -> SUBSET Players]
    /\ path \in [Players -> [Players -> {"none", "direct", "relay"}]]
    /\ net \subseteq [from : Players, to : Players, is_ping : {0, 1}]
    /\ room \subseteq Players
    /\ \A p \in Players : \A q \in Peers(p) :
          phase[p] = "game" => path[p][q] # "none"

\* A peer established by the handshake has heard this player: the path is known
\* to work both ways (net_utils.lua:276, 289-291).
EstablishedIsHeard ==
    \A p \in Players : \A q \in Peers(p) :
        path[p][q] = "direct" /\ {p, q} \notin Local => p \in heard[q]

\* The relay's address is never taken for a peer's: a player uses the relay only
\* for whom it fell back, though the relay passes everything on to everybody
\* (vx_net.c:237 against relay.py:29-31).
RelayIsNotLearned ==
    \A p \in Players : \A q \in Peers(p) :
        addr[p][q] = "relay" => path[p][q] = "relay"

Reaches(p, q) == \/ addr[p][q] = "peer" /\ {p, q} \in Direct
                 \/ addr[p][q] = "relay" /\ {p, q} \subseteq room

\* In the end everybody reaches everybody, even if one side of a pair believes in
\* a direct path and the other in the relay, which does not know the first
\* (net_utils.lua:303-324, vx_net.c:237-241).
EverybodyReached == <>[](\A p \in Players : \A q \in Peers(p) : Reaches(p, q))

\* Two players that hear each other both get to "ICE Handshake successful with
\* peer %d!" (net_utils.lua:290), given the time.
HandshakeCompletes ==
    \A p \in Players : \A q \in Peers(p) :
        {p, q} \in Direct => <>(path[p][q] = "direct")
=============================================================================
