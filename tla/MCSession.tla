------------------------------ MODULE MCSession ------------------------------
(***************************************************************************)
(* How a session comes about, in one run: the lobbies of Matchmaker, and   *)
(* IcePunch on two networks, one safe and with a direct path for every     *)
(* pair, the other with lost pings and a pair that needs the relay.        *)
(* IcePunch begins where Matchmaker ends, with a locked lobby, and they    *)
(* share nothing else: a behaviour is of one of them, chosen at the start, *)
(* and the other keeps still.                                              *)
(***************************************************************************)
EXTENDS IcePunch, Sequences, FiniteSets

CONSTANTS
    PartlyDirect,                           \* the pairs of the second network
    Hosts, Ports, LobbyIds, TargetSizes, MaxRestarts     \* those of Matchmaker

VARIABLES part, lobbies, client, hosted, restarts

lobbyVars == <<lobbies, client, hosted, restarts>>
allVars == <<part, vars, lobbyVars>>

Rough == INSTANCE IcePunch WITH Direct <- PartlyDirect, Lossy <- TRUE
Room == INSTANCE Matchmaker

ASSUME SessionAssumption == Room!MatchmakerAssumption /\ Local \subseteq PartlyDirect

MCInit == part \in {"smooth", "rough", "lobby"} /\ Init /\ Room!Init

Smooth == part = "smooth" /\ Next       /\ UNCHANGED <<part, lobbyVars>>
Uneven == part = "rough"  /\ Rough!Next /\ UNCHANGED <<part, lobbyVars>>
Lobby  == part = "lobby"  /\ Room!Next  /\ UNCHANGED <<part, vars>>

MCNext == Smooth \/ Uneven \/ Lobby

\* The fairness of the component that moves.
MCFairness ==
    /\ \A p \in Players :
          /\ WF_vars(part = "rough" /\ Rough!Enter(p))
          /\ WF_vars(part = "rough" /\ Rough!FallBack(p))
          /\ \A q \in Peers(p) : /\ WF_vars(part = "rough" /\ Rough!GameDirect(p, q))
                                 /\ WF_vars(part = "rough" /\ Rough!GameRelayed(p, q))
    /\ \A c \in Room!Clients : WF_lobbyVars(part = "lobby" /\ Room!Poll(c))

MCSpec == MCInit /\ [][MCNext]_allVars /\ MCFairness

\* TypeOK of both components.
SessionTypeOK == TypeOK /\ Room!TypeOK

\* SessionIsAgreed and FullLobbyStarts of Matchmaker.
SessionIsAgreed == Room!SessionIsAgreed
FullLobbyStarts == Room!FullLobbyStarts

\* Refuted, NoIdTwice and FullLobbyAlwaysStarts of Matchmaker: when an id is drawn again,
\* an old client takes id 0 in the new lobby, or waits in it for good (api.py:15-16).
NoIdTwice == Room!NoIdTwice
FullLobbyAlwaysStarts == Room!FullLobbyAlwaysStarts

\* EverybodyReached of IcePunch, on the second network.
RoughEverybodyReached == part = "rough" => Rough!EverybodyReached

\* EstablishedIsHeard and RelayIsNotLearned of IcePunch are checked as they stand.
=============================================================================
