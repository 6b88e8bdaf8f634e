----------------------------- MODULE Matchmaker -----------------------------
(***************************************************************************)
(* Lobbies: the matchmaker's HTTP handlers (server/api.py), none of which  *)
(* awaits anything and each of which is one step, and the clients that     *)
(* host or join a lobby and poll it until it is locked (net_utils.lua).    *)
(* An answer may get lost, which ends the client but not what the server   *)
(* did; the server may restart, and keeps nothing.                         *)
(*                                                                         *)
(* A client is its endpoint: the host stands for both IP addresses, the    *)
(* port for both ports.  An id is four hex digits and may be drawn again,  *)
(* while its lobby lives or after a restart: the new lobby takes the place *)
(* of the old.  Session tokens, 63 random bits, are numbered.              *)
(***************************************************************************)
EXTENDS Naturals, Sequences

CONSTANTS
    Hosts, Ports,
    LobbyIds,       \* what four characters of a UUID can be; any may be drawn again
    TargetSizes,    \* the lobby sizes asked for
    MaxRestarts     \* bound on restarts of the server

\* What is assumed of the constants.
MatchmakerAssumption == MaxRestarts \in Nat

Clients == Hosts \X Ports

VARIABLES
    lobbies,        \* the server's dictionary
    client,         \* phase, lobby, what it started with; history: the token it entered
    hosted,         \* lobbies hosted so far, from which tokens are numbered
    restarts

vars == <<lobbies, client, hosted, restarts>>

NoLobby == "none"

Init ==
    /\ lobbies = <<>>
    /\ client = [c \in Clients |-> [phase |-> "idle", lobby |-> NoLobby, entered |-> 0,
                                    id |-> 0, token |-> 0, players |-> <<>>]]
    /\ hosted = 0 /\ restarts = 0

\* models.py: a target size is from 2 to 8.
Sizes == TargetSizes \cap 2 .. 8

\* A client waits in its lobby, or gives up without an answer.
Answered(c, l, ok) ==
    client' = [client EXCEPT ![c].phase = IF ok THEN "polling" ELSE "exited",
                             ![c].lobby = l, ![c].entered = lobbies'[l].token]

-----------------------------------------------------------------------------
\* POST /host: a new lobby under a random id, whatever was there before.
Host(c, l, size, ok) ==
    /\ client[c].phase = "idle"
    /\ hosted' = hosted + 1
    /\ lobbies' = [k \in DOMAIN lobbies \cup {l} |->
                      IF k # l THEN lobbies[k]
                      ELSE [token |-> hosted', status |-> "holding",
                            target_size |-> size, players |-> <<c>>]]
    /\ Answered(c, l, ok)
    /\ UNCHANGED restarts

MayBeFullPlus(lobby) == Len(lobby.players) > lobby.target_size      \* mutant
IsFull(lobby) == Len(lobby.players) >= lobby.target_size

LocksLate(n, target) == n > target          \* mutant
Locks(n, target) == n = target

WithPlayer(lobby, c) ==
    LET players == Append(lobby.players, c)
    IN  [lobby EXCEPT
            !.players = players,
            !.status = IF Locks(Len(players), lobby.target_size) THEN "locked" ELSE @]

\* POST /join: the player is added, and the last one locks the lobby.
Join(c, l, ok) ==
    /\ client[c].phase = "idle"
    /\ l \in DOMAIN lobbies /\ ~IsFull(lobbies[l])
    /\ lobbies' = [lobbies EXCEPT ![l] = WithPlayer(@, c)]
    /\ Answered(c, l, ok)
    /\ UNCHANGED <<hosted, restarts>>

\* The lobby is not found or full: the client ends.
JoinRefused(c, l) ==
    /\ client[c].phase = "idle"
    /\ l \in DOMAIN lobbies => IsFull(lobbies[l])
    /\ client' = [client EXCEPT ![c].phase = "exited"]
    /\ UNCHANGED <<lobbies, hosted, restarts>>

SameHost(c, d) == c[1] = d[1]               \* mutant: the ports are not compared
SameEndpoint(c, d) == c = d

\* local_id: the first player with the client's endpoint, or else 0.
LocalId(c, players) ==
    LET own == {i \in DOMAIN players : SameEndpoint(players[i], c)}
    IN  IF own = {} THEN 0 ELSE (CHOOSE i \in own : \A j \in own : i <= j) - 1

\* GET /status, again and again until the lobby is locked or gone.
Poll(c) ==
    LET l == client[c].lobby
    IN
    /\ client[c].phase = "polling"
    /\ \/ /\ l \in DOMAIN lobbies /\ lobbies[l].status = "locked"
          /\ client' = [client EXCEPT
                ![c].phase = "started", ![c].id = LocalId(c, lobbies[l].players),
                ![c].token = lobbies[l].token, ![c].players = lobbies[l].players]
       \/ /\ l \notin DOMAIN lobbies
          /\ client' = [client EXCEPT ![c].phase = "exited"]
    /\ UNCHANGED <<lobbies, hosted, restarts>>

Restart ==
    /\ restarts < MaxRestarts
    /\ restarts' = restarts + 1
    /\ lobbies' = <<>>
    /\ UNCHANGED <<client, hosted>>

Next ==
    \/ \E c \in Clients, l \in LobbyIds :
          \/ \E ok \in BOOLEAN : Join(c, l, ok) \/ \E size \in Sizes : Host(c, l, size, ok)
          \/ JoinRefused(c, l)
    \/ \E c \in Clients : Poll(c)
    \/ Restart

Spec == Init /\ [][Next]_vars

\* A client that polls goes on polling, every half second.
FairSpec == Spec /\ \A c \in Clients : WF_vars(Poll(c))
-----------------------------------------------------------------------------
\* Types; and a lobby is locked exactly when it is full, and never more than that,
\* however the joins of its players come (api.py:32-40).
TypeOK ==
    /\ DOMAIN lobbies \subseteq LobbyIds
    /\ \A l \in DOMAIN lobbies :
          LET lobby == lobbies[l]
          IN  /\ lobby.players \in Seq(Clients) /\ lobby.target_size \in Sizes
              /\ Len(lobby.players) <= lobby.target_size
              /\ lobby.status = "locked" <=> Len(lobby.players) = lobby.target_size
    /\ \A c \in Clients :
          client[c].phase \in {"idle", "polling", "started", "exited"}

Started == {c \in Clients : client[c].phase = "started"}

\* The client started the lobby it entered, and not another under the same id.
StartedItsOwn(c) == client[c].token = client[c].entered

\* Clients that start with the same session token have the same players, and those
\* that entered this lobby each an id of its own, whatever lobbies come and go under
\* its id (net_utils.lua:227-236).
SessionIsAgreed ==
    \A c, d \in Started : client[c].token = client[d].token =>
        /\ client[c].players = client[d].players
        /\ c # d /\ StartedItsOwn(c) /\ StartedItsOwn(d) => client[c].id # client[d].id

\* Refuted: every client of a session has an id of its own.  One that still polls when
\* its id is drawn again starts the new lobby, is not in it, and takes id 0, the host's.
NoIdTwice ==
    \A c, d \in Started :
        client[c].token = client[d].token /\ c # d => client[c].id # client[d].id

Waits(c) == client[c].phase = "polling"
Holds(c, l) == l \in DOMAIN lobbies /\ lobbies[l].token = client[c].entered
Redrawn(c, l) == l \in DOMAIN lobbies /\ lobbies[l].token # client[c].entered

WaitsInFull(c) ==
    LET l == client[c].lobby IN Waits(c) /\ Holds(c, l) /\ IsFull(lobbies[l])

\* A client in a full lobby does not wait for ever, even when the server restarts and it
\* finds the lobby gone, unless its id is drawn again meanwhile (net_utils.lua:186-223).
FullLobbyStarts ==
    \A c \in Clients : WaitsInFull(c) ~> ~Waits(c) \/ Redrawn(c, client[c].lobby)

\* Refuted: a client in a full lobby never waits for ever.
FullLobbyAlwaysStarts == \A c \in Clients : WaitsInFull(c) ~> ~Waits(c)
=============================================================================
