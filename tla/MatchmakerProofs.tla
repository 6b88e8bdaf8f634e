--------------------------- MODULE MatchmakerProofs ---------------------------
(***************************************************************************)
(* Lobbies, for any clients, any ids, however often they are drawn, and    *)
(* any number of restarts: those who start with one session token start    *)
(* the same session.  The theorems are of MCSession, and bring in what     *)
(* IcePunchProofs shows of the handshake.                                  *)
(***************************************************************************)
EXTENDS IcePunchProofs, SequenceTheorems

LobbyType == [token : Nat, status : {"holding", "locked"}, target_size : Nat,
              players : Seq(Room!Clients)]

ClientType == [phase : {"idle", "polling", "started", "exited"},
               lobby : LobbyIds \cup {Room!NoLobby}, entered : Nat, id : Int,
               token : Nat, players : Seq(Room!Clients)]

RoomType ==
    /\ hosted \in Nat /\ DOMAIN lobbies \subseteq LobbyIds
    /\ lobbies \in [DOMAIN lobbies -> LobbyType]
    /\ client \in [Room!Clients -> ClientType]

\* A lobby is locked when it is full and never more than full, and its token was
\* given to no other.
LobbiesAreOwn ==
    /\ \A l \in DOMAIN lobbies :
          /\ lobbies[l].token <= hosted
          /\ lobbies[l].target_size \in Room!Sizes
          /\ Len(lobbies[l].players) <= lobbies[l].target_size
          /\ lobbies[l].status = "locked" <=>
                Len(lobbies[l].players) = lobbies[l].target_size
    /\ \A l, k \in DOMAIN lobbies : lobbies[l].token = lobbies[k].token => l = k

\* A client is a player of one lobby, once, and not before it asked for that.
PlayersAreOnce ==
    \A l \in DOMAIN lobbies :
        LET players == lobbies[l].players
        IN  /\ \A i \in 1 .. Len(players) : client[players[i]].phase # "idle"
            /\ \A i, j \in 1 .. Len(players) : players[i] = players[j] => i = j

\* A client that polls is a player of the lobby it entered, as long as that is there;
\* the lobby now under its id may be another.
PollersArePlayers ==
    \A c \in Room!Clients :
        /\ client[c].entered <= hosted
        /\ client[c].phase = "polling" => \A l \in DOMAIN lobbies :
              lobbies[l].token = client[c].entered =>
                  \E i \in 1 .. Len(lobbies[l].players) : lobbies[l].players[i] = c

\* What a client started with: a token given once, the players the lobby was locked
\* with, and, in the lobby it entered, the place of the client among them.
StartedIsFinal ==
    \A c \in Room!Clients : client[c].phase = "started" =>
        /\ client[c].token <= hosted
        /\ \A l \in DOMAIN lobbies : client[c].token = lobbies[l].token =>
              lobbies[l].status = "locked" /\ client[c].players = lobbies[l].players
        /\ client[c].token = client[c].entered =>
              client[c].players[client[c].id + 1] = c

SamePlayers ==
    \A c, d \in Room!Clients :
        /\ client[c].phase = "started" /\ client[d].phase = "started"
        /\ client[c].token = client[d].token
        => client[c].players = client[d].players

RoomInv == /\ RoomType /\ LobbiesAreOwn /\ PlayersAreOnce /\ PollersArePlayers
           /\ StartedIsFinal /\ SamePlayers

LEMMA RoomInit == Room!Init => RoomInv
<1> SUFFICES ASSUME Room!Init PROVE RoomInv
  OBVIOUS
<1>1. lobbies = << >> /\ DOMAIN lobbies = {} /\ lobbies \in [DOMAIN lobbies -> LobbyType]
  BY DEF Room!Init
<1>2. hosted = 0
  BY DEF Room!Init
<1>3. client \in [Room!Clients -> ClientType]
  BY DEF Room!Init, ClientType
<1>4. \A c \in Room!Clients : client[c].phase = "idle" /\ client[c].entered = 0
  BY DEF Room!Init
<1>5. QED
  BY <1>1, <1>2, <1>3, <1>4
     DEF RoomInv, RoomType, LobbiesAreOwn, PlayersAreOnce, PollersArePlayers,
         StartedIsFinal, SamePlayers

-----------------------------------------------------------------------------
(* The steps.                                                               *)

LEMMA SizesType == Room!Sizes \subseteq Nat /\ \A n \in Room!Sizes : n >= 2
  BY DEF Room!Sizes

LEMMA AnsweredClient ==
    ASSUME client \in [Room!Clients -> ClientType], NEW c \in Room!Clients,
           NEW l \in LobbyIds, NEW ok \in BOOLEAN, Room!Answered(c, l, ok),
           lobbies'[l].token \in Nat
    PROVE  /\ client' \in [Room!Clients -> ClientType]
           /\ client'[c].phase \in {"polling", "exited"}
           /\ client'[c].entered = lobbies'[l].token
           /\ \A d \in Room!Clients : d # c => client'[d] = client[d]
<1> DEFINE next == [client[c] EXCEPT !.phase = IF ok THEN "polling" ELSE "exited",
                                     !.lobby = l, !.entered = lobbies'[l].token]
<1>1. client' = [client EXCEPT ![c] = next]
  BY DEF Room!Answered
<1>2. client[c] \in ClientType
  OBVIOUS
<1>3. /\ next \in ClientType /\ next.phase \in {"polling", "exited"}
      /\ next.entered = lobbies'[l].token
  BY <1>2 DEF ClientType
<1> HIDE DEF next
<1>4. QED
  BY <1>1, <1>3

LEMMA HostKeeps ==
    ASSUME RoomInv, NEW c \in Room!Clients, NEW l \in LobbyIds, NEW size \in Room!Sizes,
           NEW ok \in BOOLEAN, Room!Host(c, l, size, ok)
    PROVE  RoomInv'
<1> DEFINE new == [token |-> hosted', status |-> "holding",
                   target_size |-> size, players |-> <<c>>]
<1>1. /\ client[c].phase = "idle" /\ hosted' = hosted + 1 /\ hosted \in Nat
      /\ lobbies' = [k \in DOMAIN lobbies \cup {l} |-> IF k # l THEN lobbies[k] ELSE new]
      /\ Room!Answered(c, l, ok)
  BY DEF Room!Host, RoomInv, RoomType
<1>3. <<c>> \in Seq(Room!Clients) /\ Len(<<c>>) = 1 /\ <<c>>[1] = c
  OBVIOUS
<1>4. new \in LobbyType /\ new.token = hosted + 1 /\ new.status = "holding"
      /\ new.players = <<c>>
  BY <1>1, <1>3, SizesType DEF LobbyType
<1> HIDE DEF new
<1>5. /\ DOMAIN lobbies' = DOMAIN lobbies \cup {l}
      /\ lobbies'[l] = new
      /\ \A k \in DOMAIN lobbies' :
            k # l => k \in DOMAIN lobbies /\ lobbies'[k] = lobbies[k]
  BY <1>1
<1>6. /\ client' \in [Room!Clients -> ClientType]
      /\ client'[c].phase \in {"polling", "exited"} /\ client'[c].entered = hosted + 1
      /\ \A d \in Room!Clients : d # c => client'[d] = client[d]
  <2>1. lobbies'[l].token = hosted + 1 /\ lobbies'[l].token \in Nat
    BY <1>1, <1>4, <1>5
  <2>2. QED
    BY <1>1, <2>1, AnsweredClient DEF RoomInv, RoomType
<1>7. RoomType'
  <2>1. lobbies' \in [DOMAIN lobbies' -> LobbyType]
    BY <1>1, <1>4, <1>5 DEF RoomInv, RoomType
  <2>2. QED
    BY <1>1, <1>5, <1>6, <2>1 DEF RoomInv, RoomType
<1>8. \A k \in DOMAIN lobbies : lobbies[k].token \in Nat /\ lobbies[k].token <= hosted
  BY DEF RoomInv, RoomType, LobbiesAreOwn, LobbyType
<1>9. LobbiesAreOwn'
  <2>1. /\ new.target_size = size /\ size >= 2 /\ size \in Nat
        /\ Len(new.players) = 1
    BY <1>3, <1>4, SizesType DEF new
  <2>2. ASSUME NEW k \in DOMAIN lobbies'
        PROVE  /\ lobbies'[k].token <= hosted'
               /\ lobbies'[k].target_size \in Room!Sizes
               /\ Len(lobbies'[k].players) <= lobbies'[k].target_size
               /\ lobbies'[k].status = "locked" <=>
                     Len(lobbies'[k].players) = lobbies'[k].target_size
    <3>1. CASE k = l
      <4>1. lobbies'[k] = new /\ new.token <= hosted'
        BY <1>1, <1>4, <1>5, <3>1
      <4>2. /\ new.target_size \in Room!Sizes
            /\ Len(new.players) <= new.target_size
            /\ Len(new.players) # new.target_size /\ new.status = "holding"
        BY <1>4, <2>1
      <4>3. QED
        BY <4>1, <4>2
    <3>2. CASE k # l
      <4>1. k \in DOMAIN lobbies /\ lobbies'[k] = lobbies[k]
        BY <1>5, <3>2
      <4>2. lobbies[k].token <= hosted'
        BY <1>1, <1>8, <4>1
      <4>3. QED
        BY <4>1, <4>2 DEF RoomInv, LobbiesAreOwn
    <3>3. QED
      BY <3>1, <3>2
  <2>3. \A k, m \in DOMAIN lobbies' : lobbies'[k].token = lobbies'[m].token => k = m
    BY <1>1, <1>4, <1>5, <1>8 DEF RoomInv, LobbiesAreOwn
  <2>4. QED
    BY <2>2, <2>3 DEF LobbiesAreOwn
<1>10. PlayersAreOnce'
  <2>1. ASSUME NEW k \in DOMAIN lobbies', NEW i \in 1 .. Len(lobbies'[k].players)
        PROVE  client'[lobbies'[k].players[i]].phase # "idle"
    <3>1. CASE k = l
      BY <1>3, <1>4, <1>5, <1>6, <3>1
    <3>2. CASE k # l
      <4>1. k \in DOMAIN lobbies /\ lobbies'[k] = lobbies[k]
        BY <1>5, <3>2
      <4>2. lobbies[k].players[i] \in Room!Clients
            /\ client[lobbies[k].players[i]].phase # "idle"
        BY <4>1 DEF RoomInv, RoomType, LobbyType, PlayersAreOnce
      <4>3. QED
        BY <1>6, <4>1, <4>2
    <3>3. QED
      BY <3>1, <3>2
  <2>2. ASSUME NEW k \in DOMAIN lobbies', NEW i \in 1 .. Len(lobbies'[k].players),
               NEW j \in 1 .. Len(lobbies'[k].players),
               lobbies'[k].players[i] = lobbies'[k].players[j]
        PROVE  i = j
    <3>1. CASE k = l
      <4>1. Len(lobbies'[k].players) = 1
        BY <1>3, <1>4, <1>5, <3>1
      <4>2. QED
        BY <2>2, <4>1
    <3>2. CASE k # l
      BY <1>5, <2>2, <3>2 DEF RoomInv, PlayersAreOnce
    <3>3. QED
      BY <3>1, <3>2
  <2>3. QED
    BY <2>1, <2>2 DEF PlayersAreOnce
<1>11. \A d \in Room!Clients : d # c =>
          client'[d] = client[d] /\ client[d].entered \in Nat /\ client[d].entered <= hosted
  BY <1>6 DEF RoomInv, RoomType, ClientType, PollersArePlayers
<1>12. PollersArePlayers'
  <2>1. ASSUME NEW d \in Room!Clients PROVE client'[d].entered <= hosted'
    BY <1>1, <1>6, <1>11
  <2>2. ASSUME NEW d \in Room!Clients, client'[d].phase = "polling",
               NEW k \in DOMAIN lobbies', lobbies'[k].token = client'[d].entered
        PROVE  \E i \in 1 .. Len(lobbies'[k].players) : lobbies'[k].players[i] = d
    <3>1. CASE k = l
      <4>1. d = c
        BY <1>1, <1>4, <1>5, <1>11, <2>2, <3>1
      <4>2. lobbies'[k].players = <<c>>
        BY <1>4, <1>5, <3>1
      <4>3. lobbies'[k].players[1] = d /\ 1 \in 1 .. Len(lobbies'[k].players)
        BY <1>3, <4>1, <4>2
      <4>4. QED
        BY <4>3
    <3>2. CASE k # l
      <4>1. k \in DOMAIN lobbies /\ lobbies'[k] = lobbies[k]
        BY <1>5, <3>2
      <4>2. d # c
        BY <1>1, <1>6, <1>8, <2>2, <4>1
      <4>3. QED
        BY <1>11, <2>2, <4>1, <4>2 DEF RoomInv, PollersArePlayers
    <3>3. QED
      BY <3>1, <3>2
  <2>3. QED
    BY <2>1, <2>2 DEF PollersArePlayers
<1>13. \A d \in Room!Clients : client'[d].phase = "started" =>
          /\ client'[d] = client[d] /\ client[d].phase = "started"
          /\ client[d].token \in Nat /\ client[d].token <= hosted
  BY <1>6 DEF RoomInv, RoomType, ClientType, StartedIsFinal
<1>14. StartedIsFinal'
  <2>1. ASSUME NEW d \in Room!Clients, client'[d].phase = "started",
               NEW k \in DOMAIN lobbies', client'[d].token = lobbies'[k].token
        PROVE  /\ lobbies'[k].status = "locked"
               /\ client'[d].players = lobbies'[k].players
    <3>1. k # l
      BY <1>1, <1>4, <1>5, <1>13, <2>1
    <3>2. k \in DOMAIN lobbies /\ lobbies'[k] = lobbies[k]
      BY <1>5, <3>1
    <3>3. QED
      BY <1>13, <2>1, <3>2 DEF RoomInv, StartedIsFinal
  <2>2. \A d \in Room!Clients : client'[d].phase = "started" =>
            /\ client'[d].token <= hosted'
            /\ client'[d].token = client'[d].entered =>
                  client'[d].players[client'[d].id + 1] = d
    BY <1>1, <1>13 DEF RoomInv, StartedIsFinal
  <2>3. QED
    BY <2>1, <2>2 DEF StartedIsFinal
<1>15. SamePlayers'
  BY <1>13 DEF RoomInv, SamePlayers
<1>16. QED
  BY <1>7, <1>9, <1>10, <1>12, <1>14, <1>15 DEF RoomInv

LEMMA JoinKeeps ==
    ASSUME RoomInv, NEW c \in Room!Clients, NEW l \in LobbyIds, NEW ok \in BOOLEAN,
           Room!Join(c, l, ok)
    PROVE  RoomInv'
<1> DEFINE old == lobbies[l]
           new == Room!WithPlayer(old, c)
           n == Len(old.players)
<1>1. /\ client[c].phase = "idle" /\ l \in DOMAIN lobbies /\ ~Room!IsFull(old)
      /\ lobbies' = [lobbies EXCEPT ![l] = new]
      /\ Room!Answered(c, l, ok)
      /\ hosted' = hosted
  BY DEF Room!Join
<1>2. old \in LobbyType /\ n \in Nat /\ old.target_size \in Nat /\ n < old.target_size
  BY <1>1 DEF RoomInv, RoomType, LobbyType, Room!IsFull
<1>3. /\ new.players = Append(old.players, c) /\ new.token = old.token
      /\ new.status = "locked" <=> n + 1 = old.target_size
      /\ new.target_size = old.target_size
      /\ old.status # "locked"
      /\ new \in LobbyType
  <2>1. old.status # "locked"
    BY <1>1, <1>2 DEF RoomInv, LobbiesAreOwn
  <2>2. Append(old.players, c) \in Seq(Room!Clients) /\ Len(Append(old.players, c)) = n + 1
    BY <1>2 DEF LobbyType
  <2>3. QED
    BY <1>2, <2>1, <2>2 DEF LobbyType, Room!WithPlayer, Room!Locks
<1>4. /\ Len(new.players) = n + 1 /\ new.players[n + 1] = c
      /\ \A i \in 1 .. n :
            new.players[i] = old.players[i] /\ old.players[i] \in Room!Clients
  BY <1>2, <1>3, AppendProperties DEF LobbyType
<1> HIDE DEF new, n
<1>5. /\ DOMAIN lobbies' = DOMAIN lobbies /\ lobbies'[l] = new
      /\ \A k \in DOMAIN lobbies : k # l => lobbies'[k] = lobbies[k]
  BY <1>1 DEF RoomInv, RoomType
<1>6. /\ client' \in [Room!Clients -> ClientType]
      /\ client'[c].phase \in {"polling", "exited"} /\ client'[c].entered = old.token
      /\ \A d \in Room!Clients : d # c => client'[d] = client[d]
  <2>1. lobbies'[l].token = old.token /\ old.token \in Nat
    BY <1>2, <1>3, <1>5 DEF LobbyType
  <2>2. QED
    BY <1>1, <2>1, AnsweredClient DEF RoomInv, RoomType
<1>7. RoomType'
  <2>1. lobbies' \in [DOMAIN lobbies' -> LobbyType]
    BY <1>1, <1>3, <1>5 DEF RoomInv, RoomType
  <2>2. QED
    BY <1>1, <1>5, <1>6, <2>1 DEF RoomInv, RoomType
<1>8. LobbiesAreOwn'
  <2>1. \A k \in DOMAIN lobbies : lobbies'[k].token = lobbies[k].token
    BY <1>3, <1>5
  <2>2. ASSUME NEW k \in DOMAIN lobbies
        PROVE  /\ lobbies'[k].token <= hosted
               /\ lobbies'[k].target_size \in Room!Sizes
               /\ Len(lobbies'[k].players) <= lobbies'[k].target_size
               /\ lobbies'[k].status = "locked" <=>
                     Len(lobbies'[k].players) = lobbies'[k].target_size
    <3>1. CASE k = l
      <4>1. /\ lobbies'[k] = new /\ Len(new.players) = n + 1 /\ n + 1 <= new.target_size
            /\ new.status = "locked" <=> n + 1 = new.target_size
        BY <1>2, <1>3, <1>4, <1>5, <3>1
      <4>2. lobbies[l].target_size \in Room!Sizes /\ lobbies[l].token <= hosted
        BY <1>1 DEF RoomInv, LobbiesAreOwn
      <4>3. QED
        BY <1>3, <3>1, <4>1, <4>2
    <3>2. CASE k # l
      BY <1>5, <3>2 DEF RoomInv, LobbiesAreOwn
    <3>3. QED
      BY <3>1, <3>2
  <2>3. \A k, m \in DOMAIN lobbies : lobbies'[k].token = lobbies'[m].token => k = m
    BY <2>1 DEF RoomInv, LobbiesAreOwn
  <2>4. QED
    BY <1>1, <1>5, <2>2, <2>3 DEF LobbiesAreOwn
<1>9. \A k \in DOMAIN lobbies : \A i \in 1 .. Len(lobbies[k].players) :
          /\ lobbies[k].players[i] \in Room!Clients /\ lobbies[k].players[i] # c
          /\ client'[lobbies[k].players[i]].phase # "idle"
  BY <1>1, <1>6 DEF RoomInv, RoomType, LobbyType, PlayersAreOnce
<1>10. PlayersAreOnce'
  <2>1. ASSUME NEW k \in DOMAIN lobbies', NEW i \in 1 .. Len(lobbies'[k].players)
        PROVE  client'[lobbies'[k].players[i]].phase # "idle"
    <3>1. CASE k # l
      BY <1>5, <1>9, <3>1
    <3>2. CASE k = l /\ i \in 1 .. n
      <4>1. lobbies'[k].players[i] = lobbies[l].players[i]
            /\ i \in 1 .. Len(lobbies[l].players)
        BY <1>4, <1>5, <3>2 DEF n
      <4>2. QED
        BY <1>1, <1>9, <4>1
    <3>3. CASE k = l /\ i = n + 1
      BY <1>4, <1>5, <1>6, <3>3
    <3>4. k = l => i \in 1 .. n \/ i = n + 1
      BY <1>2, <1>4, <1>5, <2>1
    <3>5. QED
      BY <3>1, <3>2, <3>3, <3>4
  <2>2. ASSUME NEW k \in DOMAIN lobbies', NEW i \in 1 .. Len(lobbies'[k].players),
               NEW j \in 1 .. Len(lobbies'[k].players),
               lobbies'[k].players[i] = lobbies'[k].players[j]
        PROVE  i = j
    <3>1. CASE k # l
      BY <1>5, <2>2, <3>1 DEF RoomInv, PlayersAreOnce
    <3>2. CASE k = l
      <4>1. \A m \in 1 .. n : old.players[m] # c
        BY <1>1, <1>9 DEF n
      <4>2. \A m, o \in 1 .. n : old.players[m] = old.players[o] => m = o
        BY <1>1 DEF RoomInv, PlayersAreOnce, n
      <4>3. i \in 1 .. n \/ i = n + 1
        BY <1>2, <1>4, <1>5, <2>2, <3>2
      <4>4. j \in 1 .. n \/ j = n + 1
        BY <1>2, <1>4, <1>5, <2>2, <3>2
      <4>5. new.players[i] = new.players[j]
        BY <1>5, <2>2, <3>2
      <4>6. QED
        BY <1>4, <4>1, <4>2, <4>3, <4>4, <4>5
    <3>3. QED
      BY <3>1, <3>2
  <2>3. QED
    BY <2>1, <2>2 DEF PlayersAreOnce
<1>11. PollersArePlayers'
  <2>1. ASSUME NEW d \in Room!Clients PROVE client'[d].entered <= hosted'
    <3>1. old.token <= hosted
      BY <1>1 DEF RoomInv, LobbiesAreOwn
    <3>2. QED
      BY <1>1, <1>6, <3>1 DEF RoomInv, PollersArePlayers
  <2>2. ASSUME NEW d \in Room!Clients, client'[d].phase = "polling",
               NEW k \in DOMAIN lobbies', lobbies'[k].token = client'[d].entered
        PROVE  \E i \in 1 .. Len(lobbies'[k].players) : lobbies'[k].players[i] = d
    <3>1. k \in DOMAIN lobbies /\ lobbies'[k].token = lobbies[k].token
      BY <1>3, <1>5
    <3>2. CASE d = c
      <4>1. k = l
        BY <1>1, <1>6, <2>2, <3>1, <3>2 DEF RoomInv, LobbiesAreOwn
      <4>2. /\ lobbies'[k].players[n + 1] = d
            /\ n + 1 \in 1 .. Len(lobbies'[k].players)
        BY <1>2, <1>4, <1>5, <3>2, <4>1
      <4>3. QED
        BY <4>2
    <3>3. CASE d # c
      <4>1. client'[d] = client[d]
        BY <1>6, <3>3
      <4>2. PICK i \in 1 .. Len(lobbies[k].players) : lobbies[k].players[i] = d
        BY <2>2, <3>1, <4>1 DEF RoomInv, PollersArePlayers
      <4>3. CASE k # l
        BY <1>5, <3>1, <4>2, <4>3
      <4>4. CASE k = l
        <5>1. i \in 1 .. n /\ old.players[i] = d
          BY <4>2, <4>4 DEF n
        <5>2. i \in 1 .. Len(lobbies'[k].players) /\ lobbies'[k].players[i] = d
          BY <1>2, <1>4, <1>5, <4>4, <5>1
        <5>3. QED
          BY <5>2
      <4>5. QED
        BY <4>3, <4>4
    <3>4. QED
      BY <3>2, <3>3
  <2>3. QED
    BY <2>1, <2>2 DEF PollersArePlayers
<1>12. \A d \in Room!Clients : client'[d].phase = "started" =>
          client'[d] = client[d] /\ client[d].phase = "started"
  BY <1>6
<1>13. StartedIsFinal'
  <2>1. \A d \in Room!Clients : client[d].phase = "started" => client[d].token # new.token
    BY <1>1, <1>3 DEF RoomInv, StartedIsFinal
  <2>2. ASSUME NEW d \in Room!Clients, client'[d].phase = "started",
               NEW k \in DOMAIN lobbies', client'[d].token = lobbies'[k].token
        PROVE  k # l
    BY <1>5, <1>12, <2>1, <2>2
  <2>3. ASSUME NEW d \in Room!Clients, client'[d].phase = "started",
               NEW k \in DOMAIN lobbies', client'[d].token = lobbies'[k].token
        PROVE  /\ lobbies'[k].status = "locked"
               /\ client'[d].players = lobbies'[k].players
    <3>1. k \in DOMAIN lobbies /\ lobbies'[k] = lobbies[k]
      BY <1>5, <2>2, <2>3
    <3>2. QED
      BY <1>12, <2>3, <3>1 DEF RoomInv, StartedIsFinal
  <2>4. hosted' = hosted
    BY <1>1
  <2>5. \A d \in Room!Clients : client'[d].phase = "started" =>
            /\ client'[d].token <= hosted
            /\ client'[d].token = client'[d].entered =>
                  client'[d].players[client'[d].id + 1] = d
    BY <1>12 DEF RoomInv, StartedIsFinal
  <2>6. QED
    BY <2>3, <2>4, <2>5 DEF StartedIsFinal
<1>14. SamePlayers'
  BY <1>12 DEF RoomInv, SamePlayers
<1>15. QED
  BY <1>7, <1>8, <1>10, <1>11, <1>13, <1>14 DEF RoomInv

\* A client that ends, wherever it is, disturbs nothing.
LEMMA ExitKeeps ==
    ASSUME RoomInv, NEW c \in Room!Clients, UNCHANGED <<lobbies, hosted>>,
           client' = [client EXCEPT ![c].phase = "exited"]
    PROVE  RoomInv'
<1>1. /\ client' \in [Room!Clients -> ClientType] /\ client'[c].phase = "exited"
      /\ \A d \in Room!Clients : d # c => client'[d] = client[d]
  BY DEF RoomInv, RoomType, ClientType
<1>2. RoomType' /\ LobbiesAreOwn'
  BY <1>1 DEF RoomInv, RoomType, LobbiesAreOwn
<1>3. PlayersAreOnce'
  <2>1. \A l \in DOMAIN lobbies : \A i \in 1 .. Len(lobbies[l].players) :
            lobbies[l].players[i] \in Room!Clients
    BY DEF RoomInv, RoomType, LobbyType
  <2>2. QED
    BY <1>1, <2>1 DEF RoomInv, PlayersAreOnce
<1>4. \A d \in Room!Clients : client'[d].phase \in {"polling", "started"} =>
          client'[d] = client[d]
  BY <1>1
<1>5. PollersArePlayers'
  <2>1. \A d \in Room!Clients : client'[d].entered = client[d].entered
    BY <1>1 DEF RoomInv, RoomType, ClientType
  <2>2. QED
    BY <1>4, <2>1 DEF RoomInv, PollersArePlayers
<1>6. StartedIsFinal' /\ SamePlayers'
  BY <1>4 DEF RoomInv, StartedIsFinal, SamePlayers
<1>7. QED
  BY <1>2, <1>3, <1>5, <1>6 DEF RoomInv

\* The search for its own endpoint finds the client.
LEMMA LocalIdFinds ==
    ASSUME NEW c \in Room!Clients, NEW players \in Seq(Room!Clients),
           \A i, j \in 1 .. Len(players) : players[i] = players[j] => i = j,
           NEW k \in 1 .. Len(players), players[k] = c
    PROVE  Room!LocalId(c, players) = k - 1
<1> DEFINE own == {i \in DOMAIN players : Room!SameEndpoint(players[i], c)}
<1>1. DOMAIN players = 1 .. Len(players)
  OBVIOUS
<1>2. own = {k}
  BY <1>1 DEF Room!SameEndpoint
<1>3. (CHOOSE i \in own : \A j \in own : i <= j) = k
  BY <1>2
<1>4. own # {}
  BY <1>2
<1> HIDE DEF own
<1>5. QED
  BY <1>3, <1>4 DEF Room!LocalId, own

\* One that is not there takes the first place.
LEMMA LocalIdElse ==
    ASSUME NEW c \in Room!Clients, NEW players \in Seq(Room!Clients),
           \A k \in 1 .. Len(players) : players[k] # c
    PROVE  Room!LocalId(c, players) = 0
<1>1. {i \in DOMAIN players : Room!SameEndpoint(players[i], c)} = {}
  BY DEF Room!SameEndpoint
<1>2. QED
  BY <1>1 DEF Room!LocalId

LEMMA StartKeeps ==
    ASSUME RoomInv, NEW c \in Room!Clients, client[c].phase = "polling",
           client[c].lobby \in DOMAIN lobbies,
           lobbies[client[c].lobby].status = "locked",
           client' = [client EXCEPT
               ![c].phase = "started",
               ![c].id = Room!LocalId(c, lobbies[client[c].lobby].players),
               ![c].token = lobbies[client[c].lobby].token,
               ![c].players = lobbies[client[c].lobby].players],
           UNCHANGED <<lobbies, hosted>>
    PROVE  RoomInv'
<1> DEFINE l == client[c].lobby
           players == lobbies[l].players
           place == Room!LocalId(c, players)
<1>1. lobbies[l] \in LobbyType /\ players \in Seq(Room!Clients)
  BY DEF RoomInv, RoomType, LobbyType
<1>2. \A i, j \in 1 .. Len(players) : players[i] = players[j] => i = j
  BY DEF RoomInv, PlayersAreOnce
<1>3. \A k \in 1 .. Len(players) : players[k] = c => place = k - 1
  BY <1>1, <1>2, LocalIdFinds
<1>4. place \in Int
  <2>1. CASE \E k \in 1 .. Len(players) : players[k] = c
    BY <1>3, <2>1
  <2>2. CASE \A k \in 1 .. Len(players) : players[k] # c
    <3>1. place = 0
      BY <1>1, <2>2, LocalIdElse
    <3>2. QED
      BY <3>1
  <2>3. QED
    BY <2>1, <2>2
<1> HIDE DEF place
<1>5. /\ client' \in [Room!Clients -> ClientType]
      /\ client'[c].phase = "started" /\ client'[c].id = place /\ client'[c].entered = client[c].entered
      /\ client'[c].token = lobbies[l].token /\ client'[c].players = players
      /\ \A d \in Room!Clients : d # c => client'[d] = client[d]
  <2>1. lobbies[l].token \in Nat /\ client \in [Room!Clients -> ClientType]
    BY <1>1 DEF RoomInv, RoomType, LobbyType
  <2>2. /\ client'[c] = [phase |-> "started", lobby |-> l,
                          entered |-> client[c].entered, id |-> place,
                          token |-> lobbies[l].token, players |-> players]
        /\ \A d \in Room!Clients : d # c => client'[d] = client[d]
        /\ client' = [d \in Room!Clients |-> client'[d]]
    BY <1>4, <2>1 DEF ClientType, place
  <2>3. client'[c] \in ClientType
    <3>1. l \in LobbyIds \cup {Room!NoLobby} /\ client[c].entered \in Nat
      BY <2>1 DEF ClientType
    <3>2. QED
      BY <1>1, <1>4, <2>1, <2>2, <3>1 DEF ClientType
  <2>4. \A d \in Room!Clients : client'[d] \in ClientType
    BY <2>1, <2>2, <2>3
  <2>5. client' \in [Room!Clients -> ClientType]
    BY <2>2, <2>4
  <2>6. QED
    BY <2>2, <2>5
<1>6. RoomType' /\ LobbiesAreOwn'
  BY <1>5 DEF RoomInv, RoomType, LobbiesAreOwn
<1>7. PlayersAreOnce'
  <2>1. \A m \in DOMAIN lobbies : \A i \in 1 .. Len(lobbies[m].players) :
            lobbies[m].players[i] \in Room!Clients
    BY DEF RoomInv, RoomType, LobbyType
  <2>2. QED
    BY <1>5, <2>1 DEF RoomInv, PlayersAreOnce
<1>8. PollersArePlayers'
  <2>1. \A d \in Room!Clients :
            /\ client'[d].phase = "polling" => client'[d] = client[d]
            /\ client'[d].entered = client[d].entered
    BY <1>5
  <2>2. lobbies' = lobbies /\ hosted' = hosted
    OBVIOUS
  <2>3. \A d \in Room!Clients : client'[d].entered <= hosted'
    BY <2>1, <2>2 DEF RoomInv, PollersArePlayers
  <2>4. ASSUME NEW d \in Room!Clients, client'[d].phase = "polling",
               NEW m \in DOMAIN lobbies', lobbies'[m].token = client'[d].entered
        PROVE  \E i \in 1 .. Len(lobbies'[m].players) : lobbies'[m].players[i] = d
    <3>1. /\ client[d].phase = "polling" /\ m \in DOMAIN lobbies
          /\ lobbies[m].token = client[d].entered
      BY <2>1, <2>2, <2>4
    <3>2. \E i \in 1 .. Len(lobbies[m].players) : lobbies[m].players[i] = d
      BY <3>1 DEF RoomInv, PollersArePlayers
    <3>3. QED
      BY <2>2, <3>2
  <2>5. QED
    BY <2>3, <2>4 DEF PollersArePlayers
<1>9. StartedIsFinal'
  <2> SUFFICES ASSUME NEW d \in Room!Clients, client'[d].phase = "started"
               PROVE  /\ client'[d].token <= hosted'
                      /\ \A m \in DOMAIN lobbies' : client'[d].token = lobbies'[m].token =>
                            /\ lobbies'[m].status = "locked"
                            /\ client'[d].players = lobbies'[m].players
                      /\ client'[d].token = client'[d].entered =>
                            client'[d].players[client'[d].id + 1] = d
    BY DEF StartedIsFinal
  <2>1. CASE d = c
    <3>1. client'[d].token = client'[d].entered => players[place + 1] = c
      <4>1. SUFFICES ASSUME lobbies[l].token = client[c].entered
                     PROVE  players[place + 1] = c
        BY <1>5, <2>1
      <4>2. PICK k \in 1 .. Len(players) : players[k] = c
        BY <4>1 DEF RoomInv, PollersArePlayers
      <4>3. place + 1 = k
        BY <1>3, <4>2
      <4>4. QED
        BY <4>2, <4>3
    <3>2. client'[d].token <= hosted
      BY <1>5, <2>1 DEF RoomInv, LobbiesAreOwn
    <3>3. \A m \in DOMAIN lobbies : client'[d].token = lobbies[m].token => m = l
      BY <1>5, <2>1 DEF RoomInv, LobbiesAreOwn
    <3>4. QED
      BY <1>4, <1>5, <2>1, <3>1, <3>2, <3>3
  <2>2. CASE d # c
    BY <1>4, <1>5, <2>2 DEF RoomInv, StartedIsFinal
  <2>3. QED
    BY <2>1, <2>2
<1>10. SamePlayers'
  <2>1. ASSUME NEW d \in Room!Clients, d # c, client'[d].phase = "started",
               client'[d].token = client'[c].token
        PROVE  client'[d].players = client'[c].players
    BY <1>5, <2>1 DEF RoomInv, StartedIsFinal
  <2>2. QED
    BY <1>5, <2>1 DEF RoomInv, SamePlayers
<1>11. QED
  BY <1>6, <1>7, <1>8, <1>9, <1>10 DEF RoomInv

\* The server forgets all lobbies, but no token is given again.
LEMMA RestartKeeps == ASSUME RoomInv, Room!Restart PROVE RoomInv'
<1>1. /\ DOMAIN lobbies' = {} /\ lobbies' \in [DOMAIN lobbies' -> LobbyType]
      /\ UNCHANGED <<client, hosted>>
  BY DEF Room!Restart
<1>2. QED
  BY <1>1 DEF RoomInv, RoomType, LobbiesAreOwn, PlayersAreOnce, PollersArePlayers,
              StartedIsFinal, SamePlayers

LEMMA RoomStep == RoomInv /\ [Room!Next]_lobbyVars => RoomInv'
<1> SUFFICES ASSUME RoomInv, [Room!Next]_lobbyVars PROVE RoomInv'
  OBVIOUS
<1>1. ASSUME NEW c \in Room!Clients, NEW l \in LobbyIds, NEW ok \in BOOLEAN,
             Room!Join(c, l, ok)
      PROVE  RoomInv'
  BY <1>1, JoinKeeps
<1>2. ASSUME NEW c \in Room!Clients, NEW l \in LobbyIds, NEW ok \in BOOLEAN,
             NEW size \in Room!Sizes, Room!Host(c, l, size, ok)
      PROVE  RoomInv'
  BY <1>2, HostKeeps
<1>3. ASSUME NEW c \in Room!Clients, NEW l \in LobbyIds, Room!JoinRefused(c, l)
      PROVE  RoomInv'
  BY <1>3, ExitKeeps DEF Room!JoinRefused
<1>4. ASSUME NEW c \in Room!Clients, Room!Poll(c) PROVE RoomInv'
  <2>1. CASE client[c].lobby \in DOMAIN lobbies
    BY <1>4, <2>1, StartKeeps DEF Room!Poll
  <2>2. CASE client[c].lobby \notin DOMAIN lobbies
    BY <1>4, <2>2, ExitKeeps DEF Room!Poll
  <2>3. QED
    BY <2>1, <2>2
<1>5. CASE Room!Restart
  BY <1>5, RestartKeeps
<1>6. CASE UNCHANGED lobbyVars
  BY <1>6 DEF lobbyVars, RoomInv, RoomType, LobbiesAreOwn, PlayersAreOnce,
              PollersArePlayers, StartedIsFinal, SamePlayers
<1>7. QED
  BY <1>1, <1>2, <1>3, <1>4, <1>5, <1>6 DEF Room!Next

-----------------------------------------------------------------------------
(* The session: the lobby, and the two networks of IcePunch.                *)

SessionInv == RoomInv /\ IceInv

LEMMA SessionInit == MCInit => SessionInv
  BY RoomInit, IceInit DEF MCInit, SessionInv

LEMMA SessionKept == SessionInv /\ [MCNext]_allVars => SessionInv'
<1> SUFFICES ASSUME SessionInv, [MCNext]_allVars PROVE SessionInv'
  OBVIOUS
<1>1. Room!Next \/ UNCHANGED lobbyVars
  BY DEF MCNext, Smooth, Uneven, Lobby, allVars
<1>2. QED
  BY <1>1, RoomStep, IceStep DEF SessionInv

\* Whoever starts with one session token has the same players and, if it entered that
\* lobby, an id of its own: whatever the order of the joins, with answers lost, the server
\* restarted, and ids drawn again for new lobbies (net_utils.lua:227-236, api.py:15-40).
THEOREM SessionsAgree == MCSpec => []SessionIsAgreed
<1>1. SessionInv => SessionIsAgreed
  <2> SUFFICES ASSUME RoomInv, NEW c \in Room!Clients, NEW d \in Room!Clients,
                      client[c].phase = "started", client[d].phase = "started",
                      client[c].token = client[d].token
               PROVE  /\ client[c].players = client[d].players
                      /\ c # d /\ Room!StartedItsOwn(c) /\ Room!StartedItsOwn(d) =>
                            client[c].id # client[d].id
    BY DEF SessionInv, SessionIsAgreed, Room!SessionIsAgreed, Room!Started
  <2>1. client[c].players = client[d].players
    BY DEF RoomInv, SamePlayers
  <2>2. /\ Room!StartedItsOwn(c) => client[c].players[client[c].id + 1] = c
        /\ Room!StartedItsOwn(d) => client[d].players[client[d].id + 1] = d
    BY DEF RoomInv, StartedIsFinal, Room!StartedItsOwn
  <2>3. QED
    BY <2>1, <2>2
<1>2. QED
  BY SessionInit, SessionKept, <1>1, PTL DEF MCSpec

\* A lobby is locked exactly when it is full and never holds more, however the joins
\* come (api.py:32-40); the game is entered with every peer established
\* (net_pump.lua:32-38); and every part of the two is what it should be.
THEOREM SessionsAreTyped == MCSpec => []SessionTypeOK
<1>1. RoomInv => Room!TypeOK
  <2> SUFFICES ASSUME RoomInv PROVE Room!TypeOK
    OBVIOUS
  <2>1. DOMAIN lobbies \subseteq LobbyIds
    BY DEF RoomInv, RoomType
  <2>2. ASSUME NEW l \in DOMAIN lobbies
        PROVE  lobbies[l].players \in Seq(Room!Clients)
    BY DEF RoomInv, RoomType, LobbyType
  <2>3. \A c \in Room!Clients :
           client[c].phase \in {"idle", "polling", "started", "exited"}
    BY DEF RoomInv, RoomType, ClientType
  <2>4. QED
    BY <2>1, <2>2, <2>3 DEF RoomInv, LobbiesAreOwn, Room!TypeOK
<1>2. SessionInv => SessionTypeOK
  BY <1>1, IceIsTyped DEF SessionInv, SessionTypeOK
<1>3. QED
  BY SessionInit, SessionKept, <1>2, PTL DEF MCSpec
=============================================================================
