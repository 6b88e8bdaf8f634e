------------------------------- MODULE MCParts -------------------------------
(***************************************************************************)
(* Components that stand alone, in one run: StunReader and UdpPipe of the  *)
(* transport, TileLedger of the world plugin, and StoreBuffers under both  *)
(* memory orders.  They share no variable: a behaviour is of one of them,  *)
(* chosen at the start, and the others keep still.                         *)
(***************************************************************************)
EXTENDS StunReader, Sequences

CONSTANTS
    Lobby, Fds, QueueSize, MaxCounts, MaxArrivals,      \* those of UdpPipe
    MaxPlayers, Tiles, Capacity, MaxAppends,            \* those of TileLedger
    MaxRequests, MaxInits                               \* those of StoreBuffers

VARIABLES
    part,
    sock, open, session, active, queue, call, arrivals, wanted, delivered,
    ledger, commands, appended,
    memory, buffer, game, transfer, requests, inits, read, handled

pipeVars == <<sock, open, session, active, queue, call, arrivals, wanted, delivered>>
tileVars == <<ledger, commands, appended>>
storeVars == <<memory, buffer, game, transfer, requests, inits, read, handled>>

\* The test pattern of the world, cut down to two tiles.
Pattern == <<[tile_idx |-> 1, terrain |-> 10], [tile_idx |-> 2, terrain |-> 11]>>

Pipe == INSTANCE UdpPipe
World == INSTANCE TileLedger WITH InitialTiles <- Pattern, game <- ledger
Stores == INSTANCE StoreBuffers WITH Buffered <- TRUE
Ordered == INSTANCE StoreBuffers WITH Buffered <- FALSE

ASSUME PartsAssumption == /\ Pipe!UdpAssumption /\ World!LedgerAssumption
                          /\ Stores!BufferAssumption /\ Ordered!BufferAssumption

MCInit ==
    /\ part \in {"stun", "pipe", "world", "stores", "ordered"}
    /\ Init /\ Pipe!Init /\ World!Init /\ Stores!Init

Reading  == part = "stun" /\ Next /\ UNCHANGED <<part, pipeVars, tileVars, storeVars>>
Piping   == part = "pipe" /\ Pipe!Next /\ UNCHANGED <<part, vars, tileVars, storeVars>>
Toggling == part = "world" /\ World!SimulateTick /\ UNCHANGED <<part, vars, pipeVars, storeVars>>
Storing  == part = "stores" /\ Stores!Next /\ UNCHANGED <<part, vars, pipeVars, tileVars>>
InOrder  == part = "ordered" /\ Ordered!Next /\ UNCHANGED <<part, vars, pipeVars, tileVars>>

MCNext == Reading \/ Piping \/ Toggling \/ Storing \/ InOrder

\* The reader reads on until it is done.
MCSpec == /\ MCInit /\ [][MCNext]_<<part, vars, pipeVars, tileVars, storeVars>>
          /\ WF_vars(part = "stun" /\ Next)

\* The types of each component.
PartsTypeOK == Pipe!TypeOK /\ World!TypeOK /\ Stores!TypeOK

\* PunchEnds of StunReader, where it runs.
StunPunchEnds == part = "stun" => PunchEnds

\* Of UdpPipe: no descriptor leaks, and what the batches deliver is the session's,
\* all of it and in order (NoSocketLeaks, SessionIsDelivered).
PipeIsTight == Pipe!NoSocketLeaks /\ Pipe!SessionIsDelivered

\* NewestAreKept of TileLedger.
NewestAreKept == World!NewestAreKept

\* Of StoreBuffers: JobIsWhole whatever the memory order, and WindowIsWhole when no
\* load passes a store.
HandshakesHold == Stores!JobIsWhole /\ (part = "ordered" => Ordered!WindowIsWhole)
=============================================================================
