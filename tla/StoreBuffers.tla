---------------------------- MODULE StoreBuffers ----------------------------
(***************************************************************************)
(* The handshakes of the transfer ring under the memory order the build    *)
(* has.  Every atomic of the host is stored with release and loaded with   *)
(* acquire order (sys_sync.c:25-28), which on x86 are plain moves: a store *)
(* waits in its thread's buffer, in order, while later loads of the same   *)
(* thread already read memory.  A read-modify-write drains the buffer.     *)
(*                                                                         *)
(* The other modules let every store take effect at once; this one shows   *)
(* which handshakes may be read so.  It has one window, one ring slot, two *)
(* of the fields of a job and two of g_window_wsi, each numbered by the    *)
(* request or the vx_stream_init that wrote it.  The flags of the render   *)
(* thread (vk_render_loop.c:60, 71) and the closing of a window by the     *)
(* main thread (main_loop.c:57-61) have the shape of those shown here.     *)
(***************************************************************************)
EXTENDS Naturals, SequencesExt

CONSTANTS
    Buffered,       \* whether loads may pass the thread's own earlier stores
    MaxRequests,    \* bound on the jobs requested
    MaxInits        \* bound on the calls of vx_stream_init

\* What is assumed of the constants.
BufferAssumption ==
    Buffered \in BOOLEAN /\ MaxRequests \in Nat \ {0} /\ MaxInits \in Nat \ {0}

VARIABLES
    memory,         \* what a load by another thread finds
    buffer,         \* the stores of each thread that have not reached memory
    game, transfer, \* the places of the two threads
    requests, inits,
    read,           \* what the transfer thread has loaded
    handled         \* how many jobs it has executed or dropped

threadVars == <<game, transfer, requests, inits, read, handled>>
vars == <<memory, buffer, threadVars>>

Threads == {"game", "transfer"}
Locations == {"status", "val", "win", "busy", "wsi_state", "device", "queue"}

\* A window was opened once.
Init ==
    /\ memory = [x \in Locations |-> IF x = "wsi_state" THEN 1 ELSE 0]
    /\ buffer = [t \in Threads |-> <<>>]
    /\ game = "run" /\ transfer = "scan" /\ requests = 0 /\ inits = 0
    /\ read = [win |-> 0, val |-> 0, device |-> 0, queue |-> 0] /\ handled = 0

Put(x, v) == [at |-> x, val |-> v]

\* S(v, x), several in a row.
Store(t, puts) == buffer' = [buffer EXCEPT ![t] = @ \o puts]

\* L(v): the thread's own last store, or memory.
Load(t, x) ==
    LET own == SelectLastInSeq(buffer[t], LAMBDA p : p.at = x)
    IN  IF own = 0 THEN memory[x] ELSE buffer[t][own].val

Drained(t) == buffer[t] = <<>>
MayLoad(t) == Buffered \/ Drained(t)

GameGoes(from, to) == game = from /\ game' = to /\ UNCHANGED <<transfer, read, handled>>
TransferGoes(from, to) ==
    transfer = from /\ transfer' = to /\ UNCHANGED <<game, requests, inits>>

\* The first store of a buffer reaches memory.
Drain(t) ==
    /\ ~Drained(t)
    /\ memory' = [memory EXCEPT ![Head(buffer[t]).at] = Head(buffer[t]).val]
    /\ buffer' = [buffer EXCEPT ![t] = Tail(@)]
    /\ UNCHANGED threadVars

-----------------------------------------------------------------------------
(* The game thread.                                                         *)

\* The compare-exchange that reserves the slot.
ReserveSlot ==
    /\ GameGoes("run", "fill")
    /\ Drained("game") /\ memory["status"] = 0 /\ requests < MaxRequests
    /\ memory' = [memory EXCEPT !["status"] = 1]
    /\ requests' = requests + 1
    /\ UNCHANGED <<buffer, inits>>

PublishFirst(n) == <<Put("status", 2), Put("val", n), Put("win", n)>>   \* mutant
JobStores(n)    == <<Put("val", n), Put("win", n), Put("status", 2)>>

FillSlot ==
    /\ GameGoes("fill", "run")
    /\ Store("game", JobStores(requests))
    /\ UNCHANGED <<memory, requests, inits>>

\* vx_stream_init closes the window ...
BeginInit ==
    /\ GameGoes("run", "wait")
    /\ inits < MaxInits
    /\ Store("game", <<Put("wsi_state", 0)>>)
    /\ inits' = inits + 1
    /\ UNCHANGED <<memory, requests>>

\* ... sees the transfer thread not busy ...
WaitTransfer ==
    /\ GameGoes("wait", "write")
    /\ MayLoad("game") /\ Load("game", "busy") = 0
    /\ UNCHANGED <<memory, buffer, requests, inits>>

\* ... copies the new objects ...
WriteWindow ==
    /\ GameGoes("write", "open")
    /\ Store("game", <<Put("device", inits), Put("queue", inits)>>)
    /\ UNCHANGED <<memory, requests, inits>>

\* ... and opens the window, after an atomic AND on the lock mask.
OpenStream ==
    /\ GameGoes("open", "run")
    /\ Drained("game")
    /\ Store("game", <<Put("wsi_state", 1)>>)
    /\ UNCHANGED <<memory, requests, inits>>

Game == ReserveSlot \/ FillSlot \/ BeginInit \/ WaitTransfer \/ WriteWindow \/ OpenStream

-----------------------------------------------------------------------------
(* The transfer thread.                                                     *)

ScanSlot ==
    /\ TransferGoes("scan", "take")
    /\ MayLoad("transfer") /\ Load("transfer", "status") = 2
    /\ UNCHANGED <<memory, buffer, read, handled>>

RaisedNot == <<>>                           \* mutant
Raised == <<Put("busy", 1)>>

RaiseBusy ==
    /\ TransferGoes("take", "check")
    /\ read' = [read EXCEPT !.win = Load("transfer", "win")]
    /\ Store("transfer", Raised)
    /\ UNCHANGED <<memory, handled>>

CheckWindow ==
    /\ TransferGoes("check",
                    IF Load("transfer", "wsi_state") = 0 THEN "release" ELSE "device")
    /\ MayLoad("transfer")
    /\ UNCHANGED <<memory, buffer, read, handled>>

LoadDevice ==
    /\ TransferGoes("device", "value")
    /\ read' = [read EXCEPT !.device = Load("transfer", "device")]
    /\ UNCHANGED <<memory, buffer, handled>>

LoadValue ==
    /\ TransferGoes("value", "queue")
    /\ read' = [read EXCEPT !.val = Load("transfer", "val")]
    /\ UNCHANGED <<memory, buffer, handled>>

LoadQueue ==
    /\ TransferGoes("queue", "submit")
    /\ read' = [read EXCEPT !.queue = Load("transfer", "queue")]
    /\ UNCHANGED <<memory, buffer, handled>>

BusyForgotten == <<Put("status", 0)>>       \* mutant
Released == <<Put("status", 0), Put("busy", 0)>>

\* The job was executed, or dropped; the slot goes back first.
ReleaseSlot ==
    /\ TransferGoes(transfer, "scan")
    /\ transfer \in {"submit", "release"}
    /\ handled' = handled + 1
    /\ Store("transfer", Released)
    /\ UNCHANGED <<memory, read>>

Transfer == \/ ScanSlot \/ RaiseBusy \/ CheckWindow \/ LoadDevice \/ LoadValue
            \/ LoadQueue \/ ReleaseSlot

-----------------------------------------------------------------------------
Next == Game \/ Transfer \/ \E t \in Threads : Drain(t)

Spec == Init /\ [][Next]_vars
-----------------------------------------------------------------------------
\* Types of memory, buffers and control states; the transfer thread's flag is up
\* in memory only while it has a job or has not drained its buffer.
TypeOK ==
    /\ memory \in [Locations -> Nat]
    /\ \A x \in {"busy", "wsi_state"} : memory[x] \in {0, 1}
    /\ memory["status"] \in 0 .. 2
    /\ \A t \in Threads : buffer[t] \in Seq([at : Locations, val : Nat])
    /\ game \in {"run", "fill", "wait", "write", "open"}
    /\ transfer \in {"scan", "take", "check", "device", "value", "queue", "submit",
                     "release"}
    /\ requests \in 0 .. MaxRequests /\ inits \in 0 .. MaxInits /\ handled \in 0 .. requests
    /\ read \in [{"win", "val", "device", "queue"} -> Nat]
    /\ memory["busy"] = 1 /\ Drained("transfer") => transfer \notin {"scan", "take"}

\* Every job is executed with its own fields, or dropped, once and in turn: the
\* fields are stored before the status that publishes them, and the slot is
\* given back after they were used (vk_transfer_api.c:17-23 against
\* vk_transfer_loop.c:9-11, 65, 80).
JobIsWhole ==
    /\ transfer \in {"check", "device", "value", "queue", "submit", "release"} =>
          read.win = handled + 1
    /\ transfer \in {"queue", "submit"} => read.val = handled + 1

\* The transfer thread works with objects of one initialisation of the window:
\* vx_stream_init waits for its flag "to prevent corruption" (ring_stream.c:65-66
\* against vk_transfer_loop.c:13-15, 22, 77).
WindowIsWhole == transfer = "submit" => read.device = read.queue
=============================================================================
