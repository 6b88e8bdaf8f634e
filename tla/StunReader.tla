----------------------------- MODULE StunReader -----------------------------
(***************************************************************************)
(* How a client learns its public address: vx_net_stun_punch (vx_net.c)    *)
(* asks a STUN server, polls the socket for half a second and walks over   *)
(* the attributes of whatever arrives.  A datagram is its size, the length *)
(* in its header and, when it is a well-formed answer, its attributes with *)
(* their places; at any other place the walk may find anything.            *)
(***************************************************************************)
EXTENDS Integers

CONSTANTS
    BufferSize,     \* sizeof(resp)
    Waits,          \* polls of the socket, 50
    MessageLengths, \* what resp[2], resp[3] can hold
    Lengths         \* what the length of an attribute can be

ASSUME StunAssumption ==
    /\ BufferSize \in Nat /\ Waits \in Nat
    /\ MessageLengths \subseteq Nat /\ Lengths \subseteq Nat

VARIABLES
    pc, wait,
    dgram,          \* the datagram in resp; its size is recvd
    offset,
    last_read,      \* the highest index read of it
    found           \* whether an address was taken from it

vars == <<pc, wait, dgram, offset, last_read, found>>

Attributes == [type : {"xor_mapped", "other"}, len : Lengths, family : {1, 2}]

\* Four bytes aligned, as RFC 5389 asks: the first multiple of 4 from len on.
Aligned(len) == CHOOSE n \in len .. len + 3 : n % 4 = 0

\* Answers of one or two attributes.
Answer(size, attrs) == [size |-> size, msg_len |-> size - 20, attrs |-> attrs]
Answers ==
    {Answer(24 + Aligned(a.len), {[at |-> 20, attr |-> a]}) : a \in Attributes}
    \cup {LET second == 24 + Aligned(a.len)
          IN  Answer(second + 4 + Aligned(b.len),
                     {[at |-> 20, attr |-> a], [at |-> second, attr |-> b]})
             : a \in Attributes, b \in Attributes}

\* recvfrom stores no more than the buffer holds; shorter ones are not looked at.
Datagrams ==
    [size : 20 .. BufferSize, msg_len : MessageLengths, attrs : {{}}]
    \cup {d \in Answers : d.size <= BufferSize /\ d.msg_len \in MessageLengths}

Init ==
    /\ pc = "poll" /\ wait = 0
    /\ dgram = [size |-> 0, msg_len |-> 0, attrs |-> {}]
    /\ offset = 0 /\ last_read = -1 /\ found = FALSE

-----------------------------------------------------------------------------
\* Nothing has come, or too little: sleep.
PollAgain ==
    /\ pc = "poll" /\ wait < Waits
    /\ wait' = wait + 1
    /\ UNCHANGED <<pc, dgram, offset, last_read, found>>

Receive ==
    /\ pc = "poll" /\ wait < Waits
    /\ dgram' \in Datagrams
    /\ pc' = "walk" /\ offset' = 20 /\ last_read' = 3
    /\ UNCHANGED <<wait, found>>

GiveUp ==
    /\ pc = "poll" /\ wait = Waits
    /\ pc' = "done"
    /\ UNCHANGED <<wait, dgram, offset, last_read, found>>

HeaderFitsPartly(o) == o < dgram.size       \* mutant
HeaderFits(o) == o + 4 <= dgram.size

More == offset < 20 + dgram.msg_len /\ HeaderFits(offset)

UnpaddedLength(len) == len                  \* mutant
PaddedLength(len) == (len + 3) - ((len + 3) % 4)

StepOfPayload(len) == PaddedLength(len)     \* mutant: the header is not counted
StepOf(len) == 4 + PaddedLength(len)

\* The attribute at the offset.
Here == IF \E a \in dgram.attrs : a.at = offset
        THEN {a.attr : a \in {a \in dgram.attrs : a.at = offset}}
        ELSE Attributes

HasAddress(a) == a.type = "xor_mapped" /\ a.len >= 8 /\ offset + 12 <= dgram.size

ReadAttribute ==
    /\ pc = "walk" /\ More
    /\ \E a \in Here :
          /\ last_read' = IF HasAddress(a) THEN offset + 11 ELSE offset + 3
          /\ IF HasAddress(a) /\ a.family = 1
             THEN pc' = "done" /\ found' = TRUE /\ UNCHANGED offset
             ELSE offset' = offset + StepOf(a.len) /\ UNCHANGED <<pc, found>>
    /\ UNCHANGED <<wait, dgram>>

EndOfMessage ==
    /\ pc = "walk" /\ ~More
    /\ pc' = "poll" /\ wait' = wait + 1
    /\ UNCHANGED <<dgram, offset, last_read, found>>

Next == PollAgain \/ Receive \/ GiveUp \/ ReadAttribute \/ EndOfMessage

Spec == Init /\ [][Next]_vars
FairSpec == Spec /\ WF_vars(Next)
-----------------------------------------------------------------------------
\* Nothing behind the datagram is read, whatever it claims of its lengths
\* ("Enforce 8-byte length and prevent out-of-bounds reads", vx_net.c:278).
ReadsInBounds == last_read < dgram.size

\* The walk ends, and the call with it, whatever arrives (vx_net.c:268-301).
PunchEnds == <>(pc = "done")

\* A well-formed answer that holds an IPv4 address is not left without it: the walk
\* meets every attribute (vx_net.c:273-293).
AddressIsFound ==
    pc = "poll" => \A a \in dgram.attrs :
        ~(a.attr.type = "xor_mapped" /\ a.attr.len >= 8 /\ a.attr.family = 1)
=============================================================================
