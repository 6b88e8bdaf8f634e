------------------------------ MODULE PartsProofs ------------------------------
(***************************************************************************)
(* The parts of MCParts, for every value of their constants.  StunReader:  *)
(* the walk over an answer stays inside of what was received and meets     *)
(* every attribute.  UdpPipe: no descriptor leaks, and the batches return  *)
(* what the session was sent.  StoreBuffers: jobs are whole under both     *)
(* memory orders, the window under the stricter.  TileLedger: the ring     *)
(* keeps the newest.                                                       *)
(***************************************************************************)
EXTENDS MCParts, SequenceTheorems, WellFoundedInduction, TLAPS

\* The code's padding is the alignment the protocol asks for (vx_net.c:292).
LEMMA PaddingAligns ==
    ASSUME NEW len \in Nat
    PROVE  /\ PaddedLength(len) \in len .. len + 3
           /\ PaddedLength(len) % 4 = 0
<1> DEFINE q == (len + 3) \div 4
           r == (len + 3) % 4
<1>1. q \in Int /\ r \in 0 .. 3 /\ len + 3 = 4 * q + r
  BY SMT
<1> HIDE DEF q
<1>2. PaddedLength(len) = 4 * q
  BY <1>1, SMT DEF PaddedLength
<1>3. (4 * q) % 4 = 0
  BY <1>1, SMT
<1>4. QED
  BY <1>1, <1>2, <1>3, SMT

LEMMA AlignedType ==
    ASSUME NEW len \in Nat
    PROVE  Aligned(len) \in len .. len + 3
<1>1. \E n \in len .. len + 3 : n % 4 = 0
  BY PaddingAligns
<1>2. QED
  BY <1>1 DEF Aligned

\* What vx_net_stun_punch looks at holds a header and attributes of known types.
LEMMA DatagramType ==
    ASSUME NEW d \in Datagrams
    PROVE  /\ d.size \in Int /\ 20 <= d.size /\ d.size <= BufferSize
           /\ \A a \in d.attrs : a.attr \in Attributes
<1>1. CASE d \in [size : 20 .. BufferSize, msg_len : MessageLengths, attrs : {{}}]
  BY <1>1, StunAssumption
<1>2. CASE d \in Answers /\ d.size <= BufferSize
  <2>1. \A a \in Attributes : Aligned(a.len) \in Int /\ Aligned(a.len) >= 0
    <3>1. \A a \in Attributes : a.len \in Nat
      BY StunAssumption DEF Attributes
    <3>2. QED
      BY <3>1, AlignedType
  <2>2. CASE \E a \in Attributes :
               d = Answer(24 + Aligned(a.len), {[at |-> 20, attr |-> a]})
    BY <1>2, <2>1, <2>2 DEF Answer
  <2>3. CASE \E a \in Attributes, b \in Attributes :
               d = Answer(24 + Aligned(a.len) + 4 + Aligned(b.len),
                          {[at |-> 20, attr |-> a],
                           [at |-> 24 + Aligned(a.len), attr |-> b]})
    BY <1>2, <2>1, <2>3 DEF Answer
  <2>4. QED
    BY <1>2, <2>2, <2>3 DEF Answers
<1>3. QED
  BY <1>1, <1>2 DEF Datagrams

-----------------------------------------------------------------------------
\* What was read lies in the datagram, and a walk is behind its header.
ReadInv ==
    /\ dgram.size \in Int /\ last_read \in Int
    /\ last_read < dgram.size
    /\ \A a \in dgram.attrs : a.attr \in Attributes
    /\ pc = "walk" => offset \in Int /\ 20 <= offset

LEMMA ReadInit == Init => ReadInv
  BY DEF Init, ReadInv

LEMMA ReadStep == ReadInv /\ [Next]_vars => ReadInv'
<1> SUFFICES ASSUME ReadInv, [Next]_vars PROVE ReadInv'
  OBVIOUS
<1>1. CASE PollAgain
  BY <1>1 DEF PollAgain, ReadInv
<1>2. CASE Receive
  BY <1>2, DatagramType DEF Receive, ReadInv
<1>3. CASE GiveUp
  BY <1>3 DEF GiveUp, ReadInv
<1>4. CASE ReadAttribute
  <2>1. PICK a \in Here :
          /\ last_read' = IF HasAddress(a) THEN offset + 11 ELSE offset + 3
          /\ IF HasAddress(a) /\ a.family = 1
             THEN pc' = "done" /\ found' = TRUE /\ UNCHANGED offset
             ELSE offset' = offset + StepOf(a.len) /\ UNCHANGED <<pc, found>>
    BY <1>4 DEF ReadAttribute
  <2>2. offset \in Int /\ 20 <= offset /\ offset + 4 <= dgram.size
    BY <1>4 DEF ReadAttribute, ReadInv, More, HeaderFits
  <2>3. a \in Attributes
    BY DEF Here, ReadInv
  <2>4. a.len \in Nat
    BY <2>3, StunAssumption DEF Attributes
  <2>5. StepOf(a.len) \in Int /\ StepOf(a.len) >= 4
    BY <2>4, PaddingAligns DEF StepOf
  <2>6. UNCHANGED dgram
    BY <1>4 DEF ReadAttribute
  <2>7. last_read' \in Int /\ last_read' < dgram.size
    BY <2>1, <2>2 DEF HasAddress, ReadInv
  <2>8. pc' = "walk" => offset' \in Int /\ 20 <= offset'
    BY <2>1, <2>2, <2>5
  <2>9. QED
    BY <2>6, <2>7, <2>8 DEF ReadInv
<1>5. CASE EndOfMessage
  BY <1>5 DEF EndOfMessage, ReadInv
<1>6. CASE UNCHANGED vars
  BY <1>6 DEF vars, ReadInv
<1>7. QED
  BY <1>1, <1>2, <1>3, <1>4, <1>5, <1>6 DEF Next

\* "Enforce 8-byte length and prevent out-of-bounds reads" (vx_net.c:278): no byte
\* behind the datagram is read, whatever its size and whatever lengths it claims.
THEOREM ReadsSafe == Spec => []ReadsInBounds
<1>1. ReadInv => ReadsInBounds
  BY DEF ReadInv, ReadsInBounds
<1>2. QED
  BY ReadInit, ReadStep, <1>1, PTL DEF Spec

-----------------------------------------------------------------------------
(* The walk meets every attribute.                                          *)

\* So the alignment and the padding are one.
LEMMA AlignedIsPadded == ASSUME NEW len \in Nat PROVE Aligned(len) = PaddedLength(len)
<1> DEFINE Fits(n) == n \in len .. len + 3 /\ n % 4 = 0
<1>1. Fits(PaddedLength(len)) /\ Fits(Aligned(len))
  BY PaddingAligns DEF Aligned
<1>2. \A n, m \in Int : Fits(n) /\ Fits(m) => n = m
  <2> SUFFICES ASSUME NEW n \in Int, NEW m \in Int, Fits(n), Fits(m) PROVE n = m
    OBVIOUS
  <2> DEFINE p == n \div 4
             q == m \div 4
  <2>1. p \in Int /\ n = 4 * p
    BY SMT
  <2>2. q \in Int /\ m = 4 * q
    BY SMT
  <2> HIDE DEF p, q
  <2> QED BY <2>1, <2>2
<1> QED BY <1>1, <1>2

\* An attribute with the address asked for.
Wanted(a) == a.attr.type = "xor_mapped" /\ a.attr.len >= 8 /\ a.attr.family = 1

\* The attributes of an answer fill it, one after the other, from its header on.
Laid(d) ==
    /\ \A a \in d.attrs : /\ a.attr \in Attributes /\ a.at \in Nat /\ a.at >= 20
                          /\ d.size = 20 + d.msg_len
                          /\ a.at + 4 + a.attr.len <= d.size
    /\ \A a, b \in d.attrs : /\ a.at = b.at => a = b
                             /\ a.at < b.at => b.at = a.at + StepOf(a.attr.len)
    /\ d.attrs # {} => \E a \in d.attrs : a.at = 20

LEMMA AnswersAreLaid == ASSUME NEW d \in Datagrams PROVE Laid(d)
<1>1. CASE d.attrs = {}
  BY <1>1 DEF Laid
<1>2. CASE d \in Answers
  <2>1. ASSUME NEW a \in Attributes
        PROVE  /\ a.len \in Nat /\ Aligned(a.len) \in Nat /\ a.len <= Aligned(a.len)
               /\ StepOf(a.len) = 4 + Aligned(a.len)
    <3>1. a.len \in Nat
      BY StunAssumption DEF Attributes
    <3> QED BY <3>1, AlignedType, AlignedIsPadded DEF StepOf
  <2>2. ASSUME NEW a \in Attributes,
               d = Answer(24 + Aligned(a.len), {[at |-> 20, attr |-> a]})
        PROVE  Laid(d)
    <3>1. /\ d.attrs = {[at |-> 20, attr |-> a]}
          /\ d.size = 24 + Aligned(a.len) /\ d.msg_len = d.size - 20
      BY <2>2 DEF Answer
    <3> QED BY <2>1, <3>1 DEF Laid
  <2>3. ASSUME NEW a \in Attributes, NEW b \in Attributes, NEW second,
               second = 24 + Aligned(a.len),
               d = Answer(second + 4 + Aligned(b.len),
                          {[at |-> 20, attr |-> a], [at |-> second, attr |-> b]})
        PROVE  Laid(d)
    <3>1. /\ d.attrs = {[at |-> 20, attr |-> a], [at |-> second, attr |-> b]}
          /\ d.size = second + 4 + Aligned(b.len) /\ d.msg_len = d.size - 20
      BY <2>3 DEF Answer
    <3>2. second \in Nat /\ second > 20 /\ second = 20 + StepOf(a.len)
      BY <2>1, <2>3
    <3>3. \A x \in d.attrs : \/ x = [at |-> 20, attr |-> a]
                             \/ x = [at |-> second, attr |-> b]
      BY <3>1
    <3>4. /\ a.len <= Aligned(a.len) /\ Aligned(a.len) \in Nat /\ a.len \in Nat
          /\ b.len <= Aligned(b.len) /\ Aligned(b.len) \in Nat /\ b.len \in Nat
      BY <2>1
    <3>5. /\ d.size = 20 + d.msg_len /\ 20 + 4 + a.len <= d.size
          /\ second + 4 + b.len <= d.size
      BY <2>3, <3>1, <3>2, <3>4
    <3>6. \A x \in d.attrs : /\ x.attr \in Attributes /\ x.at \in Nat /\ x.at >= 20
                             /\ d.size = 20 + d.msg_len
                             /\ x.at + 4 + x.attr.len <= d.size
      BY <3>2, <3>3, <3>5
    <3>7. \A x, y \in d.attrs : /\ x.at = y.at => x = y
                                /\ x.at < y.at => y.at = x.at + StepOf(x.attr.len)
      BY <3>2, <3>3
    <3>8. \E x \in d.attrs : x.at = 20
      BY <3>1
    <3> QED BY <3>6, <3>7, <3>8 DEF Laid
  <2>4. \/ \E a \in Attributes :
              d = Answer(24 + Aligned(a.len), {[at |-> 20, attr |-> a]})
        \/ \E a \in Attributes, b \in Attributes :
              d = Answer(24 + Aligned(a.len) + 4 + Aligned(b.len),
                         {[at |-> 20, attr |-> a],
                          [at |-> 24 + Aligned(a.len), attr |-> b]})
    BY <1>2 DEF Answers
  <2> QED BY <2>2, <2>3, <2>4
<1> QED BY <1>1, <1>2 DEF Datagrams

\* Nothing that the walk has passed is wanted, and it stands at an attribute as long as
\* something is.
FoundInv ==
    /\ Laid(dgram)
    /\ pc = "poll" => \A a \in dgram.attrs : ~Wanted(a)
    /\ pc = "walk" =>
          /\ \A a \in dgram.attrs : a.at < offset => ~Wanted(a)
          /\ (\E a \in dgram.attrs : Wanted(a)) => \E a \in dgram.attrs : a.at = offset

LEMMA FoundInit == Init => FoundInv
  BY DEF Init, FoundInv, Laid

LEMMA FoundStep == ReadInv /\ FoundInv /\ [Next]_vars => FoundInv'
<1> SUFFICES ASSUME ReadInv, FoundInv, [Next]_vars PROVE FoundInv'
  OBVIOUS
<1>1. CASE PollAgain
  BY <1>1 DEF PollAgain, FoundInv, Laid, Wanted
<1>2. CASE Receive
  <2>1. dgram' \in Datagrams /\ pc' = "walk" /\ offset' = 20
    BY <1>2 DEF Receive
  <2>2. Laid(dgram')
    BY <2>1, AnswersAreLaid
  <2>3. \A a \in dgram'.attrs : ~(a.at < 20)
    BY <2>2 DEF Laid
  <2> QED BY <2>1, <2>2, <2>3 DEF FoundInv, Laid
<1>3. CASE GiveUp
  BY <1>3 DEF GiveUp, FoundInv, Laid
<1>4. CASE ReadAttribute
  <2>1. /\ pc = "walk" /\ More /\ UNCHANGED dgram
        /\ \E a \in Here :
              IF HasAddress(a) /\ a.family = 1
              THEN pc' = "done" /\ UNCHANGED offset
              ELSE offset' = offset + StepOf(a.len) /\ pc' = pc
    BY <1>4 DEF ReadAttribute
  <2>2. CASE \A a \in dgram.attrs : ~Wanted(a)
    BY <2>1, <2>2 DEF FoundInv, Laid, Wanted
  <2>3. CASE \E a \in dgram.attrs : Wanted(a)
    <3>1. PICK b \in dgram.attrs : b.at = offset
      BY <2>1, <2>3 DEF FoundInv
    <3>2. {a.attr : a \in {a \in dgram.attrs : a.at = offset}} = {b.attr}
      BY <3>1 DEF FoundInv, Laid
    <3>3. Here = {b.attr}
      BY <3>1, <3>2 DEF Here
    <3>4. IF HasAddress(b.attr) /\ b.attr.family = 1
          THEN pc' = "done" /\ UNCHANGED offset
          ELSE offset' = offset + StepOf(b.attr.len) /\ pc' = pc
      BY <2>1, <3>3
    <3>5. /\ b.attr \in Attributes /\ b.at \in Nat /\ dgram.size = 20 + dgram.msg_len
          /\ b.at + 4 + b.attr.len <= dgram.size
      BY DEF FoundInv, Laid
    <3>6. b.attr.len \in Nat /\ StepOf(b.attr.len) \in Nat /\ StepOf(b.attr.len) >= 4
      <4>1. b.attr.len \in Nat
        BY <3>5, StunAssumption DEF Attributes
      <4>2. PaddedLength(b.attr.len) \in b.attr.len .. b.attr.len + 3
        BY <4>1, PaddingAligns
      <4> QED BY <4>1, <4>2 DEF StepOf
    <3>7. CASE Wanted(b)
      <4>1. dgram.size \in Int
        BY <2>1, <3>1, <3>5 DEF ReadInv
      <4>2. HasAddress(b.attr) /\ b.attr.family = 1
        BY <3>1, <3>5, <3>6, <3>7, <4>1 DEF HasAddress, Wanted
      <4> QED BY <2>1, <3>4, <4>2 DEF FoundInv, Laid
    <3>8. CASE ~Wanted(b) /\ pc' = "walk"
      <4>1. offset' = offset + StepOf(b.attr.len)
        BY <3>4, <3>8
      <4>2. \A a \in dgram.attrs : b.at < a.at => a.at = offset'
        BY <3>1, <4>1 DEF FoundInv, Laid
      <4>3. \A a \in dgram.attrs : a.at \in Nat /\ (a.at = b.at => a = b)
        BY DEF FoundInv, Laid
      <4>4. \A a \in dgram.attrs : Wanted(a) => a.at = offset'
        BY <2>1, <3>1, <3>5, <3>8, <4>2, <4>3 DEF FoundInv
      <4>5. \A a \in dgram.attrs : a.at < offset' => ~Wanted(a)
        BY <3>1, <3>5, <3>6, <4>1, <4>4
      <4> QED
        BY <2>1, <2>3, <3>8, <4>4, <4>5 DEF FoundInv, Laid, Wanted
    <3>9. pc' = "walk" \/ pc' = "done"
      BY <2>1, <3>4
    <3> QED BY <2>1, <3>7, <3>8, <3>9 DEF FoundInv, Laid
  <2> QED BY <2>2, <2>3
<1>5. CASE EndOfMessage
  <2>1. pc = "walk" /\ ~More /\ pc' = "poll" /\ UNCHANGED dgram
    BY <1>5 DEF EndOfMessage
  <2>2. \A a \in dgram.attrs : a.at # offset
    <3> SUFFICES ASSUME NEW a \in dgram.attrs, a.at = offset PROVE FALSE
      OBVIOUS
    <3>1. /\ a.at \in Nat /\ a.at + 4 + a.attr.len <= dgram.size
          /\ dgram.size = 20 + dgram.msg_len /\ a.attr.len \in Nat
      BY StunAssumption DEF FoundInv, Laid, Attributes
    <3>2. dgram.size \in Int
      BY DEF ReadInv
    <3> QED BY <2>1, <3>1, <3>2 DEF More, HeaderFits
  <2> QED BY <2>1, <2>2 DEF FoundInv, Laid, Wanted
<1>6. CASE UNCHANGED vars
  BY <1>6 DEF vars, FoundInv, Laid, Wanted
<1> QED BY <1>1, <1>2, <1>3, <1>4, <1>5, <1>6 DEF Next

\* An answer with an IPv4 address is never left without it: the walk steps over what it
\* does not know to the next attribute exactly (vx_net.c:273-293).
THEOREM AddressesFound == Spec => []AddressIsFound
<1>1. FoundInv => AddressIsFound
  BY DEF FoundInv, AddressIsFound, Wanted
<1> QED BY ReadInit, ReadStep, FoundInit, FoundStep, <1>1, PTL DEF Spec

-----------------------------------------------------------------------------
(* UdpPipe, for any buffers, any descriptors and any number of datagrams.    *)

Arrived == [no : Nat, kind : Pipe!Kinds, token : BOOLEAN, pid : {0, 255}]

PipeType ==
    /\ sock \in Fds \cup {Pipe!NoSocket} /\ open \subseteq Fds
    /\ session \in BOOLEAN /\ active \subseteq Pipe!Peers
    /\ arrivals \in Nat /\ queue \in Seq(Arrived)
    /\ wanted \in Seq(Nat) /\ delivered \in Seq(Nat)
    /\ call \in [max : Nat, out : Seq(Nat)]

\* The numbers count the arrivals.
NumbersCount ==
    /\ \A i \in 1 .. Len(queue) : queue[i].no <= arrivals
    /\ \A i \in 1 .. Len(wanted) : wanted[i] <= arrivals

PipeInv == PipeType /\ NumbersCount /\ Pipe!NoSocketLeaks /\ Pipe!SessionIsDelivered

LEMMA PipeInit == Pipe!UdpAssumption /\ Pipe!Init => PipeInv
<1> SUFFICES ASSUME Pipe!UdpAssumption, Pipe!Init PROVE PipeInv
  OBVIOUS
<1>1. PipeType
  <2>1. call = [max |-> 0, out |-> << >>] /\ << >> \in Seq(Nat) /\ << >> \in Seq(Arrived)
    BY EmptySeq DEF Pipe!Init, Pipe!NoCall
  <2>2. call \in [max : Nat, out : Seq(Nat)]
    BY <2>1
  <2> QED BY <2>1, <2>2 DEF Pipe!Init, PipeType
<1>2. delivered \o call.out = << >> /\ queue = << >> /\ wanted = << >>
  BY DEF Pipe!Init, Pipe!NoCall
<1>3. Pipe!NoSocketLeaks /\ NumbersCount
  BY <1>2 DEF Pipe!Init, Pipe!NoSocketLeaks, NumbersCount
<1>4. Pipe!SessionIsDelivered
  BY <1>2 DEF Pipe!SessionIsDelivered
<1> QED BY <1>1, <1>3, <1>4 DEF PipeInv

\* What is returned and about to be.
Got == delivered \o call.out

LEMMA GotType == ASSUME PipeType PROVE Got \in Seq(Nat)
  BY ConcatProperties DEF PipeType, Got

LEMMA Numbers ==
    ASSUME PipeType
    PROVE  /\ Len(queue) \in Nat /\ Len(wanted) \in Nat /\ Len(Got) \in Nat
           /\ DOMAIN queue = 1 .. Len(queue) /\ DOMAIN wanted = 1 .. Len(wanted)
           /\ \A i \in 1 .. Len(queue) : queue[i] \in Arrived /\ queue[i].no \in Nat
           /\ \A i \in 1 .. Len(wanted) : wanted[i] \in Nat
<1>1. queue \in Seq(Arrived) /\ wanted \in Seq(Nat) /\ Got \in Seq(Nat)
  BY GotType DEF PipeType
<1>2. \A i \in 1 .. Len(queue) : queue[i] \in Arrived
  BY <1>1, ElementOfSeq
<1> QED BY <1>1, <1>2, ElementOfSeq, LenProperties DEF Arrived

\* The socket is made anew or given up: what was not read is gone.
LEMMA PipeEmptied ==
    ASSUME PipeInv, PipeType', Pipe!NoSocketLeaks', call = Pipe!NoCall,
           queue' = << >>, wanted' = delivered, UNCHANGED <<call, arrivals, delivered>>
    PROVE  PipeInv'
<1>1. Got = delivered /\ Got' = delivered
  BY ConcatEmptySeq DEF PipeInv, PipeType, Got, Pipe!NoCall
<1>2. /\ Len(Got) <= Len(wanted) /\ \A i \in 1 .. Len(Got) : Got[i] = wanted[i]
      /\ \A i, j \in 1 .. Len(wanted) : i < j => wanted[i] < wanted[j]
  BY LenProperties DEF PipeInv, PipeType, Pipe!SessionIsDelivered, Got
<1>3. Len(delivered) \in Nat /\ Len(wanted) \in Nat /\ DOMAIN delivered = 1 .. Len(delivered)
  BY LenProperties DEF PipeInv, PipeType
<1>4. \A i \in 1 .. Len(delivered) : i \in 1 .. Len(wanted) /\ delivered[i] = wanted[i]
  BY <1>1, <1>2, <1>3
<1>5. NumbersCount'
  BY <1>4 DEF PipeInv, NumbersCount
<1>6. Pipe!SessionIsDelivered'
  <2>1. \A i, j \in 1 .. Len(delivered) : i < j => delivered[i] < delivered[j]
    BY <1>2, <1>4
  <2>2. Len(delivered) + 1 .. Len(delivered) = {}
    BY <1>3
  <2> QED BY <1>1, <1>3, <2>1, <2>2 DEF Pipe!SessionIsDelivered, Got
<1> QED BY <1>5, <1>6 DEF PipeInv

LEMMA PipeHost ==
    ASSUME Pipe!UdpAssumption, PipeInv, Pipe!Host
    PROVE  PipeInv'
<1>1. /\ call = Pipe!NoCall /\ queue' = << >> /\ wanted' = delivered
      /\ UNCHANGED <<session, active, call, arrivals, delivered>>
  BY DEF Pipe!Host
<1>2. open \ {sock} = {}
  BY DEF PipeInv, Pipe!NoSocketLeaks
<1>3. \/ sock' = Pipe!NoSocket /\ open' = {}
      \/ \E fd \in Fds : open' = {fd} /\ sock' = fd
  BY <1>2 DEF Pipe!Host, Pipe!Closed
<1>4. PipeType' /\ Pipe!NoSocketLeaks'
  BY <1>1, <1>3 DEF PipeInv, PipeType, Pipe!NoSocketLeaks, Pipe!UdpAssumption
<1> QED BY <1>1, <1>4, PipeEmptied

LEMMA PipeShutdown == ASSUME PipeInv, Pipe!Shutdown PROVE PipeInv'
<1>1. /\ call = Pipe!NoCall /\ queue' = << >> /\ wanted' = delivered
      /\ sock' = Pipe!NoSocket /\ open' = open \ {sock}
      /\ UNCHANGED <<session, active, call, arrivals, delivered>>
  BY DEF Pipe!Shutdown
<1>2. PipeType' /\ Pipe!NoSocketLeaks'
  BY <1>1 DEF PipeInv, PipeType, Pipe!NoSocketLeaks
<1> QED BY <1>1, <1>2, PipeEmptied

\* A datagram arrives, with a number greater than any before.
LEMMA PipeArrive == ASSUME PipeInv, Pipe!Arrive PROVE PipeInv'
<1>1. PICK d \in Arrived :
        /\ d.no = arrivals + 1
        /\ queue' = Append(queue, d)
        /\ wanted' = IF Pipe!OfSession(d) THEN Append(wanted, d.no) ELSE wanted
        /\ arrivals' = arrivals + 1
        /\ UNCHANGED <<sock, open, session, active, call, delivered>>
  <2>1. PICK kind \in Pipe!Kinds, token \in BOOLEAN, pid \in {0, 255} :
          LET d == [no |-> arrivals', kind |-> kind, token |-> token, pid |-> pid]
          IN  /\ queue' = Append(queue, d)
              /\ wanted' = IF Pipe!OfSession(d) THEN Append(wanted, d.no) ELSE wanted
    BY DEF Pipe!Arrive
  <2>2. arrivals' = arrivals + 1 /\ UNCHANGED <<sock, open, session, active, call, delivered>>
    BY DEF Pipe!Arrive, Pipe!pipeVars
  <2>3. [no |-> arrivals', kind |-> kind, token |-> token, pid |-> pid] \in Arrived
    BY <2>2 DEF Arrived, PipeInv, PipeType
  <2> QED BY <2>1, <2>2, <2>3
<1> DEFINE n == Len(queue)
           m == Len(wanted)
<1>2. /\ n \in Nat /\ m \in Nat /\ arrivals \in Nat /\ Got' = Got
      /\ Got \in Seq(Nat) /\ Len(Got) \in Nat
      /\ queue \in Seq(Arrived) /\ wanted \in Seq(Nat) /\ d.no \in Nat
      /\ DOMAIN queue = 1 .. n /\ DOMAIN wanted = 1 .. m
      /\ \A i \in 1 .. n : queue[i].no \in Nat /\ queue[i].no <= arrivals
      /\ \A i \in 1 .. m : wanted[i] \in Nat /\ wanted[i] <= arrivals
  BY <1>1, GotType, Numbers DEF PipeInv, PipeType, NumbersCount, Got, Arrived
<1> HIDE DEF n, m
<1>3. /\ Len(Got) <= m /\ \A i \in 1 .. Len(Got) : Got[i] = wanted[i]
      /\ \A i \in Len(Got) + 1 .. m :
            \E j \in 1 .. n : Pipe!OfSession(queue[j]) /\ queue[j].no = wanted[i]
      /\ \A j \in 1 .. n :
            Pipe!OfSession(queue[j]) => \E i \in Len(Got) + 1 .. m : wanted[i] = queue[j].no
      /\ \A i, j \in 1 .. m : i < j => wanted[i] < wanted[j]
      /\ \A i, j \in 1 .. n : i < j => queue[i].no < queue[j].no
  BY <1>2 DEF PipeInv, Pipe!SessionIsDelivered, Got, n, m
<1>4. /\ queue' \in Seq(Arrived) /\ Len(queue') = n + 1
      /\ \A i \in 1 .. n : queue'[i] = queue[i]
      /\ queue'[n + 1] = d
      /\ DOMAIN queue' = 1 .. n + 1
  BY <1>1, <1>2, AppendProperties, LenProperties
<1>5. PipeType'
  BY <1>1, <1>2, <1>4, AppendProperties DEF PipeInv, PipeType
<1>6. \A i \in 1 .. n + 1 : i = n + 1 \/ (i \in 1 .. n /\ queue'[i] = queue[i])
  <2>1. \A i \in 1 .. n + 1 : i = n + 1 \/ i \in 1 .. n
    BY <1>2
  <2> QED BY <1>4, <2>1
<1>7. \A i \in 1 .. n + 1 : queue'[i].no <= arrivals'
  <2> SUFFICES ASSUME NEW i \in 1 .. n + 1 PROVE queue'[i].no <= arrivals'
    OBVIOUS
  <2>1. CASE i = n + 1
    BY <1>1, <1>2, <1>4, <2>1
  <2>2. CASE i # n + 1
    <3>1. queue'[i].no \in Nat /\ queue'[i].no <= arrivals
      BY <1>2, <1>6, <2>2
    <3> QED BY <1>1, <1>2, <3>1
  <2> QED BY <2>1, <2>2
<1>8. \A i, j \in 1 .. n + 1 : i < j => queue'[i].no < queue'[j].no
  <2> SUFFICES ASSUME NEW i \in 1 .. n + 1, NEW j \in 1 .. n + 1, i < j
               PROVE  queue'[i].no < queue'[j].no
    OBVIOUS
  <2>1. i \in 1 .. n /\ queue'[i] = queue[i]
    BY <1>2, <1>6
  <2>2. CASE j = n + 1
    <3>1. queue'[j].no = arrivals + 1 /\ queue[i].no \in Nat /\ queue[i].no <= arrivals
      BY <1>1, <1>2, <1>4, <2>1, <2>2
    <3> QED BY <1>2, <2>1, <3>1
  <2>3. CASE j # n + 1
    BY <1>3, <1>6, <2>1, <2>3
  <2> QED BY <2>2, <2>3
<1>9. CASE Pipe!OfSession(d)
  <2>1. /\ wanted' \in Seq(Nat) /\ Len(wanted') = m + 1
        /\ \A i \in 1 .. m : wanted'[i] = wanted[i]
        /\ wanted'[m + 1] = d.no
        /\ DOMAIN wanted' = 1 .. m + 1
    BY <1>1, <1>2, <1>9, AppendProperties, LenProperties
  <2>2. NumbersCount'
    <3>1. \A i \in 1 .. m + 1 : i = m + 1 \/ i \in 1 .. m
      BY <1>2
    <3>2. \A i \in 1 .. m + 1 : wanted'[i] <= arrivals'
      BY <1>1, <1>2, <2>1, <3>1
    <3> QED BY <1>4, <1>7, <2>1, <3>2 DEF NumbersCount
  <2>3. Len(Got') <= Len(wanted') /\ \A i \in 1 .. Len(Got') : Got'[i] = wanted'[i]
    BY <1>3, <1>2, <2>1
  <2>4. ASSUME NEW i \in Len(Got) + 1 .. m + 1
        PROVE  \E j \in 1 .. n + 1 : Pipe!OfSession(queue'[j]) /\ queue'[j].no = wanted'[i]
    <3>1. CASE i = m + 1
      <4>1. n + 1 \in 1 .. n + 1 /\ Pipe!OfSession(queue'[n + 1])
        BY <1>2, <1>4, <1>9
      <4>2. queue'[n + 1].no = wanted'[i]
        BY <1>4, <2>1, <3>1
      <4> QED BY <4>1, <4>2
    <3>2. CASE i # m + 1
      <4>1. i \in Len(Got) + 1 .. m /\ i \in 1 .. m
        BY <1>2, <3>2
      <4>2. PICK j \in 1 .. n : Pipe!OfSession(queue[j]) /\ queue[j].no = wanted[i]
        BY <1>3, <4>1
      <4> QED BY <1>2, <1>4, <2>1, <4>1, <4>2
    <3> QED BY <3>1, <3>2
  <2>5. ASSUME NEW j \in 1 .. n + 1, Pipe!OfSession(queue'[j])
        PROVE  \E i \in Len(Got) + 1 .. m + 1 : wanted'[i] = queue'[j].no
    <3>1. CASE j = n + 1
      BY <1>3, <1>2, <1>4, <2>1, <3>1
    <3>2. CASE j # n + 1
      <4>1. j \in 1 .. n /\ Pipe!OfSession(queue[j])
        BY <1>2, <1>4, <2>5, <3>2
      <4>2. PICK i \in Len(Got) + 1 .. m : wanted[i] = queue[j].no
        BY <1>3, <4>1
      <4> QED BY <1>2, <1>4, <2>1, <4>1, <4>2
    <3> QED BY <3>1, <3>2
  <2>6. ASSUME NEW i \in 1 .. m + 1, NEW j \in 1 .. m + 1, i < j
        PROVE  wanted'[i] < wanted'[j]
    <3>1. i \in 1 .. m /\ wanted'[i] = wanted[i] /\ wanted[i] \in Nat /\ wanted[i] <= arrivals
      BY <1>2, <2>1, <2>6
    <3>2. CASE j = m + 1
      BY <1>1, <1>2, <2>1, <3>1, <3>2
    <3>3. CASE j # m + 1
      <4>1. j \in 1 .. m /\ wanted'[j] = wanted[j]
        BY <1>2, <2>1, <3>3
      <4> QED BY <1>3, <2>6, <3>1, <4>1
    <3> QED BY <3>2, <3>3
  <2>7. Pipe!SessionIsDelivered'
    BY <1>3, <1>2, <1>4, <1>8, <2>1, <2>3, <2>4, <2>5, <2>6
       DEF Pipe!SessionIsDelivered, Got
  <2> QED BY <1>1, <1>5, <2>2, <2>7 DEF PipeInv, Pipe!NoSocketLeaks
<1>10. CASE ~Pipe!OfSession(d)
  <2>1. wanted' = wanted
    BY <1>1, <1>10
  <2>2. NumbersCount'
    <3>1. \A i \in 1 .. m : wanted[i] <= arrivals'
      BY <1>1, <1>2
    <3> QED BY <1>4, <1>7, <2>1, <3>1 DEF NumbersCount, m
  <2>3. /\ \A i \in Len(Got) + 1 .. m :
              \E j \in 1 .. n + 1 : Pipe!OfSession(queue'[j]) /\ queue'[j].no = wanted[i]
        /\ \A j \in 1 .. n + 1 :
              Pipe!OfSession(queue'[j]) => \E i \in Len(Got) + 1 .. m : wanted[i] = queue'[j].no
    <3>1. \A j \in 1 .. n : j \in 1 .. n + 1
      BY <1>2
    <3>2. \A j \in 1 .. n + 1 : Pipe!OfSession(queue'[j]) => j \in 1 .. n
      BY <1>2, <1>4, <1>10
    <3> QED BY <1>3, <1>4, <3>1, <3>2
  <2>4. Pipe!SessionIsDelivered'
    BY <1>3, <1>2, <1>4, <1>8, <2>1, <2>3 DEF Pipe!SessionIsDelivered, Got, m
  <2> QED BY <1>1, <1>5, <2>2, <2>4 DEF PipeInv, Pipe!NoSocketLeaks
<1> QED BY <1>9, <1>10

LEMMA AppendLater ==
    ASSUME NEW s \in Seq(Nat), NEW t \in Seq(Nat), NEW x \in Nat
    PROVE  s \o Append(t, x) = Append(s \o t, x)
  OBVIOUS

\* The first datagram of the queue is read, and if it is kept it is the first of those
\* that were to be returned.
LEMMA PipeReceive == ASSUME PipeInv, Pipe!ReceiveOne PROVE PipeInv'
<1> DEFINE d == queue[1]
           n == Len(queue)
           m == Len(wanted)
           g == Len(Got)
<1>1. /\ queue # << >> /\ queue' = Tail(queue)
      /\ IF Pipe!OfSession(d)
         THEN /\ call' = [call EXCEPT !.out = Append(@, d.no)]
              /\ active' = active \cup Pipe!PidInRange(d.pid)
         ELSE UNCHANGED <<call, active>>
      /\ UNCHANGED <<sock, open, session, arrivals, wanted, delivered>>
  BY DEF Pipe!ReceiveOne, Pipe!Kept
<1>2. /\ m \in Nat /\ g \in Nat /\ n \in Nat \ {0} /\ Got \in Seq(Nat)
      /\ queue \in Seq(Arrived) /\ wanted \in Seq(Nat)
      /\ DOMAIN queue = 1 .. n /\ DOMAIN wanted = 1 .. m
  BY <1>1, GotType, Numbers, EmptySeq DEF PipeInv, PipeType
<1>3. d \in Arrived /\ d.no \in Nat
  BY <1>2, Numbers DEF PipeInv
<1>4. /\ queue' \in Seq(Arrived) /\ Len(queue') = n - 1 /\ DOMAIN queue' = 1 .. n - 1
      /\ \A i \in 1 .. n - 1 : queue'[i] = queue[i + 1]
  BY <1>1, <1>2, HeadTailProperties, LenProperties
<1>5. PipeType'
  <2>1. call' \in [max : Nat, out : Seq(Nat)]
    <3>1. call \in [max : Nat, out : Seq(Nat)]
      BY DEF PipeInv, PipeType
    <3>2. Append(call.out, d.no) \in Seq(Nat)
      BY <1>3, <3>1, AppendProperties
    <3> QED BY <1>1, <3>1, <3>2
  <2>2. active' \subseteq Pipe!Peers
    BY <1>1 DEF PipeInv, PipeType, Pipe!PidInRange
  <2> QED BY <1>1, <1>4, <2>1, <2>2 DEF PipeInv, PipeType
<1>6. NumbersCount'
  <2>1. \A i \in 1 .. n : queue[i].no <= arrivals
    BY DEF PipeInv, NumbersCount
  <2>2. \A i \in 1 .. n - 1 : queue'[i].no <= arrivals
    BY <1>2, <1>4, <2>1
  <2> QED BY <1>1, <1>4, <2>2 DEF PipeInv, NumbersCount
<1>8. /\ g <= m /\ \A i \in 1 .. g : Got[i] = wanted[i]
      /\ \A i \in g + 1 .. m :
            \E j \in 1 .. n : Pipe!OfSession(queue[j]) /\ queue[j].no = wanted[i]
      /\ \A j \in 1 .. n :
            Pipe!OfSession(queue[j]) => \E i \in g + 1 .. m : wanted[i] = queue[j].no
      /\ \A i, j \in 1 .. m : i < j => wanted[i] < wanted[j]
      /\ \A i, j \in 1 .. n : i < j => queue[i].no < queue[j].no
  BY <1>2 DEF PipeInv, Pipe!SessionIsDelivered, Got
<1>7. \A i, j \in 1 .. n - 1 : i < j => queue'[i].no < queue'[j].no
  BY <1>2, <1>4, <1>8
<1>9. \A i \in 1 .. n : queue[i].no \in Nat
  BY Numbers DEF PipeInv
<1>10. \A i \in 1 .. m : wanted[i] \in Nat
  BY Numbers DEF PipeInv
<1> HIDE DEF d, n, m, g
<1>11. CASE Pipe!OfSession(d)
  <2>1. PICK k \in g + 1 .. m : wanted[k] = d.no
    <3>1. 1 \in 1 .. n
      BY <1>2
    <3> QED BY <1>8, <1>11, <3>1 DEF d
  <2>2. g + 1 \in 1 .. m /\ wanted[g + 1] = d.no
    <3>1. g + 1 \in g + 1 .. m /\ g + 1 \in 1 .. m
      BY <1>2, <2>1
    <3>2. PICK j \in 1 .. n : wanted[g + 1] = queue[j].no
      BY <3>1, <1>8
    <3>3. d.no <= queue[j].no
      <4>1. 1 \in 1 .. n /\ (j = 1 \/ 1 < j)
        BY <1>2
      <4>2. j = 1 \/ queue[1].no < queue[j].no
        BY <1>8, <4>1
      <4> QED BY <1>9, <4>1, <4>2 DEF d
    <3>4. k = g + 1 \/ wanted[g + 1] < wanted[k]
      BY <1>2, <1>8, <2>1, <3>1
    <3> QED BY <1>3, <1>9, <2>1, <3>1, <3>2, <3>3, <3>4
  <2>3. Got' = Append(Got, d.no)
    <3>1. Got' = delivered \o Append(call.out, d.no)
      BY <1>1, <1>11 DEF Got, PipeInv, PipeType
    <3>2. call.out \in Seq(Nat) /\ delivered \in Seq(Nat)
      BY <1>3 DEF PipeInv, PipeType
    <3> QED BY <1>3, <3>1, <3>2, AppendLater DEF Got
  <2>4. /\ Len(Got') = g + 1 /\ Got'[g + 1] = d.no
        /\ \A i \in 1 .. g : Got'[i] = Got[i]
    BY <1>2, <1>3, <2>3, AppendProperties DEF g
  <2>5. Len(Got') <= m /\ \A i \in 1 .. Len(Got') : Got'[i] = wanted[i]
    <3>1. \A i \in 1 .. g + 1 : i \in 1 .. g \/ i = g + 1
      BY <1>2
    <3>2. \A i \in 1 .. g + 1 : Got'[i] = wanted[i]
      BY <1>8, <2>2, <2>4, <3>1
    <3>3. g + 1 <= m
      BY <1>2, <2>2
    <3> QED BY <2>4, <3>2, <3>3
  <2>6. ASSUME NEW i \in g + 2 .. m
        PROVE  \E j \in 1 .. n - 1 : Pipe!OfSession(queue'[j]) /\ queue'[j].no = wanted[i]
    <3>1. i \in g + 1 .. m /\ i \in 1 .. m /\ g + 1 < i
      BY <1>2, <2>6
    <3>2. PICK j \in 1 .. n : Pipe!OfSession(queue[j]) /\ queue[j].no = wanted[i]
      BY <3>1, <1>8
    <3>3. wanted[g + 1] < wanted[i]
      BY <1>8, <2>2, <3>1
    <3>4. j # 1
      BY <1>3, <2>2, <3>2, <3>3 DEF d
    <3>5. j - 1 \in 1 .. n - 1 /\ queue'[j - 1] = queue[j]
      BY <1>2, <1>4, <3>4
    <3> QED BY <3>2, <3>5
  <2>7. ASSUME NEW j \in 1 .. n - 1, Pipe!OfSession(queue'[j])
        PROVE  \E i \in g + 2 .. m : queue'[j].no = wanted[i]
    <3>1. j + 1 \in 1 .. n /\ queue'[j] = queue[j + 1] /\ Pipe!OfSession(queue[j + 1])
      BY <1>2, <1>4, <2>7
    <3>2. PICK i \in g + 1 .. m : wanted[i] = queue[j + 1].no
      BY <1>8, <3>1
    <3>3. d.no < queue[j + 1].no
      BY <1>2, <1>8, <3>1 DEF d
    <3>4. i # g + 1
      BY <1>3, <1>9, <2>2, <3>1, <3>2, <3>3
    <3> QED BY <1>2, <3>1, <3>2, <3>4
  <2>8. Len(Got') + 1 .. m = g + 2 .. m
    BY <1>2, <2>4
  <2>9. Pipe!SessionIsDelivered'
    <3>1. wanted' = wanted /\ Len(wanted') = m /\ DOMAIN wanted' = 1 .. m
      BY <1>1, <1>2 DEF m
    <3>2. \A i \in Len(Got') + 1 .. m :
             \E j \in 1 .. n - 1 : Pipe!OfSession(queue'[j]) /\ queue'[j].no = wanted[i]
      BY <2>6, <2>8
    <3>3. \A j \in 1 .. n - 1 : Pipe!OfSession(queue'[j]) =>
             \E i \in Len(Got') + 1 .. m : wanted[i] = queue'[j].no
      BY <2>7, <2>8
    <3> QED BY <1>4, <1>7, <1>8, <2>5, <3>1, <3>2, <3>3 DEF Pipe!SessionIsDelivered, Got
  <2> QED BY <1>1, <1>5, <1>6, <2>9 DEF PipeInv, Pipe!NoSocketLeaks
<1>12. CASE ~Pipe!OfSession(d)
  <2>1. Got' = Got
    BY <1>1, <1>12 DEF Got
  <2>2. /\ \A i \in g + 1 .. m :
              \E j \in 1 .. n - 1 : Pipe!OfSession(queue'[j]) /\ queue'[j].no = wanted[i]
        /\ \A j \in 1 .. n - 1 :
              Pipe!OfSession(queue'[j]) => \E i \in g + 1 .. m : wanted[i] = queue'[j].no
    <3>1. ASSUME NEW j \in 1 .. n, Pipe!OfSession(queue[j])
          PROVE  j - 1 \in 1 .. n - 1 /\ queue'[j - 1] = queue[j]
      BY <1>2, <1>4, <1>12, <3>1 DEF d
    <3>2. ASSUME NEW j \in 1 .. n - 1
          PROVE  j + 1 \in 1 .. n /\ queue'[j] = queue[j + 1]
      BY <1>2, <1>4
    <3> QED BY <1>8, <3>1, <3>2
  <2>3. Pipe!SessionIsDelivered'
    BY <1>1, <1>2, <1>4, <1>7, <1>8, <2>1, <2>2
       DEF Pipe!SessionIsDelivered, Got, g, m
  <2> QED BY <1>1, <1>5, <1>6, <2>3 DEF PipeInv, Pipe!NoSocketLeaks
<1> QED BY <1>11, <1>12

\* A call begins with an empty buffer and ends with what it holds returned.
LEMMA PipeCall ==
    ASSUME Pipe!UdpAssumption, PipeInv,
           (\E max \in MaxCounts : Pipe!BeginReceive(max)) \/ Pipe!EndReceive
    PROVE  PipeInv'
<1>1. /\ Got' = Got /\ PipeType'
      /\ UNCHANGED <<sock, open, session, active, queue, arrivals, wanted>>
  <2>1. CASE \E max \in MaxCounts : Pipe!BeginReceive(max)
    <3>1. PICK max \in MaxCounts : Pipe!BeginReceive(max)
      BY <2>1
    <3>2. /\ call = Pipe!NoCall /\ call' = [max |-> max, out |-> << >>]
          /\ UNCHANGED <<sock, open, session, active, queue, arrivals, wanted, delivered>>
      BY <3>1 DEF Pipe!BeginReceive, Pipe!pipeVars
    <3>3. PipeType'
      BY <3>2 DEF PipeInv, PipeType, Pipe!UdpAssumption
    <3> QED BY <3>2, <3>3 DEF Got, Pipe!NoCall
  <2>2. CASE Pipe!EndReceive
    <3>1. /\ delivered' = delivered \o call.out /\ call' = [max |-> 0, out |-> << >>]
          /\ UNCHANGED <<sock, open, session, active, queue, arrivals, wanted>>
      BY <2>2 DEF Pipe!EndReceive, Pipe!pipeVars, Pipe!NoCall
    <3>2. delivered' \in Seq(Nat)
      BY <3>1, GotType DEF PipeInv, Got
    <3> QED BY <3>1, <3>2, ConcatEmptySeq DEF PipeInv, PipeType, Got
  <2> QED BY <2>1, <2>2
<1> QED BY <1>1 DEF PipeInv, NumbersCount, Pipe!NoSocketLeaks, Pipe!SessionIsDelivered, Got

LEMMA PipeStep ==
    ASSUME Pipe!UdpAssumption, PipeInv, [Pipe!Next]_pipeVars
    PROVE  PipeInv'
<1>1. CASE Pipe!SetSession \/ \E p \in Lobby : Pipe!Connect(p)
  <2>1. /\ session' \in BOOLEAN /\ active' \subseteq Pipe!Peers
        /\ UNCHANGED <<sock, open, queue, call, arrivals, wanted, delivered>>
    BY <1>1 DEF Pipe!SetSession, Pipe!Connect, Pipe!callVars, PipeInv, PipeType,
                Pipe!UdpAssumption
  <2>2. PipeType' /\ NumbersCount' /\ Pipe!NoSocketLeaks'
    BY <2>1 DEF PipeInv, PipeType, NumbersCount, Pipe!NoSocketLeaks
  <2>3. Pipe!SessionIsDelivered'
    BY <2>1 DEF PipeInv, Pipe!SessionIsDelivered
  <2> QED BY <2>2, <2>3 DEF PipeInv
<1>2. CASE UNCHANGED pipeVars
  <2>1. PipeType' /\ NumbersCount' /\ Pipe!NoSocketLeaks'
    BY <1>2 DEF pipeVars, PipeInv, PipeType, NumbersCount, Pipe!NoSocketLeaks
  <2>2. Pipe!SessionIsDelivered'
    BY <1>2 DEF pipeVars, PipeInv, Pipe!SessionIsDelivered
  <2> QED BY <2>1, <2>2 DEF PipeInv
<1> QED BY <1>1, <1>2, PipeHost, PipeShutdown, PipeArrive, PipeReceive, PipeCall DEF Pipe!Next

-----------------------------------------------------------------------------
(* StoreBuffers, for any number of jobs and of calls of vx_stream_init.      *)

Entry == [at : Stores!Locations, val : Nat]

\* A store of x waits in the buffer of t.
Waiting(t, x) == \E i \in 1 .. Len(buffer[t]) : buffer[t][i].at = x

LEMMA Greatest ==
    ASSUME NEW n \in Nat, NEW S \in SUBSET (1 .. n), S # {}
    PROVE  \E x \in S : \A y \in S : x >= y
<1> DEFINE T == {n - x : x \in S}
<1>1. T \subseteq Nat /\ T # {}
  <2>1. \A x \in S : n - x \in Nat
    OBVIOUS
  <2> QED BY <2>1
<1>2. PICK z \in T : \A y \in T : <<y, z>> \notin OpToRel(<, Nat)
  BY <1>1, NatLessThanWellFounded, WFMin
<1>3. \A y \in T : ~(y < z)
  BY <1>1, <1>2 DEF OpToRel
<1>4. PICK x \in S : z = n - x
  OBVIOUS
<1>5. ASSUME NEW y \in S PROVE x >= y
  <2>1. n - y \in T /\ ~(n - y < n - x)
    BY <1>3, <1>4
  <2> QED BY <2>1
<1> QED BY <1>5

\* A load finds the last of the thread's own stores that wait, or memory.
LEMMA LoadIs ==
    ASSUME NEW t, NEW x, buffer[t] \in Seq(Entry)
    PROVE  \/ ~Waiting(t, x) /\ Stores!Load(t, x) = memory[x]
           \/ \E i \in 1 .. Len(buffer[t]) :
                 /\ buffer[t][i].at = x /\ Stores!Load(t, x) = buffer[t][i].val
                 /\ \A j \in 1 .. Len(buffer[t]) : buffer[t][j].at = x => j <= i
<1> DEFINE I == {i \in 1 .. Len(buffer[t]) : buffer[t][i].at = x}
           own == IF I # {} THEN Stores!Max(I) ELSE 0
<1>1. Stores!Load(t, x) = IF own = 0 THEN memory[x] ELSE buffer[t][own].val
  BY DEF Stores!Load, Stores!SelectLastInSeq
<1>2. Len(buffer[t]) \in Nat
  BY LenProperties
<1>3. CASE I = {}
  BY <1>1, <1>3 DEF Waiting
<1>4. CASE I # {}
  <2>1. \E i \in I : \A j \in I : i >= j
    BY <1>2, <1>4, Greatest
  <2>2. own \in I /\ \A j \in I : own >= j
    BY <1>4, <2>1 DEF Stores!Max
  <2>3. own # 0 /\ own \in 1 .. Len(buffer[t])
    BY <1>2, <2>2
  <2>4. Stores!Load(t, x) = buffer[t][own].val
    BY <1>1, <2>3
  <2> HIDE DEF own
  <2> QED BY <1>2, <2>2, <2>3, <2>4
<1> QED BY <1>3, <1>4

\* What a thread stores, and with which values.
GameEntry == [at : {"status", "val", "win", "wsi_state", "device", "queue"}, val : Nat]
TransferEntry == [at : {"status", "busy"}, val : Nat]

StoreType ==
    /\ memory \in [Stores!Locations -> Nat] /\ DOMAIN buffer = Stores!Threads
    /\ buffer["game"] \in Seq(GameEntry) /\ buffer["transfer"] \in Seq(TransferEntry)
    /\ game \in {"run", "fill", "wait", "write", "open"}
    /\ transfer \in {"scan", "take", "check", "device", "value", "queue", "submit", "release"}
    /\ requests \in Nat /\ inits \in Nat /\ handled \in Nat
    /\ read \in [{"win", "val", "device", "queue"} -> Nat]

JobFields == {"status", "val", "win"}
NoJobWaits == \A x \in JobFields : ~Waiting("game", x)

\* The slot is free,
Free ==
    /\ memory["status"] = 0 /\ requests = handled /\ transfer = "scan"
    /\ NoJobWaits /\ ~Waiting("transfer", "status") /\ game # "fill"

\* or reserved and not yet published: the fields are in memory, or wait before the status;
Reserved ==
    /\ memory["status"] = 1 /\ requests = handled + 1 /\ transfer = "scan"
    /\ ~Waiting("transfer", "status")
    /\ \/ game = "fill" /\ NoJobWaits
       \/ /\ game # "fill"
          /\ \E s \in 1 .. Len(buffer["game"]) :
                /\ buffer["game"][s] = [at |-> "status", val |-> 2]
                /\ \A i \in 1 .. Len(buffer["game"]) :
                      LET e == buffer["game"][i]
                      IN  /\ e.at = "status" => i = s
                          /\ e.at \in {"val", "win"} => i < s /\ e.val = requests
          /\ \A x \in {"val", "win"} : Waiting("game", x) \/ memory[x] = requests

\* or published, until the transfer thread gives it back;
Published ==
    /\ memory["status"] = 2 /\ requests = handled + 1
    /\ memory["val"] = requests /\ memory["win"] = requests
    /\ NoJobWaits /\ ~Waiting("transfer", "status") /\ game # "fill"
    /\ transfer \in {"check", "device", "value", "queue", "submit", "release"} =>
          read.win = requests
    /\ transfer \in {"queue", "submit"} => read.val = requests

\* or given back, by a store that waits.
GivenBack ==
    /\ memory["status"] = 2 /\ requests = handled /\ transfer = "scan"
    /\ NoJobWaits /\ game # "fill"
    /\ \E s \in 1 .. Len(buffer["transfer"]) :
          /\ buffer["transfer"][s] = [at |-> "status", val |-> 0]
          /\ \A i \in 1 .. Len(buffer["transfer"]) :
                buffer["transfer"][i].at = "status" => i = s

JobInv == StoreType /\ (Free \/ Reserved \/ Published \/ GivenBack)

LEMMA JobInit == Stores!Init => JobInv
<1> SUFFICES ASSUME Stores!Init PROVE JobInv
  OBVIOUS
<1>1. /\ buffer["game"] = << >> /\ buffer["transfer"] = << >> /\ DOMAIN buffer = Stores!Threads
      /\ memory \in [Stores!Locations -> Nat] /\ memory["status"] = 0
      /\ read \in [{"win", "val", "device", "queue"} -> Nat]
  BY DEF Stores!Init, Stores!Threads, Stores!Locations
<1>2. StoreType
  <2>1. << >> \in Seq(GameEntry) /\ << >> \in Seq(TransferEntry)
    BY EmptySeq
  <2> QED BY <1>1, <2>1 DEF Stores!Init, StoreType
<1>3. Free
  BY <1>1 DEF Stores!Init, Free, NoJobWaits, JobFields, Waiting
<1> QED BY <1>2, <1>3 DEF JobInv

\* Entries of both kinds are entries.
LEMMA BuffersType ==
    ASSUME StoreType, NEW t \in Stores!Threads
    PROVE  /\ buffer[t] \in Seq(Entry) /\ Len(buffer[t]) \in Nat
           /\ t = "game" => \A i \in 1 .. Len(buffer[t]) : buffer[t][i] \in GameEntry
           /\ t = "transfer" => \A i \in 1 .. Len(buffer[t]) : buffer[t][i] \in TransferEntry
<1>1. GameEntry \subseteq Entry /\ TransferEntry \subseteq Entry
  BY DEF GameEntry, TransferEntry, Entry, Stores!Locations
<1>2. t = "game" \/ t = "transfer"
  BY DEF Stores!Threads
<1>3. buffer[t] \in Seq(Entry)
  BY <1>1, <1>2, SeqMonotonic DEF StoreType
<1> QED BY <1>3, LenProperties, ElementOfSeq DEF StoreType

\* What a store, or several, do to a buffer.
LEMMA Stored ==
    ASSUME StoreType, NEW t \in Stores!Threads, NEW puts, Stores!Store(t, puts),
           NEW E, buffer[t] \in Seq(E), puts \in Seq(E)
    PROVE  /\ buffer'[t] \in Seq(E) /\ DOMAIN buffer' = Stores!Threads
           /\ \A u \in Stores!Threads : u # t => buffer'[u] = buffer[u]
           /\ Len(buffer'[t]) = Len(buffer[t]) + Len(puts)
           /\ \A i \in 1 .. Len(buffer[t]) : buffer'[t][i] = buffer[t][i]
           /\ \A i \in 1 .. Len(puts) : buffer'[t][Len(buffer[t]) + i] = puts[i]
           /\ \A x : Waiting(t, x)' <=> Waiting(t, x) \/ \E i \in 1 .. Len(puts) : puts[i].at = x
<1> DEFINE b == buffer[t]
<1>1. /\ buffer'[t] = b \o puts /\ DOMAIN buffer' = Stores!Threads
      /\ \A u \in Stores!Threads : u # t => buffer'[u] = buffer[u]
  BY DEF Stores!Store, StoreType
<1>2. /\ b \o puts \in Seq(E) /\ Len(b \o puts) = Len(b) + Len(puts)
      /\ \A i \in 1 .. Len(b) + Len(puts) :
            (b \o puts)[i] = IF i <= Len(b) THEN b[i] ELSE puts[i - Len(b)]
  BY ConcatProperties
<1>3. Len(b) \in Nat /\ Len(puts) \in Nat
  BY LenProperties
<1>4. \A i \in 1 .. Len(b) : buffer'[t][i] = b[i]
  BY <1>1, <1>2, <1>3
<1>5. \A i \in 1 .. Len(puts) : buffer'[t][Len(b) + i] = puts[i]
  <2>1. \A i \in 1 .. Len(puts) : /\ Len(b) + i \in 1 .. Len(b) + Len(puts)
                                  /\ ~(Len(b) + i <= Len(b)) /\ (Len(b) + i) - Len(b) = i
    BY <1>3
  <2> QED BY <1>1, <1>2, <2>1
<1>6. ASSUME NEW x
      PROVE  Waiting(t, x)' <=> Waiting(t, x) \/ \E i \in 1 .. Len(puts) : puts[i].at = x
  <2>1. \A i \in 1 .. Len(b) + Len(puts) :
           i \in 1 .. Len(b) \/ (i - Len(b) \in 1 .. Len(puts) /\ i = Len(b) + (i - Len(b)))
    BY <1>3
  <2>2. /\ \A i \in 1 .. Len(b) : i \in 1 .. Len(b) + Len(puts)
        /\ \A i \in 1 .. Len(puts) : Len(b) + i \in 1 .. Len(b) + Len(puts)
    BY <1>3
  <2>3. Waiting(t, x)' <=> \E i \in 1 .. Len(b) + Len(puts) : buffer'[t][i].at = x
    BY <1>1, <1>2 DEF Waiting
  <2>4. ASSUME Waiting(t, x)'
        PROVE  Waiting(t, x) \/ \E i \in 1 .. Len(puts) : puts[i].at = x
    <3>1. PICK i \in 1 .. Len(b) + Len(puts) : buffer'[t][i].at = x
      BY <2>3, <2>4
    <3> QED BY <1>4, <1>5, <2>1, <3>1 DEF Waiting
  <2>5. ASSUME Waiting(t, x) \/ \E i \in 1 .. Len(puts) : puts[i].at = x
        PROVE  Waiting(t, x)'
    BY <1>4, <1>5, <2>2, <2>3, <2>5 DEF Waiting
  <2> QED BY <2>4, <2>5
<1> QED BY <1>1, <1>2, <1>4, <1>5, <1>6

LEMMA GameStored ==
    ASSUME StoreType, NEW puts \in Seq(GameEntry), Stores!Store("game", puts)
    PROVE  /\ buffer'["game"] \in Seq(GameEntry) /\ DOMAIN buffer' = Stores!Threads
           /\ buffer'["transfer"] = buffer["transfer"]
           /\ Len(buffer'["game"]) = Len(buffer["game"]) + Len(puts)
           /\ \A i \in 1 .. Len(buffer["game"]) : buffer'["game"][i] = buffer["game"][i]
           /\ \A i \in 1 .. Len(puts) : buffer'["game"][Len(buffer["game"]) + i] = puts[i]
           /\ \A x : Waiting("game", x)' <=>
                       Waiting("game", x) \/ \E i \in 1 .. Len(puts) : puts[i].at = x
<1>1. "game" \in Stores!Threads /\ "transfer" \in Stores!Threads
      /\ buffer["game"] \in Seq(GameEntry)
  BY DEF StoreType, Stores!Threads
<1> QED BY <1>1, Stored

LEMMA TransferStored ==
    ASSUME StoreType, NEW puts \in Seq(TransferEntry), Stores!Store("transfer", puts)
    PROVE  /\ buffer'["transfer"] \in Seq(TransferEntry) /\ DOMAIN buffer' = Stores!Threads
           /\ buffer'["game"] = buffer["game"]
           /\ Len(buffer'["transfer"]) = Len(buffer["transfer"]) + Len(puts)
           /\ \A i \in 1 .. Len(buffer["transfer"]) :
                 buffer'["transfer"][i] = buffer["transfer"][i]
           /\ \A i \in 1 .. Len(puts) :
                 buffer'["transfer"][Len(buffer["transfer"]) + i] = puts[i]
           /\ \A x : Waiting("transfer", x)' <=>
                       Waiting("transfer", x) \/ \E i \in 1 .. Len(puts) : puts[i].at = x
<1>1. "game" \in Stores!Threads /\ "transfer" \in Stores!Threads
      /\ buffer["transfer"] \in Seq(TransferEntry)
  BY DEF StoreType, Stores!Threads
<1> QED BY <1>1, Stored

\* The first store of a buffer reaches memory.
LEMMA DrainedIs ==
    ASSUME StoreType, NEW t \in Stores!Threads, Stores!Drain(t)
    PROVE  LET h == buffer[t][1]
           IN  /\ 1 \in 1 .. Len(buffer[t]) /\ h \in Entry
               /\ memory' = [memory EXCEPT ![h.at] = h.val]
               /\ memory'[h.at] = h.val
               /\ \A x \in Stores!Locations : x # h.at => memory'[x] = memory[x]
               /\ Len(buffer'[t]) = Len(buffer[t]) - 1
               /\ \A i \in 1 .. Len(buffer'[t]) :
                     i + 1 \in 1 .. Len(buffer[t]) /\ buffer'[t][i] = buffer[t][i + 1]
               /\ \A i \in 1 .. Len(buffer[t]) :
                     i # 1 => i - 1 \in 1 .. Len(buffer'[t])
                              /\ buffer'[t][i - 1] = buffer[t][i]
               /\ \A u \in Stores!Threads : u # t => buffer'[u] = buffer[u]
               /\ \A x : Waiting(t, x)' => Waiting(t, x)
               /\ \A x : Waiting(t, x) => Waiting(t, x)' \/ h.at = x
               /\ UNCHANGED Stores!threadVars
               /\ StoreType'
<1> DEFINE b == buffer[t]
           h == b[1]
<1>1. /\ b # << >> /\ memory' = [memory EXCEPT ![Head(b).at] = Head(b).val]
      /\ buffer'[t] = Tail(b) /\ DOMAIN buffer' = Stores!Threads
      /\ \A u \in Stores!Threads : u # t => buffer'[u] = buffer[u]
      /\ UNCHANGED Stores!threadVars
  BY DEF Stores!Drain, Stores!Drained, StoreType
<1>2. /\ b \in Seq(Entry) /\ Len(b) \in Nat \ {0} /\ Head(b) = h /\ Tail(b) \in Seq(Entry)
      /\ Len(Tail(b)) = Len(b) - 1 /\ \A i \in 1 .. Len(Tail(b)) : Tail(b)[i] = b[i + 1]
  BY <1>1, BuffersType, EmptySeq, HeadTailProperties
<1>3. 1 \in 1 .. Len(b) /\ h \in Entry /\ h.at \in Stores!Locations /\ h.val \in Nat
  <2>1. 1 \in 1 .. Len(b) /\ h \in Entry
    BY <1>2, ElementOfSeq
  <2> QED BY <2>1 DEF Entry
<1>4. /\ memory' = [memory EXCEPT ![h.at] = h.val] /\ memory'[h.at] = h.val
      /\ memory' \in [Stores!Locations -> Nat]
      /\ \A x \in Stores!Locations : x # h.at => memory'[x] = memory[x]
  BY <1>1, <1>2, <1>3 DEF StoreType
<1>5. \A i \in 1 .. Len(buffer'[t]) : i + 1 \in 1 .. Len(b) /\ buffer'[t][i] = b[i + 1]
  BY <1>1, <1>2
<1>6. \A i \in 1 .. Len(b) :
         i # 1 => i - 1 \in 1 .. Len(buffer'[t]) /\ buffer'[t][i - 1] = b[i]
  <2>1. \A i \in 1 .. Len(b) : i # 1 => i - 1 \in 1 .. Len(buffer'[t]) /\ (i - 1) + 1 = i
    BY <1>1, <1>2
  <2> QED BY <1>5, <2>1
<1>7. \A x : Waiting(t, x)' => Waiting(t, x)
  BY <1>5 DEF Waiting
<1>8. \A x : Waiting(t, x) => Waiting(t, x)' \/ h.at = x
  BY <1>6 DEF Waiting
<1>9. StoreType'
  <2>0. /\ \A q \in Seq(GameEntry) : q # << >> => Tail(q) \in Seq(GameEntry)
        /\ \A q \in Seq(TransferEntry) : q # << >> => Tail(q) \in Seq(TransferEntry)
    BY HeadTailProperties
  <2>1. buffer'["game"] \in Seq(GameEntry)
    BY <1>1, <2>0 DEF StoreType, Stores!Threads
  <2>2. buffer'["transfer"] \in Seq(TransferEntry)
    BY <1>1, <2>0 DEF StoreType, Stores!Threads
  <2> QED BY <1>1, <1>4, <2>1, <2>2 DEF StoreType, Stores!threadVars
<1> QED BY <1>1, <1>2, <1>3, <1>4, <1>5, <1>6, <1>7, <1>8, <1>9

LEMMA JobDrainGame == ASSUME JobInv, Stores!Drain("game") PROVE JobInv'
<1> DEFINE b == buffer["game"]
           h == b[1]
<1>1. "game" \in Stores!Threads /\ "transfer" \in Stores!Threads /\ StoreType
  BY DEF JobInv, Stores!Threads
<1>2. /\ 1 \in 1 .. Len(b) /\ h \in Entry /\ memory'[h.at] = h.val
      /\ \A x \in Stores!Locations : x # h.at => memory'[x] = memory[x]
      /\ Len(buffer'["game"]) = Len(b) - 1
      /\ \A i \in 1 .. Len(buffer'["game"]) :
            i + 1 \in 1 .. Len(b) /\ buffer'["game"][i] = b[i + 1]
      /\ \A i \in 1 .. Len(b) :
            i # 1 => i - 1 \in 1 .. Len(buffer'["game"]) /\ buffer'["game"][i - 1] = b[i]
      /\ buffer'["transfer"] = buffer["transfer"]
      /\ \A x : Waiting("game", x)' => Waiting("game", x)
      /\ \A x : Waiting("game", x) => Waiting("game", x)' \/ h.at = x
      /\ UNCHANGED <<game, transfer, requests, inits, read, handled>> /\ StoreType'
  BY <1>1, DrainedIs DEF Stores!threadVars
<1>3. {"status", "val", "win"} \subseteq Stores!Locations
  BY DEF Stores!Locations
<1>4. \A x : Waiting("transfer", x)' <=> Waiting("transfer", x)
  BY <1>2 DEF Waiting
<1>5. NoJobWaits => /\ NoJobWaits'
                    /\ \A x \in JobFields : memory'[x] = memory[x]
  BY <1>2, <1>3 DEF NoJobWaits, JobFields, Waiting
<1> HIDE DEF b, h
<1>6. CASE Free
  BY <1>2, <1>4, <1>5, <1>6 DEF JobInv, Free, JobFields
<1>7. CASE Published
  BY <1>2, <1>4, <1>5, <1>7 DEF JobInv, Published, JobFields
<1>8. CASE GivenBack
  BY <1>2, <1>4, <1>5, <1>8 DEF JobInv, GivenBack, JobFields
<1>9. CASE Reserved
  <2>1. CASE game = "fill"
    <3>1. NoJobWaits /\ NoJobWaits' /\ memory'["status"] = memory["status"]
      BY <1>5, <1>9, <2>1 DEF Reserved, JobFields
    <3> QED BY <1>2, <1>4, <1>9, <2>1, <3>1 DEF JobInv, Reserved
  <2>2. CASE game # "fill"
    <3>1. PICK s \in 1 .. Len(b) :
            /\ b[s] = [at |-> "status", val |-> 2]
            /\ \A i \in 1 .. Len(b) :
                  /\ b[i].at = "status" => i = s
                  /\ b[i].at \in {"val", "win"} => i < s /\ b[i].val = requests
      BY <1>9, <2>2 DEF Reserved, b
    <3>2. \A x \in {"val", "win"} : Waiting("game", x) \/ memory[x] = requests
      BY <1>9, <2>2 DEF Reserved
    <3>3. /\ memory["status"] = 1 /\ requests = handled + 1 /\ transfer = "scan"
          /\ ~Waiting("transfer", "status")
      BY <1>9 DEF Reserved
    <3>4. Len(b) \in Nat
      BY <1>1, BuffersType DEF b
    <3>5. CASE s = 1
      <4>1. h.at = "status" /\ h.val = 2
        BY <3>1, <3>5 DEF h
      <4>2. \A i \in 1 .. Len(b) : b[i].at \notin {"val", "win"}
        BY <3>1, <3>4, <3>5
      <4>3. memory["val"] = requests /\ memory["win"] = requests
        BY <3>2, <4>2 DEF Waiting, b
      <4>4. memory'["status"] = 2 /\ memory'["val"] = requests /\ memory'["win"] = requests
        BY <1>2, <1>3, <4>1, <4>3
      <4>5. \A i \in 1 .. Len(buffer'["game"]) : buffer'["game"][i].at \notin JobFields
        <5> SUFFICES ASSUME NEW i \in 1 .. Len(buffer'["game"])
                     PROVE  buffer'["game"][i].at \notin JobFields
          OBVIOUS
        <5>1. i + 1 \in 1 .. Len(b) /\ buffer'["game"][i] = b[i + 1] /\ i + 1 # 1
          BY <1>2, <3>4
        <5>2. b[i + 1].at # "status" /\ b[i + 1].at \notin {"val", "win"}
          BY <3>1, <3>5, <4>2, <5>1
        <5> QED BY <5>1, <5>2 DEF JobFields
      <4>6. NoJobWaits'
        BY <4>5 DEF NoJobWaits, Waiting
      <4>7. Published'
        BY <1>2, <1>4, <2>2, <3>3, <4>4, <4>6 DEF Published
      <4> QED BY <1>2, <4>7 DEF JobInv
    <3>6. CASE s # 1
      <4>1. s - 1 \in 1 .. Len(buffer'["game"])
             /\ buffer'["game"][s - 1] = [at |-> "status", val |-> 2]
        BY <1>2, <3>1, <3>6
      <4>2. \A i \in 1 .. Len(buffer'["game"]) :
               /\ buffer'["game"][i].at = "status" => i = s - 1
               /\ buffer'["game"][i].at \in {"val", "win"} =>
                     i < s - 1 /\ buffer'["game"][i].val = requests
        <5> SUFFICES ASSUME NEW i \in 1 .. Len(buffer'["game"])
                     PROVE  /\ buffer'["game"][i].at = "status" => i = s - 1
                            /\ buffer'["game"][i].at \in {"val", "win"} =>
                                  i < s - 1 /\ buffer'["game"][i].val = requests
          OBVIOUS
        <5>1. i + 1 \in 1 .. Len(b) /\ buffer'["game"][i] = b[i + 1] /\ i \in Nat
          BY <1>2, <3>4
        <5>2. /\ b[i + 1].at = "status" => i + 1 = s
              /\ b[i + 1].at \in {"val", "win"} => i + 1 < s /\ b[i + 1].val = requests
          BY <3>1, <5>1
        <5> QED BY <3>4, <5>1, <5>2
      <4>3. h.at # "status" /\ (h.at \in {"val", "win"} => h.val = requests)
        BY <1>2, <3>1, <3>6 DEF h
      <4>4. memory'["status"] = 1
        BY <1>2, <1>3, <3>3, <4>3
      <4>5. \A x \in {"val", "win"} : Waiting("game", x)' \/ memory'[x] = requests
        BY <1>2, <1>3, <3>2, <4>3
      <4>6. Reserved'
        BY <1>2, <1>4, <2>2, <3>3, <4>1, <4>2, <4>4, <4>5 DEF Reserved
      <4> QED BY <1>2, <4>6 DEF JobInv
    <3> QED BY <3>5, <3>6
  <2> QED BY <2>1, <2>2
<1> QED BY <1>6, <1>7, <1>8, <1>9 DEF JobInv

LEMMA JobDrainTransfer == ASSUME JobInv, Stores!Drain("transfer") PROVE JobInv'
<1> DEFINE b == buffer["transfer"]
           h == b[1]
<1>1. "game" \in Stores!Threads /\ "transfer" \in Stores!Threads /\ StoreType
  BY DEF JobInv, Stores!Threads
<1>2. /\ 1 \in 1 .. Len(b) /\ h \in Entry /\ memory'[h.at] = h.val
      /\ \A x \in Stores!Locations : x # h.at => memory'[x] = memory[x]
      /\ Len(buffer'["transfer"]) = Len(b) - 1
      /\ \A i \in 1 .. Len(buffer'["transfer"]) :
            i + 1 \in 1 .. Len(b) /\ buffer'["transfer"][i] = b[i + 1]
      /\ \A i \in 1 .. Len(b) :
            i # 1 => i - 1 \in 1 .. Len(buffer'["transfer"])
                     /\ buffer'["transfer"][i - 1] = b[i]
      /\ buffer'["game"] = buffer["game"]
      /\ \A x : Waiting("transfer", x)' => Waiting("transfer", x)
      /\ UNCHANGED <<game, transfer, requests, inits, read, handled>> /\ StoreType'
  BY <1>1, DrainedIs DEF Stores!threadVars
<1>3. /\ {"status", "val", "win"} \subseteq Stores!Locations
      /\ h.at \in {"status", "busy"}
  BY <1>1, <1>2, BuffersType DEF Stores!Locations, TransferEntry
<1>4. \A x : Waiting("game", x)' <=> Waiting("game", x)
  BY <1>2 DEF Waiting
<1>5. memory'["val"] = memory["val"] /\ memory'["win"] = memory["win"]
  BY <1>2, <1>3
<1>6. ~Waiting("transfer", "status") =>
         ~Waiting("transfer", "status")' /\ memory'["status"] = memory["status"]
  BY <1>2, <1>3 DEF Waiting
<1> HIDE DEF b, h
<1>7. CASE Free
  BY <1>2, <1>4, <1>6, <1>7 DEF JobInv, Free, NoJobWaits
<1>8. CASE Published
  BY <1>2, <1>4, <1>5, <1>6, <1>8 DEF JobInv, Published, NoJobWaits
<1>9. CASE Reserved
  BY <1>2, <1>4, <1>5, <1>6, <1>9 DEF JobInv, Reserved, NoJobWaits
<1>10. CASE GivenBack
  <2>1. PICK s \in 1 .. Len(b) :
          /\ b[s] = [at |-> "status", val |-> 0]
          /\ \A i \in 1 .. Len(b) : b[i].at = "status" => i = s
    BY <1>10 DEF GivenBack, b
  <2>2. Len(b) \in Nat
    BY <1>1, BuffersType DEF b
  <2>3. CASE s = 1
    <3>1. memory'["status"] = 0
      BY <1>2, <2>1, <2>3 DEF h
    <3>2. ~Waiting("transfer", "status")'
      <4>1. \A i \in 1 .. Len(buffer'["transfer"]) :
               i + 1 \in 1 .. Len(b) /\ buffer'["transfer"][i] = b[i + 1] /\ i + 1 # 1
        BY <1>2, <2>2
      <4> QED BY <2>1, <2>3, <4>1 DEF Waiting
    <3> QED BY <1>2, <1>4, <1>10, <3>1, <3>2 DEF JobInv, Free, GivenBack, NoJobWaits
  <2>4. CASE s # 1
    <3>1. h.at # "status"
      BY <1>2, <2>1, <2>4 DEF h
    <3>2. memory'["status"] = memory["status"]
      BY <1>2, <1>3, <3>1
    <3>3. s - 1 \in 1 .. Len(buffer'["transfer"])
          /\ buffer'["transfer"][s - 1] = [at |-> "status", val |-> 0]
      BY <1>2, <2>1, <2>4
    <3>4. \A i \in 1 .. Len(buffer'["transfer"]) :
             buffer'["transfer"][i].at = "status" => i = s - 1
      <4>1. \A i \in 1 .. Len(buffer'["transfer"]) :
               /\ i + 1 \in 1 .. Len(b) /\ buffer'["transfer"][i] = b[i + 1]
               /\ (i + 1 = s => i = s - 1)
        BY <1>2, <2>2
      <4> QED BY <2>1, <4>1
    <3>5. GivenBack'
      BY <1>2, <1>4, <1>10, <3>2, <3>3, <3>4 DEF GivenBack, NoJobWaits
    <3> QED BY <1>2, <3>5 DEF JobInv
  <2> QED BY <2>3, <2>4
<1> QED BY <1>7, <1>8, <1>9, <1>10 DEF JobInv

\* Stores that are not of a job.
LEMMA JobGameStores ==
    ASSUME JobInv, NEW puts \in Seq(GameEntry), Stores!Store("game", puts),
           \A i \in 1 .. Len(puts) : puts[i].at \notin JobFields,
           game # "fill", game' \in {"run", "wait", "write", "open"}, inits' \in Nat,
           UNCHANGED <<memory, requests, transfer, read, handled>>
    PROVE  JobInv'
<1> DEFINE b == buffer["game"]
<1>1. "game" \in Stores!Threads /\ "transfer" \in Stores!Threads /\ b \in Seq(GameEntry)
      /\ StoreType
  BY DEF JobInv, StoreType, Stores!Threads
<1>2. /\ buffer'["game"] \in Seq(GameEntry) /\ DOMAIN buffer' = Stores!Threads
      /\ buffer'["transfer"] = buffer["transfer"]
      /\ Len(buffer'["game"]) = Len(b) + Len(puts)
      /\ \A i \in 1 .. Len(b) : buffer'["game"][i] = b[i]
      /\ \A i \in 1 .. Len(puts) : buffer'["game"][Len(b) + i] = puts[i]
      /\ \A x : Waiting("game", x)' <=>
                  Waiting("game", x) \/ \E i \in 1 .. Len(puts) : puts[i].at = x
  BY <1>1, GameStored
<1>3. StoreType'
  BY <1>2 DEF JobInv, StoreType
<1>4. \A x \in JobFields : Waiting("game", x)' <=> Waiting("game", x)
  BY <1>2
<1>5. \A x : Waiting("transfer", x)' <=> Waiting("transfer", x)
  BY <1>2 DEF Waiting
<1>6. CASE Free
  BY <1>3, <1>4, <1>5, <1>6 DEF JobInv, Free, NoJobWaits
<1>7. CASE Published
  BY <1>3, <1>4, <1>5, <1>7 DEF JobInv, Published, NoJobWaits
<1>8. CASE GivenBack
  BY <1>2, <1>3, <1>4, <1>5, <1>8 DEF JobInv, GivenBack, NoJobWaits
<1>9. CASE Reserved
  <2>1. PICK s \in 1 .. Len(b) :
          /\ b[s] = [at |-> "status", val |-> 2]
          /\ \A i \in 1 .. Len(b) :
                /\ b[i].at = "status" => i = s
                /\ b[i].at \in {"val", "win"} => i < s /\ b[i].val = requests
    BY <1>9 DEF Reserved
  <2>2. Len(b) \in Nat /\ Len(puts) \in Nat
    BY <1>1, LenProperties
  <2>3. s \in 1 .. Len(buffer'["game"]) /\ buffer'["game"][s] = [at |-> "status", val |-> 2]
    BY <1>2, <2>1, <2>2
  <2>4. ASSUME NEW i \in 1 .. Len(buffer'["game"])
        PROVE  LET e == buffer'["game"][i]
               IN  /\ e.at = "status" => i = s
                   /\ e.at \in {"val", "win"} => i < s /\ e.val = requests'
    <3>1. CASE i \in 1 .. Len(b)
      BY <1>2, <2>1, <3>1
    <3>2. CASE i \notin 1 .. Len(b)
      <4>1. i - Len(b) \in 1 .. Len(puts) /\ i = Len(b) + (i - Len(b))
        BY <1>2, <2>2, <3>2
      <4> QED BY <1>2, <4>1 DEF JobFields
    <3> QED BY <3>1, <3>2
  <2>5. Reserved'
    BY <1>4, <1>5, <1>9, <2>3, <2>4 DEF Reserved, JobFields
  <2> QED BY <1>3, <2>5 DEF JobInv
<1> QED BY <1>6, <1>7, <1>8, <1>9 DEF JobInv

LEMMA JobReserve == ASSUME JobInv, Stores!ReserveSlot PROVE JobInv'
<1>1. /\ game = "run" /\ game' = "fill" /\ buffer["game"] = << >> /\ memory["status"] = 0
      /\ memory' = [memory EXCEPT !["status"] = 1] /\ requests' = requests + 1
      /\ UNCHANGED <<transfer, read, handled, buffer, inits>>
  BY DEF Stores!ReserveSlot, Stores!GameGoes, Stores!Drained
<1>2. Free
  BY <1>1 DEF JobInv, Free, Reserved, Published, GivenBack
<1>3. memory' \in [Stores!Locations -> Nat] /\ memory'["status"] = 1
  <2>1. memory \in [Stores!Locations -> Nat] /\ "status" \in Stores!Locations
    BY DEF JobInv, StoreType, Stores!Locations
  <2> QED BY <1>1, <2>1
<1>4. StoreType'
  <2>1. StoreType
    BY DEF JobInv
  <2>2. requests' \in Nat /\ game' \in {"run", "fill", "wait", "write", "open"}
    BY <1>1, <2>1 DEF StoreType
  <2>3. UNCHANGED <<transfer, read, handled, buffer, inits>>
    BY <1>1
  <2> QED BY <1>3, <2>1, <2>2, <2>3 DEF StoreType
<1>5. Reserved'
  BY <1>1, <1>2, <1>3 DEF Reserved, Free, NoJobWaits, Waiting
<1> QED BY <1>4, <1>5 DEF JobInv

LEMMA JobFill == ASSUME JobInv, Stores!FillSlot PROVE JobInv'
<1> DEFINE b == buffer["game"]
           puts == Stores!JobStores(requests)
<1>1. /\ game = "fill" /\ game' = "run" /\ Stores!Store("game", puts)
      /\ UNCHANGED <<transfer, read, handled, memory, requests, inits>>
  BY DEF Stores!FillSlot, Stores!GameGoes
<1>2. Reserved /\ StoreType
  BY <1>1 DEF JobInv, Free, Reserved, Published, GivenBack
<1>3. "game" \in Stores!Threads /\ "transfer" \in Stores!Threads /\ b \in Seq(GameEntry)
  BY <1>2 DEF StoreType, Stores!Threads
<1>4. /\ puts \in Seq(GameEntry) /\ Len(puts) = 3
      /\ puts[1] = [at |-> "val", val |-> requests]
      /\ puts[2] = [at |-> "win", val |-> requests]
      /\ puts[3] = [at |-> "status", val |-> 2]
  BY <1>2 DEF Stores!JobStores, Stores!Put, GameEntry, StoreType
<1> HIDE DEF puts
<1>5. /\ buffer'["game"] \in Seq(GameEntry) /\ DOMAIN buffer' = Stores!Threads
      /\ buffer'["transfer"] = buffer["transfer"]
      /\ Len(buffer'["game"]) = Len(b) + 3
      /\ \A i \in 1 .. Len(b) : buffer'["game"][i] = b[i]
      /\ \A i \in 1 .. 3 : buffer'["game"][Len(b) + i] = puts[i]
  <2>1. /\ buffer'["game"] \in Seq(GameEntry) /\ DOMAIN buffer' = Stores!Threads
        /\ buffer'["transfer"] = buffer["transfer"]
        /\ Len(buffer'["game"]) = Len(b) + Len(puts)
        /\ \A i \in 1 .. Len(b) : buffer'["game"][i] = b[i]
        /\ \A i \in 1 .. Len(puts) : buffer'["game"][Len(b) + i] = puts[i]
    BY <1>1, <1>2, <1>4, GameStored
  <2> QED BY <1>4, <2>1
<1>6. StoreType'
  BY <1>1, <1>2, <1>5 DEF StoreType
<1>7. Len(b) \in Nat /\ \A i \in 1 .. Len(b) : b[i].at \notin JobFields
  BY <1>1, <1>2, <1>3, LenProperties DEF Reserved, NoJobWaits, Waiting
<1>8. ASSUME NEW i \in 1 .. Len(buffer'["game"])
      PROVE  LET e == buffer'["game"][i]
             IN  /\ e.at = "status" => i = Len(b) + 3
                 /\ e.at \in {"val", "win"} => i < Len(b) + 3 /\ e.val = requests'
  <2>1. CASE i \in 1 .. Len(b)
    BY <1>5, <1>7, <2>1 DEF JobFields
  <2>2. CASE i = Len(b) + 1
    BY <1>1, <1>4, <1>5, <1>7, <2>2
  <2>3. CASE i = Len(b) + 2
    BY <1>1, <1>4, <1>5, <1>7, <2>3
  <2>4. CASE i = Len(b) + 3
    BY <1>4, <1>5, <1>7, <2>4
  <2> QED BY <1>5, <1>7, <2>1, <2>2, <2>3, <2>4
<1>9. /\ Len(b) + 3 \in 1 .. Len(buffer'["game"])
      /\ buffer'["game"][Len(b) + 3] = [at |-> "status", val |-> 2]
      /\ Waiting("game", "val")' /\ Waiting("game", "win")'
  <2>1. /\ Len(b) + 1 \in 1 .. Len(buffer'["game"]) /\ Len(b) + 2 \in 1 .. Len(buffer'["game"])
        /\ Len(b) + 3 \in 1 .. Len(buffer'["game"])
    BY <1>5, <1>7
  <2>2. /\ buffer'["game"][Len(b) + 1].at = "val" /\ buffer'["game"][Len(b) + 2].at = "win"
        /\ buffer'["game"][Len(b) + 3] = [at |-> "status", val |-> 2]
    BY <1>4, <1>5
  <2> QED BY <2>1, <2>2 DEF Waiting
<1>10. ~Waiting("transfer", "status")'
  BY <1>2, <1>5 DEF Reserved, Waiting
<1>11. Reserved'
  BY <1>1, <1>2, <1>8, <1>9, <1>10 DEF Reserved
<1> QED BY <1>6, <1>11 DEF JobInv

LEMMA JobGame == ASSUME JobInv, Stores!Game PROVE JobInv'
<1>1. CASE Stores!BeginInit
  <2>1. /\ Stores!Store("game", <<[at |-> "wsi_state", val |-> 0]>>)
        /\ game = "run" /\ game' = "wait" /\ inits' = inits + 1
        /\ UNCHANGED <<memory, requests, transfer, read, handled>>
    BY <1>1 DEF Stores!BeginInit, Stores!GameGoes, Stores!Put
  <2>2. <<[at |-> "wsi_state", val |-> 0]>> \in Seq(GameEntry)
    BY DEF GameEntry
  <2>3. inits' \in Nat
    BY <2>1 DEF JobInv, StoreType
  <2> DEFINE puts == <<[at |-> "wsi_state", val |-> 0]>>
  <2>4. /\ puts \in Seq(GameEntry) /\ Stores!Store("game", puts)
        /\ \A i \in 1 .. Len(puts) : puts[i].at \notin JobFields
    BY <2>1, <2>2 DEF JobFields
  <2> HIDE DEF puts
  <2> QED BY <2>1, <2>3, <2>4, JobGameStores
<1>2. CASE Stores!WriteWindow
  <2> DEFINE puts == <<[at |-> "device", val |-> inits], [at |-> "queue", val |-> inits]>>
  <2>1. /\ Stores!Store("game", puts)
        /\ game = "write" /\ game' = "open"
        /\ UNCHANGED <<memory, requests, inits, transfer, read, handled>>
    BY <1>2 DEF Stores!WriteWindow, Stores!GameGoes, Stores!Put
  <2>2. /\ puts \in Seq(GameEntry) /\ inits' \in Nat
        /\ \A i \in 1 .. Len(puts) : puts[i].at \notin JobFields
    BY <2>1 DEF GameEntry, JobInv, StoreType, JobFields
  <2> HIDE DEF puts
  <2> QED BY <2>1, <2>2, JobGameStores
<1>3. CASE Stores!OpenStream
  <2>1. /\ Stores!Store("game", <<[at |-> "wsi_state", val |-> 1]>>)
        /\ game = "open" /\ game' = "run"
        /\ UNCHANGED <<memory, requests, inits, transfer, read, handled>>
    BY <1>3 DEF Stores!OpenStream, Stores!GameGoes, Stores!Put
  <2>2. <<[at |-> "wsi_state", val |-> 1]>> \in Seq(GameEntry)
    BY DEF GameEntry
  <2> DEFINE puts == <<[at |-> "wsi_state", val |-> 1]>>
  <2>3. /\ puts \in Seq(GameEntry) /\ Stores!Store("game", puts) /\ inits' \in Nat
        /\ \A i \in 1 .. Len(puts) : puts[i].at \notin JobFields
    BY <2>1, <2>2 DEF JobFields, JobInv, StoreType
  <2> HIDE DEF puts
  <2> QED BY <2>1, <2>3, JobGameStores
<1>4. CASE Stores!WaitTransfer
  <2>1. /\ game = "wait" /\ game' = "write"
        /\ UNCHANGED <<memory, buffer, requests, inits, transfer, read, handled>>
    BY <1>4 DEF Stores!WaitTransfer, Stores!GameGoes
  <2>2. StoreType'
    BY <2>1 DEF JobInv, StoreType
  <2> QED BY <2>1, <2>2 DEF JobInv, Free, Reserved, Published, GivenBack, NoJobWaits, Waiting
<1> QED BY <1>1, <1>2, <1>3, <1>4, JobReserve, JobFill DEF Stores!Game

\* A load by the transfer thread of what it never stores finds memory.
LEMMA TransferLoads ==
    ASSUME StoreType, NEW x \in {"val", "win", "wsi_state", "device", "queue"}
    PROVE  Stores!Load("transfer", x) = memory[x] /\ memory[x] \in Nat
<1>1. /\ "transfer" \in Stores!Threads /\ x \in Stores!Locations
      /\ memory[x] \in Nat
  BY DEF Stores!Threads, Stores!Locations, StoreType
<1>2. /\ buffer["transfer"] \in Seq(Entry)
      /\ \A i \in 1 .. Len(buffer["transfer"]) : buffer["transfer"][i].at # x
  BY <1>1, BuffersType DEF TransferEntry
<1> QED BY <1>1, <1>2, LoadIs DEF Waiting

\* The transfer thread takes a step that stores nothing.
LEMMA JobLoads ==
    ASSUME JobInv, Published, transfer # "scan",
           read' \in [{"win", "val", "device", "queue"} -> Nat],
           transfer' \in {"check", "device", "value", "queue", "submit", "release"},
           transfer = "take" \/ read'.win = read.win,
           transfer = "take" => read'.win = requests,
           transfer' \in {"queue", "submit"} => read'.val = requests,
           UNCHANGED <<memory, buffer, game, requests, inits, handled>>
    PROVE  JobInv'
<1>1. StoreType'
  BY DEF JobInv, StoreType
<1>2. read'.win = requests
  BY DEF JobInv, StoreType, Published
<1>3. Published'
  BY <1>2 DEF Published, NoJobWaits, Waiting
<1> QED BY <1>1, <1>3 DEF JobInv

LEMMA JobTransfer == ASSUME JobInv, Stores!Transfer PROVE JobInv'
<1>1. StoreType /\ "game" \in Stores!Threads /\ "transfer" \in Stores!Threads
  BY DEF JobInv, Stores!Threads
<1>2. CASE Stores!ScanSlot
  <2>1. /\ transfer = "scan" /\ transfer' = "take" /\ Stores!Load("transfer", "status") = 2
        /\ UNCHANGED <<game, requests, inits, memory, buffer, read, handled>>
    BY <1>2 DEF Stores!ScanSlot, Stores!TransferGoes
  <2>2. /\ buffer["transfer"] \in Seq(Entry)
        /\ \/ ~Waiting("transfer", "status") /\ memory["status"] = 2
           \/ \E i \in 1 .. Len(buffer["transfer"]) :
                 buffer["transfer"][i].at = "status" /\ buffer["transfer"][i].val = 2
    BY <1>1, <2>1, BuffersType, LoadIs
  <2>3. Published
    BY <2>2 DEF JobInv, Free, Reserved, Published, GivenBack, Waiting
  <2>4. StoreType' /\ Published'
    BY <1>1, <2>1, <2>3 DEF StoreType, Published, NoJobWaits, Waiting
  <2> QED BY <2>4 DEF JobInv
<1>3. ASSUME transfer # "scan" PROVE Published
  BY <1>3 DEF JobInv, Free, Reserved, GivenBack
<1>4. CASE Stores!RaiseBusy
  <2> DEFINE puts == <<[at |-> "busy", val |-> 1]>>
  <2>1. /\ transfer = "take" /\ transfer' = "check" /\ Stores!Store("transfer", puts)
        /\ read' = [read EXCEPT !.win = Stores!Load("transfer", "win")]
        /\ UNCHANGED <<game, requests, inits, memory, handled>>
    BY <1>4 DEF Stores!RaiseBusy, Stores!TransferGoes, Stores!Raised, Stores!Put
  <2>2. Published /\ memory["win"] = requests
    BY <1>3, <2>1 DEF Published
  <2>3. read' \in [{"win", "val", "device", "queue"} -> Nat] /\ read'.win = requests
    BY <1>1, <2>1, <2>2, TransferLoads DEF StoreType
  <2>4. /\ puts \in Seq(TransferEntry) /\ buffer["transfer"] \in Seq(TransferEntry)
        /\ Len(puts) = 1 /\ puts[1].at = "busy"
    BY <1>1 DEF TransferEntry, StoreType
  <2> HIDE DEF puts
  <2>5. /\ buffer'["transfer"] \in Seq(TransferEntry) /\ DOMAIN buffer' = Stores!Threads
        /\ buffer'["game"] = buffer["game"]
        /\ Waiting("transfer", "status")' <=>
              Waiting("transfer", "status") \/ \E i \in 1 .. Len(puts) : puts[i].at = "status"
    BY <1>1, <2>1, <2>4, TransferStored
  <2>6. StoreType'
    BY <1>1, <2>1, <2>3, <2>5 DEF StoreType
  <2>7. ~Waiting("transfer", "status")' /\ NoJobWaits'
    BY <2>2, <2>4, <2>5 DEF Published, NoJobWaits, Waiting
  <2>8. Published'
    BY <2>1, <2>2, <2>3, <2>7 DEF Published
  <2> QED BY <2>6, <2>8 DEF JobInv
<1>5. CASE Stores!CheckWindow
  <2>1. /\ transfer = "check" /\ transfer' \in {"release", "device"}
        /\ UNCHANGED <<game, requests, inits, memory, buffer, read, handled>>
    BY <1>5 DEF Stores!CheckWindow, Stores!TransferGoes
  <2>2. Published /\ read \in [{"win", "val", "device", "queue"} -> Nat]
    BY <1>1, <1>3, <2>1 DEF StoreType
  <2> QED BY <2>1, <2>2, JobLoads
<1>6. CASE Stores!LoadDevice
  <2>1. /\ transfer = "device" /\ transfer' = "value"
        /\ read' = [read EXCEPT !.device = Stores!Load("transfer", "device")]
        /\ UNCHANGED <<game, requests, inits, memory, buffer, handled>>
    BY <1>6 DEF Stores!LoadDevice, Stores!TransferGoes
  <2>2. read' \in [{"win", "val", "device", "queue"} -> Nat] /\ read'.win = read.win
    BY <1>1, <2>1, TransferLoads DEF StoreType
  <2> QED BY <1>3, <2>1, <2>2, JobLoads
<1>7. CASE Stores!LoadValue
  <2>1. /\ transfer = "value" /\ transfer' = "queue"
        /\ read' = [read EXCEPT !.val = Stores!Load("transfer", "val")]
        /\ UNCHANGED <<game, requests, inits, memory, buffer, handled>>
    BY <1>7 DEF Stores!LoadValue, Stores!TransferGoes
  <2>2. Published /\ memory["val"] = requests
    BY <1>3, <2>1 DEF Published
  <2>3. /\ read' \in [{"win", "val", "device", "queue"} -> Nat] /\ read'.win = read.win
        /\ read'.val = requests
    BY <1>1, <2>1, <2>2, TransferLoads DEF StoreType
  <2> QED BY <2>1, <2>2, <2>3, JobLoads
<1>8. CASE Stores!LoadQueue
  <2>1. /\ transfer = "queue" /\ transfer' = "submit"
        /\ read' = [read EXCEPT !.queue = Stores!Load("transfer", "queue")]
        /\ UNCHANGED <<game, requests, inits, memory, buffer, handled>>
    BY <1>8 DEF Stores!LoadQueue, Stores!TransferGoes
  <2>2. Published /\ read.val = requests
    BY <1>3, <2>1 DEF Published
  <2>3. /\ read' \in [{"win", "val", "device", "queue"} -> Nat] /\ read'.win = read.win
        /\ read'.val = requests
    BY <1>1, <2>1, <2>2, TransferLoads DEF StoreType
  <2> QED BY <2>1, <2>2, <2>3, JobLoads
<1>9. CASE Stores!ReleaseSlot
  <2> DEFINE puts == <<[at |-> "status", val |-> 0], [at |-> "busy", val |-> 0]>>
             b == buffer["transfer"]
  <2>1. /\ transfer \in {"submit", "release"} /\ transfer' = "scan"
        /\ handled' = handled + 1 /\ Stores!Store("transfer", puts)
        /\ UNCHANGED <<game, requests, inits, memory, read>>
    BY <1>9 DEF Stores!ReleaseSlot, Stores!TransferGoes, Stores!Released, Stores!Put
  <2>2. Published
    BY <1>3, <2>1
  <2>3. /\ puts \in Seq(TransferEntry) /\ b \in Seq(TransferEntry) /\ Len(puts) = 2
        /\ puts[1] = [at |-> "status", val |-> 0] /\ puts[2].at = "busy"
        /\ Len(b) \in Nat
    BY <1>1, LenProperties DEF TransferEntry, StoreType
  <2> HIDE DEF puts
  <2>4. /\ buffer'["transfer"] \in Seq(TransferEntry) /\ DOMAIN buffer' = Stores!Threads
        /\ buffer'["game"] = buffer["game"] /\ Len(buffer'["transfer"]) = Len(b) + Len(puts)
        /\ \A i \in 1 .. Len(b) : buffer'["transfer"][i] = b[i]
        /\ \A i \in 1 .. Len(puts) : buffer'["transfer"][Len(b) + i] = puts[i]
    BY <1>1, <2>1, <2>3, TransferStored
  <2>5. StoreType'
    BY <1>1, <2>1, <2>4 DEF StoreType
  <2>6. \A i \in 1 .. Len(b) : b[i].at # "status"
    BY <2>2 DEF Published, Waiting
  <2>7. /\ Len(b) + 1 \in 1 .. Len(buffer'["transfer"])
        /\ buffer'["transfer"][Len(b) + 1] = [at |-> "status", val |-> 0]
        /\ buffer'["transfer"][Len(b) + 2].at = "busy"
    BY <2>3, <2>4
  <2>8. ASSUME NEW i \in 1 .. Len(buffer'["transfer"]), buffer'["transfer"][i].at = "status"
        PROVE  i = Len(b) + 1
    <3>1. i \in 1 .. Len(b) \/ i = Len(b) + 1 \/ i = Len(b) + 2
      BY <2>3, <2>4
    <3> QED BY <2>4, <2>6, <2>7, <2>8, <3>1
  <2>9. GivenBack'
    BY <2>1, <2>2, <2>4, <2>7, <2>8 DEF GivenBack, Published, NoJobWaits, Waiting
  <2> QED BY <2>5, <2>9 DEF JobInv
<1> QED BY <1>2, <1>4, <1>5, <1>6, <1>7, <1>8, <1>9 DEF Stores!Transfer

LEMMA JobStep == JobInv /\ [Stores!Next]_storeVars => JobInv'
<1>1. JobInv /\ Stores!Next => JobInv'
  BY JobGame, JobTransfer, JobDrainGame, JobDrainTransfer DEF Stores!Next, Stores!Threads
<1>2. JobInv /\ UNCHANGED storeVars => JobInv'
  BY DEF JobInv, Free, Reserved, Published, GivenBack, StoreType, NoJobWaits, Waiting, storeVars
<1> QED BY <1>1, <1>2

LEMMA JobsAreWhole == JobInv => Stores!JobIsWhole
BY DEF JobInv, Free, Reserved, Published, GivenBack, Stores!JobIsWhole

-----------------------------------------------------------------------------
(* The window, when every load waits for the thread's own stores.            *)

\* A load by the game thread of the flag it never stores finds memory.
LEMMA GameLoads ==
    ASSUME StoreType PROVE Stores!Load("game", "busy") = memory["busy"]
<1>1. /\ "game" \in Stores!Threads /\ buffer["game"] \in Seq(Entry)
      /\ \A i \in 1 .. Len(buffer["game"]) : buffer["game"][i].at # "busy"
  BY BuffersType DEF GameEntry, Stores!Threads
<1> QED BY <1>1, LoadIs DEF Waiting

\* A thread leaves a place where it loads with its stores in memory.
Prompted ==
    /\ game = "wait" /\ game' # "wait" => buffer["game"] = << >>
    /\ transfer \in {"scan", "check"} /\ transfer' # transfer => buffer["transfer"] = << >>

LEMMA SameLoad == \A t, x : Ordered!Load(t, x) = Stores!Load(t, x)
BY DEF Ordered!Load, Stores!Load, Ordered!SelectLastInSeq, Stores!SelectLastInSeq,
       Ordered!Max, Stores!Max

LEMMA OrderedSteps == Ordered!Next => Stores!Next /\ Prompted
<1>1. Ordered!Game => Stores!Game /\ Prompted
  BY SameLoad
     DEF Ordered!Game, Ordered!ReserveSlot, Ordered!FillSlot, Ordered!BeginInit,
         Ordered!WaitTransfer, Ordered!WriteWindow, Ordered!OpenStream, Ordered!GameGoes,
         Ordered!Drained, Ordered!MayLoad, Ordered!Store, Ordered!JobStores, Ordered!Put,
         Stores!Game, Stores!ReserveSlot, Stores!FillSlot, Stores!BeginInit,
         Stores!WaitTransfer, Stores!WriteWindow, Stores!OpenStream, Stores!GameGoes,
         Stores!Drained, Stores!MayLoad, Stores!Store, Stores!JobStores, Stores!Put, Prompted
<1>2. Ordered!Transfer => Stores!Transfer /\ Prompted
  BY SameLoad
     DEF Ordered!Transfer, Ordered!ScanSlot, Ordered!RaiseBusy, Ordered!CheckWindow,
         Ordered!LoadDevice, Ordered!LoadValue, Ordered!LoadQueue, Ordered!ReleaseSlot,
         Ordered!TransferGoes, Ordered!Drained, Ordered!MayLoad, Ordered!Store,
         Ordered!Raised, Ordered!Released, Ordered!Put,
         Stores!Transfer, Stores!ScanSlot, Stores!RaiseBusy, Stores!CheckWindow,
         Stores!LoadDevice, Stores!LoadValue, Stores!LoadQueue, Stores!ReleaseSlot,
         Stores!TransferGoes, Stores!Drained, Stores!MayLoad, Stores!Store,
         Stores!Raised, Stores!Released, Stores!Put, Prompted
<1>3. ASSUME NEW t \in Ordered!Threads, Ordered!Drain(t)
      PROVE  t \in Stores!Threads /\ Stores!Drain(t) /\ Prompted
  BY <1>3 DEF Ordered!Threads, Ordered!Drain, Ordered!Drained, Ordered!threadVars,
              Stores!Threads, Stores!Drain, Stores!Drained, Stores!threadVars, Prompted
<1> QED BY <1>1, <1>2, <1>3 DEF Ordered!Next, Stores!Next

\* The transfer thread works with the objects of the window.
Working == transfer \in {"device", "value", "queue", "submit"}

\* The flag is in memory before the thread looks at the window, and while it works.
FlagIsUp ==
    /\ transfer = "take" => buffer["transfer"] = << >>
    /\ transfer = "check" => \/ buffer["transfer"] = <<[at |-> "busy", val |-> 1]>>
                             \/ buffer["transfer"] = << >> /\ memory["busy"] = 1
    /\ Working => buffer["transfer"] = << >> /\ memory["busy"] = 1

\* Elsewhere than in the copy both objects are of one initialisation;
CopyIsDone ==
    game # "open" => /\ memory["device"] = memory["queue"]
                     /\ ~Waiting("game", "device") /\ ~Waiting("game", "queue")

\* in it they reach memory one after the other;
CopyGoesOn ==
    game = "open" =>
        \/ buffer["game"] = <<[at |-> "device", val |-> inits], [at |-> "queue", val |-> inits]>>
        \/ /\ buffer["game"] = <<[at |-> "queue", val |-> inits]>>
           /\ memory["device"] = inits
        \/ buffer["game"] = << >> /\ memory["device"] = memory["queue"]

\* the window is closed before, by a store that waits or in memory,
ClosesFirst ==
    game = "wait" =>
        \/ buffer["game"] = << >> /\ memory["wsi_state"] = 0
        \/ /\ Len(buffer["game"]) > 0
           /\ buffer["game"][Len(buffer["game"])] = [at |-> "wsi_state", val |-> 0]

\* and during the copy, while the transfer thread does not work.
CopiesAlone ==
    /\ game \in {"write", "open"} => memory["wsi_state"] = 0 /\ ~Working
    /\ game = "write" => buffer["game"] = << >>

\* What the thread has read is still in memory.
ReadsHold ==
    /\ transfer \in {"value", "queue", "submit"} => read.device = memory["device"]
    /\ transfer = "submit" => read.queue = memory["queue"]

WindowInv ==
    FlagIsUp /\ CopyIsDone /\ CopyGoesOn /\ ClosesFirst /\ CopiesAlone /\ ReadsHold

LEMMA WindowInit == Stores!Init => WindowInv
<1> SUFFICES ASSUME Stores!Init PROVE WindowInv
  OBVIOUS
<1>1. /\ buffer["game"] = << >> /\ buffer["transfer"] = << >> /\ game = "run"
      /\ transfer = "scan" /\ memory["device"] = 0 /\ memory["queue"] = 0
  BY DEF Stores!Init, Stores!Threads, Stores!Locations
<1>2. \A x : ~Waiting("game", x)
  BY <1>1 DEF Waiting
<1> QED BY <1>1, <1>2 DEF WindowInv, FlagIsUp, Working, CopyIsDone, CopyGoesOn, ClosesFirst,
                          CopiesAlone, ReadsHold

\* The window matters to the transfer thread as its own state and that of memory.
LEMMA TransferSide ==
    ASSUME FlagIsUp, ReadsHold, UNCHANGED <<transfer, read>>,
           buffer'["transfer"] = buffer["transfer"],
           memory'["busy"] = memory["busy"],
           Working => UNCHANGED <<memory["device"], memory["queue"]>>
    PROVE  FlagIsUp' /\ ReadsHold' /\ (Working' <=> Working)
BY DEF FlagIsUp, ReadsHold, Working

LEMMA WindowGame == ASSUME StoreType, WindowInv, Stores!Game, Prompted PROVE WindowInv'
<1>1. UNCHANGED <<transfer, read>> /\ buffer'["transfer"] = buffer["transfer"]
  BY DEF Stores!Game, Stores!ReserveSlot, Stores!FillSlot, Stores!BeginInit,
         Stores!WaitTransfer, Stores!WriteWindow, Stores!OpenStream, Stores!GameGoes,
         Stores!Store, StoreType, Stores!Threads
<1>2. \A x \in Stores!Locations : x # "status" => memory'[x] = memory[x]
  <2>1. memory' = memory \/ memory' = [memory EXCEPT !["status"] = 1]
    BY DEF Stores!Game, Stores!ReserveSlot, Stores!FillSlot, Stores!BeginInit,
           Stores!WaitTransfer, Stores!WriteWindow, Stores!OpenStream
  <2> QED BY <2>1 DEF StoreType
<1>3. /\ memory'["busy"] = memory["busy"] /\ memory'["wsi_state"] = memory["wsi_state"]
      /\ memory'["device"] = memory["device"] /\ memory'["queue"] = memory["queue"]
  BY <1>2 DEF Stores!Locations
<1>4. FlagIsUp' /\ ReadsHold' /\ (Working' <=> Working)
  BY <1>1, <1>3, TransferSide DEF WindowInv
<1>5. CASE Stores!ReserveSlot
  <2>1. game = "run" /\ game' = "fill" /\ buffer' = buffer
    BY <1>5 DEF Stores!ReserveSlot, Stores!GameGoes
  <2>2. CopyIsDone'
    BY <1>3, <2>1 DEF WindowInv, CopyIsDone, Waiting
  <2> QED BY <1>4, <2>1, <2>2 DEF WindowInv, CopyGoesOn, ClosesFirst, CopiesAlone
<1>6. CASE Stores!FillSlot
  <2>1. PICK puts \in Seq(GameEntry) :
          /\ Stores!Store("game", puts)
          /\ \A i \in 1 .. Len(puts) : puts[i].at \notin {"device", "queue"}
    <3> DEFINE puts == Stores!JobStores(requests)
    <3>1. Stores!Store("game", puts)
      BY <1>6 DEF Stores!FillSlot
    <3>2. puts \in Seq(GameEntry) /\ \A i \in 1 .. Len(puts) : puts[i].at \notin {"device", "queue"}
      BY DEF Stores!JobStores, Stores!Put, GameEntry, StoreType
    <3> QED BY <3>1, <3>2
  <2>2. \A x : Waiting("game", x)' <=>
                 Waiting("game", x) \/ \E i \in 1 .. Len(puts) : puts[i].at = x
    BY <2>1, GameStored
  <2>3. game = "fill" /\ game' = "run"
    BY <1>6 DEF Stores!FillSlot, Stores!GameGoes
  <2>4. CopyIsDone'
    BY <1>3, <2>1, <2>2, <2>3 DEF WindowInv, CopyIsDone
  <2> QED BY <1>4, <2>3, <2>4 DEF WindowInv, CopyGoesOn, ClosesFirst, CopiesAlone
<1>7. CASE Stores!BeginInit
  <2> DEFINE e == [at |-> "wsi_state", val |-> 0]
  <2>1. /\ game = "run" /\ game' = "wait" /\ Stores!Store("game", <<e>>)
    BY <1>7 DEF Stores!BeginInit, Stores!GameGoes, Stores!Put
  <2>2. PICK puts \in Seq(GameEntry) :
          Stores!Store("game", puts) /\ Len(puts) = 1 /\ puts[1] = e
    <3>1. <<e>> \in Seq(GameEntry) /\ Len(<<e>>) = 1 /\ <<e>>[1] = e
      BY DEF GameEntry
    <3> QED BY <2>1, <3>1
  <2> HIDE DEF e
  <2>3. /\ Len(buffer'["game"]) = Len(buffer["game"]) + Len(puts)
        /\ \A i \in 1 .. Len(puts) : buffer'["game"][Len(buffer["game"]) + i] = puts[i]
        /\ \A x : Waiting("game", x)' <=>
                    Waiting("game", x) \/ \E i \in 1 .. Len(puts) : puts[i].at = x
    BY <2>2, GameStored
  <2>4. Len(buffer["game"]) \in Nat
    BY LenProperties DEF StoreType
  <2>5. CopyIsDone'
    BY <1>3, <2>1, <2>2, <2>3 DEF WindowInv, CopyIsDone, e
  <2>6. ClosesFirst'
    BY <2>2, <2>3, <2>4 DEF ClosesFirst, e
  <2> QED BY <1>4, <2>1, <2>5, <2>6 DEF WindowInv, CopyGoesOn, CopiesAlone
<1>8. CASE Stores!WaitTransfer
  <2>1. /\ game = "wait" /\ game' = "write" /\ buffer' = buffer /\ memory["busy"] = 0
        /\ buffer["game"] = << >>
    BY <1>8, GameLoads DEF Stores!WaitTransfer, Stores!GameGoes, Prompted
  <2>2. ~Working /\ memory["wsi_state"] = 0
    BY <2>1 DEF WindowInv, FlagIsUp, ClosesFirst
  <2>3. CopyIsDone'
    BY <1>3, <2>1 DEF WindowInv, CopyIsDone, Waiting
  <2> QED BY <1>3, <1>4, <2>1, <2>2, <2>3 DEF WindowInv, CopyGoesOn, ClosesFirst, CopiesAlone
<1>9. CASE Stores!WriteWindow
  <2> DEFINE puts == <<[at |-> "device", val |-> inits], [at |-> "queue", val |-> inits]>>
  <2>1. /\ game = "write" /\ game' = "open" /\ inits' = inits /\ Stores!Store("game", puts)
    BY <1>9 DEF Stores!WriteWindow, Stores!GameGoes, Stores!Put
  <2>2. buffer["game"] = << >> /\ "game" \in DOMAIN buffer
    BY <2>1 DEF WindowInv, CopiesAlone, StoreType, Stores!Threads
  <2>3. buffer'["game"] = puts
    BY <2>1, <2>2 DEF Stores!Store
  <2>4. CopyGoesOn'
    BY <2>1, <2>3 DEF CopyGoesOn
  <2> QED BY <1>3, <1>4, <2>1, <2>4 DEF WindowInv, CopyIsDone, ClosesFirst, CopiesAlone
<1>10. CASE Stores!OpenStream
  <2> DEFINE e == [at |-> "wsi_state", val |-> 1]
  <2>1. /\ game = "open" /\ game' = "run" /\ buffer["game"] = << >>
        /\ Stores!Store("game", <<e>>)
    BY <1>10 DEF Stores!OpenStream, Stores!GameGoes, Stores!Put, Stores!Drained
  <2>2. memory["device"] = memory["queue"]
    BY <2>1 DEF WindowInv, CopyGoesOn
  <2>3. buffer'["game"] = <<e>>
    BY <2>1 DEF Stores!Store, StoreType, Stores!Threads
  <2>4. ~Waiting("game", "device")' /\ ~Waiting("game", "queue")'
    BY <2>3 DEF Waiting
  <2> QED BY <1>3, <1>4, <2>1, <2>2, <2>4
          DEF WindowInv, CopyIsDone, CopyGoesOn, ClosesFirst, CopiesAlone
<1> QED BY <1>5, <1>6, <1>7, <1>8, <1>9, <1>10 DEF Stores!Game

LEMMA WindowTransfer ==
    ASSUME StoreType, WindowInv, Stores!Transfer, Prompted PROVE WindowInv'
<1>1. /\ UNCHANGED <<memory, game, inits>> /\ buffer'["game"] = buffer["game"]
  BY DEF Stores!Transfer, Stores!ScanSlot, Stores!RaiseBusy, Stores!CheckWindow,
         Stores!LoadDevice, Stores!LoadValue, Stores!LoadQueue, Stores!ReleaseSlot,
         Stores!TransferGoes, Stores!Store, StoreType, Stores!Threads
<1>2. CopyIsDone' /\ CopyGoesOn' /\ ClosesFirst'
  BY <1>1 DEF WindowInv, CopyIsDone, CopyGoesOn, ClosesFirst, Waiting
<1>3. (Working' => Working \/ memory["wsi_state"] # 0) => CopiesAlone'
  BY <1>1 DEF WindowInv, CopiesAlone
<1>4. CASE Stores!ScanSlot
  <2>1. transfer = "scan" /\ transfer' = "take" /\ buffer' = buffer /\ buffer["transfer"] = << >>
    BY <1>4 DEF Stores!ScanSlot, Stores!TransferGoes, Prompted
  <2> QED BY <1>2, <1>3, <2>1 DEF WindowInv, FlagIsUp, ReadsHold, Working
<1>5. CASE Stores!RaiseBusy
  <2>1. /\ transfer = "take" /\ transfer' = "check"
        /\ Stores!Store("transfer", <<[at |-> "busy", val |-> 1]>>)
    BY <1>5 DEF Stores!RaiseBusy, Stores!TransferGoes, Stores!Raised, Stores!Put
  <2>2. buffer["transfer"] = << >> /\ "transfer" \in DOMAIN buffer
    BY <2>1 DEF WindowInv, FlagIsUp, StoreType, Stores!Threads
  <2>3. buffer'["transfer"] = <<[at |-> "busy", val |-> 1]>>
    BY <2>1, <2>2 DEF Stores!Store
  <2> QED BY <1>2, <1>3, <2>1, <2>3 DEF WindowInv, FlagIsUp, ReadsHold, Working
<1>6. CASE Stores!CheckWindow
  <2>1. /\ transfer = "check" /\ buffer' = buffer /\ buffer["transfer"] = << >>
        /\ transfer' = IF memory["wsi_state"] = 0 THEN "release" ELSE "device"
    BY <1>6, TransferLoads DEF Stores!CheckWindow, Stores!TransferGoes, Prompted
  <2>2. memory["busy"] = 1
    BY <2>1 DEF WindowInv, FlagIsUp
  <2>3. FlagIsUp' /\ ReadsHold' /\ (Working' => memory["wsi_state"] # 0)
    BY <1>1, <2>1, <2>2 DEF FlagIsUp, ReadsHold, Working
  <2> QED BY <1>2, <1>3, <2>3 DEF WindowInv
<1>7. CASE Stores!LoadDevice
  <2>1. /\ transfer = "device" /\ transfer' = "value" /\ buffer' = buffer
        /\ read' = [read EXCEPT !.device = memory["device"]]
    BY <1>7, TransferLoads DEF Stores!LoadDevice, Stores!TransferGoes
  <2>2. read'.device = memory["device"]
    BY <2>1 DEF StoreType
  <2>3. FlagIsUp' /\ ReadsHold' /\ (Working' => Working)
    BY <1>1, <2>1, <2>2 DEF WindowInv, FlagIsUp, ReadsHold, Working
  <2> QED BY <1>2, <1>3, <2>3 DEF WindowInv
<1>8. CASE Stores!LoadValue
  <2>1. /\ transfer = "value" /\ transfer' = "queue" /\ buffer' = buffer
        /\ read' = [read EXCEPT !.val = Stores!Load("transfer", "val")]
    BY <1>8 DEF Stores!LoadValue, Stores!TransferGoes
  <2>2. read'.device = read.device
    BY <2>1 DEF StoreType
  <2>3. FlagIsUp' /\ ReadsHold' /\ (Working' => Working)
    BY <1>1, <2>1, <2>2 DEF WindowInv, FlagIsUp, ReadsHold, Working
  <2> QED BY <1>2, <1>3, <2>3 DEF WindowInv
<1>9. CASE Stores!LoadQueue
  <2>1. /\ transfer = "queue" /\ transfer' = "submit" /\ buffer' = buffer
        /\ read' = [read EXCEPT !.queue = memory["queue"]]
    BY <1>9, TransferLoads DEF Stores!LoadQueue, Stores!TransferGoes
  <2>2. read'.device = read.device /\ read'.queue = memory["queue"]
    BY <2>1 DEF StoreType
  <2>3. FlagIsUp' /\ ReadsHold' /\ (Working' => Working)
    BY <1>1, <2>1, <2>2 DEF WindowInv, FlagIsUp, ReadsHold, Working
  <2> QED BY <1>2, <1>3, <2>3 DEF WindowInv
<1>10. CASE Stores!ReleaseSlot
  <2>1. transfer' = "scan"
    BY <1>10 DEF Stores!ReleaseSlot, Stores!TransferGoes
  <2> QED BY <1>2, <1>3, <2>1 DEF WindowInv, FlagIsUp, ReadsHold, Working
<1> QED BY <1>4, <1>5, <1>6, <1>7, <1>8, <1>9, <1>10 DEF Stores!Transfer

LEMMA WindowDrainGame ==
    ASSUME StoreType, WindowInv, Stores!Drain("game") PROVE WindowInv'
<1> DEFINE b == buffer["game"]
           h == b[1]
<1>1. "game" \in Stores!Threads /\ "transfer" \in Stores!Threads
  BY DEF Stores!Threads
<1>2. /\ 1 \in 1 .. Len(b) /\ h \in Entry /\ memory'[h.at] = h.val
      /\ \A x \in Stores!Locations : x # h.at => memory'[x] = memory[x]
      /\ Len(buffer'["game"]) = Len(b) - 1
      /\ \A i \in 1 .. Len(b) :
            i # 1 => i - 1 \in 1 .. Len(buffer'["game"]) /\ buffer'["game"][i - 1] = b[i]
      /\ buffer'["transfer"] = buffer["transfer"]
      /\ \A x : Waiting("game", x)' => Waiting("game", x)
      /\ UNCHANGED <<game, transfer, requests, inits, read, handled>>
  BY <1>1, DrainedIs DEF Stores!threadVars
<1>3. buffer'["game"] = Tail(b) /\ b # << >>
  BY <1>1 DEF Stores!Drain, Stores!Drained, StoreType
<1>4. Len(b) \in Nat /\ h.at # "busy" /\ buffer'["game"] \in Seq(GameEntry)
  <2>1. /\ b \in Seq(GameEntry) /\ Len(b) \in Nat
        /\ \A i \in 1 .. Len(b) : b[i] \in GameEntry
    BY <1>1, BuffersType DEF StoreType
  <2>2. h \in GameEntry
    BY <1>2, <2>1
  <2>3. Tail(b) \in Seq(GameEntry)
    BY <1>3, <2>1, HeadTailProperties
  <2> QED BY <1>3, <2>1, <2>2, <2>3 DEF GameEntry
<1>5. /\ {"busy", "wsi_state", "device", "queue"} \subseteq Stores!Locations
      /\ memory'["busy"] = memory["busy"]
  BY <1>2, <1>4 DEF Stores!Locations
<1>6. game # "open" => memory'["device"] = memory["device"] /\ memory'["queue"] = memory["queue"]
  <2>1. game # "open" => h.at # "device" /\ h.at # "queue"
    BY <1>2 DEF WindowInv, CopyIsDone, Waiting
  <2> QED BY <1>2, <1>5, <2>1
<1>7. FlagIsUp' /\ ReadsHold' /\ (Working' <=> Working)
  <2>1. Working => game # "open"
    BY DEF WindowInv, CopiesAlone
  <2> QED BY <1>2, <1>5, <1>6, <2>1, TransferSide DEF WindowInv
<1>8. CopyIsDone'
  BY <1>2, <1>6 DEF WindowInv, CopyIsDone
<1>9. CopyGoesOn' /\ (game = "open" => memory'["wsi_state"] = memory["wsi_state"])
  <2> SUFFICES ASSUME game = "open"
               PROVE  CopyGoesOn' /\ memory'["wsi_state"] = memory["wsi_state"]
    BY <1>2 DEF CopyGoesOn
  <2>1. CASE b = <<[at |-> "device", val |-> inits], [at |-> "queue", val |-> inits]>>
    <3>1. Tail(b) = <<[at |-> "queue", val |-> inits]>> /\ h = [at |-> "device", val |-> inits]
      BY <2>1
    <3> QED BY <1>2, <1>3, <1>5, <3>1 DEF CopyGoesOn
  <2>2. CASE b = <<[at |-> "queue", val |-> inits]>> /\ memory["device"] = inits
    <3>1. Tail(b) = << >> /\ h = [at |-> "queue", val |-> inits]
      BY <2>2
    <3>2. memory'["queue"] = inits /\ memory'["device"] = inits
          /\ memory'["wsi_state"] = memory["wsi_state"]
      BY <1>2, <1>5, <2>2, <3>1
    <3> QED BY <1>3, <3>1, <3>2 DEF CopyGoesOn
  <2> QED BY <1>3, <2>1, <2>2 DEF WindowInv, CopyGoesOn
<1>10. ClosesFirst'
  <2> SUFFICES ASSUME game = "wait" PROVE ClosesFirst'
    BY <1>2 DEF ClosesFirst
  <2>1. b[Len(b)] = [at |-> "wsi_state", val |-> 0]
    BY <1>3 DEF WindowInv, ClosesFirst
  <2>2. CASE Len(b) = 1
    <3>1. memory'["wsi_state"] = 0
      BY <1>2, <2>1, <2>2
    <3>2. buffer'["game"] = << >>
      BY <1>2, <1>4, <2>2, EmptySeq
    <3> QED BY <3>1, <3>2 DEF ClosesFirst
  <2>3. CASE Len(b) # 1
    <3>1. Len(b) \in 1 .. Len(b) /\ Len(buffer'["game"]) > 0
      <4> DEFINE n == Len(b)
                 m == Len(buffer'["game"])
      <4>1. n \in Nat /\ 1 \in 1 .. n /\ m = n - 1 /\ n # 1
        BY <1>2, <1>4, <2>3
      <4> HIDE DEF n, m
      <4>2. n \in 1 .. n /\ m > 0
        BY <4>1
      <4> QED BY <4>2 DEF n, m
    <3>2. buffer'["game"][Len(buffer'["game"])] = b[Len(b)]
      BY <1>2, <2>3, <3>1
    <3> QED BY <2>1, <3>1, <3>2 DEF ClosesFirst
  <2> QED BY <2>2, <2>3
<1>11. CopiesAlone'
  BY <1>2, <1>3, <1>7, <1>9 DEF WindowInv, CopiesAlone
<1> QED BY <1>7, <1>8, <1>9, <1>10, <1>11 DEF WindowInv

LEMMA WindowDrainTransfer ==
    ASSUME StoreType, WindowInv, Stores!Drain("transfer") PROVE WindowInv'
<1> DEFINE b == buffer["transfer"]
           h == b[1]
<1>1. "game" \in Stores!Threads /\ "transfer" \in Stores!Threads
  BY DEF Stores!Threads
<1>2. /\ 1 \in 1 .. Len(b) /\ h \in Entry /\ memory'[h.at] = h.val
      /\ \A x \in Stores!Locations : x # h.at => memory'[x] = memory[x]
      /\ buffer'["game"] = buffer["game"]
      /\ UNCHANGED <<game, transfer, requests, inits, read, handled>>
  BY <1>1, DrainedIs DEF Stores!threadVars
<1>3. buffer'["transfer"] = Tail(b) /\ b # << >>
  BY <1>1 DEF Stores!Drain, Stores!Drained, StoreType
<1>4. h.at \in {"status", "busy"}
  BY <1>1, <1>2, BuffersType DEF TransferEntry
<1>5. \A x \in {"wsi_state", "device", "queue"} : memory'[x] = memory[x]
  BY <1>2, <1>4 DEF Stores!Locations
<1>6. CopyIsDone' /\ CopyGoesOn' /\ ClosesFirst'
  BY <1>2, <1>5 DEF WindowInv, CopyIsDone, CopyGoesOn, ClosesFirst, Waiting
<1>7. CopiesAlone' /\ ReadsHold'
  BY <1>2, <1>5 DEF WindowInv, CopiesAlone, ReadsHold, Working
<1>8. FlagIsUp'
  <2>1. transfer # "take" /\ ~Working
    BY <1>3 DEF WindowInv, FlagIsUp
  <2>2. ASSUME transfer = "check" PROVE buffer'["transfer"] = << >> /\ memory'["busy"] = 1
    <3>1. b = <<[at |-> "busy", val |-> 1]>>
      BY <1>3, <2>2 DEF WindowInv, FlagIsUp
    <3>2. Tail(b) = << >> /\ h = [at |-> "busy", val |-> 1]
      BY <3>1
    <3> QED BY <1>2, <1>3, <3>2
  <2> QED BY <1>2, <2>1, <2>2 DEF FlagIsUp, Working
<1> QED BY <1>6, <1>7, <1>8 DEF WindowInv

LEMMA WindowStep ==
    ASSUME JobInv, WindowInv, [Ordered!Next]_storeVars PROVE WindowInv'
<1>1. StoreType
  BY DEF JobInv
<1>2. CASE Ordered!Next
  BY <1>1, <1>2, OrderedSteps, WindowGame, WindowTransfer, WindowDrainGame, WindowDrainTransfer
  DEF Stores!Next, Stores!Threads
<1>3. CASE UNCHANGED storeVars
  BY <1>3 DEF storeVars, WindowInv, FlagIsUp, Working, CopyIsDone, CopyGoesOn, ClosesFirst,
              CopiesAlone, ReadsHold, Waiting
<1> QED BY <1>2, <1>3

-----------------------------------------------------------------------------
(* TileLedger, for any capacity, any players and any ticks.                   *)

Tile == [tile_idx : Tiles, terrain : {0} \cup {World!Terrain(p) : p \in World!Players}]
Game == [tiles : [World!Indices -> Tile], modification_count : 0 .. Capacity,
         head_idx : World!Indices]

\* Nothing above the count was ever written,
NothingAbove(g) ==
    \A i \in World!Indices : i >= g.modification_count => g.tiles[i] = World!Blank

\* while there is room the head is not above it,
HeadFollows(g) == g.modification_count < Capacity => g.head_idx <= g.modification_count

\* and the tiles appended last lie behind the head.
Newest(s) ==
    \A k \in 1 .. Len(s.appended) : k <= Capacity =>
        s.game.tiles[(s.game.head_idx - k) % Capacity].tile_idx
            = s.appended[Len(s.appended) + 1 - k]

LedgerInv(s) ==
    /\ s \in [game : Game, appended : Seq(Tiles)]
    /\ NothingAbove(s.game) /\ HeadFollows(s.game) /\ Newest(s)

LEMMA LedgerConstants ==
    /\ 0 \in Tiles /\ Tiles \subseteq Nat /\ Capacity \in Nat \ {0} /\ MaxPlayers \in Nat \ {0}
    /\ Pattern \in Seq(World!Modified) /\ Len(Pattern) \in 0 .. Capacity
BY PartsAssumption, LenProperties DEF World!LedgerAssumption

\* A step back from the head, around the ring.
LEMMA StepBack ==
    ASSUME NEW N \in Nat \ {0}, NEW h \in 0 .. N - 1, NEW k \in 1 .. N
    PROVE  /\ (h - k) % N = (IF k <= h THEN h - k ELSE h - k + N)
           /\ (h - k) % N \in 0 .. N - 1
<1>1. k <= h => h - k \in 0 .. N - 1
  OBVIOUS
<1>2. ~(k <= h) => h - k + N \in 0 .. N - 1
  OBVIOUS
<1>3. \A x \in 0 .. N - 1 : x % N = x
  OBVIOUS
<1>4. \A x \in 0 .. N - 1 : (x - N) % N = x
  OBVIOUS
<1>5. ~(k <= h) => (h - k + N) - N = h - k
  OBVIOUS
<1> QED BY <1>1, <1>2, <1>3, <1>4, <1>5

LEMMA StepOn ==
    ASSUME NEW N \in Nat \ {0}, NEW h \in 0 .. N - 1
    PROVE  /\ (h + 1) % N \in 0 .. N - 1
           /\ (h + 1) % N <= h + 1
           /\ (((h + 1) % N) - 1) % N = h
           /\ \A k \in 2 .. N : /\ (((h + 1) % N) - k) % N = (h - (k - 1)) % N
                                /\ (h - (k - 1)) % N # h
<1> DEFINE m == (h + 1) % N
<1>1. m = IF h = N - 1 THEN 0 ELSE h + 1
  <2>1. CASE h = N - 1
    <3>1. h + 1 = N /\ N % N = 0
      BY <2>1
    <3> QED BY <2>1, <3>1
  <2>2. CASE h # N - 1
    <3>1. h + 1 \in 0 .. N - 1 /\ \A x \in 0 .. N - 1 : x % N = x
      BY <2>2
    <3> QED BY <2>2, <3>1
  <2> QED BY <2>1, <2>2
<1> HIDE DEF m
<1>2. m \in 0 .. N - 1 /\ m <= h + 1
  BY <1>1
<1>3. (m - 1) % N = h
  <2>1. 1 \in 1 .. N
    OBVIOUS
  <2>2. (m - 1) % N = IF 1 <= m THEN m - 1 ELSE m - 1 + N
    BY <1>2, <2>1, StepBack
  <2> QED BY <1>1, <2>2
<1>4. ASSUME NEW k \in 2 .. N PROVE (m - k) % N = (h - (k - 1)) % N /\ (h - (k - 1)) % N # h
  <2>1. k \in 1 .. N /\ k - 1 \in 1 .. N
    OBVIOUS
  <2>2. (m - k) % N = IF k <= m THEN m - k ELSE m - k + N
    BY <1>2, <2>1, StepBack
  <2>3. (h - (k - 1)) % N = IF k - 1 <= h THEN h - (k - 1) ELSE h - (k - 1) + N
    BY <2>1, StepBack
  <2> QED BY <1>1, <2>2, <2>3
<1> QED BY <1>2, <1>3, <1>4 DEF m

LEMMA LedgerInit == World!Init => LedgerInv([game |-> ledger, appended |-> appended])
<1> SUFFICES ASSUME World!Init PROVE LedgerInv([game |-> ledger, appended |-> appended])
  OBVIOUS
<1> DEFINE c == Len(Pattern)
           t == [i \in World!Indices |-> IF i < c THEN Pattern[i + 1] ELSE World!Blank]
<1>1. ledger = [tiles |-> t, modification_count |-> c, head_idx |-> 0] /\ appended = << >>
  BY DEF World!Init
<1>2. c \in 0 .. Capacity /\ \A i \in 1 .. c : Pattern[i] \in World!Modified
  BY LedgerConstants, ElementOfSeq
<1> HIDE DEF c
<1>3. t \in [World!Indices -> Tile]
  <2>1. World!Modified \subseteq Tile /\ World!Blank \in Tile
    BY LedgerConstants DEF World!Modified, World!Blank, Tile
  <2>2. \A i \in World!Indices : i < c => i + 1 \in 1 .. c
    BY <1>2, LedgerConstants DEF World!Indices
  <2> QED BY <1>2, <2>1, <2>2
<1>4. 0 \in World!Indices
  BY LedgerConstants DEF World!Indices
<1>5. \A i \in World!Indices : i >= c => t[i] = World!Blank
  BY <1>2 DEF World!Indices
<1> HIDE DEF t
<1>6. << >> \in Seq(Tiles) /\ Len(<< >>) = 0
  BY EmptySeq
<1> DEFINE s == [game |-> ledger, appended |-> appended]
<1>7. s \in [game : Game, appended : Seq(Tiles)] /\ s.game = ledger /\ s.appended = << >>
  BY <1>1, <1>2, <1>3, <1>4, <1>6 DEF Game
<1>8. NothingAbove(s.game) /\ HeadFollows(s.game)
  BY <1>1, <1>2, <1>5, <1>7 DEF NothingAbove, HeadFollows
<1>9. Newest(s)
  BY <1>6, <1>7 DEF Newest
<1> HIDE DEF s
<1>10. LedgerInv(s)
  BY <1>7, <1>8, <1>9 DEF LedgerInv
<1> QED BY <1>10 DEF s

\* A tile that is found is updated in place and stays where it was.
LEMMA UpdateKeeps ==
    ASSUME NEW s, LedgerInv(s), NEW p \in World!Players, NEW i \in World!Indices,
           i < s.game.modification_count
    PROVE  LedgerInv([s EXCEPT !.game = World!Update(@, p, i)])
<1> DEFINE g == s.game
           u == World!Update(g, p, i)
           r == [s EXCEPT !.game = u]
<1>1. /\ s \in [game : Game, appended : Seq(Tiles)] /\ g \in Game
      /\ NothingAbove(g) /\ HeadFollows(g) /\ Newest(s)
  BY DEF LedgerInv
<1>2. g.tiles \in [World!Indices -> Tile] /\ g.modification_count \in 0 .. Capacity
  BY <1>1 DEF Game
<1>3. PICK v \in {0} \cup {World!Terrain(q) : q \in World!Players} :
        u = [g EXCEPT !.tiles[i].terrain = v]
  BY DEF World!Update
<1>4. /\ u \in Game /\ u.modification_count = g.modification_count /\ u.head_idx = g.head_idx
      /\ \A j \in World!Indices : /\ u.tiles[j].tile_idx = g.tiles[j].tile_idx
                                  /\ j # i => u.tiles[j] = g.tiles[j]
  <2> DEFINE ti == [g.tiles EXCEPT ![i].terrain = v]
  <2>1. u = [g EXCEPT !.tiles = ti]
    BY <1>1, <1>3 DEF Game
  <2>2. ti \in [World!Indices -> Tile]
    BY <1>2 DEF Tile
  <2>3. \A j \in World!Indices : /\ ti[j].tile_idx = g.tiles[j].tile_idx
                                 /\ j # i => ti[j] = g.tiles[j]
    BY <1>2 DEF Tile
  <2> HIDE DEF ti
  <2> QED BY <1>1, <2>1, <2>2, <2>3 DEF Game
<1> HIDE DEF u
<1>5. /\ r \in [game : Game, appended : Seq(Tiles)] /\ r.game = u /\ r.appended = s.appended
  BY <1>1, <1>4
<1>6. NothingAbove(u) /\ HeadFollows(u)
  <2>1. \A j \in World!Indices : j >= g.modification_count => j # i
    BY <1>2, LedgerConstants DEF World!Indices
  <2>2. NothingAbove(u)
    <3> SUFFICES ASSUME NEW j \in World!Indices, j >= g.modification_count
                 PROVE  u.tiles[j] = World!Blank
      BY <1>4 DEF NothingAbove
    <3>1. u.tiles[j] = g.tiles[j]
      BY <1>4, <2>1
    <3>2. g.tiles[j] = World!Blank
      BY <1>1 DEF NothingAbove
    <3> QED BY <3>1, <3>2
  <2>3. HeadFollows(u)
    BY <1>1, <1>4 DEF HeadFollows
  <2> QED BY <2>2, <2>3
<1>7. Newest(r)
  <2> SUFFICES ASSUME NEW k \in 1 .. Len(s.appended), k <= Capacity
               PROVE  u.tiles[(u.head_idx - k) % Capacity].tile_idx
                         = s.appended[Len(s.appended) + 1 - k]
    BY <1>5 DEF Newest
  <2>1. g.head_idx \in 0 .. Capacity - 1 /\ k \in 1 .. Capacity
    <3>1. Len(s.appended) \in Nat
      BY <1>1, LenProperties
    <3> QED BY <1>1, <3>1, LedgerConstants DEF Game, World!Indices
  <2>2. (g.head_idx - k) % Capacity \in World!Indices
    BY <2>1, LedgerConstants, StepBack DEF World!Indices
  <2>3. g.tiles[(g.head_idx - k) % Capacity].tile_idx = s.appended[Len(s.appended) + 1 - k]
    BY <1>1 DEF Newest
  <2>4. u.head_idx = g.head_idx
    BY <1>4
  <2>5. \A j \in World!Indices : u.tiles[j].tile_idx = g.tiles[j].tile_idx
    BY <1>4
  <2> DEFINE x == (g.head_idx - k) % Capacity
  <2>6. u.tiles[x].tile_idx = g.tiles[x].tile_idx
    BY <2>2, <2>5
  <2> QED BY <2>3, <2>4, <2>6
<1> HIDE DEF r
<1>8. LedgerInv(r)
  BY <1>5, <1>6, <1>7 DEF LedgerInv
<1> QED BY <1>8 DEF r, u

\* A tile that is not found takes the place of the oldest.
LEMMA AppendKeeps ==
    ASSUME NEW s, LedgerInv(s), NEW p \in World!Players, NEW tile \in Tiles
    PROVE  LedgerInv([game |-> World!AppendTile(s.game, p, tile),
                      appended |-> Append(s.appended, tile)])
<1> DEFINE g == s.game
           h == g.head_idx
           c == g.modification_count
           n == Len(s.appended)
           e == [tile_idx |-> tile, terrain |-> World!Terrain(p)]
           ti == [g.tiles EXCEPT ![h] = e]
           u == World!AppendTile(g, p, tile)
           a == Append(s.appended, tile)
           r == [game |-> u, appended |-> a]
<1>1. /\ s \in [game : Game, appended : Seq(Tiles)] /\ g \in Game
      /\ NothingAbove(g) /\ HeadFollows(g) /\ Newest(s)
  BY DEF LedgerInv
<1>2. /\ g.tiles \in [World!Indices -> Tile] /\ c \in 0 .. Capacity
      /\ h \in World!Indices /\ h \in 0 .. Capacity - 1 /\ n \in Nat
      /\ s.appended \in Seq(Tiles)
  BY <1>1, LenProperties DEF Game, World!Indices
<1>3. /\ u.tiles = ti /\ u.modification_count = (IF c < Capacity THEN c + 1 ELSE c)
      /\ u.head_idx = (h + 1) % Capacity
      /\ u = [tiles |-> u.tiles, modification_count |-> u.modification_count,
              head_idx |-> u.head_idx]
  BY DEF World!AppendTile, World!CountAfter, World!HeadAfter
<1>4. /\ ti \in [World!Indices -> Tile] /\ ti[h] = e
      /\ \A i \in World!Indices : i # h => ti[i] = g.tiles[i]
  <2>1. e \in Tile
    BY DEF Tile
  <2> HIDE DEF e
  <2> QED BY <1>2, <2>1
<1> HIDE DEF ti, u
<1>5. /\ (h + 1) % Capacity \in 0 .. Capacity - 1 /\ (h + 1) % Capacity <= h + 1
      /\ (((h + 1) % Capacity) - 1) % Capacity = h
      /\ \A k \in 2 .. Capacity :
            /\ (((h + 1) % Capacity) - k) % Capacity = (h - (k - 1)) % Capacity
            /\ (h - (k - 1)) % Capacity # h
  BY <1>2, LedgerConstants, StepOn
<1>6. u.modification_count \in 0 .. Capacity /\ u.head_idx \in World!Indices
  <2>1. Capacity \in Nat
    BY LedgerConstants
  <2>2. u.modification_count \in 0 .. Capacity
    BY <1>2, <1>3, <2>1
  <2> QED BY <1>3, <1>5, <2>2 DEF World!Indices
<1>7. u \in Game
  BY <1>3, <1>4, <1>6 DEF Game
<1>8. /\ a \in Seq(Tiles) /\ Len(a) = n + 1 /\ a[n + 1] = tile
      /\ \A i \in 1 .. n : a[i] = s.appended[i]
  BY <1>2, AppendProperties
<1> HIDE DEF a
<1>9. NothingAbove(u)
  <2> SUFFICES ASSUME NEW i \in World!Indices, i >= u.modification_count
               PROVE  u.tiles[i] = World!Blank
    BY DEF NothingAbove
  <2>1. i \in 0 .. Capacity - 1
    BY DEF World!Indices
  <2>2. c < Capacity /\ i >= c + 1
    BY <1>2, <1>3, <2>1, LedgerConstants
  <2>3. h <= c
    BY <1>1, <2>2 DEF HeadFollows
  <2>4. i # h /\ i >= c
    BY <1>2, <2>1, <2>2, <2>3
  <2> QED BY <1>1, <1>3, <1>4, <2>4 DEF NothingAbove
<1>10. HeadFollows(u)
  <2> SUFFICES ASSUME u.modification_count < Capacity PROVE u.head_idx <= u.modification_count
    BY DEF HeadFollows
  <2>1. c < Capacity /\ u.modification_count = c + 1
    BY <1>2, <1>3, LedgerConstants
  <2>2. h <= c
    BY <1>1, <2>1 DEF HeadFollows
  <2>3. /\ Capacity \in Nat /\ u.head_idx \in 0 .. Capacity - 1 /\ u.head_idx <= h + 1
        /\ h \in 0 .. Capacity - 1 /\ c \in 0 .. Capacity
    BY <1>2, <1>3, <1>5, LedgerConstants
  <2> HIDE DEF h, c
  <2> QED BY <2>1, <2>2, <2>3
<1>11. ASSUME NEW k \in 1 .. n + 1, k <= Capacity
       PROVE  u.tiles[(u.head_idx - k) % Capacity].tile_idx = a[n + 1 + 1 - k]
  <2>1. CASE k = 1
    <3>1. n + 1 + 1 - k = n + 1
      BY <1>2, <2>1
    <3> QED BY <1>3, <1>4, <1>5, <1>8, <2>1, <3>1
  <2>2. CASE k # 1
    <3>1. k \in 2 .. Capacity /\ k - 1 \in 1 .. n /\ k - 1 <= Capacity /\ k - 1 \in 1 .. Capacity
      BY <1>2, <1>11, <2>2, LedgerConstants
    <3>2. n + 1 + 1 - k = n + 1 - (k - 1) /\ n + 1 - (k - 1) \in 1 .. n
      BY <1>2, <3>1
    <3>3. (u.head_idx - k) % Capacity = (h - (k - 1)) % Capacity /\ (h - (k - 1)) % Capacity # h
      BY <1>3, <1>5, <3>1
    <3>4. (h - (k - 1)) % Capacity \in World!Indices
      BY <1>2, <3>1, LedgerConstants, StepBack DEF World!Indices
    <3>5. g.tiles[(h - (k - 1)) % Capacity].tile_idx = s.appended[n + 1 - (k - 1)]
      BY <1>1, <3>1 DEF Newest
    <3> QED BY <1>3, <1>4, <1>8, <3>2, <3>3, <3>4, <3>5
  <2> QED BY <2>1, <2>2
<1>12. r \in [game : Game, appended : Seq(Tiles)] /\ r.game = u /\ r.appended = a
  BY <1>7, <1>8
<1>13. Newest(r)
  BY <1>8, <1>11, <1>12 DEF Newest
<1> HIDE DEF r
<1>14. LedgerInv(r)
  BY <1>9, <1>10, <1>12, <1>13 DEF LedgerInv
<1> QED BY <1>14 DEF r, u, a

\* One player's command.
LEMMA ToggledKeeps ==
    ASSUME NEW s, LedgerInv(s), NEW p \in World!Players,
           NEW tile \in Tiles \cup {World!NoCommand}
    PROVE  LedgerInv(World!Toggled(s, p, tile))
<1> DEFINE matching == World!Found(s.game, p, tile)
<1>1. CASE tile = World!NoCommand
  BY <1>1 DEF World!Toggled
<1>2. CASE tile # World!NoCommand /\ matching # {}
  <2>1. s.game.modification_count \in 0 .. Capacity
    BY DEF LedgerInv, Game
  <2>2. matching \subseteq Nat
    BY <2>1 DEF World!Found
  <2>3. \E i \in matching : \A j \in matching : i <= j
    <3>1. PICK i \in matching : \A j \in matching : <<j, i>> \notin OpToRel(<, Nat)
      BY <1>2, <2>2, NatLessThanWellFounded, WFMin
    <3>2. \A j \in matching : ~(j < i)
      BY <2>2, <3>1 DEF OpToRel
    <3>3. \A j \in matching : i <= j
      BY <2>2, <3>2
    <3> QED BY <3>3
  <2>4. World!First(matching) \in matching
    BY <2>3 DEF World!First
  <2>5. World!First(matching) \in World!Indices /\ World!First(matching) < s.game.modification_count
    BY <2>1, <2>4, LedgerConstants DEF World!Found, World!Indices
  <2> QED BY <1>2, <2>5, UpdateKeeps DEF World!Toggled
<1>3. CASE tile # World!NoCommand /\ ~(matching # {})
  BY <1>3, AppendKeeps DEF World!Toggled
<1> QED BY <1>1, <1>2, <1>3

\* The loop over the players: there is such a function, and what each of its steps
\* keeps its last value has.
LEMMA LoopKeeps ==
    ASSUME NEW s, LedgerInv(s),
           NEW cmds \in [World!Players -> Tiles \cup {World!NoCommand}]
    PROVE  LedgerInv(World!AllToggled(s, cmds))
<1> DEFINE Loop(f, m) ==
             f = [n \in 0 .. m |->
                    IF n = 0 THEN s ELSE World!Toggled(f[n - 1], n - 1, cmds[n - 1])]
           Bad == {m \in Nat : ~\E f : Loop(f, m)}
<1>1. Bad = {}
  <2> SUFFICES ASSUME Bad # {} PROVE FALSE
    OBVIOUS
  <2>1. PICK z \in Bad : \A y \in Bad : <<y, z>> \notin OpToRel(<, Nat)
    BY NatLessThanWellFounded, WFMin
  <2>2. CASE z = 0
    <3> DEFINE f == [n \in 0 .. 0 |-> s]
    <3>1. f = [n \in 0 .. 0 |->
                 IF n = 0 THEN s ELSE World!Toggled(f[n - 1], n - 1, cmds[n - 1])]
      OBVIOUS
    <3> QED BY <2>2, <3>1
  <2>3. CASE z # 0
    <3>1. z \in Nat /\ z - 1 \in Nat /\ z - 1 < z
      BY <2>3
    <3>2. z - 1 \notin Bad
      BY <2>1, <3>1 DEF OpToRel
    <3>3. PICK f : f = [n \in 0 .. z - 1 |->
                          IF n = 0 THEN s ELSE World!Toggled(f[n - 1], n - 1, cmds[n - 1])]
      BY <3>1, <3>2
    <3> DEFINE g == [n \in 0 .. z |->
                       IF n = z THEN World!Toggled(f[z - 1], z - 1, cmds[z - 1]) ELSE f[n]]
    <3>4. \A n \in 0 .. z - 1 : n \in 0 .. z /\ g[n] = f[n]
      BY <3>1
    <3>5. ASSUME NEW n \in 0 .. z
          PROVE  g[n] = IF n = 0 THEN s ELSE World!Toggled(g[n - 1], n - 1, cmds[n - 1])
      <4>1. CASE n = z
        <5>1. n - 1 = z - 1 /\ z - 1 \in 0 .. z - 1
          BY <3>1, <4>1
        <5> QED BY <2>3, <3>4, <4>1, <5>1
      <4>2. CASE n # z
        <5>1. n \in 0 .. z - 1 /\ (n # 0 => n - 1 \in 0 .. z - 1)
          BY <3>1, <4>2
        <5> QED BY <3>3, <3>4, <5>1
      <4> QED BY <4>1, <4>2
    <3>6. g = [n \in 0 .. z |->
                 IF n = 0 THEN s ELSE World!Toggled(g[n - 1], n - 1, cmds[n - 1])]
      <4>1. g = [n \in 0 .. z |-> g[n]]
        OBVIOUS
      <4> HIDE DEF g
      <4> QED BY <3>5, <4>1
    <3> QED BY <3>6
  <2> QED BY <2>2, <2>3
<1> DEFINE after == CHOOSE f : Loop(f, MaxPlayers)
<1>2. Loop(after, MaxPlayers)
  BY <1>1, LedgerConstants
<1>3. World!AllToggled(s, cmds) = after[MaxPlayers]
  BY DEF World!AllToggled
<1> HIDE DEF after
<1>4. after[0] = s /\ \A n \in 1 .. MaxPlayers :
                        after[n] = World!Toggled(after[n - 1], n - 1, cmds[n - 1])
  <2>1. 0 \in 0 .. MaxPlayers /\ \A n \in 1 .. MaxPlayers : n \in 0 .. MaxPlayers /\ n # 0
    BY LedgerConstants
  <2> QED BY <1>2, <2>1
<1> DEFINE Lost == {n \in 0 .. MaxPlayers : ~LedgerInv(after[n])}
<1>5. Lost = {}
  <2> SUFFICES ASSUME Lost # {} PROVE FALSE
    OBVIOUS
  <2>1. Lost \subseteq Nat
    BY LedgerConstants
  <2>2. PICK z \in Lost : \A y \in Lost : <<y, z>> \notin OpToRel(<, Nat)
    BY <2>1, NatLessThanWellFounded, WFMin
  <2>3. z # 0
    BY <1>4
  <2>4. /\ z \in 1 .. MaxPlayers /\ z - 1 \in 0 .. MaxPlayers /\ z - 1 \in Nat /\ z \in Nat
        /\ z - 1 < z /\ z - 1 \in World!Players
    BY <2>3, LedgerConstants DEF World!Players
  <2>5. LedgerInv(after[z - 1])
    BY <2>2, <2>4 DEF OpToRel
  <2>6. LedgerInv(after[z])
    BY <1>4, <2>4, <2>5, ToggledKeeps
  <2> QED BY <2>6
<1>6. MaxPlayers \in 0 .. MaxPlayers
  BY LedgerConstants
<1> QED BY <1>3, <1>5, <1>6

TileInv ==
    /\ LedgerInv([game |-> ledger, appended |-> appended])
    /\ commands \in [World!Players -> Tiles \cup {World!NoCommand}]

LEMMA TileInit == World!Init => TileInv
<1>1. World!Init => commands \in [World!Players -> Tiles \cup {World!NoCommand}]
  BY DEF World!Init
<1> QED BY <1>1, LedgerInit DEF TileInv

LEMMA TileStep == TileInv /\ [World!SimulateTick]_tileVars => TileInv'
<1>1. ASSUME TileInv, World!SimulateTick PROVE TileInv'
  <2>1. commands' \in [World!Players -> Tiles \cup {World!NoCommand}]
    BY <1>1 DEF World!SimulateTick
  <2> DEFINE s == World!AllToggled([game |-> ledger, appended |-> appended], commands')
  <2>2. LedgerInv(s)
    BY <1>1, <2>1, LoopKeeps DEF TileInv
  <2>3. ledger' = s.game /\ appended' = s.appended
    BY <1>1 DEF World!SimulateTick
  <2> HIDE DEF s
  <2>4. s = [game |-> s.game, appended |-> s.appended]
    BY <2>2 DEF LedgerInv
  <2> QED BY <2>1, <2>2, <2>3, <2>4 DEF TileInv
<1>2. TileInv /\ UNCHANGED tileVars => TileInv'
  BY DEF TileInv, tileVars
<1> QED BY <1>1, <1>2

LEMMA TilesAreKept == TileInv => World!NewestAreKept
<1> SUFFICES ASSUME TileInv PROVE World!NewestAreKept
  OBVIOUS
<1> DEFINE s == [game |-> ledger, appended |-> appended]
<1>1. Newest(s) /\ s.game = ledger /\ s.appended = appended
  BY DEF TileInv, LedgerInv
<1> HIDE DEF s
<1> QED BY <1>1 DEF Newest, World!NewestAreKept


-----------------------------------------------------------------------------
(* The types of the parts.                                                    *)

\* UdpPipe: the queue, the buffer of the caller and the numbers have their bounds.
PipeBounds ==
    /\ Len(queue) <= QueueSize /\ arrivals <= MaxArrivals
    /\ call = Pipe!NoCall \/ call.max \in MaxCounts
    /\ Len(call.out) <= call.max
    /\ \A i \in 1 .. Len(wanted) : 1 <= wanted[i]

LEMMA BoundsInit == Pipe!UdpAssumption /\ Pipe!Init => PipeBounds
<1> SUFFICES ASSUME Pipe!UdpAssumption, Pipe!Init PROVE PipeBounds
  OBVIOUS
<1>1. /\ queue = << >> /\ wanted = << >> /\ arrivals = 0 /\ call = Pipe!NoCall
      /\ call.out = << >> /\ call.max = 0
  BY DEF Pipe!Init, Pipe!NoCall
<1> QED BY <1>1, EmptySeq DEF PipeBounds, Pipe!UdpAssumption

\* What was returned is a prefix of what was to be.
LEMMA ReturnedIsWanted ==
    ASSUME PipeInv
    PROVE  /\ Len(delivered) \in Nat /\ Len(wanted) \in Nat /\ Len(delivered) <= Len(wanted)
           /\ \A i \in 1 .. Len(delivered) : delivered[i] = wanted[i]
<1>1. delivered \in Seq(Nat) /\ call.out \in Seq(Nat) /\ wanted \in Seq(Nat)
  BY DEF PipeInv, PipeType
<1>2. /\ Len(Got) = Len(delivered) + Len(call.out)
      /\ \A i \in 1 .. Len(delivered) : i \in 1 .. Len(Got) /\ Got[i] = delivered[i]
  BY <1>1 DEF Got
<1>3. Len(Got) <= Len(wanted) /\ \A i \in 1 .. Len(Got) : Got[i] = wanted[i]
  BY DEF PipeInv, Pipe!SessionIsDelivered, Got
<1>4. Len(delivered) \in Nat /\ Len(call.out) \in Nat /\ Len(wanted) \in Nat
  BY <1>1, LenProperties
<1> QED BY <1>2, <1>3, <1>4

LEMMA BoundsStep ==
    ASSUME Pipe!UdpAssumption, PipeInv, PipeBounds, [Pipe!Next]_pipeVars
    PROVE  PipeBounds'
<1>1. /\ queue \in Seq(Arrived) /\ wanted \in Seq(Nat) /\ delivered \in Seq(Nat)
      /\ call \in [max : Nat, out : Seq(Nat)] /\ arrivals \in Nat
      /\ Len(queue) \in Nat /\ Len(wanted) \in Nat /\ Len(call.out) \in Nat
      /\ QueueSize \in Nat /\ MaxCounts \subseteq Nat
  BY LenProperties DEF PipeInv, PipeType, Pipe!UdpAssumption
<1>2. CASE Pipe!Host \/ Pipe!Shutdown
  <2>1. queue' = << >> /\ wanted' = delivered /\ UNCHANGED <<call, arrivals>>
    BY <1>2 DEF Pipe!Host, Pipe!Shutdown
  <2>2. \A i \in 1 .. Len(delivered) : 1 <= delivered[i]
    BY ReturnedIsWanted DEF PipeBounds
  <2> QED BY <1>1, <2>1, <2>2, EmptySeq DEF PipeBounds
<1>3. CASE Pipe!SetSession \/ \E p \in Lobby : Pipe!Connect(p)
  BY <1>3 DEF Pipe!SetSession, Pipe!Connect, Pipe!callVars, PipeBounds
<1>4. CASE Pipe!Arrive
  <2>1. /\ arrivals < MaxArrivals /\ Len(queue) < QueueSize
        /\ arrivals' = arrivals + 1 /\ call' = call
        /\ \E d : queue' = Append(queue, d)
        /\ wanted' = wanted \/ wanted' = Append(wanted, arrivals + 1)
    <3>1. arrivals' = arrivals + 1 /\ arrivals < MaxArrivals /\ Len(queue) < QueueSize
          /\ call' = call
      BY <1>4 DEF Pipe!Arrive
    <3>2. PICK kind \in Pipe!Kinds, token \in BOOLEAN, pid \in {0, 255} :
            LET d == [no |-> arrivals', kind |-> kind, token |-> token, pid |-> pid]
            IN  /\ queue' = Append(queue, d)
                /\ wanted' = IF Pipe!OfSession(d) THEN Append(wanted, d.no) ELSE wanted
      BY <1>4 DEF Pipe!Arrive
    <3> QED BY <3>1, <3>2
  <2>2. Len(queue') <= QueueSize
    BY <1>1, <2>1
  <2>3. arrivals' <= MaxArrivals
    BY <1>1, <2>1 DEF Pipe!UdpAssumption
  <2>4. \A i \in 1 .. Len(wanted') : 1 <= wanted'[i]
    <3>1. CASE wanted' = wanted
      BY <3>1 DEF PipeBounds
    <3>2. CASE wanted' = Append(wanted, arrivals + 1)
      <4>1. /\ Len(wanted') = Len(wanted) + 1 /\ wanted'[Len(wanted) + 1] = arrivals + 1
            /\ \A i \in 1 .. Len(wanted) : wanted'[i] = wanted[i]
        BY <1>1, <3>2, AppendProperties
      <4>2. \A i \in 1 .. Len(wanted) + 1 : i \in 1 .. Len(wanted) \/ i = Len(wanted) + 1
        BY <1>1
      <4>3. 1 <= arrivals + 1
        BY <1>1
      <4> QED BY <4>1, <4>2, <4>3 DEF PipeBounds
    <3> QED BY <2>1, <3>1, <3>2
  <2> QED BY <2>1, <2>2, <2>3, <2>4 DEF PipeBounds
<1>5. CASE \E max \in MaxCounts : Pipe!BeginReceive(max)
  <2>1. PICK max \in MaxCounts : call' = [max |-> max, out |-> << >>]
    BY <1>5 DEF Pipe!BeginReceive
  <2>2. UNCHANGED <<queue, arrivals, wanted>>
    BY <1>5 DEF Pipe!BeginReceive
  <2>3. Len(call'.out) <= call'.max
    BY <1>1, <2>1, EmptySeq
  <2> QED BY <2>1, <2>2, <2>3 DEF PipeBounds
<1>6. CASE Pipe!ReceiveOne
  <2>1. /\ call # Pipe!NoCall /\ Len(call.out) < call.max
        /\ queue # << >> /\ queue' = Tail(queue) /\ UNCHANGED <<arrivals, wanted>>
        /\ call' = call \/ call' = [call EXCEPT !.out = Append(@, Head(queue).no)]
    BY <1>6 DEF Pipe!ReceiveOne, Pipe!HasRoom
  <2>2. Len(queue') <= QueueSize
    <3>1. Len(Tail(queue)) = Len(queue) - 1
      BY <1>1, <2>1, HeadTailProperties
    <3> QED BY <1>1, <2>1, <3>1 DEF PipeBounds
  <2>3. call'.max = call.max /\ Len(call'.out) <= call.max
    BY <1>1, <2>1 DEF PipeBounds
  <2>4. call.max \in MaxCounts
    BY <2>1 DEF PipeBounds
  <2> QED BY <2>1, <2>2, <2>3, <2>4 DEF PipeBounds
<1>7. CASE Pipe!EndReceive
  <2>1. call' = Pipe!NoCall /\ UNCHANGED <<queue, arrivals, wanted>>
    BY <1>7 DEF Pipe!EndReceive, Pipe!pipeVars
  <2>2. Len(Pipe!NoCall.out) <= Pipe!NoCall.max
    BY EmptySeq DEF Pipe!NoCall
  <2> QED BY <2>1, <2>2 DEF PipeBounds
<1>8. CASE UNCHANGED pipeVars
  BY <1>8 DEF pipeVars, PipeBounds
<1> QED BY <1>2, <1>3, <1>4, <1>5, <1>6, <1>7, <1>8 DEF Pipe!Next

LEMMA IsSeq == ASSUME NEW S, NEW n \in Nat, NEW f \in [1 .. n -> S] PROVE f \in Seq(S)
<1>1. [1 .. n -> S] \in {[1 .. m -> S] : m \in Nat}
  OBVIOUS
<1> QED BY <1>1, SeqDef, Zenon

LEMMA PipeIsTyped == ASSUME Pipe!UdpAssumption, PipeInv, PipeBounds PROVE Pipe!TypeOK
<1>1. /\ wanted \in Seq(Nat) /\ delivered \in Seq(Nat) /\ arrivals \in Nat
      /\ Len(wanted) \in Nat /\ Len(delivered) \in Nat
  BY LenProperties DEF PipeInv, PipeType
<1>2. \A i \in 1 .. Len(wanted) : wanted[i] \in 1 .. MaxArrivals
  <2> SUFFICES ASSUME NEW i \in 1 .. Len(wanted) PROVE wanted[i] \in 1 .. MaxArrivals
    OBVIOUS
  <2>1. wanted[i] \in Nat /\ 1 <= wanted[i] /\ wanted[i] <= arrivals
    BY <1>1, ElementOfSeq DEF PipeBounds, PipeInv, NumbersCount
  <2> QED BY <1>1, <2>1 DEF PipeBounds, Pipe!UdpAssumption
<1>3. \A i \in 1 .. Len(delivered) : delivered[i] \in 1 .. MaxArrivals
  <2>1. \A i \in 1 .. Len(delivered) : i \in 1 .. Len(wanted) /\ delivered[i] = wanted[i]
    BY ReturnedIsWanted
  <2> QED BY <1>2, <2>1
<1>4. wanted \in Seq(1 .. MaxArrivals)
  <2>1. wanted \in [1 .. Len(wanted) -> 1 .. MaxArrivals]
    BY <1>1, <1>2, LenProperties
  <2> QED BY <1>1, <2>1, IsSeq
<1>5. delivered \in Seq(1 .. MaxArrivals)
  <2>1. delivered \in [1 .. Len(delivered) -> 1 .. MaxArrivals]
    BY <1>1, <1>3, LenProperties
  <2> QED BY <1>1, <2>1, IsSeq
<1>6. arrivals \in 0 .. MaxArrivals
  BY <1>1 DEF PipeBounds, Pipe!UdpAssumption
<1> QED BY <1>4, <1>5, <1>6 DEF Pipe!TypeOK, PipeInv, PipeType, PipeBounds

LEMMA TilesAreTyped == TileInv => World!TypeOK
<1> SUFFICES ASSUME TileInv PROVE World!TypeOK
  OBVIOUS
<1> DEFINE s == [game |-> ledger, appended |-> appended]
<1>1. s \in [game : Game, appended : Seq(Tiles)] /\ NothingAbove(s.game) /\ s.game = ledger
  BY DEF TileInv, LedgerInv
<1> HIDE DEF s
<1>2. ledger \in Game /\ NothingAbove(ledger)
  BY <1>1
<1> QED BY <1>2 DEF TileInv, World!TypeOK, Game, Tile, NothingAbove

\* StoreBuffers: the flags are flags, and the last store of the transfer thread's flag
\* lowers it when the thread looks for a job.
GameBits == {e \in GameEntry : e.at = "wsi_state" => e.val \in {0, 1}}
TransferBits == {e \in TransferEntry : e.at = "busy" => e.val \in {0, 1}}

FlagFalls ==
    transfer \in {"scan", "take"} =>
        \/ ~Waiting("transfer", "busy") /\ memory["busy"] = 0
        \/ \E i \in 1 .. Len(buffer["transfer"]) :
              /\ buffer["transfer"][i] = [at |-> "busy", val |-> 0]
              /\ \A j \in 1 .. Len(buffer["transfer"]) :
                    buffer["transfer"][j].at = "busy" => j <= i

FlagsInv ==
    /\ buffer["game"] \in Seq(GameBits) /\ buffer["transfer"] \in Seq(TransferBits)
    /\ memory["busy"] \in {0, 1} /\ memory["wsi_state"] \in {0, 1}
    /\ requests <= MaxRequests /\ inits <= MaxInits
    /\ FlagFalls

LEMMA FlagsInit == Stores!BufferAssumption /\ Stores!Init => FlagsInv
<1> SUFFICES ASSUME Stores!BufferAssumption, Stores!Init PROVE FlagsInv
  OBVIOUS
<1>1. /\ buffer["game"] = << >> /\ buffer["transfer"] = << >> /\ requests = 0 /\ inits = 0
      /\ memory["busy"] = 0 /\ memory["wsi_state"] = 1
  BY DEF Stores!Init, Stores!Threads, Stores!Locations
<1>2. << >> \in Seq(GameBits) /\ << >> \in Seq(TransferBits)
  BY EmptySeq
<1> QED BY <1>1, <1>2 DEF FlagsInv, FlagFalls, Waiting, Stores!BufferAssumption

LEMMA FlagsGame == ASSUME StoreType, FlagsInv, Stores!Game PROVE FlagsInv'
<1>1. "game" \in Stores!Threads /\ "transfer" \in Stores!Threads
  BY DEF Stores!Threads
<1>2. \/ buffer' = buffer
      \/ \E puts \in Seq(GameBits) : Stores!Store("game", puts)
  <2>1. CASE Stores!FillSlot
    <3> DEFINE puts == Stores!JobStores(requests)
    <3>1. puts \in Seq(GameBits) /\ Stores!Store("game", puts)
      BY <2>1 DEF Stores!FillSlot, Stores!JobStores, Stores!Put, GameBits, GameEntry, StoreType
    <3> QED BY <3>1
  <2>2. CASE Stores!BeginInit
    <3> DEFINE puts == <<[at |-> "wsi_state", val |-> 0]>>
    <3>1. puts \in Seq(GameBits) /\ Stores!Store("game", puts)
      BY <2>2 DEF Stores!BeginInit, Stores!Put, GameBits, GameEntry
    <3> QED BY <3>1
  <2>3. CASE Stores!WriteWindow
    <3> DEFINE puts == <<[at |-> "device", val |-> inits], [at |-> "queue", val |-> inits]>>
    <3>1. puts \in Seq(GameBits) /\ Stores!Store("game", puts)
      BY <2>3 DEF Stores!WriteWindow, Stores!Put, GameBits, GameEntry, StoreType
    <3> QED BY <3>1
  <2>4. CASE Stores!OpenStream
    <3> DEFINE puts == <<[at |-> "wsi_state", val |-> 1]>>
    <3>1. puts \in Seq(GameBits) /\ Stores!Store("game", puts)
      BY <2>4 DEF Stores!OpenStream, Stores!Put, GameBits, GameEntry
    <3> QED BY <3>1
  <2>5. CASE Stores!ReserveSlot \/ Stores!WaitTransfer
    BY <2>5 DEF Stores!ReserveSlot, Stores!WaitTransfer
  <2> QED BY <2>1, <2>2, <2>3, <2>4, <2>5 DEF Stores!Game
<1>3. /\ buffer'["game"] \in Seq(GameBits)
      /\ buffer'["transfer"] = buffer["transfer"]
  <2>1. CASE buffer' = buffer
    BY <2>1 DEF FlagsInv
  <2>2. ASSUME NEW puts \in Seq(GameBits), Stores!Store("game", puts)
        PROVE  /\ buffer'["game"] \in Seq(GameBits)
               /\ buffer'["transfer"] = buffer["transfer"]
    BY <1>1, <2>2, Stored DEF FlagsInv
  <2> QED BY <1>2, <2>1, <2>2
<1>4. transfer' = transfer /\ memory'["busy"] = memory["busy"]
      /\ memory'["wsi_state"] = memory["wsi_state"]
  <2>1. memory' = memory \/ memory' = [memory EXCEPT !["status"] = 1]
    BY DEF Stores!Game, Stores!ReserveSlot, Stores!FillSlot, Stores!BeginInit,
           Stores!WaitTransfer, Stores!WriteWindow, Stores!OpenStream
  <2>2. transfer' = transfer
    BY DEF Stores!Game, Stores!ReserveSlot, Stores!FillSlot, Stores!BeginInit,
           Stores!WaitTransfer, Stores!WriteWindow, Stores!OpenStream, Stores!GameGoes
  <2> QED BY <2>1, <2>2 DEF StoreType, Stores!Locations
<1>5. /\ requests' = requests \/ (requests < MaxRequests /\ requests' = requests + 1)
      /\ inits' = inits \/ (inits < MaxInits /\ inits' = inits + 1)
  BY DEF Stores!Game, Stores!ReserveSlot, Stores!FillSlot, Stores!BeginInit,
         Stores!WaitTransfer, Stores!WriteWindow, Stores!OpenStream, Stores!GameGoes
<1>6. requests' <= MaxRequests /\ inits' <= MaxInits
  BY <1>5, PartsAssumption DEF FlagsInv, StoreType, Stores!BufferAssumption
<1>7. FlagFalls'
  BY <1>3, <1>4 DEF FlagsInv, FlagFalls, Waiting
<1> QED BY <1>3, <1>4, <1>6, <1>7 DEF FlagsInv

LEMMA TwoMore ==
    ASSUME NEW S, NEW s \in Seq(S), NEW t \in Seq(S), Len(t) = 2
    PROVE  s \o t \in Seq(S) /\ Len(s \o t) = Len(s) + 2 /\ (s \o t)[Len(s) + 2] = t[2]
<1>1. s \o t \in Seq(S) /\ Len(s \o t) = Len(s) + Len(t) /\ Len(s) \in Nat
  BY ConcatProperties, LenProperties
<1>2. (s \o t)[Len(s) + 2] = t[2]
  <2>1. /\ Len(s) + 2 \in 1 .. Len(s) + Len(t) /\ ~(Len(s) + 2 <= Len(s))
        /\ (Len(s) + 2) - Len(s) = 2
    BY <1>1
  <2>2. \A i \in 1 .. Len(s) + Len(t) :
           (s \o t)[i] = IF i <= Len(s) THEN s[i] ELSE t[i - Len(s)]
    BY ConcatProperties
  <2> QED BY <2>1, <2>2
<1> QED BY <1>1, <1>2

LEMMA FlagsTransfer == ASSUME StoreType, FlagsInv, Stores!Transfer PROVE FlagsInv'
<1>1. "game" \in Stores!Threads /\ "transfer" \in Stores!Threads
  BY DEF Stores!Threads
<1>2. UNCHANGED <<memory, requests, inits>> /\ buffer'["game"] = buffer["game"]
  BY DEF Stores!Transfer, Stores!ScanSlot, Stores!RaiseBusy, Stores!CheckWindow,
         Stores!LoadDevice, Stores!LoadValue, Stores!LoadQueue, Stores!ReleaseSlot,
         Stores!TransferGoes, Stores!Store, StoreType, Stores!Threads
<1>3. CASE Stores!RaiseBusy
  <2>1. transfer' = "check" /\ Stores!Store("transfer", <<[at |-> "busy", val |-> 1]>>)
    BY <1>3 DEF Stores!RaiseBusy, Stores!TransferGoes, Stores!Raised, Stores!Put
  <2>2. <<[at |-> "busy", val |-> 1]>> \in Seq(TransferBits)
    BY DEF TransferBits, TransferEntry
  <2>3. buffer'["transfer"] \in Seq(TransferBits)
    BY <1>1, <2>1, <2>2, Stored DEF FlagsInv
  <2> QED BY <1>2, <2>1, <2>3 DEF FlagsInv, FlagFalls
<1>4. CASE Stores!ReleaseSlot
  <2> DEFINE b == buffer["transfer"]
             e == [at |-> "busy", val |-> 0]
  <2>1. PICK puts \in Seq(TransferBits) :
          Stores!Store("transfer", puts) /\ Len(puts) = 2 /\ puts[2] = e
    <3> DEFINE puts == <<[at |-> "status", val |-> 0], [at |-> "busy", val |-> 0]>>
    <3>1. puts \in Seq(TransferBits) /\ Stores!Store("transfer", puts)
          /\ Len(puts) = 2 /\ puts[2] = e
      BY <1>4 DEF Stores!ReleaseSlot, Stores!Released, Stores!Put, TransferBits, TransferEntry
    <3> QED BY <3>1
  <2>2. /\ buffer'["transfer"] = b \o puts
        /\ b \in Seq(TransferBits) /\ Len(b) \in Nat
    BY <1>1, <2>1, LenProperties DEF Stores!Store, StoreType, FlagsInv
  <2> HIDE DEF b
  <2>3. /\ b \o puts \in Seq(TransferBits) /\ Len(b \o puts) = Len(b) + 2
        /\ (b \o puts)[Len(b) + 2] = puts[2]
    BY <2>1, <2>2, TwoMore
  <2>4. /\ Len(b) + 2 \in 1 .. Len(buffer'["transfer"])
        /\ buffer'["transfer"][Len(b) + 2] = e
        /\ \A j \in 1 .. Len(buffer'["transfer"]) : j <= Len(b) + 2
    BY <2>1, <2>2, <2>3
  <2>5. FlagFalls'
    BY <2>4 DEF FlagFalls
  <2> QED BY <1>2, <2>2, <2>3, <2>5 DEF FlagsInv
<1>5. CASE Stores!ScanSlot
  <2>1. transfer = "scan" /\ buffer' = buffer
    BY <1>5 DEF Stores!ScanSlot, Stores!TransferGoes
  <2>2. FlagFalls'
    BY <1>2, <2>1 DEF FlagsInv, FlagFalls, Waiting
  <2> QED BY <1>2, <2>1, <2>2 DEF FlagsInv
<1>6. CASE Stores!CheckWindow \/ Stores!LoadDevice \/ Stores!LoadValue \/ Stores!LoadQueue
  <2>1. transfer' \notin {"scan", "take"} /\ buffer' = buffer
    BY <1>6 DEF Stores!CheckWindow, Stores!LoadDevice, Stores!LoadValue, Stores!LoadQueue,
                Stores!TransferGoes
  <2> QED BY <1>2, <2>1 DEF FlagsInv, FlagFalls
<1> QED BY <1>3, <1>4, <1>5, <1>6 DEF Stores!Transfer

LEMMA FlagsDrainGame ==
    ASSUME StoreType, FlagsInv, Stores!Drain("game") PROVE FlagsInv'
<1> DEFINE b == buffer["game"]
           h == b[1]
<1>1. "game" \in Stores!Threads /\ "transfer" \in Stores!Threads
  BY DEF Stores!Threads
<1>2. /\ 1 \in 1 .. Len(b) /\ h \in Entry /\ memory'[h.at] = h.val
      /\ \A x \in Stores!Locations : x # h.at => memory'[x] = memory[x]
      /\ buffer'["transfer"] = buffer["transfer"]
      /\ UNCHANGED <<transfer, requests, inits>>
  BY <1>1, DrainedIs DEF Stores!threadVars
<1>3. buffer'["game"] = Tail(b) /\ b # << >>
  BY <1>1 DEF Stores!Drain, Stores!Drained, StoreType
<1>4. Tail(b) \in Seq(GameBits) /\ h \in GameBits
  BY <1>2, <1>3, HeadTailProperties, ElementOfSeq DEF FlagsInv
<1>5. memory'["busy"] = memory["busy"] /\ memory'["wsi_state"] \in {0, 1}
  <2>1. "busy" \in Stores!Locations /\ "wsi_state" \in Stores!Locations
    BY DEF Stores!Locations
  <2> QED BY <1>2, <1>4, <2>1 DEF FlagsInv, GameBits, GameEntry
<1>6. FlagFalls'
  BY <1>2, <1>5 DEF FlagsInv, FlagFalls, Waiting
<1> QED BY <1>2, <1>3, <1>4, <1>5, <1>6 DEF FlagsInv

LEMMA FlagsDrainTransfer ==
    ASSUME StoreType, FlagsInv, Stores!Drain("transfer") PROVE FlagsInv'
<1> DEFINE b == buffer["transfer"]
           h == b[1]
<1>1. "game" \in Stores!Threads /\ "transfer" \in Stores!Threads
  BY DEF Stores!Threads
<1>2. /\ 1 \in 1 .. Len(b) /\ h \in Entry /\ memory'[h.at] = h.val
      /\ \A x \in Stores!Locations : x # h.at => memory'[x] = memory[x]
      /\ Len(buffer'["transfer"]) = Len(b) - 1
      /\ \A i \in 1 .. Len(buffer'["transfer"]) :
            i + 1 \in 1 .. Len(b) /\ buffer'["transfer"][i] = b[i + 1]
      /\ \A i \in 1 .. Len(b) :
            i # 1 => i - 1 \in 1 .. Len(buffer'["transfer"])
                     /\ buffer'["transfer"][i - 1] = b[i]
      /\ buffer'["game"] = buffer["game"]
      /\ \A x : Waiting("transfer", x)' => Waiting("transfer", x)
      /\ UNCHANGED <<transfer, requests, inits>>
  BY <1>1, DrainedIs DEF Stores!threadVars
<1>3. buffer'["transfer"] = Tail(b) /\ b # << >> /\ Len(b) \in Nat
  BY <1>1, LenProperties DEF Stores!Drain, Stores!Drained, StoreType
<1>4. Tail(b) \in Seq(TransferBits) /\ h \in TransferBits
  BY <1>2, <1>3, HeadTailProperties, ElementOfSeq DEF FlagsInv
<1>5. "busy" \in Stores!Locations /\ "wsi_state" \in Stores!Locations
  BY DEF Stores!Locations
<1>6. memory'["busy"] \in {0, 1} /\ memory'["wsi_state"] \in {0, 1}
  BY <1>2, <1>4, <1>5 DEF FlagsInv, TransferBits, TransferEntry
<1>7. FlagFalls'
  <2> SUFFICES ASSUME transfer \in {"scan", "take"} PROVE FlagFalls'
    BY <1>2 DEF FlagFalls
  <2>1. CASE ~Waiting("transfer", "busy") /\ memory["busy"] = 0
    <3>1. h.at # "busy"
      BY <1>2, <2>1 DEF Waiting
    <3> QED BY <1>2, <1>5, <2>1, <3>1 DEF FlagFalls
  <2>2. ASSUME NEW i \in 1 .. Len(b), b[i] = [at |-> "busy", val |-> 0],
               \A j \in 1 .. Len(b) : b[j].at = "busy" => j <= i
        PROVE  FlagFalls'
    <3>1. CASE i = 1
      <4>1. memory'["busy"] = 0
        BY <1>2, <2>2, <3>1
      <4>2. ASSUME NEW j \in 1 .. Len(buffer'["transfer"])
            PROVE  buffer'["transfer"][j].at # "busy"
        <5>1. j + 1 \in 1 .. Len(b) /\ buffer'["transfer"][j] = b[j + 1] /\ ~(j + 1 <= 1)
          BY <1>2, <1>3
        <5> QED BY <2>2, <3>1, <5>1
      <4> QED BY <4>1, <4>2 DEF FlagFalls, Waiting
    <3>2. CASE i # 1
      <4>1. i - 1 \in 1 .. Len(buffer'["transfer"])
            /\ buffer'["transfer"][i - 1] = [at |-> "busy", val |-> 0]
        BY <1>2, <2>2, <3>2
      <4>2. ASSUME NEW j \in 1 .. Len(buffer'["transfer"]), buffer'["transfer"][j].at = "busy"
            PROVE  j <= i - 1
        <5>1. j + 1 \in 1 .. Len(b) /\ b[j + 1].at = "busy"
          BY <1>2, <4>2
        <5>2. j + 1 <= i
          BY <2>2, <5>1
        <5> QED BY <1>3, <5>2
      <4> QED BY <4>1, <4>2 DEF FlagFalls
    <3> QED BY <3>1, <3>2
  <2> QED BY <2>1, <2>2 DEF FlagsInv, FlagFalls
<1> QED BY <1>2, <1>3, <1>4, <1>6, <1>7 DEF FlagsInv

LEMMA FlagsStep == JobInv /\ FlagsInv /\ [Stores!Next]_storeVars => FlagsInv'
<1>1. JobInv /\ FlagsInv /\ Stores!Next => FlagsInv'
  BY FlagsGame, FlagsTransfer, FlagsDrainGame, FlagsDrainTransfer
  DEF JobInv, Stores!Next, Stores!Threads
<1>2. FlagsInv /\ UNCHANGED storeVars => FlagsInv'
  BY DEF storeVars, FlagsInv, FlagFalls, Waiting
<1> QED BY <1>1, <1>2

LEMMA StoresAreTyped == JobInv /\ FlagsInv => Stores!TypeOK
<1> SUFFICES ASSUME JobInv, FlagsInv PROVE Stores!TypeOK
  OBVIOUS
<1>1. StoreType /\ MaxRequests \in Nat /\ MaxInits \in Nat
  BY PartsAssumption DEF JobInv, Stores!BufferAssumption
<1>2. memory["status"] \in 0 .. 2 /\ handled \in 0 .. requests
  BY <1>1 DEF JobInv, Free, Reserved, Published, GivenBack, StoreType
<1>3. requests \in 0 .. MaxRequests /\ inits \in 0 .. MaxInits
  BY <1>1 DEF StoreType, FlagsInv
<1>4. \A t \in Stores!Threads : buffer[t] \in Seq([at : Stores!Locations, val : Nat])
  BY <1>1, BuffersType DEF Entry
<1>5. memory["busy"] = 1 /\ Stores!Drained("transfer") => transfer \notin {"scan", "take"}
  BY EmptySeq DEF Stores!Drained, FlagsInv, FlagFalls
<1> QED BY <1>1, <1>2, <1>3, <1>4, <1>5 DEF Stores!TypeOK, StoreType, FlagsInv

-----------------------------------------------------------------------------
(* A behaviour of the parts is of one of them, and the others keep still.     *)

LEMMA PartsInit ==
    MCInit => /\ Pipe!Init /\ Stores!Init /\ World!Init
              /\ part \in {"stun", "pipe", "world", "stores", "ordered"}
BY DEF MCInit

LEMMA PartsStep ==
    [MCNext]_<<part, vars, pipeVars, tileVars, storeVars>> =>
        /\ UNCHANGED part /\ [Pipe!Next]_pipeVars /\ [World!SimulateTick]_tileVars
        /\ [Stores!Next]_storeVars
        /\ part = "ordered" => [Ordered!Next]_storeVars
<1>1. Ordered!Next => Stores!Next
  BY OrderedSteps
<1> QED BY <1>1 DEF MCNext, Reading, Piping, Toggling, Storing, InOrder

\* Whatever arrives, and however the socket is opened, given a session and closed, no
\* descriptor is left open, and receive_batch returns the datagrams of the session, each
\* once and in order (vx_net.c:206-245).
THEOREM DatagramsDelivered == MCSpec => []PipeIsTight
<1>1. MCInit => PipeInv
  BY PartsInit, PipeInit, PartsAssumption
<1>2. PipeInv /\ [MCNext]_<<part, vars, pipeVars, tileVars, storeVars>> => PipeInv'
  BY PartsStep, PipeStep, PartsAssumption
<1>3. PipeInv => PipeIsTight
  BY DEF PipeInv, PipeIsTight
<1> QED BY <1>1, <1>2, <1>3, PTL DEF MCSpec

\* Every transfer job is executed with its own fields whatever the stores that wait, and
\* when no load passes a store the transfer thread works with objects of one
\* initialisation of the window (vk_transfer_loop.c:9-22, ring_stream.c:62-66).
THEOREM HandshakesAreSafe == MCSpec => []HandshakesHold
<1> DEFINE Inv == JobInv /\ (part = "ordered" => WindowInv)
<1>1. MCInit => Inv
  BY PartsInit, JobInit, WindowInit
<1>2. Inv /\ [MCNext]_<<part, vars, pipeVars, tileVars, storeVars>> => Inv'
  BY PartsStep, JobStep, WindowStep
<1>3. Inv => HandshakesHold
  <2>1. WindowInv => Ordered!WindowIsWhole
    BY DEF WindowInv, CopyIsDone, CopiesAlone, ReadsHold, Working, Ordered!WindowIsWhole
  <2> QED BY <2>1, JobsAreWhole DEF HandshakesHold
<1> HIDE DEF Inv
<1> QED BY <1>1, <1>2, <1>3, PTL DEF MCSpec

\* However often the ring of modified tiles wraps, and whatever is updated in place
\* meanwhile, the tiles appended last are all in it (plugin.lua:64-79).
THEOREM RingKeepsNewest == MCSpec => []NewestAreKept
<1>1. MCInit => TileInv
  BY PartsInit, TileInit
<1>2. TileInv /\ [MCNext]_<<part, vars, pipeVars, tileVars, storeVars>> => TileInv'
  BY PartsStep, TileStep
<1>3. TileInv => NewestAreKept
  BY TilesAreKept DEF NewestAreKept
<1> QED BY <1>1, <1>2, <1>3, PTL DEF MCSpec

\* The types of the parts: a batch never holds more than the caller's buffer
\* (vx_net.c:206), nothing above the count of tiles was ever written (plugin.lua:76-78),
\* and the flag of the transfer thread is up only while it has a job
\* (vk_transfer_loop.c:13-22).
THEOREM PartsAreTyped == MCSpec => []PartsTypeOK
<1> DEFINE Inv == PipeInv /\ PipeBounds /\ TileInv /\ JobInv /\ FlagsInv
<1>1. MCInit => Inv
  BY PartsInit, PartsAssumption, PipeInit, BoundsInit, TileInit, JobInit, FlagsInit
<1>2. Inv /\ [MCNext]_<<part, vars, pipeVars, tileVars, storeVars>> => Inv'
  BY PartsStep, PartsAssumption, PipeStep, BoundsStep, TileStep, JobStep, FlagsStep
<1>3. Inv => PartsTypeOK
  BY PartsAssumption, PipeIsTyped, TilesAreTyped, StoresAreTyped DEF PartsTypeOK
<1> HIDE DEF Inv
<1> QED BY <1>1, <1>2, <1>3, PTL DEF MCSpec
=============================================================================
