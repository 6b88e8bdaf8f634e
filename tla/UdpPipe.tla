------------------------------- MODULE UdpPipe -------------------------------
(***************************************************************************)
(* The UDP pipe of a client (network/transport/vx_net.c): its one socket,  *)
(* made in several steps each of which may fail, and the receive loop that *)
(* empties the kernel's queue into a buffer of the caller, keeping only    *)
(* what belongs to the session.  Whose address a datagram teaches is the   *)
(* subject of IcePunch, what the STUN reader makes of an answer that of    *)
(* StunReader.  A datagram has a number; its kind stands for its length.   *)
(***************************************************************************)
EXTENDS Naturals, Sequences

CONSTANTS
    Lobby,          \* peers of the session
    Fds,            \* file descriptors the process may have
    QueueSize,      \* bound on datagrams in the kernel's queue
    MaxCounts,      \* sizes of the caller's buffer
    MaxArrivals     \* bound on the datagrams that arrive

VARIABLES
    sock,       \* g_net.sock
    open,       \* descriptors of the process that are open
    session,    \* whether the session token is set
    active,     \* peers that can be sent to
    queue,      \* the kernel's receive queue
    call,       \* vx_net_recv_all under way: its max_count and out_buffer
    arrivals,   \* datagrams that arrived so far
    wanted,     \* those of the session, in order
    delivered   \* what calls of vx_net_recv_all returned, in order

pipeVars == <<sock, open, session, active>>
callVars == <<queue, call, arrivals, wanted, delivered>>
vars == <<pipeVars, callVars>>

Peers == 0 .. 7             \* the entries of g_net.peers
NoSocket == "invalid"
NoCall == [max |-> 0, out |-> <<>>]

\* What is assumed of the constants.
UdpAssumption ==
    /\ QueueSize \in Nat /\ MaxArrivals \in Nat
    /\ MaxCounts \subseteq Nat \ {0} /\ Lobby \subseteq Peers
    /\ NoSocket \notin Fds                    \* INVALID_SOCKET is no descriptor

Init ==
    /\ sock = NoSocket /\ open = {} /\ session = FALSE /\ active = {}
    /\ queue = <<>> /\ call = NoCall /\ arrivals = 0
    /\ wanted = <<>> /\ delivered = <<>>

-----------------------------------------------------------------------------
\* The descriptors left when a step of vx_net_host fails after the socket is made.
ClosedButForBind(fds, new, failed) ==       \* mutant: no close when bind fails
    IF failed = "bind" THEN fds \cup {new} ELSE fds
Closed(fds, new, failed) == fds

\* vx_net_host closes the socket there is; the new one is kept when it is
\* non-blocking, bound, and its port known.
Host ==
    LET kept == open \ {sock}
    IN
    /\ call = NoCall
    /\ \/ sock' = NoSocket /\ open' = kept      \* no platform, or no socket
       \/ \E fd \in Fds \ kept :
            \/ /\ \E failed \in {"nonblocking", "bind", "getsockname"} :
                     open' = Closed(kept, fd, failed)
               /\ sock' = NoSocket
            \/ open' = kept \cup {fd} /\ sock' = fd
    /\ queue' = <<>> /\ wanted' = delivered     \* what had not been read is gone
    /\ UNCHANGED <<session, active, call, arrivals, delivered>>

Shutdown ==
    /\ call = NoCall
    /\ open' = open \ {sock} /\ sock' = NoSocket
    /\ queue' = <<>> /\ wanted' = delivered
    /\ UNCHANGED <<session, active, call, arrivals, delivered>>

\* Once the lobby is locked: the token, then the peers of the session.
SetSession ==
    /\ sock # NoSocket /\ ~session
    /\ session' = TRUE
    /\ UNCHANGED <<sock, open, active, callVars>>

Connect(p) ==
    /\ session /\ sock # NoSocket /\ call = NoCall
    /\ active' = active \cup {p}
    /\ UNCHANGED <<sock, open, session, callVars>>

\* A datagram: of the two formats or shorter than both, with this session's token
\* or another, from a player in range or not.
Kinds == {"punch", "lockstep", "short"}
OfSession(d) == d.kind # "short" /\ d.token

Arrive ==
    /\ sock # NoSocket
    /\ arrivals < MaxArrivals /\ Len(queue) < QueueSize
    /\ arrivals' = arrivals + 1
    /\ \E kind \in Kinds, token \in BOOLEAN, pid \in {0, 255} :
          LET d == [no |-> arrivals', kind |-> kind, token |-> token, pid |-> pid]
          IN  /\ queue' = Append(queue, d)
              /\ wanted' = IF OfSession(d) THEN Append(wanted, d.no) ELSE wanted
    /\ UNCHANGED <<pipeVars, call, delivered>>

-----------------------------------------------------------------------------
(* vx_net_recv_all.                                                         *)

BeginReceive(max) ==
    /\ session /\ sock # NoSocket /\ call = NoCall
    /\ call' = [max |-> max, out |-> <<>>]
    /\ UNCHANGED <<pipeVars, queue, arrivals, wanted, delivered>>

HasRoomForMore == Len(call.out) <= call.max     \* mutant
HasRoom == Len(call.out) < call.max

AnyLength(d) == d.token                     \* mutant: a short one is not dropped
Kept(d) == OfSession(d)

PidInRange(pid) == {pid} \cap Peers

\* A datagram is read into the next place of the buffer, which it takes if kept.
ReceiveOne ==
    /\ call # NoCall /\ HasRoom /\ queue # <<>>
    /\ queue' = Tail(queue)
    /\ LET d == Head(queue)
       IN  IF Kept(d)
           THEN /\ call' = [call EXCEPT !.out = Append(@, d.no)]
                /\ active' = active \cup PidInRange(d.pid)
           ELSE UNCHANGED <<call, active>>
    /\ UNCHANGED <<sock, open, session, arrivals, wanted, delivered>>

\* The buffer is full or the queue empty, or recvfrom reports an error instead.
EndReceive ==
    /\ call # NoCall
    /\ delivered' = delivered \o call.out
    /\ call' = NoCall
    /\ UNCHANGED <<pipeVars, queue, arrivals, wanted>>

Next == \/ Host \/ Shutdown \/ SetSession \/ Arrive
        \/ \E p \in Lobby : Connect(p)
        \/ \E max \in MaxCounts : BeginReceive(max)
        \/ ReceiveOne \/ EndReceive

Spec == Init /\ [][Next]_vars
-----------------------------------------------------------------------------
\* Types; no more is written to the caller's buffer than fits, and no peer is
\* written outside of g_net.peers (vx_net.c:206, 237).
TypeOK ==
    /\ sock \in Fds \cup {NoSocket} /\ open \subseteq Fds /\ session \in BOOLEAN
    /\ active \subseteq Peers
    /\ Len(queue) <= QueueSize /\ arrivals \in 0 .. MaxArrivals
    /\ call = NoCall \/ call.max \in MaxCounts
    /\ Len(call.out) <= call.max
    /\ {wanted, delivered} \subseteq Seq(1 .. MaxArrivals)

\* However often the socket is made anew and at whichever step that fails, no
\* descriptor but the current one stays open (vx_net.c:117-164, 97-103).
NoSocketLeaks == open = {sock} \ {NoSocket}

\* Between the calls, over buffers too small for what has come, no datagram of the
\* session is lost, returned twice or out of order, and no other is returned: what was
\* returned is a prefix of what was to be, the rest is in the queue, and both are in
\* the order of arrival, which the numbers count (vx_net.c:206-245).
SessionIsDelivered ==
    LET got == delivered \o call.out
        missing == Len(got) + 1 .. Len(wanted)
    IN  /\ Len(got) <= Len(wanted)
        /\ \A i \in 1 .. Len(got) : got[i] = wanted[i]
        /\ \A i \in missing :
              \E j \in DOMAIN queue : OfSession(queue[j]) /\ queue[j].no = wanted[i]
        /\ \A j \in DOMAIN queue :
              OfSession(queue[j]) => \E i \in missing : wanted[i] = queue[j].no
        /\ \A i, j \in DOMAIN wanted : i < j => wanted[i] < wanted[j]
        /\ \A i, j \in DOMAIN queue : i < j => queue[i].no < queue[j].no
=============================================================================
