----------------------------- MODULE TcpNetwork -----------------------------
(***************************************************************************)
(* A TCP endpoint of the kernel, the application that uses its stream, a   *)
(* remote TCP peer and the network between them.  The kernel side is       *)
(* TcpEndpoint; the peer is an ordinary TCP implementation and is external *)
(* to the repository.  The network loses, duplicates and reorders.         *)
(*                                                                         *)
(* Bytes are numbered: the i-th byte of either direction of a connection   *)
(* has the value i, so that order, loss and duplication show.              *)
(***************************************************************************)
EXTENDS TcpEndpoint, FiniteSetsExt

CONSTANTS
    PeerSequence,       \* the peer's initial sequence number
    Timed,              \* polls that come late, with every timer expired, are told apart
    Setups              \* what is explored, as records with the fields
                        \*   role          the kernel listens (passive: the remote
                        \*                 console) or opens the connection (active: curl)
                        \*   kernelBytes   how much the application writes on a connection
                        \*   peerBytes     how much the peer sends on a connection
                        \*   peerCapacity  the peer's receive buffer
                        \*   kernelBound   segments in flight to the kernel
                        \*   peerBound     segments in flight to the peer
                        \*   events        what may befall a connection
                        \*   failingSends  ordinals of sends within one poll that the
                        \*                 device may refuse

ASSUME NetworkAssumption ==
    /\ Timed \in BOOLEAN
    /\ PeerSequence \in SeqNumbers
    /\ \A s \in Setups :
          /\ s.role \in {"active", "passive"}
          /\ {s.kernelBytes, s.peerBytes, s.peerCapacity, s.kernelBound, s.peerBound}
                \subseteq Nat
          /\ s.events \subseteq {"close", "stop", "fin", "abort", "vanish"}
          /\ s.failingSends \subseteq Nat

VARIABLES
    ep,             \* the kernel's endpoint
    written,        \* per peer: bytes the application wrote on its connection
    consumed,       \* per peer: bytes the application read on its connection
    seen,           \* peers whose connection the kernel has established
    toKernel,       \* segments in flight to the kernel
    toPeer,         \* segments in flight to the peer
    arp,            \* an ARP request waits for its answer
    peer,           \* the remote TCP
    setup,          \* which of Setups this is
    pass            \* flips with every late poll

vars == <<ep, written, consumed, seen, toKernel, toPeer, arp, peer, setup, pass>>

\* What the network holds after new segments were sent: all that fits.  A segment
\* stays until it is lost, so it may arrive late, out of order and more than once.
Transit(channel, new, bound) ==
    LET all == channel \cup new
    IN  IF Cardinality(all) <= bound THEN {all} ELSE kSubset(bound, all)

Numbers(m, n) == [i \in 1 .. n - m + 1 |-> m + i - 1]

-----------------------------------------------------------------------------
\* The peer.  Offsets count octets of a direction: 0 is the SYN, i the i-th byte.

ClosedPeer == [conn |-> NoPeer, state |-> "closed", una |-> 0, nxt |-> 0, fin |-> FALSE,
               window |-> 0, irs |-> 0, got |-> <<>>, gotFin |-> FALSE, unread |-> 0,
               used |-> {}]

PeerExpects(q) == Plus(q.irs, 1 + Len(q.got) + (IF q.gotFin THEN 1 ELSE 0))

PeerSegment(q, flags, off, data) ==
    [peer |-> q.conn, flags |-> flags, seq |-> Plus(PeerSequence, off), data |-> data,
     ack |-> IF "ack" \in flags THEN PeerExpects(q) ELSE 0, win |-> setup.peerCapacity - q.unread]

PeerAck(q) == PeerSegment(q, {"ack"}, q.nxt, <<>>)

\* Everything from the first unacknowledged octet on, in one segment.
PeerUnacked(q) ==
    CASE q.state = "connecting" -> PeerSegment(q, {"syn"}, 0, <<>>)
      [] q.state = "open" /\ q.una = 0 -> PeerSegment(q, {"syn", "ack"}, 0, <<>>)
      [] OTHER ->
            PeerSegment(q, IF q.fin THEN {"ack", "fin"} ELSE {"ack"}, q.una,
                        Numbers(q.una, IF q.fin THEN q.nxt - 2 ELSE q.nxt - 1))

PeerSends(q, segments) ==
    /\ peer' = q
    /\ toKernel' \in Transit(toKernel, segments, setup.kernelBound)
    /\ UNCHANGED <<ep, written, consumed, seen, arp, setup, pass>>

\* A client opens a connection from a fresh port.
PeerConnect(p) ==
    LET q == [ClosedPeer EXCEPT !.conn = p, !.state = "connecting", !.nxt = 1,
                               !.used = peer.used \cup {p}]
    IN  /\ setup.role = "passive" /\ peer.state \in {"closed", "gone"} /\ p \notin peer.used
        /\ PeerSends(q, {PeerSegment(q, {"syn"}, 0, <<>>)})
        /\ UNCHANGED toPeer

PeerRetransmit ==
    /\ peer.state \in {"connecting", "open"} /\ peer.una < peer.nxt
    /\ PeerSends(peer, {PeerUnacked(peer)})
    /\ UNCHANGED toPeer

\* New data, as far as the kernel's window allows or one byte to probe it, and
\* possibly the end of the stream.
PeerSend(n, fin) ==
    LET q == [peer EXCEPT !.nxt = @ + n + (IF fin THEN 1 ELSE 0), !.fin = fin]
    IN  /\ peer.state = "open" /\ peer.una > 0 /\ ~peer.fin /\ (n > 0 \/ fin)
        /\ fin => "fin" \in setup.events
        /\ peer.nxt + n <= setup.peerBytes + 1
        /\ n <= 1 \/ peer.nxt - peer.una + n <= peer.window
        /\ PeerSends(q, {PeerSegment(peer, IF fin THEN {"ack", "fin"} ELSE {"ack"},
                                     peer.nxt, Numbers(peer.nxt, peer.nxt + n - 1))})
        /\ UNCHANGED toPeer

\* The application at the peer empties its buffer.
PeerReads ==
    /\ peer.state = "open" /\ peer.unread > 0
    /\ LET q == [peer EXCEPT !.unread = 0] IN PeerSends(q, {PeerAck(q)})
    /\ UNCHANGED toPeer

\* The peer gives up, with or without telling.
PeerAbort(tells) ==
    /\ peer.state \in {"connecting", "open"}
    /\ (IF tells THEN "abort" ELSE "vanish") \in setup.events
    /\ PeerSends([peer EXCEPT !.state = "gone"],
                 IF tells THEN {PeerSegment(peer, {"rst"}, peer.nxt, <<>>)} ELSE {})
    /\ UNCHANGED toPeer

\* How an open peer takes a segment: acknowledgement, then in-order data and FIN.
PeerTakes(q, s) ==
    LET acked == {o \in q.una .. q.nxt : Plus(PeerSequence, o) = s.ack /\ "ack" \in s.flags}
        p == [q EXCEPT !.una = IF acked = {} THEN @ ELSE Max(acked),
                       !.window = IF acked = {} THEN @ ELSE s.win]
        inOrder == s.seq = PeerExpects(q) /\ "syn" \notin s.flags
                      /\ Len(s.data) <= setup.peerCapacity - q.unread /\ ~q.gotFin
    IN  IF inOrder THEN [p EXCEPT !.got = @ \o s.data, !.unread = @ + Len(s.data),
                                  !.gotFin = "fin" \in s.flags]
                   ELSE p

Occupies(s) == s.data # <<>> \/ s.flags \cap {"syn", "fin"} # {}

PeerReceive(s) ==
    LET opened == [peer EXCEPT !.state = "open", !.una = 1, !.irs = s.seq, !.window = s.win]
        accepted == [ClosedPeer EXCEPT !.conn = s.peer, !.state = "open", !.nxt = 1,
                                       !.irs = s.seq, !.window = s.win]
        q == PeerTakes(peer, s)
    IN  /\ UNCHANGED toPeer
        /\ \/ /\ peer.state = "connecting" /\ s.peer = peer.conn
              /\ s.flags = {"syn", "ack"} /\ s.ack = Plus(PeerSequence, 1)
              /\ PeerSends(opened, {PeerAck(opened)})
           \/ /\ setup.role = "active" /\ peer.state = "closed" /\ s.flags = {"syn"}
              /\ PeerSends(accepted, {PeerSegment(accepted, {"syn", "ack"}, 0, <<>>)})
           \/ /\ peer.state = "open" /\ s.peer = peer.conn /\ "rst" \notin s.flags
              /\ PeerSends(q, IF Occupies(s) THEN {PeerAck(q)} ELSE {})
           \/ /\ peer.state \in {"connecting", "open"} /\ s.peer = peer.conn
              /\ "rst" \in s.flags
              /\ PeerSends([peer EXCEPT !.state = "gone"], {})

-----------------------------------------------------------------------------
\* The kernel.

\* One arwill_ipv4_poll_tcp of the network-poll task took the endpoint to w.
Polled(w) ==
    /\ ep' = w.e
    /\ toPeer' \in Transit(toPeer, w.out, setup.peerBound)
    /\ seen' = IF w.e.connections > ep.connections THEN seen \cup {w.e.listener.peer} ELSE seen
    /\ UNCHANGED <<written, consumed, peer, setup>>

\* The network loses a segment.
Lose ==
    /\ \/ \E s \in toKernel : toKernel' = toKernel \ {s} /\ UNCHANGED toPeer
       \/ \E s \in toPeer : toPeer' = toPeer \ {s} /\ UNCHANGED toKernel
    /\ UNCHANGED <<ep, written, consumed, seen, arp, peer, setup, pass>>

\* A SYN does not outlive the connection it opened: the network's segment lifetime
\* is shorter than the time a port pair is reused in.
Arrives(e, s) == ~("syn" \in s.flags /\ s.peer \in seen /\ e.listener.state = "listen")

\* arwill_ipv4_poll_tcp: maintenance, then at most one frame.
KernelPoll(due, expired, arpDue, fails) ==
    LET w == maintain(Work(ep, fails), due, expired, arpDue)
    IN  \/ Polled(w) /\ arp' = (arp \/ w.arp) /\ UNCHANGED toKernel
        \/ \E s \in toKernel :
              /\ Arrives(w.e, s)
              /\ Polled(receive_segment(w, s)) /\ arp' = (arp \/ w.arp)
              /\ UNCHANGED toKernel
        \/ /\ arp /\ arp' = w.arp /\ UNCHANGED toKernel
           /\ Polled(IF w.e.connectPending THEN start_active_syn(w) ELSE w)

\* A timer that was not started has not expired.
MayExpire(started) == IF started THEN BOOLEAN ELSE {FALSE}

Poll ==
    \E due \in SUBSET DOMAIN ep.pending,
       expired \in MayExpire(ep.closeTimer \/ ep.timeWaitTimer),
       arpDue \in MayExpire(ep.connectPending),
       fails \in SUBSET setup.failingSends : KernelPoll(due, expired, arpDue, fails) /\ UNCHANGED pass

\* A poll so late that every timer has expired, with the device taking every frame.
LatePoll == Timed /\ KernelPoll(DOMAIN ep.pending, TRUE, TRUE, {}) /\ pass' = 1 - pass

\* The application's calls.
AppCall(e) ==
    /\ ep' = e
    /\ UNCHANGED <<seen, toKernel, toPeer, arp, peer, setup, pass>>

AppWrite(n) ==
    LET p == ep.listener.peer
        data == Numbers(Len(written[p]) + 1, Len(written[p]) + n)
    IN  /\ stream_connected(ep) /\ Len(written[p]) + n <= setup.kernelBytes
        /\ stream_write_fits(ep, data)
        /\ AppCall(stream_write(ep, data))
        /\ written' = [written EXCEPT ![p] = @ \o data]
        /\ UNCHANGED consumed

AppRead(n) ==
    LET k == Min({n, Len(ep.rx)})
    IN  /\ ep.rx # <<>>
        /\ AppCall(stream_read(ep, n))
        /\ consumed' = [consumed EXCEPT ![ep.listener.peer] = @ \o SubSeq(ep.rx, 1, k)]
        /\ UNCHANGED written

AppClose ==
    /\ "close" \in setup.events /\ stream_connected(ep)
    /\ AppCall(stream_close(ep))
    /\ UNCHANGED <<written, consumed>>

\* The service is stopped and started again by arwill_service_*.
AppStop ==
    /\ "stop" \in setup.events /\ setup.role = "passive" /\ ep.listening
    /\ AppCall(stream_stop(ep))
    /\ UNCHANGED <<written, consumed>>
AppListen ==
    /\ setup.role = "passive" /\ ~ep.listening
    /\ AppCall(tcp_listen(ep))
    /\ UNCHANGED <<written, consumed>>

AppConnect(p) ==
    /\ setup.role = "active" /\ p \notin seen /\ tcp_connect_starts(ep)
    /\ AppCall(tcp_connect(ep, p))
    /\ UNCHANGED <<written, consumed>>

Init ==
    /\ setup \in Setups
    /\ pass = 0
    /\ ep = IF setup.role = "active" THEN initialize_tcp_endpoint
                               ELSE tcp_listen(initialize_tcp_endpoint)
    /\ written = [p \in Peers |-> <<>>]
    /\ consumed = [p \in Peers |-> <<>>]
    /\ seen = {}
    /\ toKernel = {}
    /\ toPeer = {}
    /\ arp = FALSE
    /\ peer = ClosedPeer

Next ==
    \/ Poll
    \/ LatePoll
    \/ \E n \in 1 .. setup.kernelBytes : AppWrite(n)
    \/ \E n \in 1 .. ReceiveCapacity : AppRead(n)
    \/ AppClose
    \/ AppStop
    \/ AppListen
    \/ \E p \in Peers : AppConnect(p) \/ PeerConnect(p)
    \/ PeerRetransmit
    \/ \E n \in 0 .. setup.peerBytes, fin \in BOOLEAN : PeerSend(n, fin)
    \/ PeerReads
    \/ \E tells \in BOOLEAN : PeerAbort(tells)
    \/ \E s \in toPeer : PeerReceive(s)
    \/ Lose

Spec == Init /\ [][Next]_vars

\* network-poll runs in every pass of the main loop, time passes, and the device
\* does not refuse every frame for ever: late polls keep happening.
FairSpec == Spec /\ WF_pass(pass' = 1 - pass)

-----------------------------------------------------------------------------

Segments == [peer: Peers, flags: SUBSET Flags, seq: SeqNumbers, ack: SeqNumbers,
             data: Seq(Nat), win: Nat]

\* The type invariant: rings and the retransmission queue stay within their capacity.
TypeOK ==
    /\ ep.listener \in Listeners
    /\ Len(ep.rx) <= ReceiveCapacity /\ Len(ep.tx) <= TransmitCapacity
    /\ Len(ep.pending) <= PendingCapacity
    /\ \A i \in DOMAIN ep.pending : ep.pending[i].retransmissions <= MaxRetransmissions
    /\ toKernel \cup toPeer \subseteq Segments

\* The connection whose two directions are compared with a byte stream, in
\* instances with one peer.
TheConnection == CHOOSE p \in Peers : TRUE

\* Bytes the peer has sent, its FIN not counted.
SentByPeer ==
    IF peer.nxt = 0 THEN <<>> ELSE Numbers(1, peer.nxt - (IF peer.fin THEN 2 ELSE 1))

Inbound == INSTANCE ByteStream WITH source <- SentByPeer, sink <- consumed[TheConnection]
Outbound == INSTANCE ByteStream WITH source <- written[TheConnection], sink <- peer.got

\* Inbound direction of a connection: whatever the network loses, repeats or
\* reorders, arwill_tcp_stream_read returns the peer's bytes once and in order.
InboundIsStream == Inbound!Spec

\* Outbound direction: the peer receives the bytes arwill_tcp_stream_write took,
\* once and in order, through retransmission and window limits.
OutboundIsStream == Outbound!Spec

\* Both directions of a connection (arwill_tcp_stream_read, arwill_tcp_stream_write) are
\* byte streams.
StreamsExact == InboundIsStream /\ OutboundIsStream

PhaseOf(state) ==
    CASE state = "listen" -> "listen"
      [] state = "syn_received" -> "answering"
      [] state = "syn_sent" -> "calling"
      [] state \in {"established", "close_wait"} -> "connected"
      [] OTHER -> "closing"

StreamView ==
    [listening |-> ep.listening, phase |-> PhaseOf(ep.listener.state),
     active |-> ep.activeOpen, resolving |-> ep.connectPending, failed |-> ep.connectFailed,
     connections |-> ep.connections, peerClosed |-> ep.peerClosed,
     closeRequested |-> ep.closeRequested, rx |-> Len(ep.rx)]

Contract == INSTANCE TcpStreamSpec WITH st <- StreamView, ReceiveLimit <- ReceiveCapacity

\* The endpoint implements the stream contract that the remote console and the AWP
\* network calls are written against: in particular one poll never takes a user from
\* one connection to the next, a close request survives until its FIN or the end of
\* the connection, and unread bytes vanish only with their connection.
ImplementsStreamContract == Contract!Spec

\* What arwill_tcp_listener_receive acknowledges on an open connection is in the
\* stream: nothing is acknowledged and then dropped for lack of room.
AcknowledgedIsRetained ==
    stream_connected(ep) =>
        LET p == ep.listener.peer
        IN  /\ ep.listener.ack = Plus(PeerSequence, 1 + Len(consumed[p]) + Len(ep.rx)
                                          + (IF ep.peerClosed THEN 1 ELSE 0))
            /\ ep.peerClosed <=> ep.listener.state = "close_wait"

\* No byte is forgotten: what the application wrote and is neither queued nor in
\* the retransmission queue has reached the peer.
UnackedIsPending ==
    stream_connected(ep) /\ peer.conn = ep.listener.peer =>
        LET held == FoldLeft(LAMBDA n, x : n + Len(x.segment.data), Len(ep.tx), ep.pending)
        IN  Len(written[peer.conn]) - held <= Len(peer.got)

\* The retransmission queue is contiguous in sequence space and ends at the next
\* sequence number, so that acknowledge_pending_segment may stop at the first gap.
PendingContiguous ==
    LET p == ep.pending
        next == IF ep.listener.state \in {"syn_sent", "syn_received"}
                THEN Plus(ep.listener.seq, 1) ELSE ep.listener.seq
    IN  ep.listening =>
          /\ \A i \in 1 .. Len(p) - 1 : p[i + 1].segment.seq = p[i].expected
          /\ p # <<>> => Last(p).expected = next

\* The retransmission queue after every handler: nothing missing, no gap.
PendingCoversUnacked == UnackedIsPending /\ PendingContiguous

\* The kernel holds every byte that is not yet where it belongs: what it acknowledged is
\* in the receive ring or read (enqueue_stream_receive), what it sent is queued until the
\* peer has it (acknowledge_pending_segment).
UnfinishedIsHeld == AcknowledgedIsRetained /\ PendingCoversUnacked

\* One connection's segments are never retransmitted into another: the queue only
\* holds segments of the present peer, after resets, stops and new listens.
PendingBelongsToPeer ==
    ep.listening => \A i \in DOMAIN ep.pending : ep.pending[i].segment.peer = ep.listener.peer

\* Connections that follow one another on an endpoint do not disturb each other: the
\* queue holds only the present peer's segments (reset_tcp_stream), and the present
\* connection acknowledges exactly what it has kept.
ConnectionsApart == TypeOK /\ PendingBelongsToPeer /\ AcknowledgedIsRetained

\* A close drains first: a peer that has seen the kernel's FIN in order has every
\* byte the application wrote (maintain_stream_close).
FinAfterAllData == peer.gotFin => peer.got = written[peer.conn]

\* A close the application asked for ends: the endpoint leaves the connection, by
\* the handshake, a newcomer's SYN, arwill_tcp_close_timeout_ms or
\* arwill_tcp_time_wait_ms.
CloseCompletes ==
    \A p \in Peers :
        LET Closing == /\ ep.listener.peer = p
                       /\ \/ ep.closeRequested
                          \/ PhaseOf(ep.listener.state) = "closing"
        IN  Closing ~> ~Closing

HalfOpen(p) == ep.listener.state = "syn_received" /\ ep.listener.peer = p

\* The client is gone and nothing of it is under way.
Silent(p) == (peer.conn = p => peer.state = "gone") /\ \A s \in toKernel : s.peer # p

\* A half-open connection does not hold the listener for ever: once its client is
\* silent, the retransmissions of the SYN-ACK that went out run out.
HalfOpenExpires ==
    \A p \in Peers : HalfOpen(p) /\ Silent(p) /\ ep.pending # <<>> ~> ~HalfOpen(p)

\* "Retry exhaustion releases a stuck listener for a new connection" (ADR-0042),
\* also when the device did not take the SYN-ACK.
HalfOpenReleased == \A p \in Peers : HalfOpen(p) /\ Silent(p) ~> ~HalfOpen(p)

\* An active open is decided: arwill_ipv4_tcp_connect_status reports a connection or
\* a failure, by ARP attempts and SYN retransmissions that run out.
ConnectResolves ==
    (ep.connectPending \/ ep.listener.state = "syn_sent")
        ~> (stream_connected(ep) \/ ep.connectFailed)

\* "Reject rather than acknowledge bytes that cannot be retained": the end of the
\* peer's stream is reported only when every byte before it was retained.
EndOfStreamIsComplete ==
    ep.peerClosed /\ peer.conn = ep.listener.peer =>
        Len(consumed[peer.conn]) + Len(ep.rx) = peer.nxt - 2

=============================================================================
