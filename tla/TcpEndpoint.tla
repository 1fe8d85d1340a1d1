---------------------------- MODULE TcpEndpoint -----------------------------
(***************************************************************************)
(* One TCP endpoint of kernel/ipv4.c together with its byte stream of      *)
(* kernel/tcp_stream.c, as functions on endpoint records.                  *)
(*                                                                         *)
(* A handler of the code is a function on a work record: the endpoint, the *)
(* segments handed to the network device so far, whether an ARP request    *)
(* was sent and the number of sends tried; fails holds the ordinals of the *)
(* sends the device refuses.  The receive and transmit rings are sequences *)
(* with a capacity.  Time is abstracted: a timer that was started may or   *)
(* may not have expired.                                                   *)
(***************************************************************************)
EXTENDS Tcp, SequencesExt

CONSTANTS
    ReceiveCapacity,        \* arwill_tcp_stream_receive_capacity
    TransmitCapacity,       \* arwill_tcp_stream_transmit_capacity
    PendingCapacity,        \* arwill_tcp_pending_segment_capacity
    SegmentLimit,           \* the smaller of the pending payload capacity and the peer's MSS
    MaxRetransmissions,     \* arwill_tcp_max_retransmissions
    ArpMaxAttempts,         \* arwill_tcp_arp_max_attempts
    PassiveSequence,        \* 0x41520000, the first initial sequence of a listener
    ActiveSequence          \* 0x41524000, the first initial sequence of an active open

ASSUME EndpointAssumption ==
    /\ {ReceiveCapacity, TransmitCapacity, PendingCapacity, SegmentLimit, ArpMaxAttempts}
          \subseteq Nat \ {0}
    /\ MaxRetransmissions \in Nat
    /\ {PassiveSequence, ActiveSequence} \subseteq SeqNumbers

\* initialize_tcp_endpoint on the endpoint arwill_ipv4_init or arwill_ipv4_tcp_open
\* allocates; the port is fixed for the endpoint's life.
initialize_tcp_endpoint ==
    [listener |-> listener_init(0), rx |-> <<>>, tx |-> <<>>,
     listening |-> FALSE, peerClosed |-> FALSE, closeRequested |-> FALSE,
     windowChanged |-> FALSE, connections |-> 0,
     pending |-> <<>>, closeTimer |-> FALSE, timeWaitTimer |-> FALSE,
     lastAdvertised |-> ReceiveCapacity, windowUpdate |-> FALSE,
     connectPeer |-> NoPeer, connectPending |-> FALSE, connectFailed |-> FALSE,
     activeOpen |-> FALSE, arpAttempts |-> 0]

stream_connected(e) == e.listening /\ listener_connected(e.listener)

advertised_receive_window(e) == ReceiveCapacity - Len(e.rx)

\* Wrong variant, for the mutation runs: the retransmission queue is kept.
reset_tcp_stream_pending(e) ==
    [e EXCEPT !.listener = listener_init(Plus(PassiveSequence, e.connections)),
              !.rx = <<>>, !.tx = <<>>, !.peerClosed = FALSE, !.closeRequested = FALSE,
              !.windowChanged = FALSE, !.closeTimer = FALSE,
              !.timeWaitTimer = FALSE, !.windowUpdate = FALSE, !.connectPending = FALSE,
              !.arpAttempts = 0, !.activeOpen = FALSE]

\* Wrong variant, for the mutation runs: a close request outlives its connection.
reset_tcp_stream_request(e) ==
    [e EXCEPT !.listener = listener_init(Plus(PassiveSequence, e.connections)),
              !.rx = <<>>, !.tx = <<>>, !.peerClosed = FALSE,
              !.windowChanged = FALSE, !.pending = <<>>, !.closeTimer = FALSE,
              !.timeWaitTimer = FALSE, !.windowUpdate = FALSE, !.connectPending = FALSE,
              !.arpAttempts = 0, !.activeOpen = FALSE]

\* Clears everything that belongs to a connection; the endpoint stays bound and,
\* if it was, listening.
reset_tcp_stream(e) ==
    [e EXCEPT !.listener = listener_init(Plus(PassiveSequence, e.connections)),
              !.rx = <<>>, !.tx = <<>>, !.peerClosed = FALSE, !.closeRequested = FALSE,
              !.windowChanged = FALSE, !.pending = <<>>, !.closeTimer = FALSE,
              !.timeWaitTimer = FALSE, !.windowUpdate = FALSE, !.connectPending = FALSE,
              !.arpAttempts = 0, !.activeOpen = FALSE]

-----------------------------------------------------------------------------
\* Calls of the application.

\* arwill_ipv4_tcp_listen
tcp_listen(e) ==
    LET r == reset_tcp_stream(e)
    IN  [r EXCEPT !.connectFailed = FALSE, !.listening = TRUE,
                  !.listener = listener_init(Plus(PassiveSequence, e.connections))]

\* arwill_tcp_stream_stop: the endpoint's own state (pending segments, timers,
\* connect) is left for maintain_stream_close to clean up.
stream_stop(e) ==
    [e EXCEPT !.rx = <<>>, !.tx = <<>>, !.peerClosed = FALSE, !.closeRequested = FALSE,
              !.windowChanged = FALSE, !.listening = FALSE, !.listener = listener_init(0)]

\* arwill_ipv4_tcp_connect when it starts a new attempt.
tcp_connect_starts(e) ==
    ~stream_connected(e) /\ ~e.connectFailed /\ ~e.connectPending
        /\ e.listener.state # "syn_sent"
tcp_connect(e, p) ==
    [reset_tcp_stream(e) EXCEPT !.listening = TRUE, !.connectPeer = p,
        !.connectPending = TRUE, !.activeOpen = TRUE]

\* arwill_tcp_stream_read of at most n bytes.
stream_read(e, n) ==
    LET k == IF n < Len(e.rx) THEN n ELSE Len(e.rx)
    IN  [e EXCEPT !.rx = SubSeq(@, k + 1, Len(@)),
                  !.windowChanged = @ \/ k # 0]

\* arwill_tcp_stream_write is all or nothing.
stream_write_fits(e, data) ==
    stream_connected(e) /\ Len(data) <= TransmitCapacity - Len(e.tx)
stream_write(e, data) == [e EXCEPT !.tx = @ \o data]

\* arwill_tcp_stream_close
stream_close(e) == [e EXCEPT !.closeRequested = @ \/ stream_connected(e)]

-----------------------------------------------------------------------------
\* Sending.

Work(e, fails) == [e |-> e, out |-> {}, arp |-> FALSE, sends |-> 0, fails |-> fails]

\* Whether the device takes the next frame.
SendSucceeds(w) == w.sends + 1 \notin w.fails

\* send_tcp_segment with the flags set: the current window goes into the frame.
send_tcp_segment(w, seg) ==
    LET win == advertised_receive_window(w.e)
        tried == [w EXCEPT !.sends = @ + 1]
    IN  IF ~SendSucceeds(w) THEN tried
        ELSE [tried EXCEPT
                !.out = @ \cup {[peer |-> seg.peer, flags |-> seg.flags, seq |-> seg.seq,
                                 ack |-> seg.ack, data |-> seg.data, win |-> win]},
                !.e.lastAdvertised = IF seg.peer = w.e.listener.peer THEN win ELSE @]

send_current_ack(w) == send_tcp_segment(w, Segment(w.e.listener, {"ack"}, <<>>))

\* send_reset_for_segment: no endpoint owns the port the segment went to.
ResetFor(s) ==
    LET consumed == Consumed(s) + (IF "syn" \in s.flags THEN 1 ELSE 0)
        answersAck == "ack" \in s.flags
    IN  [peer |-> s.peer, data |-> <<>>, win |-> 0,
         flags |-> IF answersAck THEN {"rst"} ELSE {"rst", "ack"},
         seq |-> IF answersAck THEN s.ack ELSE 0,
         ack |-> IF answersAck THEN 0 ELSE Plus(s.seq, consumed)]
send_reset_for_segment(w, s) ==
    IF "rst" \in s.flags \/ ~SendSucceeds(w) THEN w
    ELSE [w EXCEPT !.out = @ \cup {ResetFor(s)}, !.sends = @ + 1]

\* remember_pending_segment; the callers made sure that there is room.
remember_pending_segment(w, seg) ==
    LET octets == Len(seg.data) + (IF seg.flags \cap {"syn", "fin"} # {} THEN 1 ELSE 0)
        entry == [segment |-> seg, expected |-> Plus(seg.seq, octets), retransmissions |-> 0]
    IN  [w EXCEPT !.e.pending = Append(@, entry)]

-----------------------------------------------------------------------------
\* Maintenance, in the order arwill_ipv4_poll_tcp runs it.

\* maintain_active_connect: ask for the next hop, again and again, then give up.
maintain_active_connect(w, arpDue) ==
    LET e == w.e
    IN  CASE ~e.connectPending \/ (e.arpAttempts # 0 /\ ~arpDue) -> w
          [] e.connectPending /\ arpDue /\ e.arpAttempts >= ArpMaxAttempts ->
                [w EXCEPT !.e = [reset_tcp_stream(e) EXCEPT !.connectFailed = TRUE]]
          [] OTHER ->
                IF SendSucceeds(w)
                THEN [w EXCEPT !.sends = @ + 1, !.arp = TRUE, !.e.arpAttempts = @ + 1]
                ELSE [w EXCEPT !.sends = @ + 1]

\* Wrong variant, for the mutation runs: a SYN that was not sent is not a failure.
start_active_syn_hopeful(w) ==
    LET e == [w.e EXCEPT !.connectPending = FALSE,
                 !.listener = listener_connect(w.e.connectPeer,
                                  Plus(ActiveSequence, w.e.connections))]
        syn == [Segment(e.listener, {"syn"}, <<>>) EXCEPT !.ack = 0]
        sent == send_tcp_segment([w EXCEPT !.e = e], syn)
    IN  IF SendSucceeds(w) THEN remember_pending_segment(sent, syn) ELSE sent

\* start_active_syn, called by handle_arp_reply.
start_active_syn(w) ==
    LET e == [w.e EXCEPT !.connectPending = FALSE,
                 !.listener = listener_connect(w.e.connectPeer,
                                  Plus(ActiveSequence, w.e.connections))]
        syn == [Segment(e.listener, {"syn"}, <<>>) EXCEPT !.ack = 0]
        sent == send_tcp_segment([w EXCEPT !.e = e], syn)
    IN  IF SendSucceeds(w) /\ Len(e.pending) < PendingCapacity
        THEN remember_pending_segment(sent, syn)
        ELSE [sent EXCEPT !.e.connectFailed = TRUE]

OutOfRetries(entry) == entry.retransmissions >= MaxRetransmissions

\* Wrong variant, for the mutation runs: retransmissions are not counted.
maintain_pending_segment_uncounted(w, due) ==
    LET p == w.e.pending
        Retransmit(v, i) == IF i \in due THEN send_tcp_segment(v, p[i].segment) ELSE v
    IN  FoldLeft(Retransmit, w, [i \in DOMAIN p |-> i])

\* maintain_pending_segment; due holds the queue positions whose timeout has passed.
\* The first one out of retries resets the endpoint and ends the loop.
maintain_pending_segment(w, due) ==
    LET p == w.e.pending
        exhausted == {i \in due \cap DOMAIN p : OutOfRetries(p[i])}
        Retransmit(v, i) ==
            IF i \in due /\ \A x \in exhausted : i < x
            THEN [send_tcp_segment(v, p[i].segment) EXCEPT
                    !.e.pending[i].retransmissions = @ + 1]
            ELSE v
        resent == FoldLeft(Retransmit, w, [i \in DOMAIN p |-> i])
    IN  IF exhausted = {} THEN resent
        ELSE [resent EXCEPT !.e = [reset_tcp_stream(w.e) EXCEPT
                                     !.connectFailed = @ \/ w.e.activeOpen]]

\* Wrong variant, for the mutation runs: a half-closed connection is never given up.
ClosingStates_half == {"last_ack", "fin_wait_1", "closing"}

ClosingStates == {"last_ack", "fin_wait_1", "fin_wait_2", "closing"}

\* maintain_tcp_close: give a close or TIME-WAIT that takes too long up.
maintain_tcp_close(w, expired) ==
    LET st == w.e.listener.state
        running == IF st = "time_wait" THEN w.e.timeWaitTimer ELSE w.e.closeTimer
    IN  CASE st \notin ClosingStates \cup {"time_wait"} -> w
          [] st \in ClosingStates \cup {"time_wait"} /\ running /\ expired ->
                [w EXCEPT !.e = reset_tcp_stream(@)]
          [] OTHER -> [w EXCEPT !.e.closeTimer = @ \/ st # "time_wait",
                                !.e.timeWaitTimer = @ \/ st = "time_wait"]

\* maintain_window_update: announce a window that was last advertised as closed.
maintain_window_update(w) ==
    LET opened == /\ w.e.windowChanged /\ w.e.lastAdvertised = 0
                  /\ advertised_receive_window(w.e) # 0
        v == [w EXCEPT !.e.windowChanged = FALSE, !.e.windowUpdate = @ \/ opened]
    IN  IF v.e.windowUpdate /\ stream_connected(v.e)
        THEN [send_current_ack(v) EXCEPT !.e.windowUpdate = ~SendSucceeds(v)]
        ELSE v

\* One segment of queued data: sent, remembered and only then taken from the ring.
send_stream_data(v) ==
    LET limits == {Len(v.e.tx), SegmentLimit, v.e.listener.window}
        length == CHOOSE n \in limits : \A m \in limits : n <= m
        seg == Segment(v.e.listener, {"ack"}, SubSeq(v.e.tx, 1, length))
        sent == send_tcp_segment(v, seg)
    IN  IF ~SendSucceeds(v) THEN sent
        ELSE [remember_pending_segment(sent, seg) EXCEPT
                !.e.listener.seq = Plus(@, length),
                !.e.listener.window = @ - length,
                !.e.tx = SubSeq(@, length + 1, Len(@))]

\* flush_stream_transmit: fill the retransmission queue while data, window and
\* the device allow; a refused send ends the loop with the data still queued.
flush_stream_transmit(w) ==
    LET Ready(v, k) ==
            /\ Len(v.e.pending) = Len(w.e.pending) + k
            /\ Len(v.e.pending) < PendingCapacity
            /\ v.e.tx # <<>> /\ v.e.listener.window # 0
        loop[k \in 0 .. PendingCapacity] ==
            IF k = 0 THEN w
            ELSE IF Ready(loop[k - 1], k - 1) THEN send_stream_data(loop[k - 1])
                                              ELSE loop[k - 1]
    IN  IF stream_connected(w.e) THEN loop[PendingCapacity] ELSE w

\* Wrong variant, for the mutation runs: unacknowledged data is enough to wait for.
close_drained_sent(e) == stream_connected(e) /\ e.pending = <<>>

\* Everything written has been sent and acknowledged.
close_drained(e) == stream_connected(e) /\ e.tx = <<>> /\ e.pending = <<>>

\* maintain_stream_close: clean up after a stop, and send the FIN of a requested
\* close once everything written has been sent and acknowledged.
maintain_stream_close(w, expired) ==
    LET e == w.e
        stale == e.pending # <<>> \/ e.listener.state # "listen"
        drained == close_drained(e)
        fin == Segment(e.listener, {"fin", "ack"}, <<>>)
        begun == [w EXCEPT !.e.listener = begin_close(@), !.e.closeTimer = TRUE,
                           !.e.closeRequested = FALSE]
    IN  CASE ~e.listening /\ stale -> [w EXCEPT !.e = reset_tcp_stream(e)]
          [] e.listening /\ e.closeRequested /\ e.closeTimer /\ expired ->
                [w EXCEPT !.e = reset_tcp_stream(e)]
          [] e.listening /\ e.closeRequested /\ ~(e.closeTimer /\ expired) /\ ~drained ->
                [w EXCEPT !.e.closeTimer = TRUE]
          [] e.listening /\ e.closeRequested /\ ~(e.closeTimer /\ expired) /\ drained ->
                IF SendSucceeds(w)
                THEN remember_pending_segment(send_tcp_segment(begun, fin), fin)
                ELSE [w EXCEPT !.e = reset_tcp_stream(e), !.sends = @ + 1]
          [] OTHER -> w

\* The maintenance part of arwill_ipv4_poll_tcp.
maintain(w, due, expired, arpDue) ==
    LET a == maintain_active_connect(w, arpDue)
        served == flush_stream_transmit(maintain_window_update(
                     maintain_tcp_close(maintain_pending_segment(a, due), expired)))
    IN  maintain_stream_close(IF a.e.listening THEN served ELSE a, expired)

-----------------------------------------------------------------------------
\* The frame part of arwill_ipv4_poll_tcp.

\* Wrong variant, for the mutation runs: any acknowledgement empties the queue.
acknowledge_pending_segment_all(e, s) ==
    IF "ack" \in s.flags THEN [e EXCEPT !.pending = <<>>] ELSE e

\* acknowledge_pending_segment
acknowledge_pending_segment(e, s) ==
    LET Covered(i) == \/ s.ack = e.pending[i].expected
                      \/ SeqAfter(s.ack, e.pending[i].expected)
        k == CHOOSE n \in 0 .. Len(e.pending) :
                /\ \A i \in 1 .. n : Covered(i)
                /\ n < Len(e.pending) => ~Covered(n + 1)
    IN  IF "ack" \in s.flags THEN [e EXCEPT !.pending = SubSeq(@, k + 1, Len(@))] ELSE e

\* enqueue_stream_receive keeps what fits.
enqueue_stream_receive(e, data) ==
    LET all == e.rx \o data
        k == IF Len(all) < ReceiveCapacity THEN Len(all) ELSE ReceiveCapacity
    IN  [e EXCEPT !.rx = SubSeq(all, 1, k)]

\* After the listener accepted s: what changes besides the listener itself.
ApplySegment(e, s, before) ==
    LET l == e.listener
        advanced == l.ack # before.ack
        fed == IF listener_connected(l) /\ s.data # <<>> /\ advanced
               THEN enqueue_stream_receive(e, s.data) ELSE e
    IN  [fed EXCEPT
            !.connections = IF before.state \in {"syn_received", "syn_sent"}
                               /\ l.state = "established" THEN @ + 1 ELSE @,
            !.peerClosed = @ \/ ("fin" \in s.flags /\ advanced),
            !.timeWaitTimer = @ \/ (l.state = "time_wait" /\ before.state # "time_wait")]

\* The answer to an accepted segment, and what the acknowledged window lets out.
AnswerSegment(w, reply) ==
    LET sent == IF reply.flags = {} THEN w ELSE send_tcp_segment(w, reply)
        held == IF reply.flags = {"syn", "ack"} /\ w.e.pending = <<>>
                THEN remember_pending_segment(sent, reply) ELSE sent
    IN  IF reply.flags # {} /\ ~SendSucceeds(w) THEN sent ELSE flush_stream_transmit(held)

\* A TCP frame addressed to the endpoint's port.
receive_segment(w0, s) ==
    LET e0 == w0.e
        interrupts == /\ e0.listener.state \in ClosingStates \cup {"time_wait"}
                            \/ e0.closeRequested
                      /\ "syn" \in s.flags /\ ~listener_matches(e0.listener, s)
        w == IF interrupts THEN [w0 EXCEPT !.e = reset_tcp_stream(e0)] ELSE w0
        l == w.e.listener
        r == listener_receive(l, s)
        acked == acknowledge_pending_segment([w.e EXCEPT !.listener = r.listener], s)
    IN  CASE ~e0.listening -> send_reset_for_segment(w0, s)
          [] e0.listening /\ ~listener_matches(l, s) -> w
          [] e0.listening /\ listener_matches(l, s)
                /\ Len(s.data) > advertised_receive_window(w.e) /\ s.seq = l.ack ->
                send_current_ack(w)
          [] OTHER ->
                CASE ~r.accepted -> [w EXCEPT !.e.listener = r.listener]
                  [] r.accepted /\ l.state # "listen" /\ r.listener.state = "listen" ->
                        [w EXCEPT !.e = [reset_tcp_stream(acked) EXCEPT
                                           !.connectFailed = @ \/ acked.activeOpen]]
                  [] OTHER ->
                        AnswerSegment([w EXCEPT !.e = ApplySegment(acked, s, l)], r.reply)

=============================================================================
