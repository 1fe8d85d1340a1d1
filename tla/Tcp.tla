-------------------------------- MODULE Tcp ---------------------------------
(***************************************************************************)
(* The TCP state machine of kernel/tcp.c as functions on listener records. *)
(* A segment names its remote side by one value, peer, standing for the    *)
(* address and port pair; the local side is the endpoint's own port.       *)
(***************************************************************************)
EXTENDS Integers, Sequences

CONSTANTS
    SeqSpace,       \* sequence numbers are 0 .. SeqSpace - 1; 2^32 in the code
    Peers,          \* remote address/port pairs
    NoPeer          \* the zeroed peer of a listener that has none

ASSUME SeqSpaceAssumption == SeqSpace \in Nat \ {0} /\ SeqSpace % 2 = 0
ASSUME NoPeerAssumption == NoPeer \notin Peers

SeqNumbers == 0 .. SeqSpace - 1
Flags == {"syn", "ack", "fin", "rst"}
TcpStates == {"listen", "syn_sent", "syn_received", "established", "close_wait",
              "last_ack", "fin_wait_1", "fin_wait_2", "closing", "time_wait"}

\* uint32_t arithmetic on sequence numbers.
Plus(a, n) == (a + n) % SeqSpace

\* arwill_tcp_sequence_before, arwill_tcp_sequence_after.
SeqBefore(left, right) ==
    left # right /\ (left - right) % SeqSpace > SeqSpace \div 2
SeqAfter(left, right) == SeqBefore(right, left)

-----------------------------------------------------------------------------

\* arwill_tcp_listener_init; arwill_tcp_listener_reset is the same with the port kept.
listener_init(iss) ==
    [state |-> "listen", peer |-> NoPeer, seq |-> iss, ack |-> 0, window |-> 0]

Listeners == [state: TcpStates, peer: Peers \cup {NoPeer}, seq: SeqNumbers,
              ack: SeqNumbers, window: Nat]

\* arwill_tcp_listener_connected
listener_connected(l) == l.state \in {"established", "close_wait"}

\* arwill_tcp_listener_matches, for a segment addressed to the listener's port.
listener_matches(l, s) == l.state = "listen" \/ s.peer = l.peer

acknowledgement_covers(l, a) == a = l.seq \/ SeqAfter(a, l.seq)

\* A segment the endpoint builds: the window is filled in when it is sent.
Segment(l, flags, data) ==
    [peer |-> l.peer, flags |-> flags, seq |-> l.seq, ack |-> l.ack, data |-> data]

\* The prepared reply with no flags, which send_tcp_segment_to does not send.
NoReply(s) == [peer |-> s.peer, flags |-> {}, seq |-> 0, ack |-> 0, data |-> <<>>]

\* The three outcomes of arwill_tcp_listener_receive.
Ignored(l, s) == [accepted |-> FALSE, listener |-> l, reply |-> NoReply(s)]
Accepted(l, s) == [accepted |-> TRUE, listener |-> l, reply |-> NoReply(s)]
Replied(l, flags) ==
    [accepted |-> TRUE, listener |-> l, reply |-> Segment(l, flags, <<>>)]

-----------------------------------------------------------------------------
\* arwill_tcp_listener_receive, one operator per state of the listener.

ReceiveSynSent(l, s) ==
    IF {"syn", "ack"} \subseteq s.flags /\ s.ack = Plus(l.seq, 1)
    THEN Replied([l EXCEPT !.seq = Plus(@, 1), !.ack = Plus(s.seq, 1),
                           !.state = "established"], {"ack"})
    ELSE Ignored(l, s)

ReceiveListen(l, s) ==
    IF "syn" \in s.flags
    THEN Replied([l EXCEPT !.peer = s.peer, !.ack = Plus(s.seq, 1),
                           !.state = "syn_received"], {"syn", "ack"})
    ELSE Ignored(l, s)

ReceiveSynReceived(l, s) ==
    CASE "syn" \in s.flags /\ Plus(s.seq, 1) = l.ack -> Replied(l, {"syn", "ack"})
      [] ~("syn" \in s.flags /\ Plus(s.seq, 1) = l.ack)
            /\ "ack" \in s.flags /\ s.ack = Plus(l.seq, 1) ->
            Accepted([l EXCEPT !.seq = Plus(@, 1), !.state = "established"], s)
      [] OTHER -> Ignored(l, s)

\* The octets a segment takes in sequence space beyond its SYN.
Consumed(s) == Len(s.data) + (IF "fin" \in s.flags THEN 1 ELSE 0)

\* Wrong variant, for the mutation runs: a segment is taken whatever its sequence number.
ReceiveEstablished_any(l, s) ==
    LET next == [l EXCEPT !.ack = Plus(@, Consumed(s)),
                          !.state = IF "fin" \in s.flags THEN "close_wait" ELSE @]
    IN  CASE "ack" \notin s.flags \/ SeqAfter(s.ack, l.seq) -> Ignored(l, s)
          [] OTHER -> IF Consumed(s) # 0 THEN Replied(next, {"ack"})
                                         ELSE Accepted(next, s)

ReceiveEstablished(l, s) ==
    LET next == [l EXCEPT !.ack = Plus(@, Consumed(s)),
                          !.state = IF "fin" \in s.flags THEN "close_wait" ELSE @]
    IN  CASE "ack" \notin s.flags \/ SeqAfter(s.ack, l.seq) -> Ignored(l, s)
          [] "ack" \in s.flags /\ ~SeqAfter(s.ack, l.seq) /\ s.seq # l.ack ->
                Replied(l, {"ack"})
          [] OTHER -> IF Consumed(s) # 0 THEN Replied(next, {"ack"})
                                         ELSE Accepted(next, s)

ReceiveCloseWait(l, s) ==
    IF "ack" \in s.flags /\ ~SeqAfter(s.ack, l.seq) THEN Accepted(l, s) ELSE Ignored(l, s)

ReceiveLastAck(l, s) ==
    IF "ack" \in s.flags /\ acknowledgement_covers(l, s.ack)
    THEN Accepted(listener_init(l.seq), s)
    ELSE Ignored(l, s)

ReceiveFinWait1(l, s) ==
    LET acknowledged == "ack" \in s.flags /\ acknowledgement_covers(l, s.ack)
        finished == "fin" \in s.flags /\ s.seq = l.ack
    IN  CASE finished ->
                Replied([l EXCEPT !.ack = Plus(@, 1),
                            !.state = IF acknowledged THEN "time_wait" ELSE "closing"],
                        {"ack"})
          [] ~finished /\ acknowledged -> Accepted([l EXCEPT !.state = "fin_wait_2"], s)
          [] OTHER -> Ignored(l, s)

ReceiveFinWait2(l, s) ==
    IF "fin" \in s.flags /\ s.seq = l.ack
    THEN Replied([l EXCEPT !.ack = Plus(@, 1), !.state = "time_wait"], {"ack"})
    ELSE Ignored(l, s)

ReceiveClosing(l, s) ==
    IF "ack" \in s.flags /\ acknowledgement_covers(l, s.ack)
    THEN Accepted([l EXCEPT !.state = "time_wait"], s)
    ELSE Ignored(l, s)

ReceiveTimeWait(l, s) ==
    IF "fin" \in s.flags THEN Replied(l, {"ack"}) ELSE Ignored(l, s)

\* The window is taken from every matching segment, an RST resets every state but
\* listen, and the rest is up to the state.
listener_receive(l0, s) ==
    LET l == [l0 EXCEPT !.window = s.win]
        st == l.state
    IN  CASE "rst" \in s.flags /\ st # "listen" -> Accepted(listener_init(l.seq), s)
          [] "rst" \in s.flags /\ st = "listen" -> Ignored(l, s)
          [] "rst" \notin s.flags ->
                CASE st = "listen" -> ReceiveListen(l, s)
                  [] st = "syn_sent" -> ReceiveSynSent(l, s)
                  [] st = "syn_received" -> ReceiveSynReceived(l, s)
                  [] st = "established" -> ReceiveEstablished(l, s)
                  [] st = "close_wait" -> ReceiveCloseWait(l, s)
                  [] st = "last_ack" -> ReceiveLastAck(l, s)
                  [] st = "fin_wait_1" -> ReceiveFinWait1(l, s)
                  [] st = "fin_wait_2" -> ReceiveFinWait2(l, s)
                  [] st = "closing" -> ReceiveClosing(l, s)
                  [] st = "time_wait" -> ReceiveTimeWait(l, s)

\* arwill_tcp_listener_connect: an active open from the given initial sequence.
listener_connect(p, iss) == [listener_init(iss) EXCEPT !.peer = p, !.state = "syn_sent"]

\* What arwill_tcp_listener_begin_close leaves after it built the FIN.
begin_close(l) ==
    [l EXCEPT !.seq = Plus(@, 1),
              !.state = IF @ = "close_wait" THEN "last_ack" ELSE "fin_wait_1"]

=============================================================================
