----------------------------- MODULE TcpStream ------------------------------
(***************************************************************************)
(* What the users of a TCP endpoint (the remote console and the network    *)
(* calls of AWP programs) may rely on: the nonblocking stream contract of  *)
(* kernel/tcp_stream.c and the endpoint calls of kernel/ipv4.c, with       *)
(* sequence numbers, segments and timers abstracted away.  A stream is a   *)
(* record:                                                                 *)
(*                                                                         *)
(*   listening    the endpoint serves frames                               *)
(*   phase        the TCP states a user can tell apart                     *)
(*   active       an active open was started (active_open)                 *)
(*   resolving    it waits for the next hop's address (connect_pending)    *)
(*   failed       it has failed (connect_failed)                           *)
(*   connections  how many connections were established so far             *)
(*   peerClosed, closeRequested, rx (bytes received and not yet read)      *)
(***************************************************************************)
EXTENDS Integers

CONSTANT ReceiveLimit       \* arwill_tcp_stream_receive_capacity

Phases == {"listen", "answering", "calling", "connected", "closing"}

Streams == [listening: BOOLEAN, phase: Phases, active: BOOLEAN, resolving: BOOLEAN,
            failed: BOOLEAN, connections: Nat, peerClosed: BOOLEAN,
            closeRequested: BOOLEAN, rx: 0 .. ReceiveLimit]

\* arwill_tcp_stream_init
Unused == [listening |-> FALSE, phase |-> "listen", active |-> FALSE, resolving |-> FALSE,
           failed |-> FALSE, connections |-> 0, peerClosed |-> FALSE,
           closeRequested |-> FALSE, rx |-> 0]

\* arwill_tcp_stream_connected, arwill_tcp_stream_close_complete
Connected(s) == s.listening /\ s.phase = "connected"
CloseComplete(s) == s.listening /\ s.phase = "listen" /\ ~s.closeRequested

\* reset_tcp_stream: the connection is over and nothing of it is left.
Ended(s) == [s EXCEPT !.phase = "listen", !.active = FALSE, !.resolving = FALSE,
                      !.peerClosed = FALSE, !.closeRequested = FALSE, !.rx = 0]

\* The same when the end is also the failure of an active open.
Failed(s) == [Ended(s) EXCEPT !.failed = @ \/ s.active]

-----------------------------------------------------------------------------
\* Calls.

\* arwill_ipv4_tcp_listen
Listen(s) == [Ended(s) EXCEPT !.listening = TRUE, !.failed = FALSE]

\* arwill_tcp_stream_stop
Stop(s) == [Ended(s) EXCEPT !.listening = FALSE, !.active = s.active,
                            !.resolving = s.resolving]

\* arwill_ipv4_tcp_connect, when it starts an active open.
ConnectStarts(s) == ~Connected(s) /\ ~s.failed /\ ~s.resolving /\ s.phase # "calling"
Connect(s) == [Ended(s) EXCEPT !.listening = TRUE, !.active = TRUE, !.resolving = TRUE]

\* arwill_tcp_stream_read and arwill_tcp_stream_close
Read(s, n) == [s EXCEPT !.rx = @ - n]
Close(s) == [s EXCEPT !.closeRequested = @ \/ Connected(s)]

-----------------------------------------------------------------------------
\* One arwill_ipv4_poll_tcp: maintenance, then at most one frame.

When(condition, outcomes) == IF condition THEN outcomes ELSE {}

\* Timers and retries may end whatever is under way, and the FIN of a requested
\* close may go out.
Maintained(s) ==
    {s}
    \cup When(s.resolving \/ s.phase # "listen", {Failed(s)})
    \cup When(s.phase \in {"connected", "closing"}, {Ended(s)})
    \cup When(Connected(s) /\ s.closeRequested,
              {[s EXCEPT !.phase = "closing", !.closeRequested = FALSE]})

Answering(s) == [s EXCEPT !.phase = "answering"]

\* A newcomer's SYN meets a listener, or a connection that is being closed.
SynTaken(s) ==
    When(s.phase = "listen", {Answering(s)})
    \cup When(s.phase = "closing" \/ s.closeRequested, {Answering(Ended(s))})

\* The handshake completes, with or without this side's SYN.
Opened(s) ==
    When(s.phase \in {"answering", "calling"},
         {[s EXCEPT !.phase = "connected", !.connections = @ + 1]})

\* Bytes that fit the ring, and the end of the peer's stream.
Fed(s) ==
    When(s.phase = "connected" /\ ~s.peerClosed,
         {[s EXCEPT !.rx = n, !.peerClosed = fin] : n \in s.rx .. ReceiveLimit, fin \in BOOLEAN})
    \cup When(s.phase = "closing", {[s EXCEPT !.peerClosed = TRUE]})

\* The next hop answers: the SYN goes out, or the device refuses it.
Dialled(s) ==
    When(s.resolving, {[s EXCEPT !.phase = "calling", !.resolving = FALSE, !.failed = f] :
                          f \in BOOLEAN})

\* An RST, or the last acknowledgement of a close.
CutOff(s) == When(s.phase # "listen", {Failed(s)})

Received(s) ==
    When(s.listening, SynTaken(s) \cup Opened(s) \cup Fed(s) \cup CutOff(s))
    \cup Dialled(s)

Polled(s) == UNION {{m} \cup Received(m) : m \in Maintained(s)}
=============================================================================
