------------------------- MODULE MCNetworkServices -------------------------
(***************************************************************************)
(* The remote console's service with its configuration and the event log,  *)
(* the network handles of AWP programs, and the retransmission timing of   *)
(* an endpoint.  They share no state; one run checks them side by side,    *)
(* each by itself.                                                         *)
(***************************************************************************)
EXTENDS Services, AwpNetwork, RetransmissionTimer

CONSTANTS home, conf, k, space
VARIABLE part

MCConfigPath == <<home, conf>>
MCPorts == {<<"8">>, <<"8", "0">>}
MCDefaultPort == <<"8">>
MCKeys == {<<>>, <<k>>, <<space>>}
MCOtherTexts == {<<>>, <<"config.version=1">>}
MCSuperblock == [u \in 1..SectorSize |-> Nul]

\* The service where another part moves: a machine without a disk.
MCIdleService ==
    /\ disk = <<>> /\ fs = [mounted |-> FALSE, entries |-> <<>>]
    /\ config = set_defaults /\ promised = {} /\ errors = 0 /\ losses = 0
    /\ LET s == Booted(config, FALSE)
       IN  service = s.service /\ net = s.net /\ log = s.log

MCInit ==
    /\ NetInit
    /\ TimerInit
    /\ \/ part = "service" /\ Init
       \/ part \in {"handles", "timer"} /\ MCIdleService

serviceRest == <<part, netVars, timerVars>>
handlesRest == <<part, vars, timerVars>>
timerRest == <<part, vars, netVars>>

MCNext ==
    \/ \E b \in BOOLEAN :
          part = "service" /\ ConfigureValue("remote.enabled", b) /\ UNCHANGED serviceRest
    \/ \E p \in PortTexts \cup {<<>>} :
          part = "service" /\ ConfigureValue("remote.port", p) /\ UNCHANGED serviceRest
    \/ \E level \in {"info", "debug"} :
          part = "service" /\ ConfigureValue("log.level", level) /\ UNCHANGED serviceRest
    \/ \E key \in Keys : part = "service" /\ SetRemoteKey(key) /\ UNCHANGED serviceRest
    \/ \E t \in OtherTexts : part = "service" /\ WriteByHand(t) /\ UNCHANGED serviceRest
    \/ part = "service" /\ RemoveByHand /\ UNCHANGED serviceRest
    \/ part = "service" /\ ServiceStart /\ UNCHANGED serviceRest
    \/ part = "service" /\ ServiceStop /\ UNCHANGED serviceRest
    \/ part = "service" /\ ServiceRestart /\ UNCHANGED serviceRest
    \/ part = "service" /\ Reboot /\ UNCHANGED serviceRest
    \/ \E i \in AppEndpoints : part = "handles" /\ poll_tcp(i) /\ UNCHANGED handlesRest
    \/ \E i \in UdpEndpoints : part = "handles" /\ poll_udp(i) /\ UNCHANGED handlesRest
    \/ \E t \in Tasks : part = "handles" /\ net_open(t) /\ UNCHANGED handlesRest
    \/ \E t \in Tasks, h \in Handles, port \in Ports :
          part = "handles" /\ net_bind(t, h, port) /\ UNCHANGED handlesRest
    \/ \E t \in Tasks, h \in Handles :
          part = "handles" /\ net_listen(t, h) /\ UNCHANGED handlesRest
    \/ \E t \in Tasks, h \in Handles :
          part = "handles" /\ net_connect(t, h) /\ UNCHANGED handlesRest
    \/ \E t \in Tasks, h \in Handles, n \in 1 .. ReceiveLimit :
          part = "handles" /\ net_read(t, h, n) /\ UNCHANGED handlesRest
    \/ \E t \in Tasks, h \in Handles :
          part = "handles" /\ net_close(t, h) /\ UNCHANGED handlesRest
    \/ \E t \in Tasks : part = "handles" /\ udp_open(t) /\ UNCHANGED handlesRest
    \/ \E t \in Tasks, port \in Ports :
          part = "handles" /\ udp_bind(t, port) /\ UNCHANGED handlesRest
    \/ \E t \in Tasks : part = "handles" /\ udp_connect(t) /\ UNCHANGED handlesRest
    \/ \E t \in Tasks : part = "handles" /\ udp_receive(t) /\ UNCHANGED handlesRest
    \/ \E t \in Tasks : part = "handles" /\ udp_close(t) /\ UNCHANGED handlesRest
    \/ \E t \in Tasks : part = "handles" /\ network_cleanup(t) /\ UNCHANGED handlesRest
    \/ part = "timer" /\ Tick /\ UNCHANGED timerRest
    \/ part = "timer" /\ remember_pending_segment /\ UNCHANGED timerRest
    \/ part = "timer" /\ maintain_pending_segment /\ UNCHANGED timerRest
    \/ part = "timer" /\ acknowledge_pending_segment /\ UNCHANGED timerRest
    \/ part = "timer" /\ reset_tcp_stream /\ UNCHANGED timerRest
    \/ part = "timer" /\ initialize_tcp_endpoint /\ UNCHANGED timerRest

MCSpec == MCInit /\ [][MCNext]_<<part, vars, netVars, timerVars>>

=============================================================================
