----------------------------- MODULE AwpNetwork -----------------------------
(***************************************************************************)
(* The network calls of AWP programs: the handles of kernel/awp_network.c, *)
(* the fixed endpoint tables of kernel/ipv4.c they refer to, and the poll  *)
(* of the network-poll task.  The stream of an endpoint is the contract of *)
(* TcpStream, which TcpNetwork is shown to implement.  Endpoint 0 is the   *)
(* remote console's: programs only meet the port it holds, and what its    *)
(* stream does is left to TcpNetwork.                                      *)
(***************************************************************************)
EXTENDS TcpStream, FiniteSets, FiniteSetsExt

CONSTANTS
    TaskCapacity,       \* arwill_user_task_capacity; each task slot owns handles
    TcpCapacity,        \* arwill_tcp_endpoint_capacity
    UdpCapacity,        \* arwill_udp_endpoint_capacity
    HandleCapacity,     \* arwill_awp_network_handle_capacity
    Ports,              \* local ports a program may ask for
    RemotePort,         \* the port endpoint 0 is bound to
    ConnectionBound     \* how many connections an endpoint sees in an instance

Tasks == 0 .. TaskCapacity - 1
TcpEndpoints == 0 .. TcpCapacity - 1
AppEndpoints == TcpEndpoints \ {0}
UdpEndpoints == 0 .. UdpCapacity - 1
Handles == 0 .. HandleCapacity - 1
None == -1              \* a null pointer

ASSUME NetworkConstantsAssumption ==
    /\ {TaskCapacity, TcpCapacity, UdpCapacity, HandleCapacity, ConnectionBound} \subseteq Nat
    /\ TcpCapacity > 0
    /\ Ports \cup {RemotePort} \subseteq Nat \ {0}

VARIABLES
    tcp,            \* stack->endpoints
    udp,            \* stack->udp_endpoints
    owner           \* task->network, per task slot

netVars == <<tcp, udp, owner>>

\* initialize_tcp_endpoint, initialize_udp_endpoint; port 0 is no port.
FreeTcp == [allocated |-> FALSE, port |-> 0, s |-> Unused]
FreeUdp == [allocated |-> FALSE, port |-> 0, phase |-> "idle", datagram |-> FALSE]

\* clear_handle and arwill_awp_network_owner_init
FreeHandle == [stream |-> None, port |-> 0, state |-> "free"]
owner_init == [handle |-> [h \in Handles |-> FreeHandle],
               udp |-> None, udpBound |-> FALSE, udpConnecting |-> FALSE]

\* arwill_ipv4_init and the start of the remote-console service.
NetInit ==
    /\ tcp = [i \in TcpEndpoints |->
                IF i # 0 THEN FreeTcp
                ELSE [allocated |-> TRUE, port |-> RemotePort, s |-> Listen(Unused)]]
    /\ udp = [i \in UdpEndpoints |-> FreeUdp]
    /\ owner = [t \in Tasks |-> owner_init]
-----------------------------------------------------------------------------
\* TCP calls of task t.  An action is a call that changes something; a call that is
\* refused, or has nothing to do yet, is a stuttering step.  What a call answers is an
\* operator of its own where a property is about it.

SetHandle(t, h, record) == owner' = [owner EXCEPT ![t].handle[h] = record]
StreamOf(hd) == tcp[hd.stream].s

FreeHandles(t) == {h \in Handles : owner[t].handle[h].state = "free"}
FreeEndpoints == {i \in AppEndpoints : ~tcp[i].allocated}

\* arwill_awp_network_open, arwill_ipv4_tcp_open
net_open(t) ==
    /\ FreeHandles(t) # {} /\ FreeEndpoints # {}
    /\ LET i == Min(FreeEndpoints)
       IN  /\ tcp' = [tcp EXCEPT ![i] = [FreeTcp EXCEPT !.allocated = TRUE]]
           /\ SetHandle(t, Min(FreeHandles(t)), [stream |-> i, port |-> 0, state |-> "open"])
    /\ UNCHANGED udp

local_port_available(i, port) ==
    \A j \in TcpEndpoints \ {i} : tcp[j].allocated => tcp[j].port # port

\* arwill_awp_network_bind, arwill_ipv4_tcp_bind
net_bind(t, h, port) ==
    LET hd == owner[t].handle[h]
    IN  /\ hd.state = "open"
        /\ tcp[hd.stream].port = 0 /\ local_port_available(hd.stream, port)
        /\ tcp' = [tcp EXCEPT ![hd.stream].port = port]
        /\ SetHandle(t, h, [hd EXCEPT !.port = port, !.state = "bound"])
        /\ UNCHANGED udp

\* arwill_awp_network_listen, arwill_ipv4_tcp_listen
net_listen(t, h) ==
    LET hd == owner[t].handle[h]
    IN  /\ hd.state = "bound"
        /\ tcp' = [tcp EXCEPT ![hd.stream].s = Listen(@)]
        /\ SetHandle(t, h, [hd EXCEPT !.state = "listening"])
        /\ UNCHANGED udp

\* arwill_awp_network_connect, arwill_ipv4_tcp_connect: the call that starts an open.
net_connect(t, h) ==
    LET hd == owner[t].handle[h]
    IN  /\ hd.state = "bound" /\ ConnectStarts(StreamOf(hd))
        /\ tcp' = [tcp EXCEPT ![hd.stream].s = Connect(@)]
        /\ SetHandle(t, h, [hd EXCEPT !.state = "connecting"])
        /\ UNCHANGED udp

\* What the calls after it answer (arwill_ipv4_tcp_connect_status).
connect_result(hd) ==
    CASE StreamOf(hd).failed -> "unavailable"
      [] ~StreamOf(hd).failed /\ Connected(StreamOf(hd)) -> "ok"
      [] OTHER -> "retry"

Readable(hd) == hd.state \in {"listening", "connecting", "closing"}

\* arwill_awp_network_read of up to n bytes
net_read(t, h, n) ==
    LET hd == owner[t].handle[h]
    IN  /\ Readable(hd) /\ StreamOf(hd).rx > 0
        /\ tcp' = [tcp EXCEPT ![hd.stream].s = Read(@, Min({n, @.rx}))]
        /\ UNCHANGED <<udp, owner>>

read_result(hd) ==
    LET s == StreamOf(hd)
    IN  CASE s.rx > 0 -> "bytes"
          [] s.rx = 0 /\ ~Connected(s) /\ s.connections # 0 -> "closed"
          [] OTHER -> "retry"

\* arwill_ipv4_tcp_release: stop and initialise, except endpoint 0.
Released(streams) ==
    [i \in TcpEndpoints |-> IF i \in streams \ {0} THEN FreeTcp ELSE tcp[i]]

\* arwill_awp_network_close begins the close of a connection ...
begin_close(t, h) ==
    LET hd == owner[t].handle[h]
    IN  /\ tcp' = [tcp EXCEPT ![hd.stream].s = Close(@)]
        /\ SetHandle(t, h, [hd EXCEPT !.state = "closing"])
        /\ UNCHANGED udp

\* ... and a later call ends it; a handle without a connection is closed at once.
close_result(hd) ==
    IF hd.state = "closing" THEN IF CloseComplete(StreamOf(hd)) THEN "ok" ELSE "retry"
    ELSE IF Connected(StreamOf(hd)) THEN "begins" ELSE "ok"

net_close(t, h) ==
    LET hd == owner[t].handle[h]
    IN  /\ hd.state # "free"
        /\ \/ close_result(hd) = "begins" /\ begin_close(t, h)
           \/ /\ close_result(hd) = "ok"
              /\ tcp' = Released({hd.stream})
              /\ SetHandle(t, h, FreeHandle)
              /\ UNCHANGED udp

-----------------------------------------------------------------------------
\* UDP calls of task t.

FreeUdpEndpoints == {i \in UdpEndpoints : ~udp[i].allocated}

\* arwill_awp_udp_open, arwill_ipv4_udp_open
udp_open(t) ==
    /\ owner[t].udp = None /\ FreeUdpEndpoints # {}
    /\ LET i == Min(FreeUdpEndpoints)
       IN  /\ udp' = [udp EXCEPT ![i] = [FreeUdp EXCEPT !.allocated = TRUE]]
           /\ owner' = [owner EXCEPT ![t].udp = i]
    /\ UNCHANGED tcp

\* arwill_ipv4_udp_bind
udp_port_available(i, port) ==
    \A j \in UdpEndpoints \ {i} : udp[j].allocated => udp[j].port # port

\* arwill_awp_udp_bind
udp_bind(t, port) ==
    /\ owner[t].udp # None /\ ~owner[t].udpBound
    /\ udp_port_available(owner[t].udp, port)
    /\ udp' = [udp EXCEPT ![owner[t].udp].port = port]
    /\ owner' = [owner EXCEPT ![t].udpBound = TRUE]
    /\ UNCHANGED tcp

\* arwill_awp_udp_connect, arwill_ipv4_udp_connect: the call that starts resolution.
udp_connect(t) ==
    /\ owner[t].udp # None /\ owner[t].udpBound /\ ~owner[t].udpConnecting
    /\ udp' = [udp EXCEPT ![owner[t].udp].phase = "resolving"]
    /\ owner' = [owner EXCEPT ![t].udpConnecting = TRUE]
    /\ UNCHANGED tcp

\* arwill_awp_udp_receive into a buffer that is large enough
udp_receive(t) ==
    /\ owner[t].udp # None /\ udp[owner[t].udp].datagram
    /\ udp' = [udp EXCEPT ![owner[t].udp].datagram = FALSE]
    /\ UNCHANGED <<tcp, owner>>

\* arwill_awp_udp_close
udp_close(t) ==
    /\ owner[t].udp # None
    /\ udp' = [udp EXCEPT ![owner[t].udp] = FreeUdp]
    /\ owner' = [owner EXCEPT ![t].udp = None, ![t].udpBound = FALSE, ![t].udpConnecting = FALSE]
    /\ UNCHANGED tcp

\* Wrong variant, for the mutation runs: the handles are cleared, nothing is released.
network_cleanup_handles(t) ==
    owner' = [owner EXCEPT ![t] = owner_init] /\ UNCHANGED <<tcp, udp>>

\* arwill_awp_network_cleanup: the program in slot t ends, however it does, and the
\* slot may be used for another one.
network_cleanup(t) ==
    /\ tcp' = Released({owner[t].handle[h].stream : h \in Handles})
    /\ udp' = [i \in UdpEndpoints |-> IF i = owner[t].udp THEN FreeUdp ELSE udp[i]]
    /\ owner' = [owner EXCEPT ![t] = owner_init]

-----------------------------------------------------------------------------
\* arwill_ipv4_poll_tcp over the tables.  The endpoints do not touch each other, and
\* whether a timer is due or a frame is there is open: the effect of one poll on
\* several endpoints is that of one step for each.

poll_tcp(i) ==
    /\ tcp[i].allocated
    /\ \E s \in Polled(tcp[i].s) :
          s.connections <= ConnectionBound /\ tcp' = [tcp EXCEPT ![i].s = s]
    /\ UNCHANGED <<udp, owner>>

\* maintain_udp_connect, handle_arp_reply, handle_udp_frame: a datagram that finds the
\* one before it unread is dropped.
poll_udp(i) ==
    /\ udp[i].allocated
    /\ \/ /\ udp[i].phase = "resolving"
          /\ \E answer \in {"connected", "failed"} : udp' = [udp EXCEPT ![i].phase = answer]
       \/ udp[i].phase = "connected" /\ udp' = [udp EXCEPT ![i].datagram = TRUE]
    /\ UNCHANGED <<tcp, owner>>

Poll == (\E i \in AppEndpoints : poll_tcp(i)) \/ (\E i \in UdpEndpoints : poll_udp(i))

TcpCall(t) ==
    \/ net_open(t)
    \/ \E h \in Handles :
          \/ \E port \in Ports : net_bind(t, h, port)
          \/ net_listen(t, h)
          \/ net_connect(t, h)
          \/ \E n \in 1 .. ReceiveLimit : net_read(t, h, n)
          \/ net_close(t, h)

UdpCall(t) ==
    \/ udp_open(t)
    \/ \E port \in Ports : udp_bind(t, port)
    \/ udp_connect(t)
    \/ udp_receive(t)
    \/ udp_close(t)

NetNext ==
    \/ Poll
    \/ \E t \in Tasks : TcpCall(t) \/ UdpCall(t) \/ network_cleanup(t)

NetSpec == NetInit /\ [][NetNext]_netVars

-----------------------------------------------------------------------------

HandleStates == {"free", "open", "bound", "listening", "connecting", "closing"}

NetTypeOK ==
    /\ tcp \in [TcpEndpoints -> [allocated: BOOLEAN, port: Ports \cup {0, RemotePort}, s: Streams]]
    /\ udp \in [UdpEndpoints -> [allocated: BOOLEAN, port: Ports \cup {0}, datagram: BOOLEAN,
                                 phase: {"idle", "resolving", "connected", "failed"}]]
    /\ owner \in [Tasks ->
          [handle: [Handles -> [stream: AppEndpoints \cup {None}, port: Ports \cup {0},
                                state: HandleStates]],
           udp: UdpEndpoints \cup {None}, udpBound: BOOLEAN, udpConnecting: BOOLEAN]]

\* "Task exit, cancellation, fault, and slot reuse force-release all owned handles"
\* (ADR-0061), and nothing else is ever released: every endpoint in use belongs to
\* exactly one handle of one task, every handle in use to an endpoint, and a released
\* endpoint keeps nothing of its last connection for the next one.
EndpointsOwned ==
    LET Refs(i) == {x \in Tasks \X Handles : owner[x[1]].handle[x[2]].stream = i}
        UdpRefs(i) == {t \in Tasks : owner[t].udp = i}
    IN  /\ \A i \in AppEndpoints :
              IF tcp[i].allocated THEN Cardinality(Refs(i)) = 1
                                  ELSE Refs(i) = {} /\ tcp[i] = FreeTcp
        /\ \A i \in UdpEndpoints :
              IF udp[i].allocated THEN Cardinality(UdpRefs(i)) = 1
                                  ELSE UdpRefs(i) = {} /\ udp[i] = FreeUdp
        /\ tcp[0].allocated

\* A frame finds at most one endpoint: no two endpoints in use have one local port,
\* and a handle knows the port its endpoint is bound to.
PortsExclusive ==
    /\ \A i, j \in TcpEndpoints :
          i # j /\ tcp[i].allocated /\ tcp[j].allocated /\ tcp[i].port = tcp[j].port
              => tcp[i].port = 0
    /\ \A i, j \in UdpEndpoints :
          i # j /\ udp[i].allocated /\ udp[j].allocated /\ udp[i].port = udp[j].port
              => udp[i].port = 0
    /\ \A t \in Tasks, h \in Handles :
          LET hd == owner[t].handle[h]
          IN  hd.stream # None => tcp[hd.stream].port = hd.port

\* What a handle is for and what its endpoint does never drift apart, whatever frames
\* and timers do: no traffic before listen or connect, no active open behind a
\* listener, an active open that is under way, has failed or has been established
\* behind a connecting handle, and no closing handle that never had a connection.
HandleMatchesEndpoint ==
    \A t \in Tasks, h \in Handles :
        LET hd == owner[t].handle[h]
            s == StreamOf(hd)
        IN  /\ hd.state \in {"open", "bound"} => s = Unused
            /\ hd.state \in {"listening", "connecting", "closing"} => s.listening
            /\ hd.state = "listening" => ~s.active /\ ~s.resolving /\ ~s.failed
            /\ hd.state = "connecting" => s.active \/ s.failed \/ s.connections > 0
            /\ hd.state = "closing" => s.connections > 0

\* "-4: peer closed and no readable bytes remain" (ADR-0061): a read that finds no
\* bytes after the peer's end of stream says so.
ReadReportsEnd ==
    \A t \in Tasks, h \in Handles :
        LET hd == owner[t].handle[h]
        IN  Readable(hd) /\ read_result(hd) = "retry" => ~StreamOf(hd).peerClosed

\* "net_connect ... sends SYN after resolution, and returns retry until established"
\* (ADR-0061): a connect that succeeds stands for a connection this side's SYN opened.
ConnectSentSyn ==
    \A t \in Tasks, h \in Handles :
        LET hd == owner[t].handle[h]
        IN  hd.state = "connecting" /\ connect_result(hd) = "ok" /\ StreamOf(hd).connections = 1
                => StreamOf(hd).active /\ ~StreamOf(hd).resolving

\* The endpoint tables of kernel/ipv4.c and the handles of kernel/awp_network.c after
\* every call, poll and program end: each endpoint has one owner, each port one endpoint,
\* and an endpoint does what its handle is for.
HandlesAndEndpointsAgree ==
    NetTypeOK /\ EndpointsOwned /\ PortsExclusive /\ HandleMatchesEndpoint
=============================================================================
