---------------------------- MODULE MCTcpNetwork ----------------------------
(* Instances of TcpNetwork.                                                 *)
EXTENDS TcpNetwork

\* Clients are interchangeable.
Symmetry == Permutations(Peers)

MCQuiet ==
    [role |-> "passive", kernelBytes |-> 0, peerBytes |-> 0, peerCapacity |-> 1,
     kernelBound |-> 1, peerBound |-> 1, events |-> {}, failingSends |-> {}]

\* The client talks: more than the receive ring holds, and then FIN.
MCInbound == [MCQuiet EXCEPT !.peerBytes = 3, !.kernelBound = 2, !.events = {"fin"}]

\* The application talks: more than the transmit ring holds, and then it closes.
MCOutbound ==
    [MCQuiet EXCEPT !.kernelBytes = 3, !.peerCapacity = 2, !.peerBound = 2,
                    !.events = {"close"}, !.failingSends = {1}]

MCStreams == {MCInbound, MCOutbound}

\* Connections follow one another.
MCLifecycle ==
    {[MCQuiet EXCEPT !.kernelBytes = 1, !.peerBytes = 1, !.events = {"abort", "stop", "close"}]}

MCLive ==
    {[MCQuiet EXCEPT !.role = r, !.kernelBytes = 1, !.failingSends = {1},
                     !.events = {"close", "fin", "abort", "vanish", "stop"}] :
        r \in {"active", "passive"}}

MCHalfOpen == {[MCQuiet EXCEPT !.events = {"vanish"}, !.failingSends = {1}]}
MCFinData == {[MCQuiet EXCEPT !.peerBytes = 1, !.events = {"close", "fin"}]}
=============================================================================
