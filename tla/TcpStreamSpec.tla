--------------------------- MODULE TcpStreamSpec ----------------------------
(***************************************************************************)
(* The stream contract as a specification: polls and calls in any order.   *)
(***************************************************************************)
EXTENDS TcpStream

VARIABLE st

Init == st \in {Unused, Listen(Unused)}

Poll == st' \in Polled(st)

Call ==
    \/ st' = Listen(st)
    \/ st' = Stop(st)
    \/ ConnectStarts(st) /\ st' = Connect(st)
    \/ st' = Close(st)
    \/ \E n \in 1 .. st.rx : st' = Read(st, n)

Next == Poll \/ Call

Spec == Init /\ [][Next]_st
=============================================================================
