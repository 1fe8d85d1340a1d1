------------------------ MODULE RetransmissionTimer ------------------------
(***************************************************************************)
(* When a pending segment is sent again: the round-trip estimate of an     *)
(* endpoint, the timeout computed from it and the back-off of each pending *)
(* segment (kernel/ipv4.c), on a clock in milliseconds.  TcpEndpoint lets  *)
(* a timer expire at any poll; this module says when it really does.       *)
(* What a segment carries and whether the device takes it plays no part.   *)
(***************************************************************************)
EXTENDS Integers, Sequences

CONSTANTS
    Interval,            \* arwill_tcp_retransmission_interval_ms
    Minimum,             \* arwill_tcp_retransmission_minimum_ms
    Maximum,             \* arwill_tcp_retransmission_maximum_ms
    MaxRetransmissions,  \* arwill_tcp_max_retransmissions
    PendingCapacity,     \* arwill_tcp_pending_segment_capacity
    VarianceFloor,       \* 10 ms
    Horizon              \* bound on the clock

ASSUME TimerConstantsAssumption ==
    /\ {Interval, Minimum, Maximum, MaxRetransmissions, PendingCapacity, VarianceFloor,
        Horizon} \subseteq Nat
    /\ 0 < Minimum /\ Minimum <= Interval /\ Interval <= Maximum

VARIABLES
    clock,               \* arwill_clock_monotonic_milliseconds
    pending,             \* the pending segments, each with the time it was first sent
    estimate,            \* the endpoint's smoothed, variance and timeout fields
    shortest, longest    \* history: times from a first transmission to its answer

timerVars == <<clock, pending, estimate, shortest, longest>>

Least(a, b) == IF a < b THEN a ELSE b
Greatest(a, b) == IF a > b THEN a ELSE b

\* A sample of no milliseconds counts as one.
Sample(elapsed) == Greatest(elapsed, 1)

NoEstimate == [smoothed |-> 0, variance |-> 0, timeout |-> Interval]

update_retransmission_timeout(e, elapsed) ==
    LET sample     == Sample(elapsed)
        difference == IF e.smoothed > sample THEN e.smoothed - sample ELSE sample - e.smoothed
        variance   == IF e.smoothed = 0 THEN sample \div 2
                      ELSE (3 * e.variance + difference) \div 4
        smoothed   == IF e.smoothed = 0 THEN sample ELSE (7 * e.smoothed + sample) \div 8
    IN  [smoothed |-> smoothed, variance |-> variance,
         timeout |-> Least(Greatest(smoothed + Greatest(4 * variance, VarianceFloor), Minimum),
                           Maximum)]

Expired(p) == clock - p.sent >= p.timeout

Retransmitted(p) ==
    [first |-> p.first, sent |-> clock, retransmissions |-> p.retransmissions + 1,
     timeout |-> IF p.timeout < Maximum \div 2 THEN 2 * p.timeout ELSE Maximum]

-----------------------------------------------------------------------------
TimerInit ==
    /\ clock = 0 /\ pending = <<>> /\ estimate = NoEstimate
    /\ shortest = 0 /\ longest = 0

Tick == clock < Horizon /\ clock' = clock + 1 /\ UNCHANGED <<pending, estimate, shortest, longest>>

remember_pending_segment ==
    /\ Len(pending) < PendingCapacity
    /\ pending' = Append(pending, [first |-> clock, sent |-> clock, timeout |-> estimate.timeout,
                                   retransmissions |-> 0])
    /\ UNCHANGED <<clock, estimate, shortest, longest>>

\* A poll with something to do.  When one segment is out of retries the endpoint is
\* reset, whatever was sent again before it in the same poll.
maintain_pending_segment ==
    /\ \E i \in DOMAIN pending : Expired(pending[i])
    /\ pending' =
          IF \E i \in DOMAIN pending :
                Expired(pending[i]) /\ pending[i].retransmissions >= MaxRetransmissions
          THEN <<>>
          ELSE [i \in DOMAIN pending |->
                   IF Expired(pending[i]) THEN Retransmitted(pending[i]) ELSE pending[i]]
    /\ UNCHANGED <<clock, estimate, shortest, longest>>

\* Wrong variant, for the mutation runs: retransmitted segments are measured too.
Measured_all(p) == TRUE

Measured(p) == p.retransmissions = 0

\* One round of the loop of acknowledge_pending_segment: an answer that covers several
\* segments is as many that cover one, at the same time.
acknowledge_pending_segment ==
    /\ pending # <<>>
    /\ LET p    == Head(pending)
           trip == Sample(clock - p.first)
       IN  /\ estimate' = IF Measured(p)
                          THEN update_retransmission_timeout(estimate, clock - p.sent)
                          ELSE estimate
           /\ shortest' = IF shortest = 0 THEN trip ELSE Least(shortest, trip)
           /\ longest' = Greatest(longest, trip)
    /\ pending' = Tail(pending)
    /\ UNCHANGED clock

\* The connection ends.  The estimate stays: the next peer starts with it.
reset_tcp_stream ==
    /\ pending # <<>>
    /\ pending' = <<>>
    /\ UNCHANGED <<clock, estimate, shortest, longest>>

\* The endpoint is released.
initialize_tcp_endpoint ==
    /\ pending' = <<>> /\ estimate' = NoEstimate
    /\ shortest' = 0 /\ longest' = 0
    /\ UNCHANGED clock

TimerNext ==
    \/ Tick
    \/ remember_pending_segment
    \/ maintain_pending_segment
    \/ acknowledge_pending_segment
    \/ reset_tcp_stream
    \/ initialize_tcp_endpoint

TimerSpec == TimerInit /\ [][TimerNext]_timerVars

-----------------------------------------------------------------------------
Segments == [first : Nat, sent : Nat, timeout : Nat, retransmissions : Nat]

TimerTypeOK ==
    /\ clock \in Nat
    /\ pending \in Seq(Segments)
    /\ estimate \in [smoothed : Nat, variance : Nat, timeout : Nat]
    /\ shortest \in Nat /\ longest \in Nat

\* The clamps of update_retransmission_timeout and of the back-off hold together:
\* neither an estimate nor any number of doublings leaves the configured range.
TimeoutsInRange ==
    /\ estimate.timeout \in Minimum .. Maximum
    /\ \A i \in DOMAIN pending : pending[i].timeout \in Minimum .. Maximum

\* The smoothed round trip lies between the shortest and the longest time an answer
\* really took: answers to segments that were sent again, which would look quicker than
\* they were, never enter it, and rounding never drags it to 0, which means "none yet".
EstimateIsMeasured ==
    estimate.smoothed # 0 => shortest <= estimate.smoothed /\ estimate.smoothed <= longest

\* No segment is sent again before its time: the k-th repetition comes at least k
\* minimum timeouts after the first transmission, so that a peer that answers within
\* MaxRetransmissions + 1 of them is never given up.
RepetitionsAreSpaced ==
    \A i \in DOMAIN pending :
        /\ pending[i].sent <= clock
        /\ pending[i].sent - pending[i].first >= pending[i].retransmissions * Minimum
        /\ pending[i].retransmissions <= MaxRetransmissions

\* The three together: the retransmission timing of kernel/ipv4.c.
RetransmissionTimingSound ==
    TimeoutsInRange /\ EstimateIsMeasured /\ RepetitionsAreSpaced
=============================================================================
