--------------------- MODULE RetransmissionTimerProofs ---------------------
(***************************************************************************)
(* RetransmissionTimingSound for every value of the timing constants.      *)
(***************************************************************************)
EXTENDS RetransmissionTimer, TLAPS

\* The clamps at the end of update_retransmission_timeout leave a value between the
\* configured minimum and maximum, whatever they are given.
LEMMA ClampInRange ==
    ASSUME NEW v \in Nat
    PROVE  Least(Greatest(v, Minimum), Maximum) \in Minimum .. Maximum
  BY TimerConstantsAssumption DEF Least, Greatest

\* The weighted mean of update_retransmission_timeout, rounded down, is no smaller
\* than the smaller and no larger than the larger of old value and sample.
LEMMA MeanBetween ==
    ASSUME NEW s \in Nat, NEW x \in Nat
    PROVE  LET m == (7 * s + x) \div 8
           IN  m \in Nat /\ Least(s, x) <= m /\ m <= Greatest(s, x)
  BY DEF Least, Greatest

\* Halves and quarters, rounded down as in update_retransmission_timeout.
LEMMA QuotientNat ==
    ASSUME NEW n \in Nat
    PROVE  n \div 2 \in Nat /\ n \div 4 \in Nat
  OBVIOUS

\* One more repetition is one more minimum timeout.
LEMMA Spacing ==
    ASSUME NEW r \in Nat, NEW m \in Nat
    PROVE  (r + 1) * m = r * m + m
  OBVIOUS

\* A new estimate is well typed, its timeout is in range and its smoothed value lies
\* between the old one and the sample, or is the sample if it is the first.
LEMMA NewEstimate ==
    ASSUME NEW e \in [smoothed : Nat, variance : Nat, timeout : Nat], NEW elapsed \in Nat
    PROVE  LET new == update_retransmission_timeout(e, elapsed)
               x == Sample(elapsed)
           IN  /\ new \in [smoothed : Nat, variance : Nat, timeout : Nat]
               /\ new.timeout \in Minimum .. Maximum
               /\ e.smoothed = 0 => new.smoothed = x
               /\ e.smoothed # 0 => /\ Least(e.smoothed, x) <= new.smoothed
                                    /\ new.smoothed <= Greatest(e.smoothed, x)
<1> DEFINE x == Sample(elapsed)
           d == IF e.smoothed > x THEN e.smoothed - x ELSE x - e.smoothed
           v == IF e.smoothed = 0 THEN x \div 2 ELSE (3 * e.variance + d) \div 4
           s == IF e.smoothed = 0 THEN x ELSE (7 * e.smoothed + x) \div 8
           t == Least(Greatest(s + Greatest(4 * v, VarianceFloor), Minimum), Maximum)
<1>1. x \in Nat
  BY DEF Sample, Greatest
<1>2. v \in Nat
  <2>1. d \in Nat /\ 3 * e.variance + d \in Nat
    BY <1>1
  <2> QED BY <2>1, <1>1, QuotientNat
<1>3. s \in Nat
  BY <1>1, MeanBetween
<1>4. t \in Minimum .. Maximum
  <2>1. s + Greatest(4 * v, VarianceFloor) \in Nat
    BY <1>2, <1>3, TimerConstantsAssumption DEF Greatest
  <2> QED BY <2>1, ClampInRange
<1>5. t \in Nat
  BY <1>4, TimerConstantsAssumption
<1>6. update_retransmission_timeout(e, elapsed) = [smoothed |-> s, variance |-> v, timeout |-> t]
  BY DEF update_retransmission_timeout
<1>7. e.smoothed # 0 => Least(e.smoothed, x) <= s /\ s <= Greatest(e.smoothed, x)
  BY <1>1, MeanBetween
<1> HIDE DEF x, v, s, t
<1>8. e.smoothed = 0 => s = x
  BY DEF s
<1> QED
  BY <1>2, <1>3, <1>4, <1>5, <1>6, <1>7, <1>8 DEF x

-----------------------------------------------------------------------------
\* What makes the estimate inductive: a segment that was never sent again still has
\* its first transmission time, so its sample is the time the answer really took; and
\* once there is an estimate there is a shortest time.
FirstIsSent ==
    /\ \A i \in DOMAIN pending : pending[i].retransmissions = 0 => pending[i].sent = pending[i].first
    /\ estimate.smoothed # 0 => shortest # 0

TimerInv == TimerTypeOK /\ RetransmissionTimingSound /\ FirstIsSent

\* arwill_ipv4_init leaves no pending segment and the initial timeout.
LEMMA TimerInitInv == TimerInit => TimerInv
  BY TimerConstantsAssumption
  DEF TimerInit, TimerInv, TimerTypeOK, RetransmissionTimingSound, TimeoutsInRange,
      EstimateIsMeasured, RepetitionsAreSpaced, FirstIsSent, NoEstimate

\* Sending a segment: it starts with the endpoint's timeout.
LEMMA RememberInv == TimerInv /\ remember_pending_segment => TimerInv'
<1> SUFFICES ASSUME TimerInv, remember_pending_segment PROVE TimerInv'
  OBVIOUS
<1> DEFINE new == [first |-> clock, sent |-> clock, timeout |-> estimate.timeout,
                   retransmissions |-> 0]
<1>1. new \in Segments /\ pending \in Seq(Segments)
  BY DEF TimerInv, TimerTypeOK, Segments
<1>2. pending' = Append(pending, new) /\ UNCHANGED <<clock, estimate, shortest, longest>>
  BY DEF remember_pending_segment
<1>3. /\ pending' \in Seq(Segments)
      /\ \A i \in DOMAIN pending' : (i \in DOMAIN pending /\ pending'[i] = pending[i])
                                     \/ pending'[i] = new
  BY <1>1, <1>2
<1>4. TimerTypeOK'
  BY <1>2, <1>3 DEF TimerInv, TimerTypeOK
<1>5. TimeoutsInRange'
  BY <1>2, <1>3 DEF TimerInv, RetransmissionTimingSound, TimeoutsInRange
<1>6. EstimateIsMeasured'
  BY <1>2 DEF TimerInv, RetransmissionTimingSound, EstimateIsMeasured
<1>7. RepetitionsAreSpaced'
  <2>1. new.sent <= clock /\ new.sent - new.first >= new.retransmissions * Minimum
        /\ new.retransmissions <= MaxRetransmissions
    BY TimerConstantsAssumption DEF TimerInv, TimerTypeOK
  <2> HIDE DEF new
  <2> QED BY <1>2, <1>3, <2>1 DEF TimerInv, RetransmissionTimingSound, RepetitionsAreSpaced
<1>8. FirstIsSent'
  BY <1>2, <1>3 DEF TimerInv, FirstIsSent
<1> QED
  BY <1>4, <1>5, <1>6, <1>7, <1>8 DEF TimerInv, RetransmissionTimingSound

\* A repetition: at least one timeout after the one before, with a longer timeout.
LEMMA RetransmittedSegment ==
    ASSUME TimerInv, NEW i \in DOMAIN pending, Expired(pending[i]),
           pending[i].retransmissions < MaxRetransmissions
    PROVE  LET q == Retransmitted(pending[i])
           IN  /\ q \in Segments
               /\ q.timeout \in Minimum .. Maximum
               /\ q.sent <= clock
               /\ q.sent - q.first >= q.retransmissions * Minimum
               /\ q.retransmissions <= MaxRetransmissions
               /\ q.retransmissions # 0
<1> DEFINE p == pending[i]
           q == Retransmitted(p)
<1>1. p \in Segments /\ clock \in Nat
  BY DEF TimerInv, TimerTypeOK
<1>2. /\ p.timeout \in Minimum .. Maximum
      /\ p.sent - p.first >= p.retransmissions * Minimum
      /\ clock - p.sent >= p.timeout
  BY DEF TimerInv, RetransmissionTimingSound, TimeoutsInRange, RepetitionsAreSpaced, Expired
<1>3. /\ q.first = p.first /\ q.sent = clock /\ q.retransmissions = p.retransmissions + 1
      /\ q.timeout = IF p.timeout < Maximum \div 2 THEN 2 * p.timeout ELSE Maximum
      /\ q \in Segments
  <2>1. (IF p.timeout < Maximum \div 2 THEN 2 * p.timeout ELSE Maximum) \in Nat
    BY <1>1, TimerConstantsAssumption DEF Segments
  <2> QED BY <1>1, <2>1 DEF Retransmitted, Segments
<1> HIDE DEF p, q
<1>4. q.timeout \in Minimum .. Maximum
  <2>1. p.timeout \in Nat /\ Maximum \in Nat /\ Minimum \in Nat
    BY <1>1, TimerConstantsAssumption DEF Segments
  <2>2. p.timeout < Maximum \div 2 => 2 * p.timeout <= Maximum
    BY <2>1
  <2> QED BY <1>2, <1>3, <2>1, <2>2, TimerConstantsAssumption
<1>5. q.sent - q.first >= q.retransmissions * Minimum
  <2>1. p.first \in Nat /\ p.sent \in Nat /\ p.retransmissions \in Nat /\ Minimum \in Nat
    BY <1>1, TimerConstantsAssumption DEF Segments
  <2>2. (p.retransmissions + 1) * Minimum = p.retransmissions * Minimum + Minimum
    BY <2>1, Spacing
  <2> DEFINE w == p.retransmissions * Minimum
  <2>3. w \in Nat
    BY <2>1
  <2>4. p.sent - p.first >= w /\ clock - p.sent >= Minimum
    BY <1>1, <1>2, <2>1
  <2> HIDE DEF w
  <2>5. clock - p.first >= w + Minimum
    BY <1>1, <2>1, <2>3, <2>4
  <2> QED BY <1>3, <2>2, <2>5 DEF w
<1>6. q.sent <= clock /\ q.retransmissions <= MaxRetransmissions /\ q.retransmissions # 0
  BY <1>1, <1>3, TimerConstantsAssumption DEF p, Segments
<1> QED
  BY <1>3, <1>4, <1>5, <1>6 DEF p, q

\* Facts about an empty queue, for the steps that drop it.
LEMMA EmptyQueueInv ==
    ASSUME TimerInv, pending' = <<>>, UNCHANGED <<clock, estimate, shortest, longest>>
    PROVE  TimerInv'
  BY DEF TimerInv, TimerTypeOK, RetransmissionTimingSound, TimeoutsInRange,
         EstimateIsMeasured, RepetitionsAreSpaced, FirstIsSent

\* maintain_pending_segment: the endpoint is reset, or every expired segment repeated.
LEMMA MaintainInv == TimerInv /\ maintain_pending_segment => TimerInv'
<1> SUFFICES ASSUME TimerInv, maintain_pending_segment PROVE TimerInv'
  OBVIOUS
<1>1. UNCHANGED <<clock, estimate, shortest, longest>>
  BY DEF maintain_pending_segment
<1> DEFINE Exhausted ==
             \E i \in DOMAIN pending :
                 Expired(pending[i]) /\ pending[i].retransmissions >= MaxRetransmissions
<1>2. CASE Exhausted
  BY <1>1, <1>2, EmptyQueueInv DEF maintain_pending_segment
<1>3. CASE ~Exhausted
  <2> DEFINE Next(i) == IF Expired(pending[i]) THEN Retransmitted(pending[i]) ELSE pending[i]
  <2>1. pending' = [i \in DOMAIN pending |-> Next(i)]
    BY <1>3 DEF maintain_pending_segment
  <2>2. pending \in Seq(Segments)
    BY DEF TimerInv, TimerTypeOK
  <2>3. ASSUME NEW i \in DOMAIN pending
        PROVE  /\ Next(i) \in Segments
               /\ Next(i).timeout \in Minimum .. Maximum
               /\ Next(i).sent <= clock
               /\ Next(i).sent - Next(i).first >= Next(i).retransmissions * Minimum
               /\ Next(i).retransmissions <= MaxRetransmissions
               /\ Next(i).retransmissions = 0 => Next(i).sent = Next(i).first
    <3>1. CASE Expired(pending[i])
      <4>1. pending[i].retransmissions < MaxRetransmissions
        <5>1. pending[i] \in Segments
          BY <2>2
        <5> QED BY <1>3, <3>1, <5>1, TimerConstantsAssumption DEF Segments
      <4> QED BY <3>1, <4>1, RetransmittedSegment
    <3>2. CASE ~Expired(pending[i])
      BY <2>2, <3>2 DEF TimerInv, RetransmissionTimingSound, TimeoutsInRange,
                        RepetitionsAreSpaced, FirstIsSent
    <3> QED BY <3>1, <3>2
  <2> HIDE DEF Next
  <2>4. pending' \in Seq(Segments) /\ DOMAIN pending' = DOMAIN pending
        /\ \A i \in DOMAIN pending : pending'[i] = Next(i)
    <3>1. Len(pending) \in Nat /\ DOMAIN pending = 1 .. Len(pending)
      BY <2>2
    <3>2. pending' = [i \in 1 .. Len(pending) |-> Next(i)]
      BY <2>1, <3>1
    <3> QED BY <2>3, <3>1, <3>2
  <2>5. TimerTypeOK'
    BY <1>1, <2>4 DEF TimerInv, TimerTypeOK
  <2>6. TimeoutsInRange'
    BY <1>1, <2>3, <2>4 DEF TimerInv, RetransmissionTimingSound, TimeoutsInRange
  <2>7. EstimateIsMeasured'
    BY <1>1 DEF TimerInv, RetransmissionTimingSound, EstimateIsMeasured
  <2>8. RepetitionsAreSpaced'
    BY <1>1, <2>3, <2>4 DEF RepetitionsAreSpaced
  <2>9. FirstIsSent'
    BY <1>1, <2>3, <2>4 DEF TimerInv, FirstIsSent
  <2> QED BY <2>5, <2>6, <2>7, <2>8, <2>9 DEF TimerInv, RetransmissionTimingSound
<1> QED BY <1>2, <1>3

\* acknowledge_pending_segment: the segment leaves the queue and, if it was sent only
\* once, its time enters the estimate.
LEMMA AcknowledgeInv == TimerInv /\ acknowledge_pending_segment => TimerInv'
<1> SUFFICES ASSUME TimerInv, acknowledge_pending_segment PROVE TimerInv'
  OBVIOUS
<1> DEFINE p == Head(pending)
           trip == Sample(clock - p.first)
<1>1. /\ pending \in Seq(Segments) /\ pending # <<>> /\ clock \in Nat /\ clock' = clock
      /\ pending' = Tail(pending)
      /\ estimate \in [smoothed : Nat, variance : Nat, timeout : Nat]
      /\ shortest \in Nat /\ longest \in Nat
  BY DEF TimerInv, TimerTypeOK, acknowledge_pending_segment
<1>2. /\ pending' \in Seq(Segments)
      /\ \A i \in DOMAIN pending' : i + 1 \in DOMAIN pending /\ pending'[i] = pending[i + 1]
      /\ 1 \in DOMAIN pending /\ p = pending[1] /\ p \in Segments
  BY <1>1
<1>3. /\ p.sent \in Nat /\ p.first \in Nat /\ p.sent <= clock
      /\ p.sent - p.first >= p.retransmissions * Minimum
      /\ p.retransmissions = 0 => p.sent = p.first
  BY <1>2 DEF TimerInv, RetransmissionTimingSound, RepetitionsAreSpaced, FirstIsSent, Segments
<1>4. p.first <= clock
  <2>1. p.retransmissions * Minimum \in Nat
    BY <1>2, TimerConstantsAssumption DEF Segments
  <2> QED BY <1>1, <1>3, <2>1
<1>5. trip \in Nat /\ trip # 0
  BY <1>1, <1>3, <1>4 DEF Sample, Greatest
<1>6. /\ estimate' = IF p.retransmissions = 0
                     THEN update_retransmission_timeout(estimate, clock - p.sent) ELSE estimate
      /\ shortest' = IF shortest = 0 THEN trip ELSE Least(shortest, trip)
      /\ longest' = Greatest(longest, trip)
  BY DEF acknowledge_pending_segment, Measured
<1> HIDE DEF p, trip
<1>7. /\ shortest' \in Nat /\ longest' \in Nat /\ shortest' # 0 /\ longest <= longest'
      /\ shortest' <= trip /\ trip <= longest' /\ (shortest # 0 => shortest' <= shortest)
  BY <1>1, <1>5, <1>6 DEF Least, Greatest
<1>8. /\ estimate' \in [smoothed : Nat, variance : Nat, timeout : Nat]
      /\ estimate'.timeout \in Minimum .. Maximum
      /\ estimate'.smoothed # 0 => shortest' <= estimate'.smoothed /\ estimate'.smoothed <= longest'
  <2>0. /\ estimate.smoothed \in Nat /\ estimate.timeout \in Minimum .. Maximum
        /\ estimate.smoothed # 0 => /\ shortest <= estimate.smoothed
                                    /\ estimate.smoothed <= longest /\ shortest # 0
    BY <1>1 DEF TimerInv, RetransmissionTimingSound, TimeoutsInRange, EstimateIsMeasured,
                FirstIsSent
  <2>1. CASE p.retransmissions # 0
    BY <1>1, <1>6, <1>7, <2>0, <2>1
  <2>2. CASE p.retransmissions = 0
    <3>1. clock - p.sent \in Nat /\ Sample(clock - p.sent) = trip
      BY <1>1, <1>3, <2>2 DEF trip
    <3>2. estimate' = update_retransmission_timeout(estimate, clock - p.sent)
      BY <1>6, <2>2
    <3>3. /\ estimate' \in [smoothed : Nat, variance : Nat, timeout : Nat]
          /\ estimate'.timeout \in Minimum .. Maximum
          /\ estimate.smoothed = 0 => estimate'.smoothed = trip
          /\ estimate.smoothed # 0 => /\ Least(estimate.smoothed, trip) <= estimate'.smoothed
                                      /\ estimate'.smoothed <= Greatest(estimate.smoothed, trip)
      BY <1>1, <3>1, <3>2, NewEstimate
    <3>4. estimate'.smoothed \in Nat
      BY <3>3
    <3>5. shortest' <= estimate'.smoothed /\ estimate'.smoothed <= longest'
      <4>1. CASE estimate.smoothed = 0
        BY <1>7, <3>3, <4>1
      <4>2. CASE estimate.smoothed # 0
        BY <1>1, <1>5, <1>7, <2>0, <3>3, <3>4, <4>2 DEF Least, Greatest
      <4> QED BY <4>1, <4>2
    <3> QED BY <3>3, <3>5
  <2> QED BY <2>1, <2>2
<1>9. TimerTypeOK'
  BY <1>1, <1>2, <1>7, <1>8 DEF TimerTypeOK
<1>10. TimeoutsInRange'
  BY <1>2, <1>8 DEF TimerInv, RetransmissionTimingSound, TimeoutsInRange
<1>11. EstimateIsMeasured'
  BY <1>8 DEF EstimateIsMeasured
<1>12. RepetitionsAreSpaced'
  BY <1>1, <1>2 DEF TimerInv, RetransmissionTimingSound, RepetitionsAreSpaced
<1>13. FirstIsSent'
  BY <1>2, <1>7 DEF TimerInv, FirstIsSent
<1> QED
  BY <1>9, <1>10, <1>11, <1>12, <1>13 DEF TimerInv, RetransmissionTimingSound

\* Every step of the timer keeps the invariant.
LEMMA TimerNextInv == TimerInv /\ [TimerNext]_timerVars => TimerInv'
<1> SUFFICES ASSUME TimerInv, [TimerNext]_timerVars PROVE TimerInv'
  OBVIOUS
<1>1. CASE Tick
  <2>1. /\ pending' = pending /\ estimate' = estimate /\ shortest' = shortest
        /\ longest' = longest /\ clock' = clock + 1 /\ clock \in Nat
    BY <1>1 DEF Tick, TimerInv, TimerTypeOK
  <2>2. \A i \in DOMAIN pending : pending[i].sent \in Nat
    <3>1. \A i \in DOMAIN pending : pending[i] \in Segments
      BY DEF TimerInv, TimerTypeOK
    <3> QED BY <3>1 DEF Segments
  <2>3. RepetitionsAreSpaced'
    BY <2>1, <2>2 DEF TimerInv, RetransmissionTimingSound, RepetitionsAreSpaced
  <2> QED
    BY <2>1, <2>3 DEF TimerInv, TimerTypeOK, RetransmissionTimingSound, TimeoutsInRange,
                      EstimateIsMeasured, FirstIsSent
<1>2. CASE remember_pending_segment
  BY <1>2, RememberInv
<1>3. CASE maintain_pending_segment
  BY <1>3, MaintainInv
<1>4. CASE acknowledge_pending_segment
  BY <1>4, AcknowledgeInv
<1>5. CASE reset_tcp_stream
  BY <1>5, EmptyQueueInv DEF reset_tcp_stream
<1>6. CASE initialize_tcp_endpoint
  BY <1>6, TimerConstantsAssumption
  DEF initialize_tcp_endpoint, TimerInv, TimerTypeOK, RetransmissionTimingSound,
      TimeoutsInRange, EstimateIsMeasured, RepetitionsAreSpaced, FirstIsSent, NoEstimate
<1>7. CASE UNCHANGED timerVars
  BY <1>7 DEF timerVars, TimerInv, TimerTypeOK, RetransmissionTimingSound, TimeoutsInRange,
              EstimateIsMeasured, RepetitionsAreSpaced, FirstIsSent
<1> QED
  BY <1>1, <1>2, <1>3, <1>4, <1>5, <1>6, <1>7 DEF TimerNext

\* For every setting of the timing constants with 0 < minimum <= interval <= maximum,
\* the timeouts of kernel/ipv4.c stay in their range, its round-trip estimate between
\* times really measured, and its repetitions at least the minimum apart.
THEOREM RetransmissionAlwaysTimely == TimerSpec => []RetransmissionTimingSound
<1>1. TimerInv => RetransmissionTimingSound
  BY DEF TimerInv
<1> QED
  BY TimerInitInv, TimerNextInv, <1>1, PTL DEF TimerSpec
=============================================================================
