----------------------------- MODULE EventLog -----------------------------
(***************************************************************************)
(* The in-memory event ring of kernel/log.c.  The entries array is indexed *)
(* from 0 as in C; `milliseconds' is modelled by the number of the event,  *)
(* which the monotonic clock orders the same way.                          *)
(***************************************************************************)
EXTENDS Integers, Sequences

CONSTANT LogCapacity   \* arwill_event_log_capacity

ASSUME LogCapacityAssumption == LogCapacity \in Nat \ {0}

EmptySlot == [time |-> 0, code |-> "none"]

arwill_event_log_init ==
    [entries |-> [i \in 0..LogCapacity - 1 |-> EmptySlot],
     head |-> 0, count |-> 0, overwritten |-> 0]

\* Events recorded since the ring was initialised.
Recorded(log) == log.count + log.overwritten

\* Wrong variant, for the mutation runs: a full log does not advance its head.
arwill_event_log_record_stuck(log, code) ==
    LET entry == [time |-> Recorded(log) + 1, code |-> code]
        full == log.count = LogCapacity
    IN  [log EXCEPT !.entries[(log.head + log.count) % LogCapacity] = entry,
                    !.count = IF full THEN @ ELSE @ + 1,
                    !.overwritten = IF full THEN @ + 1 ELSE @]

arwill_event_log_record(log, code) ==
    LET entry == [time |-> Recorded(log) + 1, code |-> code]
    IN  IF log.count = LogCapacity
            THEN [log EXCEPT !.entries[log.head] = entry,
                             !.head = (@ + 1) % LogCapacity,
                             !.overwritten = @ + 1]
            ELSE [log EXCEPT !.entries[(log.head + log.count) % LogCapacity] = entry,
                             !.count = @ + 1]

arwill_event_log_entry(log, index) == log.entries[(log.head + index) % LogCapacity]

\* What `logs' prints, oldest first.
print_logs(log) == [i \in 1..log.count |-> arwill_event_log_entry(log, i - 1)]
=============================================================================
