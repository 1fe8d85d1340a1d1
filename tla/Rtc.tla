-------------------------------- MODULE Rtc --------------------------------
(***************************************************************************)
(* Reading the time of day: rtc_unix_seconds (arch/x86_64/cpu/rtc.c) and   *)
(* the calendar arithmetic of kernel/realtime.c, against the CMOS clock,   *)
(* an external device that goes on ticking between two register reads.     *)
(*                                                                         *)
(* A moment is [day, second]: days since 1 January 1970 and seconds since  *)
(* midnight.  The code's 64-bit result is day * 86400 + second.            *)
(***************************************************************************)
EXTENDS Integers, FiniteSets, FiniteSetsExt, Sequences

CONSTANTS
    Attempts,     \* attempts of rtc_unix_seconds (8 in the code)
    Starts,       \* moments at which a call may begin
    Modes,        \* register formats: [binary, hours24, century]
    Delays,       \* seconds that may pass at once between two register reads
    MaxUpdates    \* bound on how often the clock moves during one call

ASSUME RtcAssumption == Attempts \in Nat \ {0} /\ Delays \subseteq 1 .. 86400

VARIABLES
    cmos,     \* the device: mode, now, next, updating (UIP), updates
    reader    \* the call: phase, attempt, first, second, begin, result

rtcVars == <<cmos, reader>>

-----------------------------------------------------------------------------
(***************************************************************************)
(* kernel/realtime.c                                                       *)
(***************************************************************************)
leap_year(year) == year % 4 = 0 /\ (year % 100 # 0 \/ year % 400 = 0)

days_in_month(year, month) ==
    CASE month \notin 1 .. 12 -> 0
      [] month = 2 /\ leap_year(year) -> 29
      [] OTHER -> <<31, 28, 31, 30, 31, 30, 31, 31, 30, 31, 30, 31>>[month]

NoTime == [ok |-> FALSE, day |-> 0, second |-> 0]

\* arwill_realtime_calendar_to_unix
calendar_to_unix(year, month, day, hour, minute, second) ==
    IF \/ year < 1970 \/ year > 2399
       \/ day = 0 \/ day > days_in_month(year, month)
       \/ hour > 23 \/ minute > 59 \/ second > 60
    THEN NoTime
    ELSE [ok |-> TRUE,
          day |-> 365 * (year - 1970)
                  + Cardinality({current \in 1970 .. year - 1 : leap_year(current)})
                  + MapThenSumSet(LAMBDA m : days_in_month(year, m), 1 .. month - 1)
                  + day - 1,
          second |-> hour * 3600 + minute * 60 + second]

-----------------------------------------------------------------------------
(***************************************************************************)
(* The device: the Gregorian calendar, by closed formulas, and its         *)
(* registers in the order read_sample reads them.                          *)
(***************************************************************************)
LeapsBefore(year) == ((year - 1) \div 4) - ((year - 1) \div 100) + ((year - 1) \div 400)
YearStart(year) == 365 * (year - 1970) + LeapsBefore(year) - LeapsBefore(1970)
MonthStart(year, month) ==
    <<0, 31, 59, 90, 120, 151, 181, 212, 243, 273, 304, 334>>[month]
    + (IF month > 2 THEN LeapsBefore(year + 1) - LeapsBefore(year) ELSE 0)

Bcd(n) == (n \div 10) * 16 + (n % 10)

\* What the eight registers hold at a moment.  A twelve-hour clock counts 12, 1, ..., 11
\* and marks the afternoon with the top bit.
Registers(mode, moment) ==
    LET year    == CHOOSE y \in 1970 + (moment.day \div 366) .. 1970 + (moment.day \div 365) :
                       YearStart(y) <= moment.day /\ moment.day < YearStart(y + 1)
        inYear  == moment.day - YearStart(year)
        month   == Max({m \in 1 .. 12 : MonthStart(year, m) <= inYear})
        hour    == moment.second \div 3600
        Code(n) == IF mode.binary THEN n ELSE Bcd(n)
        hours   == IF mode.hours24 THEN Code(hour)
                   ELSE Code(IF hour % 12 = 0 THEN 12 ELSE hour % 12)
                        + (IF hour >= 12 THEN 128 ELSE 0)
    IN  <<Code(moment.second % 60), Code((moment.second \div 60) % 60), hours,
          Code(inYear - MonthStart(year, month) + 1), Code(month), Code(year % 100),
          IF mode.century THEN Code(year \div 100) ELSE 0,
          (IF mode.binary THEN 4 ELSE 0) + (IF mode.hours24 THEN 2 ELSE 0)>>

Later(moment, seconds) ==
    [day |-> moment.day + (moment.second + seconds) \div 86400,
     second |-> (moment.second + seconds) % 86400]

NotLater(a, b) == a.day < b.day \/ (a.day = b.day /\ a.second <= b.second)

-----------------------------------------------------------------------------
(***************************************************************************)
(* rtc_unix_seconds                                                        *)
(***************************************************************************)
from_bcd(value) == (value % 16) + ((value \div 16) % 16) * 10

samples_equal(left, right) == left = right

\* What rtc_unix_seconds makes of a sample.
Decode(sample) ==
    LET binary   == (sample[8] \div 4) % 2 = 1
        hours24  == (sample[8] \div 2) % 2 = 1
        pm       == sample[3] >= 128
        Value(v) == IF binary THEN v ELSE from_bcd(v)
        shown    == Value(sample[3] % 128)
        hour     == IF hours24 THEN shown ELSE (shown % 12) + (IF pm THEN 12 ELSE 0)
        century  == Value(sample[7])
        year     == (IF century \in 19 .. 23 THEN century * 100 ELSE 2000) + Value(sample[6])
    IN  calendar_to_unix(year, Value(sample[5]), Value(sample[4]), hour,
                         Value(sample[2]), Value(sample[1]))

\* A device without a century register is only understood from 2000 to 2099.
RtcInit ==
    \E mode \in Modes, start \in Starts :
        /\ mode.century \/ start.day \in YearStart(2000) .. YearStart(2100) - 2
        /\ cmos = [mode |-> mode, now |-> start, next |-> start, updating |-> FALSE,
                   updates |-> 0]
        /\ reader = [phase |-> "wait", attempt |-> 1, first |-> <<>>, second |-> <<>>,
                     begin |-> start, result |-> NoTime]

\* Wrong variant, for the mutation runs: the second sample does not wait.
update_in_progress_once ==
    cmos.updating /\ Len(reader.first) = 0

\* update_in_progress: bit 7 of status register A.
update_in_progress == cmos.updating

\* The wait before either sample ends with a read that finds no update in progress.
WaitOver ==
    /\ reader.phase = "wait"
    /\ ~update_in_progress
    /\ reader' = [reader EXCEPT !.phase = "read"]
    /\ UNCHANGED cmos

\* The call after a register read: on to the next register, to the second sample, to
\* the result, to another attempt or to the failure.
AfterRead(r) ==
    CASE Len(r.first) < 8 \/ Len(r.second) \in 1 .. 7 -> r
      [] Len(r.second) = 0 -> [r EXCEPT !.phase = "wait"]
      [] samples_equal(r.first, r.second) ->
            [r EXCEPT !.phase = "done", !.result = Decode(r.first)]
      [] r.attempt < Attempts ->
            [r EXCEPT !.phase = "wait", !.attempt = @ + 1, !.first = <<>>, !.second = <<>>]
      [] OTHER -> [r EXCEPT !.phase = "done"]

\* cmos_read of the next register of the sample.  A register read while the device
\* updates holds its value from before or from after.
ReadRegister ==
    /\ reader.phase = "read"
    /\ LET sample == IF Len(reader.first) < 8 THEN "first" ELSE "second"
           index  == Len(reader[sample]) + 1
       IN  \E moment \in {cmos.now, cmos.next} :
              reader' = AfterRead([reader EXCEPT
                            ![sample] = Append(@, Registers(cmos.mode, moment)[index])])
    /\ UNCHANGED cmos

\* The device starts to update its registers, any number of seconds after the last
\* time anyone looked, and is done.
UpdateBegins(delay) ==
    /\ reader.phase # "done"
    /\ ~cmos.updating
    /\ cmos.updates < MaxUpdates
    /\ cmos' = [cmos EXCEPT !.next = Later(cmos.now, delay), !.updating = TRUE,
                            !.updates = @ + 1]
    /\ UNCHANGED reader

UpdateEnds ==
    /\ cmos.updating
    /\ cmos' = [cmos EXCEPT !.now = cmos.next, !.updating = FALSE]
    /\ UNCHANGED reader

RtcNext ==
    \/ WaitOver
    \/ ReadRegister
    \/ \E delay \in Delays : UpdateBegins(delay)
    \/ UpdateEnds

RtcSpec == RtcInit /\ [][RtcNext]_rtcVars

-----------------------------------------------------------------------------
\* The time rtc_unix_seconds returns is one the clock passed through while it was being
\* read, wherever the updates fell among the register reads; and it gives up only when
\* the clock moved in each of its attempts.
TimeWasShown ==
    reader.phase = "done" =>
        IF reader.result.ok
        THEN LET time == [day |-> reader.result.day, second |-> reader.result.second]
             IN  NotLater(reader.begin, time) /\ NotLater(time, cmos.next)
        ELSE reader.attempt = Attempts /\ cmos.updates >= Attempts
=============================================================================
