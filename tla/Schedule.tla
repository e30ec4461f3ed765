------------------------------ MODULE Schedule ------------------------------
(***************************************************************************)
(* The scheduled block windows of a client (crates/rustydns-core/src/      *)
(* schedule.rs): how a configured window is compiled and at which instants *)
(* it blocks.  The lengths of a day, an hour and a minute are parameters,  *)
(* so that whole weeks can be enumerated; the code has 24, 60 and 60.      *)
(***************************************************************************)
EXTENDS Integers, Sequences, SequencesExt, FiniteSets

CONSTANTS
    DayHours, HourMinutes, MinuteSecs,
    MinTrusted    \* MIN_TRUSTED_UNIX_SECS: an earlier clock is not believed

ASSUME ScheduleAssumption ==
    /\ {DayHours, HourMinutes, MinuteSecs} \subseteq Nat \ {0}
    /\ MinTrusted \in Nat

DayMinutes == DayHours * HourMinutes
DaySecs == DayMinutes * MinuteSecs

\* Monday is 0; a day that has no name is not one of these.
Weekdays == 0..6

-----------------------------------------------------------------------------
(* Compiling [days, start, end, offset]: a time is [h, m] or Unset.        *)

Unset == [h |-> -1, m |-> -1]

WindowRecord ==
    [days : Seq(Int), start : [h : Int, m : Int], end : [h : Int, m : Int], offset : Int]

\* An empty list is every day.
parse_days(days) == IF days = <<>> THEN Weekdays ELSE ToSet(days)

IsTime(t) == t.h \in 0..(DayHours - 1) /\ t.m \in 0..(HourMinutes - 1)

parse_hhmm(t) == t.h * HourMinutes + t.m

\* The end may also be midnight, written as the hour after the last.
IsEnd(t) == IsTime(t) \/ t = [h |-> DayHours, m |-> 0]

\* Both times or neither, distinct, named days and an offset of a day at most.
WindowValid(w) ==
    /\ \A i \in DOMAIN w.days : w.days[i] \in Weekdays
    /\ \/ w.start = Unset /\ w.end = Unset
       \/ /\ IsTime(w.start) /\ IsEnd(w.end)
          /\ parse_hhmm(w.start) # parse_hhmm(w.end)
    /\ w.offset \in -DayMinutes..DayMinutes

CompileWindow(w) ==
    [ days   |-> parse_days(w.days),
      allDay |-> w.start = Unset,
      start  |-> parse_hhmm(w.start),
      end    |-> parse_hhmm(w.end),
      offset |-> w.offset ]

\* BlockSchedule::compile: one bad window refuses the list.
compile(windows) == [i \in DOMAIN windows |-> CompileWindow(windows[i])]

-----------------------------------------------------------------------------
(* Matching an instant.  The first day of the clock was a Thursday.        *)

LocalSecs(w, secs) == secs + w.offset * MinuteSecs

Weekday_truncated(local) ==
    ((IF local < 0 THEN -((-local) \div DaySecs) ELSE local \div DaySecs) + 3) % 7

Weekday(local) == ((local \div DaySecs) + 3) % 7

MinuteOfDay(local) == (local % DaySecs) \div MinuteSecs

\* A window whose end comes first wraps past midnight.
InSpan(w, minute) ==
    IF w.start < w.end
    THEN w.start <= minute /\ minute < w.end
    ELSE w.start <= minute \/ minute < w.end

\* Each half of a window that wraps counts by the day it lies in.
window_matches(w, secs) ==
    LET local == LocalSecs(w, secs) IN
    /\ Weekday(local) \in w.days
    /\ w.allDay \/ InSpan(w, MinuteOfDay(local))

is_blocked_at(schedule, secs) ==
    \E i \in DOMAIN schedule : window_matches(schedule[i], secs)

\* Without a clock to believe, a client with windows stays restricted.
is_blocked_at_conservative(schedule, secs) ==
    IF secs < MinTrusted THEN schedule # <<>> ELSE is_blocked_at(schedule, secs)

-----------------------------------------------------------------------------
(* What a window is meant to block: the seconds from its start to its end  *)
(* on each of its days, counted from the first midnight; past midnight,    *)
(* the two ends of the day.                                                *)

Between(t, from, to) == from <= t /\ t < to

Meant(w, secs) ==
    LET local == secs + w.offset * MinuteSecs
        Days == {d \in -3..((secs \div DaySecs) + 3) : (d + 3) % 7 \in parse_days(w.days)}
        At(d, minutes) == d * DaySecs + minutes * MinuteSecs
        start == parse_hhmm(w.start)
        end == parse_hhmm(w.end)
    IN  \E d \in Days :
          IF w.start = Unset THEN Between(local, At(d, 0), At(d + 1, 0))
          ELSE IF start < end THEN Between(local, At(d, start), At(d, end))
          ELSE Between(local, At(d, start), At(d + 1, 0)) \/ Between(local, At(d, 0), At(d, end))

\* The same window with its ends exchanged.
Turned(w) == [w EXCEPT !.start = w.end, !.end = w.start]

-----------------------------------------------------------------------------
(* Properties of a list of windows at an instant.                          *)

\* A client is refused at exactly the instants its windows say, from their
\* first second to the last before their end, across midnight, the end of the
\* week and offsets that reach before the first day of the clock; and always
\* while the clock is not to be believed.
BlockedAsWritten(windows, secs) ==
    is_blocked_at_conservative(compile(windows), secs) <=>
        IF secs < MinTrusted
        THEN windows # <<>>
        ELSE \E i \in DOMAIN windows : Meant(windows[i], secs)

\* No minute of a day is lost or taken twice where one window ends and another
\* begins: a window and the same one turned round split each of their days.
WindowsTileTheDay(w, secs) ==
    LET local == LocalSecs(w, secs)
        blocked == is_blocked_at(compile(<<w>>), secs)
        turned == is_blocked_at(compile(<<Turned(w)>>), secs)
    IN  WindowValid(w) /\ WindowValid(Turned(w)) /\ w.start # Unset =>
          /\ blocked \/ turned <=> Weekday(local) \in parse_days(w.days)
          /\ ~(blocked /\ turned)
=============================================================================
