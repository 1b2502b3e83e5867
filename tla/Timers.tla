------------------------------- MODULE Timers -------------------------------
(***************************************************************************)
(* The timers of Timer.h, one timer of one kind at a time.  Nothing in the *)
(* servers uses them: the caller here gives the time that has passed since *)
(* its last call, and resets a timer once it has found it passed.  int32   *)
(* and uint32 have the width of Half; time_t is wide enough.               *)
(***************************************************************************)
EXTENDS Integers

CONSTANTS
  Half,     \* 2^31
  Times,    \* periods, intervals and start times
  Diffs,    \* the times between two calls
  MaxTime   \* bound on the time that passes; twice it bounds due

ASSUME TimersAssumption ==
  /\ Half \in Nat \ {0} /\ MaxTime \in Nat
  /\ Times \subseteq 0 .. 2 * Half - 1 /\ Diffs \subseteq 0 .. 2 * Half - 1

\* A PeriodicTimer, used by Update or by its tracker interface.
PeriodicKinds == {"PeriodicTimer", "tracker interface"}
Kinds == {"IntervalTimer", "TimeTracker", "TimeTrackerSmall"} \cup PeriodicKinds

VARIABLES
  kind,      \* "none" before it is made
  period,    \* _interval, i_period, or what the tracker has been reset to
  start,     \* what the timer has been set to
  expire,    \* _current, i_expiryTime or i_expireTime
  elapsed,   \* the time that has passed since the timer was set
  due,       \* when it is due next, or of an IntervalTimer was last, since it was set
  longest,   \* the longest time between two calls since then
  untaken,   \* of a timer that has been found passed and is to be reset: that call's diff
  dividedByZero  \* by Reset, of an interval of zero

timerVars == <<kind, period, start, expire, elapsed, due, longest, untaken, dividedByZero>>
WasReset == -1

Longer(a, b) == IF a > b THEN a ELSE b
\* The int32 of a number that is out of its range by one turn at most.
Int32(x) == IF x >= Half THEN x - 2 * Half ELSE IF x < -Half THEN x + 2 * Half ELSE x

TimersInit ==
  /\ kind = "none" /\ period = 0 /\ start = 0 /\ expire = 0
  /\ elapsed = 0 /\ due = 0 /\ longest = 0 /\ untaken = WasReset /\ dividedByZero = FALSE

\* The timer counts from here on.
Counting(p, s, left, next) ==
  /\ period' = p /\ start' = s /\ expire' = left /\ due' = next
  /\ elapsed' = 0 /\ longest' = 0 /\ untaken' = WasReset
  /\ UNCHANGED dividedByZero
\* A constructor, and a setter.
New(k, p, s, left, next) == kind = "none" /\ kind' = k /\ Counting(p, s, left, next)
Set(k, p, s, left, next) == kind = k /\ ~dividedByZero /\ Counting(p, s, left, next) /\ UNCHANGED kind

\* An update, with the time since the last one.
Counts(k, diff) ==
  /\ kind = k /\ untaken = WasReset /\ elapsed + diff <= MaxTime /\ due <= 2 * MaxTime
  /\ elapsed' = elapsed + diff /\ longest' = Longer(longest, diff)
  /\ UNCHANGED <<kind, period, start, dividedByZero>>

-----------------------------------------------------------------------------
(* IntervalTimer counts up, and Reset takes whole intervals off.             *)

NewIntervalTimer == New("IntervalTimer", 0, 0, 0, 0)
IntervalUpdate(diff) ==
  /\ ~dividedByZero /\ Counts("IntervalTimer", diff)
  /\ expire' = Longer(0, expire + diff)
  /\ untaken' = IF expire' >= period THEN diff ELSE WasReset
  /\ UNCHANGED due

RestOf(current, interval) == current % interval
IntervalReset ==
  /\ kind = "IntervalTimer" /\ untaken # WasReset /\ ~dividedByZero
  /\ IF period = 0 THEN dividedByZero' = TRUE /\ UNCHANGED <<expire, due>>
     ELSE /\ expire' = RestOf(expire, period)
          /\ due' = due + period * (expire \div period)
          /\ UNCHANGED dividedByZero
  /\ untaken' = WasReset
  /\ UNCHANGED <<kind, period, start, elapsed, longest>>

SetInterval(interval) == expire <= MaxTime /\ Set("IntervalTimer", interval, expire, expire, -expire)
SetCurrent(current) == Set("IntervalTimer", period, current, current, -current)

-----------------------------------------------------------------------------
(* TimeTracker and TimeTrackerSmall count down, without an end.              *)

NewTimeTracker(expiry) == New("TimeTracker", expiry, expiry, expiry, expiry)
TrackerUpdate(diff) ==
  /\ Counts("TimeTracker", diff)
  /\ expire' = expire - diff
  /\ UNCHANGED <<due, untaken>>
TrackerReset(interval) == Set("TimeTracker", interval, interval, interval, interval)

NewTimeTrackerSmall(expiry) == New("TimeTrackerSmall", expiry, expiry, Int32(expiry), expiry)
SmallUpdate(diff) ==
  /\ diff < Half /\ Counts("TimeTrackerSmall", diff)
  /\ expire' = Int32(expire - diff)
  /\ UNCHANGED <<due, untaken>>
SmallReset(interval) == Set("TimeTrackerSmall", interval, interval, Int32(interval), interval)

Passed == expire <= 0

-----------------------------------------------------------------------------
(* PeriodicTimer.                                                            *)

\* mutant: a timer that has passed starts a whole period anew
NextAnew(left, p, diff) == Int32(Longer(p, Int32(diff)))
\* One period later, or diff later if the call has come later than that.
NextExpiry(left, p, diff) == Int32(left + Longer(p, Int32(diff)))

NewPeriodicTimer(k, p, s) == k \in PeriodicKinds /\ New(k, p, s, Int32(s), s)
PeriodicUpdate(diff) ==
  /\ Counts("PeriodicTimer", diff)
  /\ LET left == Int32(expire - diff) IN
       IF left > 0 THEN expire' = left /\ due' = due
       ELSE expire' = NextExpiry(left, Int32(period), diff) /\ due' = due + period
  /\ UNCHANGED untaken
SetPeriodic(p, s) == \E k \in PeriodicKinds : Set(k, p, s, Int32(s), s)

TUpdate(diff) ==
  /\ diff < Half /\ Counts("tracker interface", diff)
  /\ expire' = Int32(expire - diff)
  /\ untaken' = IF expire' <= 0 THEN diff ELSE WasReset
  /\ UNCHANGED due
TReset ==
  /\ kind = "tracker interface" /\ untaken # WasReset
  /\ expire' = NextExpiry(expire, Int32(period), untaken)
  /\ due' = due + period /\ untaken' = WasReset
  /\ UNCHANGED <<kind, period, start, elapsed, longest, dividedByZero>>

-----------------------------------------------------------------------------
TimersNext ==
  \/ \E diff \in Diffs : \/ IntervalUpdate(diff) \/ TrackerUpdate(diff) \/ SmallUpdate(diff)
                         \/ PeriodicUpdate(diff) \/ TUpdate(diff)
  \/ NewIntervalTimer
  \/ \E time \in Times : \/ NewTimeTracker(time) \/ NewTimeTrackerSmall(time)
                         \/ \E k \in PeriodicKinds, s \in Times : NewPeriodicTimer(k, time, s)
                         \/ SetInterval(time) \/ SetCurrent(time) \/ TrackerReset(time) \/ SmallReset(time)
                         \/ \E s \in Times : SetPeriodic(time, s)
  \/ IntervalReset \/ TReset

TimersSpec == TimersInit /\ [][TimersNext]_timerVars

-----------------------------------------------------------------------------
(* Properties.                                                               *)

\* An interval timer shows the time since it was last due, which is less than
\* an interval once it has been reset, whatever its calls were late.
IntervalOnTime ==
  kind = "IntervalTimer" /\ ~dividedByZero =>
    /\ expire = elapsed - due
    /\ untaken = WasReset /\ longest > 0 => expire \in 0 .. period - 1

\* A tracker has passed exactly when its time has; a TimeTrackerSmall only if it
\* is less than 2^31 ms, and is asked within 2^31 ms from then.
TrackerOnTime ==
  /\ kind = "TimeTracker" => (Passed <=> elapsed >= due)
  /\ kind = "TimeTrackerSmall" /\ due < Half /\ elapsed <= due + Half => (Passed <=> elapsed >= due)

\* A periodic timer with a period and a start of 1 to 2^31 - 1 ms is never left
\* passed, if no two calls are 2^31 ms apart, and as long as they are not more
\* than a period apart it has fired once for every period since its start.
PeriodicOnTime ==
  kind \in PeriodicKinds /\ untaken = WasReset /\ {period, start} \subseteq 1 .. Half - 1 =>
    /\ longest < Half => ~Passed
    /\ longest <= period => expire = due - elapsed /\ expire <= Longer(start, period)

\* Every timer of Timer.h keeps its time, however irregular the calls are, where
\* the 32 bits of its fields allow it.
TimersOnTime == IntervalOnTime /\ TrackerOnTime /\ PeriodicOnTime
=============================================================================
