------------------------------ MODULE DateTime ------------------------------
(***************************************************************************)
(* A DateTime keeps the time it was made for, and a pointer to the one tm  *)
(* that localtime fills for the whole program.  Everything that asks for   *)
(* the local time fills it: another DateTime, the log for each line it     *)
(* writes, and ctime.  The members read it one field at a time.            *)
(***************************************************************************)
EXTENDS Integers, FiniteSets

CONSTANT
  Calendar   \* time -> sec, hour, mday, mon and year of its tm

Moments == DOMAIN Calendar
FirstMoment == CHOOSE m \in Moments : \A n \in Moments : m <= n
NoMoment == -1

ASSUME CalendarAssumption ==
  /\ Moments # {} /\ Moments \subseteq Nat
  /\ \A m \in Moments :
       Calendar[m] \in [sec : 0 .. 60, hour : 0 .. 23, mday : 1 .. 31, mon : 0 .. 11, year : Int]

\* The years that ToFiestaTime has a place for.
FirstYear == 2000
LastYear == 2127

VARIABLES
  now,
  Date,      \* of the DateTime, or NoMoment before it is made
  tm,        \* the time that localtime was last asked for
  asked,     \* the times that it has been asked for since the DateTime was made
  next,      \* the field that ToFiestaTime reads next
  val        \* of ToFiestaTime, by its bit fields: sec, hour, mday, mon and year

dateVars == <<now, Date, tm, asked, next, val>>

Empty == [sec |-> 0, hour |-> 0, mday |-> 0, mon |-> 0, year |-> 0]
\* The bit fields of a value that has all bits above the last eight set.
AllSet == [sec |-> 127, hour |-> 63, mday |-> 63, mon |-> 31]

DateTimeInit ==
  /\ now = FirstMoment /\ tm = NoMoment
  /\ Date = NoMoment /\ asked = {}
  /\ next = "none" /\ val = Empty

Passing == now' \in {m \in Moments : m > now} /\ UNCHANGED <<Date, tm, asked, next, val>>

\* localtime(&time)
localtime(time) == tm' = time

-----------------------------------------------------------------------------
(* The constructors, and what else fills the tm.                             *)

\* mutant: the constructor from a time asks for the time of the call
AsksForNow(time) == now
AsksFor(time) == time
Make(time) ==
  /\ next = "none" /\ Date' = time
  /\ localtime(AsksFor(time)) /\ asked' = {}
  /\ val' = Empty /\ UNCHANGED <<now, next>>
Now == Make(now)
DateTimeOf(time) == Make(time)

AskedToo(time) == localtime(time) /\ asked' = asked \cup {time} /\ UNCHANGED <<now, Date, next, val>>
\* A second DateTime, whose Date is of no interest.
AnotherDateTime(time) == AskedToo(time)
NowDate == AskedToo(now)
LogDateString == AskedToo(now)
ToChar == Date # NoMoment /\ AskedToo(Date)

-----------------------------------------------------------------------------
(* What the members say.                                                     *)

Second(t) == Calendar[t].sec
Hours(t) == Calendar[t].hour
Day(t) == Calendar[t].mday
Month(t) == Calendar[t].mon + 1
Year(t) == Calendar[t].year + 1900

\* val |= (char)(y): a char is signed, and a negative one sets every bit above it.
WithYear(packed, y) ==
  LET byte == y % 256 IN
    IF byte < 128 THEN [packed EXCEPT !.year = byte]
    ELSE [f \in DOMAIN packed |-> IF f = "year" THEN byte ELSE AllSet[f]]

\* NowFiestaTime takes 2000 from the years since 1900.
NowFiestaTime(t) ==
  WithYear([sec |-> Calendar[t].sec, hour |-> Calendar[t].hour, mday |-> Calendar[t].mday,
            mon |-> Calendar[t].mon, year |-> 0], Calendar[t].year - 2000)

\* ToFiestaTime, one member of its argument after the other.
Follows == [none |-> "sec", sec |-> "hour", hour |-> "mday", mday |-> "mon", mon |-> "year", year |-> "none"]
ReadsField(f) == next = f /\ next' = Follows[f] /\ UNCHANGED <<now, Date, tm, asked>>
ToFiestaTime == Date # NoMoment /\ val = Empty /\ ReadsField("none") /\ UNCHANGED val
ReadsSecond == ReadsField("sec") /\ val' = [val EXCEPT !.sec = Second(tm)]
ReadsHours == ReadsField("hour") /\ val' = [val EXCEPT !.hour = Hours(tm)]
ReadsDay == ReadsField("mday") /\ val' = [val EXCEPT !.mday = Day(tm)]
ReadsMonth == ReadsField("mon") /\ val' = [val EXCEPT !.mon = Month(tm)]
ReadsYear == ReadsField("year") /\ val' = WithYear(val, Year(tm) - 2000)

DateTimeNext ==
  \/ Passing \/ Now \/ (\E time \in Moments : DateTimeOf(time) \/ AnotherDateTime(time))
  \/ NowDate \/ LogDateString \/ ToChar
  \/ ToFiestaTime \/ ReadsSecond \/ ReadsHours \/ ReadsDay \/ ReadsMonth \/ ReadsYear

DateTimeSpec == DateTimeInit /\ [][DateTimeNext]_dateVars

-----------------------------------------------------------------------------
(* Properties.                                                               *)

\* Each field that ToFiestaTime packs is, in the years it has a place for, of the
\* time that the DateTime was made for or of one that has been asked for since
\* then, by whoever; NowFiestaTime tells nothing but the year.
FiestaDates ==
  next = "none" /\ val # Empty =>
    LET sources == {Date} \cup asked IN
      (\A t \in sources : Year(t) \in FirstYear .. LastYear) =>
        /\ \E t \in sources : Second(t) = val.sec
        /\ \E t \in sources : Hours(t) = val.hour
        /\ \E t \in sources : Day(t) = val.mday
        /\ \E t \in sources : Month(t) = val.mon
        /\ \E t \in sources : Year(t) = val.year + 2000
        /\ Year(tm) < 2108 => \A f \in DOMAIN AllSet : NowFiestaTime(tm)[f] = AllSet[f]
=============================================================================
