------------------------------ MODULE Calendar ------------------------------
(***************************************************************************)
(* Wall clocks, and the times a five-field cron fires                      *)
(* (modules/campaigns/cron.ts), in the calendar of a small planet: an hour *)
(* has Hour minutes, a day Day hours, and so on.  An instant is a number   *)
(* of minutes; so is a reading of a wall clock, counted from the same      *)
(* midnight.  A zone's clocks are `before' minutes ahead, and `after' from *)
(* the instant `change' on: east of the first meridian both are positive.  *)
(*                                                                         *)
(* An operator called Mutant_... is not part of the model: it is a bug put *)
(* in the place of the definition after it, to see a property catch it.    *)
(***************************************************************************)
EXTENDS Integers, FiniteSetsExt

CONSTANTS
  Hour, Day, Week, Month, Year,   \* minutes, hours, days, days, months
  SearchDays,                     \* how many days ahead a cron is looked for
  Nothing

ASSUME CalendarAssumption == {Hour, Day, Week, Month, Year, SearchDays} \subseteq Nat \ {0}

Minute(w)     == w % Hour
HourOf(w)     == (w \div Hour) % Day
DayOf(w)      == w \div (Hour * Day)
DayOfWeek(w)  == DayOf(w) % Week
DayOfMonth(w) == (DayOf(w) % Month) + 1
MonthOf(w)    == ((DayOf(w) \div Month) % Year) + 1

Offset(t, zone)    == IF t < zone.change THEN zone.before ELSE zone.after
WallClock(t, zone) == t + Offset(t, zone)

(* The offset is read twice: at the naive time, and at the first guess. *)
Mutant_OneGuess(w, zone) == w - Offset(w, zone)

FromWallClock(w, zone) == w - Offset(w - Offset(w, zone), zone)

(* A field is a set of items a, a-b, or * (a pair or less), with a step;   *)
(* an item that leaves the field is a CronError.  Whether a day field      *)
(* restricts is read off its text: `1-31' and `*/1' do, and `*' does not.  *)
Item(from, to, step) == [from |-> from, to |-> to, step |-> step, bare |-> FALSE]
Star(spec)           == [Item(spec[1], spec[2], 1) EXCEPT !.bare = TRUE]

Wrong(item, spec) == item.step < 1 \/ item.from < spec[1] \/ item.to > spec[2] \/ item.from > item.to

ParseField(field, spec) ==
  IF \E item \in field : Wrong(item, spec) THEN Nothing
  ELSE UNION {{v \in item.from..item.to : (v - item.from) % item.step = 0} : item \in field}

CronError(c) ==
  \/ ParseField(c.minutes, <<0, Hour - 1>>) = Nothing
  \/ ParseField(c.hours, <<0, Day - 1>>) = Nothing
  \/ ParseField(c.daysOfMonth, <<1, Month>>) = Nothing
  \/ ParseField(c.months, <<1, Year>>) = Nothing
  \/ ParseField(c.daysOfWeek, <<0, Week>>) = Nothing

(* Weekday 7 is Sunday, like 0. *)
ParseCron(c) ==
  [minutes |-> ParseField(c.minutes, <<0, Hour - 1>>), hours |-> ParseField(c.hours, <<0, Day - 1>>),
   daysOfMonth |-> ParseField(c.daysOfMonth, <<1, Month>>), months |-> ParseField(c.months, <<1, Year>>),
   daysOfWeek |-> {d % Week : d \in ParseField(c.daysOfWeek, <<0, Week>>)},
   domRestricted |-> c.daysOfMonth # {Star(<<1, Month>>)},
   dowRestricted |-> c.daysOfWeek # {Star(<<0, Week>>)}]

(* Classic cron: when both day fields are restricted, either may match. *)
DayMatches(cron, w) ==
  LET dom == DayOfMonth(w) \in cron.daysOfMonth
      dow == DayOfWeek(w) \in cron.daysOfWeek
  IN IF cron.domRestricted /\ cron.dowRestricted THEN dom \/ dow ELSE dom /\ dow

Fires(cron, w) ==
  /\ MonthOf(w) \in cron.months /\ DayMatches(cron, w)
  /\ HourOf(w) \in cron.hours /\ Minute(w) \in cron.minutes

(* The days are gone through from the one it is in the zone, and the times *)
(* of a day in the order of the clock; a time the clocks jumped over comes *)
(* back from its instant as another one and is skipped.                    *)
Occurrences(cron, after, zone, start) ==
  {w \in start..((DayOf(start) + SearchDays) * Day * Hour - 1) :
     /\ Fires(cron, w)
     /\ FromWallClock(w, zone) > after
     /\ WallClock(FromWallClock(w, zone), zone) = w}

Earliest(times) == IF times = {} THEN Nothing ELSE Min(times)

Instant(w, zone) == IF w = Nothing THEN Nothing ELSE FromWallClock(w, zone)

NextOccurrence(cron, after, zone) ==
  Instant(Earliest(Occurrences(cron, after, zone, WallClock(after + 1, zone))), zone)
=============================================================================
