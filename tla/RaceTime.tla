------------------------------ MODULE RaceTime ------------------------------
(* The clock of the races' time zone: src/lib/race-time.ts.  A race is     *)
(* stored as an instant, and listed, opened and looked for by the day and  *)
(* the time on the wall.  Instants and wall clocks are numbers of one      *)
(* unit; a wall clock is the number its digits give when they are read as  *)
(* UTC, so that days begin at the multiples of Day.                        *)
EXTENDS Integers

CONSTANTS
    Standard,       \* how far the wall clock is ahead of UTC,
    Summer,         \* and in summer,
    From, Until,    \* which lasts from this instant to that one
    Day             \* the length of a day

(* The zone is ahead of UTC, more so in summer, and summer is longer than  *)
(* what it is ahead by.                                                    *)
ASSUME ZoneAssumption ==
    /\ Standard \in Nat /\ Summer \in Nat /\ Standard < Summer
    /\ From \in Int /\ Until \in Int /\ From + Summer < Until
    /\ Day \in Nat \ {0}

(* What the wall skips when summer begins, and shows twice when it ends.   *)
Skipped == From + Standard .. From + Summer - 1
Repeated == Until + Standard .. Until + Summer - 1
Plain(w) == w \notin Skipped \cup Repeated

(* The zone changes at night, and not at midnight.                         *)
ASSUME MidnightAssumption ==
    \A w \in Skipped \cup Repeated : w % Day # 0

Offset(t) == IF From <= t /\ t < Until THEN Summer ELSE Standard
Wall(t) == t + Offset(t)
DayOf(t) == Wall(t) \div Day

(* zonedTimeToUtc: the offset of the digits read as UTC gives an instant;  *)
(* where that has another offset, the other one is taken.                  *)
ToUtc_OnePass(w) == w - Offset(w)
ToUtc(w) ==
    LET offset == Offset(w)
        verified == Offset(w - offset)
    IN  IF verified = offset THEN w - offset ELSE w - verified

Window(d) == [gte |-> ToUtc(d * Day), lt |-> ToUtc((d + 1) * Day)]
ClockWindow(w) == [gte |-> ToUtc(w), lt |-> ToUtc(w) + 1]
Within(t, window) == window.gte <= t /\ t < window.lt
=============================================================================
