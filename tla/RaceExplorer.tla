---------------------------- MODULE RaceExplorer ----------------------------
(***************************************************************************)
(* The pages of a day's races: src/lib/queries.ts with src/lib/ttl-cache.ts *)
(* and src/lib/race-time.ts.  The page without a filter chooses its day    *)
(* from the days that have races, as the database lists them, and races of *)
(* a day are those in its window.  The list is kept for a minute and the   *)
(* page for one more; who asks while it is made waits for it.              *)
(*                                                                         *)
(* A page is made of reads, each at an instant of its own, while the feeds *)
(* add races and correct their times.  In production a read that fails     *)
(* ends the page it is for, and nothing of the page is kept.               *)
(***************************************************************************)
EXTENDS RaceTime, FiniteSets

CONSTANTS
    Race, Meeting,
    MeetingOf,      \* of each race
    None,
    Unread,         \* what a page has not read yet
    Given,          \* the instants that feeds give
    Moments,        \* the instants at which something happens
    TTL,            \* how long the list and the page are kept
    ListLimit,      \* how many days the list has
    MaxFaults       \* bound on reads that fail

ASSUME ExplorerAssumption ==
    /\ MeetingOf \in [Race -> Meeting]
    /\ Given \subseteq Int /\ Moments \subseteq Int /\ TTL \in Nat
    /\ None \notin Int /\ Unread \notin Int /\ None # Unread
    /\ MaxFaults \in Nat

VARIABLES
    now,
    raceTime,       \* of each race on record
    strayed,        \* races that were moved to another day, a history
    dates,          \* recentRaceDatesCache: the list of days, and its end
    front,          \* the page without a filter while it is made
    store,          \* that page as it is kept, and its end
    failed

explorerVars == <<now, raceTime, strayed, dates, front, store, failed>>

Rest == [step |-> "rest", had |-> {}, latest |-> Unread, days |-> Unread,
         day |-> None, meetings |-> {}]

ExplorerInit ==
    /\ now \in Moments /\ \A t \in Moments : now <= t
    /\ raceTime = [r \in Race |-> None]
    /\ strayed = {}
    /\ dates = [days |-> {}, until |-> now]
    /\ front = Rest
    /\ store = [page |-> None, until |-> now]
    /\ failed = 0

OnRecord == {r \in Race : raceTime[r] # None}

(* The days that races are on, and those that the database lists.          *)
RacesOf(d) == {r \in OnRecord : DayOf(raceTime[r]) = d}
RaceDays == {DayOf(raceTime[r]) : r \in OnRecord}
Newest(days) == {d \in days : Cardinality({e \in days : e > d}) < ListLimit}
Loaded == [days |-> Newest(RaceDays), until |-> now + TTL]

(* The races that a page of a day reads.                                   *)
Shown(d) == {r \in OnRecord : Within(raceTime[r], Window(d))}

------------------------------------------------------------------------------
(* The feeds: a race is put on record, and its time is corrected.          *)
Publish(r) ==
    /\ raceTime[r] = None
    /\ \E t \in Given : raceTime' = [raceTime EXCEPT ![r] = t]
    /\ UNCHANGED <<now, strayed, dates, front, store, failed>>

Correct(r) ==
    /\ raceTime[r] # None
    /\ \E t \in Given :
        /\ raceTime' = [raceTime EXCEPT ![r] = t]
        /\ strayed' = IF DayOf(t) = DayOf(raceTime[r])
                      THEN strayed ELSE strayed \cup {r}
    /\ UNCHANGED <<now, dates, front, store, failed>>

------------------------------------------------------------------------------
(* cached: while the kept page is young it is answered, and while one is   *)
(* made it is waited for, neither of which changes anything; otherwise one *)
(* is begun.  It takes the list of days if that is young enough.           *)
Due == store.until <= now /\ front.step = "rest"

Open ==
    /\ Due
    /\ front' = [Rest EXCEPT !.step = "reading", !.had = OnRecord,
                    !.days = IF dates.until > now THEN dates.days ELSE Unread]
    /\ UNCHANGED <<now, raceTime, strayed, dates, store, failed>>

ReadLatest ==
    /\ front.step = "reading" /\ front.latest = Unread
    /\ \/ /\ OnRecord = {}
          /\ front' = [front EXCEPT !.latest = None]
       \/ \E r \in OnRecord :
            /\ \A q \in OnRecord : raceTime[q] <= raceTime[r]
            /\ front' = [front EXCEPT !.latest = raceTime[r]]
    /\ UNCHANGED <<now, raceTime, strayed, dates, store, failed>>

ReadDates ==
    /\ front.step = "reading" /\ front.days = Unread
    /\ dates' = Loaded
    /\ front' = [front EXCEPT !.days = Loaded.days]
    /\ UNCHANGED <<now, raceTime, strayed, store, failed>>

(* Pages with a filter show the list too, and load it when it is old; so   *)
(* does what is left of a page that failed.                                *)
LoadDates ==
    /\ dates' = Loaded
    /\ UNCHANGED <<now, raceTime, strayed, front, store, failed>>

(* The newest day of the list that is not ahead, or else the day of the    *)
(* latest race, or today.                                                  *)
DefaultDays(latest, days) ==
    LET past == {d \in days : d <= DayOf(now)}
    IN  IF past # {} THEN {d \in past : \A e \in past : e <= d}
        ELSE {DayOf(IF latest = None THEN now ELSE latest)}

Choose ==
    /\ front.step = "reading" /\ front.latest # Unread /\ front.days # Unread
    /\ \E day \in DefaultDays(front.latest, front.days) :
        front' = [front EXCEPT !.step = "meetings", !.day = day]
    /\ UNCHANGED <<now, raceTime, strayed, dates, store, failed>>

(* getRaceExplorerMeetings: the meetings that have races in the window,    *)
(* and then the races in the window that these meetings have.              *)
ReadMeetings ==
    /\ front.step = "meetings"
    /\ front' = [front EXCEPT !.step = "races",
                    !.meetings = {MeetingOf[r] : r \in Shown(front.day)}]
    /\ UNCHANGED <<now, raceTime, strayed, dates, store, failed>>

\* The page is kept, and all who wait for it are answered.
Settle(page) ==
    /\ store' = [page |-> page, until |-> now + TTL]
    /\ front' = Rest

Answer ==
    /\ front.step = "races"
    /\ Settle([day |-> front.day, had |-> front.had,
               races |-> {r \in Shown(front.day) :
                            MeetingOf[r] \in front.meetings}])
    /\ UNCHANGED <<now, raceTime, strayed, dates, failed>>

(* A read fails: whoever waits for the page gets none, and none is kept.   *)
Fail ==
    /\ front.step # "rest" /\ failed < MaxFaults
    /\ failed' = failed + 1
    /\ front' = Rest
    /\ UNCHANGED <<now, raceTime, strayed, dates, store>>

Tick ==
    /\ \E t \in Moments : t > now /\ now' = t
    /\ UNCHANGED <<raceTime, strayed, dates, front, store, failed>>

ExplorerNext ==
    \/ \E r \in Race : Publish(r) \/ Correct(r)
    \/ Open \/ ReadLatest \/ ReadDates \/ Choose \/ ReadMeetings \/ Answer
    \/ Fail \/ LoadDates \/ Tick

ExplorerSpec == ExplorerInit /\ [][ExplorerNext]_explorerVars

------------------------------------------------------------------------------
Page == [day : Int, had : SUBSET Race, races : SUBSET Race]
Front ==
    [step : {"rest", "reading", "meetings", "races"}, had : SUBSET Race,
     latest : Int \cup {None, Unread}, days : (SUBSET Int) \cup {Unread},
     day : Int \cup {None}, meetings : SUBSET Meeting]

ExplorerTypeOK ==
    /\ now \in Int
    /\ raceTime \in [Race -> Int \cup {None}]
    /\ strayed \subseteq Race
    /\ dates \in [days : SUBSET Int, until : Int]
    /\ front \in Front
    /\ store \in [page : Page \cup {None}, until : Int]
    /\ failed \in Nat

(* Whichever way the clocks change on it, a day's window has the races of  *)
(* that day and no others.  The page that is kept has the races of its day *)
(* that were on record when it was begun; and it is not an empty day while *)
(* there are races, however old the list was that chose the day.           *)
PagesAreWhole ==
    /\ \A d \in RaceDays \cup {DayOf(now)} : Shown(d) = RacesOf(d)
    /\ store.page # None =>
        LET page == store.page
        IN  /\ page.races \ strayed \subseteq RacesOf(page.day)
            /\ RacesOf(page.day) \cap page.had \subseteq page.races \cup strayed
            /\ page.had # {} /\ strayed = {} => page.races # {}
=============================================================================
