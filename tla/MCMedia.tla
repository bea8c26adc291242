------------------------------ MODULE MCMedia ------------------------------
(* Small instances of MediaAssets, and of the pages of a day's races,      *)
(* which share no rows.  Each behaviour is of one of them, side; of the    *)
(* other the variables keep their initial values.                          *)
EXTENDS MediaAssets, RaceExplorer

VARIABLE side

\* Each race is of a meeting of its own.
OwnMeeting == [r \in Race |-> r]

SidesInit == side \in {"media", "explorer"} /\ Init /\ ExplorerInit

SidesNext ==
    /\ \/ side = "media" /\ Next /\ UNCHANGED explorerVars
       \/ side = "explorer" /\ ExplorerNext /\ UNCHANGED vars
    /\ UNCHANGED side

(* The fairness is that of MediaAssets; the pages are only asked what may  *)
(* never happen.                                                           *)
SidesSpec ==
    /\ SidesInit /\ [][SidesNext]_<<side, vars, explorerVars>>
    /\ \A c \in Cron : WF_vars(side = "media" /\ CronStep(c) /\ UNCHANGED <<side, explorerVars>>)
    /\ \A a \in Asset : WF_vars(side = "media" /\ Expire(a) /\ UNCHANGED <<side, explorerVars>>)
=============================================================================
