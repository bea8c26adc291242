------------------------------- MODULE MCFeed -------------------------------
(* Small instances of Stripe's billing, of the feed, of the call panel in  *)
(* the browser and of the conversation of a pair, which share no rows.     *)
(* Each behaviour is of one of them, side; of the others the variables     *)
(* keep their initial values.                                              *)
EXTENDS MCStripe, Feed, CallPanel, Conversations

CONSTANTS author, fan, ann, m1, m2

VARIABLE side

others(s) ==
    /\ s # "stripe" => UNCHANGED vars
    /\ s # "feed" => UNCHANGED feedVars
    /\ s # "panel" => UNCHANGED panelVars
    /\ s # "thread" => UNCHANGED threadVars

SidesInit ==
    /\ side \in {"stripe", "feed", "panel", "thread"}
    /\ Init /\ FeedInit /\ PanelInit /\ ThreadInit
    /\ Of \in {<<fan, fan>>} \cup (IF side = "feed" THEN {<<author, fan>>} ELSE {})
    /\ side # "feed" => post.status = Nil

\* Bounds on a conversation whose requests have overlapped: its clock stands
\* still, and under a block it has one message.
FewInOverlap ==
    overlapped => /\ clock = 1
                  /\ blocks # {} => \E m \in Message : SentSoFar \subseteq {m}

\* It does not matter which message is the first, nor whose.
FirstIsAnns ==
    /\ msg[m2].sent => msg[m1].sent
    /\ msg[m1].sent => msg[m1].from = ann

SidesNext ==
    /\ \/ side = "stripe" /\ Next
       \/ side = "feed" /\ FeedNext
       \/ side = "panel" /\ PanelNext
       \/ side = "thread" /\ ThreadNext /\ (FewInOverlap /\ FirstIsAnns)'
    /\ others(side)
    /\ UNCHANGED side

SidesSpec ==
    SidesInit /\ [][SidesNext]_<<side, vars, feedVars, panelVars, threadVars>>
=============================================================================
