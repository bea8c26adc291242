------------------------------- MODULE MCLive -------------------------------
(* Instances of LiveSync for TLC.                                          *)
EXTENDS LiveSync

CONSTANTS rex, ivy, ann, bob

\* The Dogs first, then Watchdog.
TwoRanks == <<40, 20>>
OneRank == <<40>>
OwnerOfEach == [d \in Dog |-> IF d = rex THEN {ann} ELSE {bob}]

=============================================================================
