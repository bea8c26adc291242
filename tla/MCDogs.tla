------------------------------- MODULE MCDogs -------------------------------
(* Small instances of DogIdentity.                                         *)
EXTENDS DogIdentity

CONSTANTS rex, ivy

SireOf == [a \in Animal |-> IF a = ivy THEN rex ELSE NoDog]
=============================================================================
