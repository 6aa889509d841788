---------------------------- MODULE MCRenewalClock --------------------------
(* An instance of the renewal clock for TLC. *)
EXTENDS RenewalClock

MCAnswers ==
    [exit : {1, 75}, out : {{}}, err : {{}, {"auth"}, {"rate", "auth"}},
     paths : {{}}, dates : {{}}, readable : {FALSE}]
    \union
    [exit : {0}, out : {{}}, err : {{}}, paths : {Files},
     dates : {{"next renewal"}, {"expired at", "next renewal"}},
     readable : BOOLEAN]
=============================================================================
