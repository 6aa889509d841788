---------------------------- MODULE MCRevocations ---------------------------
(* Instances of the revocation requests for TLC. *)
EXTENDS Revocations

MCAnswers ==
    [exit : {0}, out : {{}}, err : {{}}, paths : {{}}, dates : {{}},
     readable : {FALSE}]
    \union
    [exit : {1, 75}, out : SUBSET {"auth", "revoked"},
     err : SUBSET {"rate", "auth", "revoked"}, paths : {{}}, dates : {{}},
     readable : {FALSE}]
=============================================================================
