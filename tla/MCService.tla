------------------------------ MODULE MCService -----------------------------
(* An instance of the certificate service for TLC; liveness is checked, so *)
(* no symmetry is used.                                                    *)
EXTENDS ServiceProperties
=============================================================================
