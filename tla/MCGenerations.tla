---------------------------- MODULE MCGenerations ---------------------------
(* An instance of the generations and their rows for TLC. *)
EXTENDS Generations, TLC

CONSTANTS apex, twin, wildcard

\* Two requests for example.com first, and one for *.example.com.
MCDomains ==
    apex :> <<<<1, 2>>>> @@ twin :> <<<<1, 2>>, <<1, 2, 3>>>>
        @@ wildcard :> <<<<1, 2, Star>>>>

Symmetry == Permutations(Workers) \union Permutations(Keys)
=============================================================================
