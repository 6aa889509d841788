--------------------------- MODULE MCAdminClients ---------------------------
(* Instances of the API clients for TLC. *)
EXTENDS AdminClients, TLC

Symmetry ==
    Permutations(Sessions) \union Permutations(Clients \ {InitialAdmin})
=============================================================================
