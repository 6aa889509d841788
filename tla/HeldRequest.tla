----------------------------- MODULE HeldRequest ----------------------------
(***************************************************************************)
(* What a held DNS Persist request promises its clients, without workers,  *)
(* messages or restarts: it waits until one release is accepted, under the *)
(* key of that release, and once it is closed it stays closed.             *)
(***************************************************************************)
CONSTANTS Certs, Keys, NoKey

VARIABLES phase, accepted

heldVars == <<phase, accepted>>

Init ==
    /\ phase = [c \in Certs |-> "none"]
    /\ accepted = [c \in Certs |-> NoKey]

Hold(c) ==
    /\ phase[c] = "none"
    /\ phase' = [phase EXCEPT ![c] = "waiting"]
    /\ UNCHANGED accepted

Release(c, k) ==
    /\ phase[c] = "waiting"
    /\ phase' = [phase EXCEPT ![c] = "released"]
    /\ accepted' = [accepted EXCEPT ![c] = k]

Close(c) ==
    /\ phase[c] \in {"waiting", "released"}
    /\ phase' = [phase EXCEPT ![c] = "closed"]
    /\ UNCHANGED accepted

Next ==
    \E c \in Certs : Hold(c) \/ Close(c) \/ \E k \in Keys : Release(c, k)

Spec == Init /\ [][Next]_heldVars

=============================================================================
