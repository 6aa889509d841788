----------------------------- MODULE MCDeployer -----------------------------
(* Instances of one deployment directory for TLC: the directory has no     *)
(* symmetry, as names are replaced and generations ranked in order.        *)
EXTENDS Deployer
=============================================================================
