---------------------------- MODULE MCClientPool ------------------------------
(* Instances of ClientPool for TLC.                                        *)
EXTENDS ClientPool

\* Hosts are only compared for equality.
HostSymmetry == Permutations(Hosts)
=============================================================================
