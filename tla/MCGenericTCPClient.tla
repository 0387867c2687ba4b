------------------------ MODULE MCGenericTCPClient ----------------------------
(* The instance of GenericTCPClient for TLC: descriptors as the system     *)
(* gives them out, and -1 for none.  They are not permuted by a symmetry,  *)
(* for liveness is checked too.                                            *)
EXTENDS GenericTCPClient, Integers

Descriptors == {3, 4}
NoDescriptor == -1
=============================================================================
