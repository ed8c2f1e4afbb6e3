---------------------------- MODULE MCControlIf ----------------------------
(* Model-checking instance of ControlIf.  The constants are given in the   *)
(* .cfg files: NoOwner and the types and receivers are model values, the   *)
(* bounds are small numbers chosen per run (see README).  No symmetry is   *)
(* declared because the runs check liveness.                               *)
EXTENDS ControlIf

=============================================================================
