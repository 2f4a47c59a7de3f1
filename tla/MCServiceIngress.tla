-------------------------- MODULE MCServiceIngress --------------------------
(***************************************************************************)
(* Small instances of ServiceIngress: two submissions with the same        *)
(* content, hence the same job, and a delivery of another.                 *)
(***************************************************************************)
EXTENDS ServiceIngress

CONSTANTS c1, c2, d1

MCJobOf == [s \in Sources |-> IF s = d1 THEN 2 ELSE 1]
=============================================================================
