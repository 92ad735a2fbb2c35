------------------------------- MODULE MCKernel -------------------------------
(* Kernel on small instances: two workbenches; the claims meet on the first of *)
(* them, the other requests name either.                                       *)
EXTENDS Kernel
CONSTANTS w1, w2
AnyName == [r \in Requests |-> IF r \in Claimers THEN {w1} ELSE {w1, w2}]
===============================================================================
