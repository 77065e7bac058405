---------------------------- MODULE MCOSTreeRepo ----------------------------
(* Model-checking instance of OSTreeRepo with every operation: the calls   *)
(* of the package manager service (pull, pullAll, checkout, checkoutAll,   *)
(* delete) and the imports of the builder and of layer installation.       *)
EXTENDS OSTreeRepo

AllOps == OpNames
=============================================================================
