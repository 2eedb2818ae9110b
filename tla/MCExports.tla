------------------------------ MODULE MCExports ------------------------------
(* Exports for TLC: an administrator and a second account, a built-in         *)
(* playlist and a clone.                                                      *)
EXTENDS Exports

MCUser == {"root", "joe"}
MCBuiltin == {"dulo"}
MCClone == {"mine"}
MCPath == {"unknown", "mine", "other"}
MCOwnPath == [c \in MCClone |-> c]
TaskSymmetry == Permutations(Task)
=============================================================================
