---------------------------- MODULE MCDuloSession ----------------------------
(* The boot finds a session, or nothing.  MongoDB may fail any call.          *)
EXTENDS DuloSession
CONSTANTS phone
MCSaved == {[token |-> [family |-> phone, gen |-> 1], status |-> "active"]}
MCFaulty == Proc
=============================================================================
