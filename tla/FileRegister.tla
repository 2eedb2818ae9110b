----------------------------- MODULE FileRegister -----------------------------
(* What the path lock and the atomic overwrite promise together               *)
(* (m3u/atomicFile.ts): every file is a register.  The calls made on one file *)
(* take effect whole, one after another, in the order they were made; a call  *)
(* that fails, or that a restart loses, has no effect.                        *)
EXTENDS Naturals

CONSTANTS Op, File, Body, NoFile, NoCall, Place

VARIABLES reg,     \* what a reader of each file sees
          calls    \* the calls pending: a file, a body, a place in the order
vars == <<reg, calls>>

Pending(o) == calls[o] # NoCall
First(o) == \A q \in Op : Pending(q) /\ calls[q].file = calls[o].file
                            => calls[o].place <= calls[q].place

Init == reg = [f \in File |-> NoFile] /\ calls = [o \in Op |-> NoCall]

Call(o, f, b, n) ==
    /\ ~Pending(o)
    /\ \A q \in Op : Pending(q) => calls[q].place < n
    /\ calls' = [calls EXCEPT ![o] = [file |-> f, body |-> b, place |-> n]]
    /\ UNCHANGED reg

Takes(o) ==
    /\ Pending(o) /\ First(o)
    /\ reg' = [reg EXCEPT ![calls[o].file] = calls[o].body]
    /\ calls' = [calls EXCEPT ![o] = NoCall]

Fails(o) ==
    /\ Pending(o) /\ First(o)
    /\ calls' = [calls EXCEPT ![o] = NoCall]
    /\ UNCHANGED reg

Restart == calls' = [o \in Op |-> NoCall] /\ UNCHANGED reg

Next == \/ \E o \in Op : Takes(o) \/ Fails(o)
        \/ \E o \in Op, f \in File, b \in Body \cup {NoFile}, n \in Place : Call(o, f, b, n)
        \/ Restart
Spec == Init /\ [][Next]_vars
=============================================================================
