------------------------------ MODULE AtomicFile ------------------------------
(* m3u/atomicFile.ts: writes and prunes of the export files of one directory. *)
(*                                                                            *)
(* withPathLock chains the calls on one path: each call starts when the one   *)
(* before it has settled, whatever came of that.  atomicWrite is four system  *)
(* calls, pruneFile two; between them, calls on other paths of the directory  *)
(* run.  Every call is one element of Op and is made at most once.            *)
EXTENDS Naturals

CONSTANTS Op, FileName, Contents,
          Absent, Half, NoCall, None,   \* no file, a file half written, nothing
          Place                         \* how many calls there may be: Nat, but for TLC

ASSUME AtomicFileAssumption ==
    /\ Absent \notin Contents /\ Half \notin Contents /\ Half # Absent
    /\ None \notin Op /\ Place \subseteq Nat
    /\ NoCall \notin [file : FileName, body : Contents \cup {Absent}, place : Place]

VARIABLES pc,     \* where each call is
          arg,    \* its file and body; no body to prune the file
          after,  \* the call whose end it waits for
          last,   \* the promise at the end of each path's chain
          disk,   \* the files
          temp,   \* the temporary file of each call
          dir,    \* whether the directory exists
          place, count    \* history: the order in which the calls were made
filesVars == <<pc, arg, after, last, disk, temp, dir, place, count>>

Call0 == [file : FileName, body : Contents \cup {Absent}]
Settled == {"ok", "failed", "lost"}
Running == {"mkdir", "create", "fill", "rename", "rm", "rmdir"}
Open == {"waiting"} \cup (Running \ {"rmdir"})   \* what the call is for is still ahead

FilesInit ==
    /\ pc = [o \in Op |-> "new"]
    /\ arg \in [Op -> Call0]
    /\ after = [o \in Op |-> None]
    /\ last = [f \in FileName |-> None]
    /\ disk = [f \in FileName |-> Absent]
    /\ temp = [o \in Op |-> Absent]
    /\ dir = FALSE
    /\ place = [o \in Op |-> 0] /\ count = 0

Goto(o, s) == pc' = [pc EXCEPT ![o] = s]

(* Mutation: the new end of the chain is not stored.                          *)
LockForgets(o) ==
    /\ pc[o] = "new" /\ count + 1 \in Place
    /\ Goto(o, "waiting")
    /\ after' = [after EXCEPT ![o] = last[arg[o].file]]
    /\ last' = IF last[arg[o].file] = None THEN [last EXCEPT ![arg[o].file] = o] ELSE last
    /\ count' = count + 1 /\ place' = [place EXCEPT ![o] = count + 1]
    /\ UNCHANGED <<arg, disk, temp, dir>>

(* withPathLock: prev.then(fn, fn) becomes the end of the chain.              *)
Lock(o) ==
    /\ pc[o] = "new" /\ count + 1 \in Place
    /\ Goto(o, "waiting")
    /\ after' = [after EXCEPT ![o] = last[arg[o].file]]
    /\ last' = [last EXCEPT ![arg[o].file] = o]
    /\ count' = count + 1 /\ place' = [place EXCEPT ![o] = count + 1]
    /\ UNCHANGED <<arg, disk, temp, dir>>

(* Mutation: a call runs only when the one before it succeeded.               *)
StartAfterSuccess(o) ==
    /\ pc[o] = "waiting"
    /\ after[o] # None => pc[after[o]] = "ok"
    /\ Goto(o, IF arg[o].body = Absent THEN "rm" ELSE "mkdir")
    /\ UNCHANGED <<arg, after, last, disk, temp, dir, place, count>>

Begin(o) ==
    /\ pc[o] = "waiting"
    /\ after[o] # None => pc[after[o]] \in Settled
    /\ Goto(o, IF arg[o].body = Absent THEN "rm" ELSE "mkdir")
    /\ UNCHANGED <<arg, after, last, disk, temp, dir, place, count>>

(* atomicWrite: the directory, a temporary file in it, its contents, and the  *)
(* rename over the file.                                                      *)
Mkdir(o) ==
    /\ pc[o] = "mkdir"
    /\ dir' = TRUE /\ Goto(o, "create")
    /\ UNCHANGED <<arg, after, last, disk, temp, place, count>>

(* Mutation: the file itself is opened, and filled in place.                  *)
CreateInPlace(o) ==
    /\ pc[o] = "create" /\ dir
    /\ temp' = [temp EXCEPT ![o] = Half] /\ Goto(o, "fill")
    /\ disk' = [disk EXCEPT ![arg[o].file] = Half]
    /\ UNCHANGED <<arg, after, last, dir, place, count>>

CreateTemp(o) ==
    /\ pc[o] = "create" /\ dir
    /\ temp' = [temp EXCEPT ![o] = Half] /\ Goto(o, "fill")
    /\ UNCHANGED <<arg, after, last, disk, dir, place, count>>

(* A prune of a neighbour has removed the directory again.                    *)
NoDirectory(o) ==
    /\ pc[o] = "create" /\ ~dir
    /\ Goto(o, "failed")
    /\ UNCHANGED <<arg, after, last, disk, temp, dir, place, count>>

Fill(o) ==
    /\ pc[o] = "fill"
    /\ temp' = [temp EXCEPT ![o] = arg[o].body] /\ Goto(o, "rename")
    /\ UNCHANGED <<arg, after, last, disk, dir, place, count>>

Rename(o) ==
    /\ pc[o] = "rename"
    /\ disk' = [disk EXCEPT ![arg[o].file] = temp[o]]
    /\ temp' = [temp EXCEPT ![o] = Absent] /\ Goto(o, "ok")
    /\ UNCHANGED <<arg, after, last, dir, place, count>>

(* pruneFile: the file, then the directory if that leaves it empty.           *)
Rm(o) ==
    /\ pc[o] = "rm"
    /\ disk' = [disk EXCEPT ![arg[o].file] = Absent] /\ Goto(o, "rmdir")
    /\ UNCHANGED <<arg, after, last, temp, dir, place, count>>

Rmdir(o) ==
    /\ pc[o] = "rmdir"
    /\ dir' = IF (\A f \in FileName : disk[f] = Absent) /\ (\A q \in Op : temp[q] = Absent)
              THEN FALSE ELSE dir
    /\ Goto(o, "ok")
    /\ UNCHANGED <<arg, after, last, disk, temp, place, count>>

(* A system call fails: the promise is rejected, a temporary file stays.      *)
Fails(o) ==
    /\ pc[o] \in {"mkdir", "create", "fill", "rename", "rm"}
    /\ Goto(o, "failed")
    /\ UNCHANGED <<arg, after, last, disk, temp, dir, place, count>>

(* The process stops: its promises and chains are gone, the files stay.       *)
Restart ==
    /\ pc' = [o \in Op |-> IF pc[o] \in {"waiting"} \cup Running THEN "lost" ELSE pc[o]]
    /\ last' = [f \in FileName |-> None]
    /\ UNCHANGED <<arg, after, disk, temp, dir, place, count>>

SystemCall(o) == \/ Begin(o) \/ Mkdir(o) \/ CreateTemp(o) \/ NoDirectory(o) \/ Fill(o)
           \/ Rename(o) \/ Rm(o) \/ Rmdir(o)
FilesNext == Restart \/ \E o \in Op : Lock(o) \/ SystemCall(o) \/ Fails(o)
FilesSafe == FilesInit /\ [][FilesNext]_filesVars
FilesSpec == FilesSafe /\ \A o \in Op : WF_filesVars(SystemCall(o))
-----------------------------------------------------------------------------
FilesTypeOK ==
    /\ pc \in [Op -> {"new", "waiting"} \cup Running \cup Settled]
    /\ arg \in [Op -> Call0]
    /\ after \in [Op -> Op \cup {None}] /\ last \in [FileName -> Op \cup {None}]
    /\ disk \in [FileName -> Contents \cup {Absent}]
    /\ temp \in [Op -> Contents \cup {Absent, Half}] /\ dir \in BOOLEAN
    /\ place \in [Op -> Nat] /\ count \in Nat

(* The calls whose effect is still ahead, as the register sees them.          *)
Calls == [o \in Op |-> IF pc[o] \in Open
            THEN [file |-> arg[o].file, body |-> arg[o].body, place |-> place[o]] ELSE NoCall]
Register == INSTANCE FileRegister
              WITH File <- FileName, Body <- Contents, NoFile <- Absent, reg <- disk, calls <- Calls

(* atomicFile.ts: "a concurrent reader never sees a half-written file", and   *)
(* operations on one file "can't interleave": the files are registers, on     *)
(* which the calls take effect whole and in the order they were made.         *)
IsRegister == Register!Spec

(* "run regardless of the prior op's outcome": every call made comes to an    *)
(* end, whatever fails before it or beside it.                                *)
CallsEnd == \A o \in Op : pc[o] = "waiting" ~> pc[o] \in Settled
=============================================================================
