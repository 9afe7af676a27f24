---------------------------- MODULE IdentityStore --------------------------
(***************************************************************************)
(* The sidecar of one child id (identity.js): writers in several processes *)
(* stage a record beside it and publish it create-if-absent, take it back  *)
(* when their child never published, and readers classify what they find.  *)
(* Each file system call is one step; a process may die between two.       *)
(***************************************************************************)
EXTENDS Naturals, FiniteSets

CONSTANTS Writers,   \* attempts to provision the child id, each its own process
          Payload    \* the record each would write

VARIABLES links,     \* whether the file system has link(2)
          target,    \* the sidecar
          temp,      \* the staging file of each writer
          pc, result

vars == <<links, target, temp, pc, result>>

None == "none"
Half == "half"     \* a file whose content is still being written
Texts == {Payload[w] : w \in Writers}

TypeOK ==
  /\ links \in BOOLEAN /\ target \in Texts \cup {None, Half} /\ temp \in [Writers -> Texts \cup {None, Half}]
  /\ pc \in [Writers -> {"idle", "staging", "publish", "check", "rename", "compare",
                         "discard", "done", "read", "remove", "kept", "over"}]
  /\ result \in [Writers -> {"pending", "written", "taken", "failed"}]

Init ==
  /\ links \in BOOLEAN /\ target = None /\ temp = [w \in Writers |-> None]
  /\ pc = [w \in Writers |-> "idle"] /\ result = [w \in Writers |-> "pending"]

Goto(w, l) == pc' = [pc EXCEPT ![w] = l]
Conclude(w, r) == result' = [result EXCEPT ![w] = r] /\ Goto(w, "discard")

---------------------------------------------------------------------------
(* writeChildIdentity.                                                     *)

Open(w) ==
  /\ pc[w] = "idle" /\ Goto(w, "staging")
  /\ temp' = [temp EXCEPT ![w] = Half]
  /\ UNCHANGED <<links, target, result>>

Staged(w) ==
  /\ pc[w] = "staging" /\ Goto(w, "publish")
  /\ temp' = [temp EXCEPT ![w] = Payload[w]]
  /\ UNCHANGED <<links, target, result>>

StagingFails(w) ==
  /\ pc[w] \in {"idle", "staging"} /\ Conclude(w, "failed")
  /\ UNCHANGED <<links, target, temp>>

\* link(2): created, or already there, or not to be had here.
Link(w) ==
  /\ pc[w] = "publish"
  /\ \/ /\ links /\ target = None
        /\ target' = temp[w] /\ Conclude(w, "written")
     \/ /\ links /\ target # None
        /\ Goto(w, "compare") /\ UNCHANGED <<target, result>>
     \/ /\ ~links
        /\ Goto(w, "check") /\ UNCHANGED <<target, result>>
  /\ UNCHANGED <<links, temp>>

LinkFails(w) ==
  /\ pc[w] = "publish" /\ Conclude(w, "failed")
  /\ UNCHANGED <<links, target, temp>>

Check(w) ==
  /\ pc[w] = "check"
  /\ Goto(w, IF target = None THEN "rename" ELSE "compare")
  /\ UNCHANGED <<links, target, temp, result>>

Rename(w) ==
  /\ pc[w] = "rename" /\ Conclude(w, "written")
  /\ target' = temp[w]
  /\ temp' = [temp EXCEPT ![w] = None]
  /\ UNCHANGED links

\* Only the byte-identical record is accepted in place of our own.
Compare(w) ==
  /\ pc[w] = "compare"
  /\ Conclude(w, IF target = Payload[w] THEN "written" ELSE "taken")
  /\ UNCHANGED <<links, target, temp>>

Discard(w) ==
  /\ pc[w] = "discard" /\ Goto(w, "done")
  /\ temp' = [temp EXCEPT ![w] = None]
  /\ UNCHANGED <<links, target, result>>

---------------------------------------------------------------------------
(* rollbackChildIdentity, which the failure path of a delegation runs      *)
(* whether or not the record was written.                                  *)

RollBack(w) ==
  /\ pc[w] = "done" /\ Goto(w, "read")
  /\ UNCHANGED <<links, target, temp, result>>

\* A record that is not exactly ours is left alone.
BugOurs(w) == target # None
Ours(w) == target = Payload[w]

ReadBack(w) ==
  /\ pc[w] = "read" /\ Goto(w, IF Ours(w) THEN "remove" ELSE "over")
  /\ UNCHANGED <<links, target, temp, result>>

Remove(w) ==
  /\ pc[w] = "remove" /\ Goto(w, "over")
  /\ target' = None
  /\ UNCHANGED <<links, temp, result>>

\* The child was published: its record is permanent.
Keep(w) ==
  /\ pc[w] = "done" /\ result[w] = "written" /\ Goto(w, "kept")
  /\ UNCHANGED <<links, target, temp, result>>

Die(w) ==
  /\ pc[w] \notin {"idle", "kept", "over"} /\ Goto(w, "over")
  /\ UNCHANGED <<links, target, temp, result>>

Next ==
  \E w \in Writers :
    \/ Open(w) \/ Staged(w) \/ StagingFails(w) \/ Link(w) \/ LinkFails(w) \/ Check(w)
    \/ Rename(w) \/ Compare(w) \/ Discard(w)
    \/ RollBack(w) \/ ReadBack(w) \/ Remove(w) \/ Keep(w) \/ Die(w)

Spec == Init /\ [][Next]_vars

---------------------------------------------------------------------------
(* Properties.                                                             *)

\* readChildIdentityState: what a reader makes of the sidecar.
State == CASE target = None -> "absent" [] target = Half -> "invalid" [] OTHER -> "valid"

\* A reader never meets a half-written record, and the record of a child
\* that was published stays, whoever else tried its id, took an attempt back
\* or died half way.  Without hard links the check and the rename leave a
\* window, and only the first half is promised.
RecordsStay ==
  /\ State # "invalid"
  /\ \A w \in Writers : links /\ pc[w] = "kept" => target = Payload[w]

=============================================================================
