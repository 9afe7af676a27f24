------------------------------ MODULE LspTool ------------------------------
(***************************************************************************)
(* The lsp_diagnostics tool (tool.js): calls that diagnose one file while  *)
(* it may be mutated, cancelled by the caller, overtaken by the deadline   *)
(* or ended by the plugin's cleanup (apply in index.js).  A version token  *)
(* may come back when a file is restored, so that two equal versions do    *)
(* not mean that nothing happened in between.                              *)
(***************************************************************************)
EXTENDS Naturals

CONSTANTS Calls,      \* executions of the tool on the file
          Versions,   \* version tokens of the file
          MaxSeen     \* bound: observed mutations of the file

VARIABLES ver,        \* the file's version
          seen,       \* mutations observed: the identity of its mutationEpoch
          pc,         \* where the call is
          rec,        \* epoch, both stats and the outcome of the call
          late,       \* calls whose clock is past the deadline
          fired,      \* deadlineFired
          aborted,    \* callerAborted or cleanupAborted
          result,     \* what the call returned
          cleanup     \* how far the cleanup effect is

vars == <<ver, seen, pc, rec, late, fired, aborted, result, cleanup>>

signals == <<late, fired, aborted>>

Record == [epoch : Nat, before : Versions, after : Versions,
           saw : Nat, stale : BOOLEAN]

Stages == {"idle", "workspace", "target", "before", "before_read", "root",
           "diagnose", "after", "after_read", "done"}

Active(c) == pc[c] \notin {"idle", "done"}

TypeOK ==
  /\ ver \in Versions /\ seen \in Nat
  /\ pc \in [Calls -> Stages] /\ rec \in [Calls -> Record]
  /\ late \in SUBSET Calls
  /\ fired \subseteq {c \in Calls : Active(c)}    \* no timer outlives its call
  /\ aborted \in SUBSET Calls
  /\ result \in [Calls -> {"none", "throw", "timeout", "answer"}]
  /\ cleanup \in {"open", "stopped", "aborted", "disposed"}

Blank(v) == [epoch |-> 0, before |-> v, after |-> v, saw |-> 0, stale |-> FALSE]

Init ==
  /\ ver \in Versions /\ seen = 0
  /\ pc = [c \in Calls |-> "idle"]
  /\ rec = [c \in Calls |-> Blank(ver)]
  /\ late = {} /\ fired = {} /\ aborted = {}
  /\ result = [c \in Calls |-> "none"]
  /\ cleanup = "open"

-----------------------------------------------------------------------------
(* The file and the signals.                                               *)

Write(v) ==
  /\ v # ver
  /\ ver' = v
  /\ UNCHANGED <<seen, pc, rec, signals, result, cleanup>>

\* observeMutation, called for what the collector accepts.
ObserveMutation ==
  /\ seen < MaxSeen /\ cleanup \in {"open", "stopped"}
  /\ seen' = seen + 1
  /\ UNCHANGED <<ver, pc, rec, signals, result, cleanup>>

ClockPasses(c) ==
  /\ Active(c) /\ c \notin late
  /\ late' = late \cup {c}
  /\ UNCHANGED <<ver, seen, pc, rec, fired, aborted, result, cleanup>>

DeadlineFires(c) ==
  /\ Active(c) /\ c \notin fired
  /\ fired' = fired \cup {c}
  /\ UNCHANGED <<ver, seen, pc, rec, late, aborted, result, cleanup>>

\* Also before the call starts: the signal is read when it does.
CallerAborts(c) ==
  /\ pc[c] # "done" /\ c \notin aborted
  /\ aborted' = aborted \cup {c}
  /\ UNCHANGED <<ver, seen, pc, rec, late, fired, result, cleanup>>

-----------------------------------------------------------------------------
(* executeCall.                                                            *)


\* abortOutcome also looks at the clock.
TimedOut(c) == c \in fired \cup late

\* External cancellation goes before the deadline.
Stopped(c) == c \in aborted

\* The timer and the listener go with the call.
Cleared(c) == {c}

Return(c, r) ==
  /\ pc' = [pc EXCEPT ![c] = "done"]
  /\ result' = [result EXCEPT ![c] = IF Stopped(c) THEN "throw"
                                     ELSE IF TimedOut(c) THEN "timeout" ELSE r]
  /\ fired' = fired \ Cleared(c) /\ aborted' = aborted \ Cleared(c)
  /\ late' = late \ {c} /\ rec' = [rec EXCEPT ![c] = Blank(ver)]
  /\ UNCHANGED <<ver, seen, cleanup>>

\* An await settles: the call goes on to the next stage unless a gate ends it.
Continue(c, from, to) ==
  /\ pc[c] = from
  /\ ~Stopped(c) /\ ~TimedOut(c)
  /\ pc' = [pc EXCEPT ![c] = to]
  /\ UNCHANGED <<ver, seen, signals, result, cleanup>>

\* At any await: the call it made failed, a check on its result throws, or a
\* gate ends it.
End(c) ==
  /\ Active(c)
  /\ Return(c, "throw")

Admitted(c) == cleanup = "open"

Execute(c) ==
  /\ pc[c] = "idle" /\ Admitted(c)
  /\ pc' = [pc EXCEPT ![c] = "workspace"]
  /\ UNCHANGED <<ver, seen, rec, signals, result, cleanup>>

Workspace(c) == Continue(c, "workspace", "target") /\ UNCHANGED rec

BugEpochAtStat(r) == [r EXCEPT !.epoch = seen]
\* The first stat settles: the epoch was taken before it was asked for.
EpochAtStat(r) == r

Target(c) ==
  /\ Continue(c, "target", "before")
  /\ rec' = [rec EXCEPT ![c] = [rec[c] EXCEPT !.epoch = seen]]

BeforeReads(c) ==
  /\ pc[c] = "before"
  /\ pc' = [pc EXCEPT ![c] = "before_read"]
  /\ rec' = [rec EXCEPT ![c] = [rec[c] EXCEPT !.before = ver, !.saw = seen]]
  /\ UNCHANGED <<ver, seen, signals, result, cleanup>>

Before(c) ==
  /\ Continue(c, "before_read", "root")
  /\ rec' = [rec EXCEPT ![c] = EpochAtStat(rec[c])]

Root(c) == Continue(c, "root", "diagnose") /\ UNCHANGED rec

\* runtime.diagnoseTarget; what it says when it is not stale does not matter.
Diagnose(c, stale) ==
  /\ Continue(c, "diagnose", "after")
  /\ rec' = [rec EXCEPT ![c] = [rec[c] EXCEPT !.stale = stale]]

AfterReads(c) ==
  /\ pc[c] = "after" /\ ~rec[c].stale
  /\ pc' = [pc EXCEPT ![c] = "after_read"]
  /\ rec' = [rec EXCEPT ![c] = [rec[c] EXCEPT !.after = ver]]
  /\ UNCHANGED <<ver, seen, signals, result, cleanup>>

\* The file is what it was, and nothing was observed since.
Unchanged(c) == rec[c].after = rec[c].before /\ rec[c].epoch = seen

After(c) ==
  /\ pc[c] = "after_read"
  /\ Return(c, IF Unchanged(c) THEN "answer" ELSE "throw")

-----------------------------------------------------------------------------
(* The tool's part of the cleanup effect.                                  *)

StopAdmission ==
  /\ cleanup = "open" /\ cleanup' = "stopped"
  /\ UNCHANGED <<ver, seen, pc, rec, signals, result>>

AbortActiveOperations ==
  /\ cleanup = "stopped" /\ cleanup' = "aborted"
  /\ aborted' = aborted \cup {c \in Calls : Active(c)}
  /\ UNCHANGED <<ver, seen, pc, rec, late, fired, result>>

\* awaitActiveOperations, and then the runtime is disposed.
AwaitActiveOperations ==
  /\ cleanup = "aborted" /\ cleanup' = "disposed"
  /\ \A c \in Calls : ~Active(c)
  /\ UNCHANGED <<ver, seen, pc, rec, signals, result>>

-----------------------------------------------------------------------------
Call(c) ==
  \/ End(c) \/ Workspace(c) \/ Target(c) \/ BeforeReads(c) \/ Before(c)
  \/ Root(c) \/ (\E stale \in BOOLEAN : Diagnose(c, stale))
  \/ AfterReads(c) \/ After(c)

Next ==
  \/ \E v \in Versions : Write(v)
  \/ ObserveMutation
  \/ \E c \in Calls : \/ Execute(c) \/ Call(c) \/ ClockPasses(c)
                      \/ DeadlineFires(c) \/ CallerAborts(c)
  \/ StopAdmission \/ AbortActiveOperations \/ AwaitActiveOperations

Spec == Init /\ [][Next]_vars

-----------------------------------------------------------------------------
Answers(c) == result[c] = "none" /\ result'[c] = "answer"

\* An answer is only given when no mutation of the file was observed from the
\* moment the first stat looked at it until the answer, although the versions
\* of both stats may be equal after a change and a restore (mutationEpochs).
NoMutationMissed ==
  [][\A c \in Calls : Answers(c) => rec[c].saw = seen]_vars

\* After an abort of the caller or of the cleanup a call always throws, and
\* past its deadline it never answers, even if its timer has not run yet
\* (abortOutcome).
GatedResult ==
  [][\A c \in Calls : result'[c] # result[c] =>
       /\ c \in aborted => result'[c] = "throw"
       /\ c \in late => result'[c] # "answer"]_vars

\* A call is under way only while the runtime it uses is not disposed.
NoCallAfterDispose == cleanup = "disposed" => \A c \in Calls : ~Active(c)
=============================================================================
