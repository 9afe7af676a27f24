-------------------------- MODULE LspCoordinator --------------------------
(***************************************************************************)
(* Automatic diagnostics after a mutating tool call: the mutation          *)
(* collector (collector.js), the post-execute transaction with its         *)
(* deadline, aborts and one-shot publication gate (coordinator.js) and the *)
(* plugin's cleanup (apply in index.js).                                   *)
(*                                                                         *)
(* An exec is one tool call.  It may write files while it runs and then    *)
(* passes through the post-execute listener, which diagnoses the newest    *)
(* mutations of that exec and publishes at most one report.  Execs run     *)
(* concurrently, over the same files.  The runtime is LspPool.             *)
(***************************************************************************)
EXTENDS Integers, FiniteSets

CONSTANTS Execs,      \* tool calls
          Targets,    \* files, numbered in the order of compareEligibleTargets
          Versions,   \* version tokens a file may have
          MaxGen,     \* stands for Number.MAX_SAFE_INTEGER
          MaxSeen     \* bound: observed mutations per file

ASSUME TargetAssumption == Targets \subseteq Nat /\ IsFiniteSet(Targets)
ASSUME BoundAssumption == MaxGen \in Nat \ {0} /\ MaxSeen \in Nat

VARIABLES disk,       \* the version of each file
          nextGen,    \* nextGenerationByTarget; MaxGen + 1 is 'exhausted'
          marker,     \* latestObserved; generation 0 is no marker
          seen,       \* history: mutations observed of each file
          pending,    \* pendingByExec
          pc,         \* where the exec is
          op,         \* its augment operation
          late,       \* unfinished execs whose monotonic clock is past the deadline
          cancelled,  \* unfinished execs whose caller signal is aborted
          retired,    \* retiredIo: final stats nobody waits for any more
          cleanup     \* how far the cleanup effect is

vars == <<disk, nextGen, marker, seen, pending, pc, op, late, cancelled,
          retired, cleanup>>

collector == <<nextGen, marker, seen, pending>>
world == <<disk, late, cancelled>>

Candidate == [target : Targets, gen : 1..MaxGen, ver : Versions, nth : 1..MaxSeen]

Operation == [taken : SUBSET Candidate, todo : SUBSET Candidate,
              eligible : SUBSET Candidate,
              out : [Targets -> {"none", "answer", "stale"}],
              stat : [Targets -> {"none", "asked", "same", "other", "rejected"}],
              settled : SUBSET Targets,
              gate : {"open", "committed", "timed-out"},
              fired : BOOLEAN, aborted : BOOLEAN,
              kind : {"none", "caller", "cleanup"}]

Stages == {"running", "next", "begun", "workspace", "eligible", "diagnose",
           "stats", "done"}

CleanupSteps == {"open", "stopped", "post_off", "off", "aborted", "quiet",
                 "drained", "disposed"}

TypeOK ==
  /\ disk \in [Targets -> Versions]
  /\ nextGen \in [Targets -> 1..(MaxGen + 1)]
  /\ marker \in [Targets -> [gen : 0..MaxGen, ver : Versions]]
  /\ seen \in [Targets -> 0..MaxSeen]
  /\ pending \in [Execs -> SUBSET Candidate]
  /\ pc \in [Execs -> Stages] /\ op \in [Execs -> Operation]
  /\ late \in SUBSET Execs /\ cancelled \in SUBSET Execs
  /\ retired \in SUBSET (Execs \X Targets)
  /\ cleanup \in CleanupSteps

NewOp == [taken |-> {}, todo |-> {}, eligible |-> {},
          out |-> [t \in Targets |-> "none"],
          stat |-> [t \in Targets |-> "none"],
          settled |-> {}, gate |-> "open", fired |-> FALSE,
          aborted |-> FALSE, kind |-> "none"]

NoMarker(v) == [gen |-> 0, ver |-> v]

Init ==
  /\ disk \in [Targets -> Versions]
  /\ nextGen = [t \in Targets |-> 1]
  /\ marker = [t \in Targets |-> NoMarker(disk[t])]
  /\ seen = [t \in Targets |-> 0]
  /\ pending = [e \in Execs |-> {}]
  /\ pc = [e \in Execs |-> "running"] /\ op = [e \in Execs |-> NewOp]
  /\ late = {} /\ cancelled = {} /\ retired = {}
  /\ cleanup = "open"

-----------------------------------------------------------------------------
(* The collector.                                                          *)

Exhausted(t) == nextGen[t] = MaxGen + 1

\* Permanent exhaustion: no candidate, and the older ones are stale for ever.
Suppressed(t) == NoMarker(marker[t].ver)

\* Generation and version of the marker are those of the candidate.
IsCurrent(m, c) == m[c.target].gen = c.gen /\ m[c.target].ver = c.ver

RetireIfCurrent(m, cs) ==
  [t \in Targets |-> IF \E c \in cs : c.target = t /\ IsCurrent(m, c)
                     THEN NoMarker(m[t].ver) ELSE m[t]]

\* A mutation of e is reported by fs/observed.  The file may have changed
\* again since.
Observe(e, t, v) ==
  /\ pc[e] = "running" /\ cleanup \in {"open", "stopped", "post_off"}
  /\ seen[t] < MaxSeen
  /\ seen' = [seen EXCEPT ![t] = seen[t] + 1]
  /\ IF Exhausted(t)
     THEN /\ marker' = [marker EXCEPT ![t] = Suppressed(t)]
          /\ UNCHANGED <<nextGen, pending>>
     ELSE /\ nextGen' = [nextGen EXCEPT ![t] = nextGen[t] + 1]
          /\ marker' = [marker EXCEPT ![t] = [gen |-> nextGen[t], ver |-> v]]
          /\ pending' = [pending EXCEPT ![e] =
               {c \in pending[e] : c.target # t} \cup
               {[target |-> t, gen |-> nextGen[t], ver |-> v, nth |-> seen[t] + 1]}]
  /\ UNCHANGED <<world, pc, op, retired, cleanup>>

\* The tool itself, another exec or another program writes a file.
Write(t, v) ==
  /\ v # disk[t]
  /\ disk' = [disk EXCEPT ![t] = v]
  /\ UNCHANGED <<collector, pc, op, late, cancelled, retired, cleanup>>

-----------------------------------------------------------------------------
(* The operation record: gate, deadline and aborts.                        *)

Active(e) == pc[e] \notin {"running", "next", "done"}

Unsettled(o) == {t \in Targets : o.stat[t] # "none"} \ o.settled

BugAbortKind(o, why) == IF o.kind = "none" /\ ~o.aborted THEN why ELSE o.kind
\* The first external abort, also when the deadline fired before it.
AbortKind(o, why) == IF o.kind = "none" THEN why ELSE o.kind

Closed(o) == IF o.gate = "open" THEN "timed-out" ELSE o.gate

Aborted(o, why) ==
  [o EXCEPT !.kind = IF why = "deadline" THEN o.kind ELSE AbortKind(o, why),
            !.fired = o.fired \/ (why = "deadline" /\ ~o.aborted),
            !.aborted = TRUE,
            !.gate = Closed(o)]

\* Final stats handed to retiredIo when the gate closes without them.
Given(e, o) == IF o.gate = "open" THEN {e} \X Unsettled(o) ELSE {}

ClockPasses(e) ==
  /\ Active(e) /\ e \notin late
  /\ late' = late \cup {e}
  /\ UNCHANGED <<collector, disk, pc, op, cancelled, retired, cleanup>>

\* The timer task, which may be long after the clock passed the deadline.
DeadlineFires(e) ==
  /\ Active(e) /\ ~op[e].aborted
  /\ op' = [op EXCEPT ![e] = Aborted(op[e], "deadline")]
  /\ retired' = retired \cup Given(e, op[e])
  /\ UNCHANGED <<collector, world, pc, cleanup>>

CallerAborts(e) ==
  /\ e \notin cancelled /\ pc[e] # "done"
  /\ cancelled' = cancelled \cup {e}
  /\ IF Active(e)
     THEN /\ op' = [op EXCEPT ![e] = Aborted(op[e], "caller")]
          /\ retired' = retired \cup Given(e, op[e])
     ELSE UNCHANGED <<op, retired>>
  /\ UNCHANGED <<collector, disk, late, pc, cleanup>>

-----------------------------------------------------------------------------
(* The listener.                                                           *)

\* The operation is dropped; only final stats that are still out live on.
Remains(o) ==
  IF Unsettled(o) = {} THEN NewOp
  ELSE [NewOp EXCEPT !.stat = o.stat, !.settled = o.settled]

\* Every return path retires what was taken.
Return(e, o) ==
  /\ pc' = [pc EXCEPT ![e] = "done"]
  /\ op' = [op EXCEPT ![e] = Remains(o)]
  /\ marker' = RetireIfCurrent(marker, o.taken)
  /\ late' = late \ {e} /\ cancelled' = cancelled \ {e}
  /\ UNCHANGED <<nextGen, seen>>

Taken(e) == [op[e] EXCEPT !.taken = pending[e]]
TakeAll(e) == pending' = [pending EXCEPT ![e] = {}]

Listener(e) ==
  /\ pc[e] = "running" /\ cleanup \in {"open", "stopped"}
  /\ pc' = [pc EXCEPT ![e] = "next"]
  /\ UNCHANGED <<collector, world, op, retired, cleanup>>

BugRejected(e) == [op[e] EXCEPT !.taken = {}]
Rejected(e) == Taken(e)

\* next() throws or rejects: the error goes on to the caller.
DownstreamFails(e) ==
  /\ pc[e] = "next"
  /\ Return(e, Rejected(e)) /\ TakeAll(e)
  /\ UNCHANGED <<disk, retired, cleanup>>

\* beginAugment: an operation, or nothing more once admission is closed.  The
\* caller may have aborted already.
BeginAugment(e) ==
  /\ pc[e] = "next"
  /\ IF cleanup # "open"
     THEN Return(e, Taken(e)) /\ TakeAll(e)
     ELSE /\ pc' = [pc EXCEPT ![e] = "begun"]
          /\ op' = [op EXCEPT ![e] = IF e \in cancelled THEN Aborted(NewOp, "caller")
                                                        ELSE NewOp]
          /\ UNCHANGED <<collector, late, cancelled>>
  /\ UNCHANGED <<disk, retired, cleanup>>

\* The body's first segment: take, decision kind, extension routes and session
\* cwd.  Any of them may leave nothing to do.
Body(e) ==
  /\ pc[e] = "begun"
  /\ TakeAll(e)
  /\ \/ Return(e, Taken(e))
     \/ \E routed \in SUBSET pending[e] :
          /\ routed # {} /\ ~op[e].aborted
          /\ pc' = [pc EXCEPT ![e] = "workspace"]
          /\ op' = [op EXCEPT ![e] = [Taken(e) EXCEPT !.todo = routed]]
          /\ marker' = RetireIfCurrent(marker, pending[e] \ routed)
          /\ UNCHANGED <<nextGen, seen, late, cancelled>>
  /\ UNCHANGED <<disk, retired, cleanup>>

\* The session workspace is resolved and is a directory, or nothing is done.
Workspace(e) ==
  /\ pc[e] = "workspace"
  /\ \/ Return(e, op[e])
     \/ /\ ~op[e].aborted
        /\ pc' = [pc EXCEPT ![e] = "eligible"]
        /\ UNCHANGED <<op, marker, nextGen, seen, late, cancelled>>
  /\ UNCHANGED <<disk, pending, retired, cleanup>>

\* One candidate of the eligibility loop: it has a workspace root and a path
\* that can be shown, or it is retired.
Sorted(o, c, keep) ==
  [o EXCEPT !.todo = o.todo \ {c},
            !.eligible = o.eligible \cup (IF keep THEN {c} ELSE {})]

Consider(e, c, keep) ==
  LET o == Sorted(op[e], c, keep)
  IN IF op[e].aborted \/ (o.todo = {} /\ o.eligible = {})
     THEN Return(e, op[e])
     ELSE /\ op' = [op EXCEPT ![e] = o]
          /\ pc' = [pc EXCEPT ![e] = IF o.todo = {} THEN "diagnose" ELSE "eligible"]
          /\ marker' = RetireIfCurrent(marker, IF keep THEN {} ELSE {c})
          /\ UNCHANGED <<nextGen, seen, late, cancelled>>

Eligibility(e) ==
  /\ pc[e] = "eligible"
  /\ \E keep \in BOOLEAN, c \in op[e].todo : Consider(e, c, keep)
  /\ UNCHANGED <<disk, pending, retired, cleanup>>

Diagnosed(o) == {c \in o.eligible : o.out[c.target] # "none"}

\* runtime.diagnose settles for the next target in order; diagnostics, "clean"
\* and "unavailable" (also a rejection) are all answers.  Nothing counts after
\* an abort.
Diagnose(e, outcome) ==
  /\ pc[e] = "diagnose" /\ ~op[e].aborted
  /\ \E c \in op[e].eligible \ Diagnosed(op[e]) :
       /\ \A d \in op[e].eligible \ Diagnosed(op[e]) : c.target <= d.target
       /\ op' = [op EXCEPT ![e] =
            [op[e] EXCEPT !.out = [op[e].out EXCEPT ![c.target] = outcome]]]
  /\ UNCHANGED <<collector, world, pc, retired, cleanup>>

\* The final stat of every diagnosed target, while there is time.
StartFinalStats(e) ==
  /\ pc[e] = "diagnose"
  /\ op[e].aborted \/ Diagnosed(op[e]) = op[e].eligible
  /\ pc' = [pc EXCEPT ![e] = "stats"]
  /\ IF op[e].gate = "open" /\ ~op[e].aborted /\ e \notin late
     THEN op' = [op EXCEPT ![e] = [op[e] EXCEPT !.stat =
            [t \in Targets |-> IF \E c \in Diagnosed(op[e]) : c.target = t
                               THEN "asked" ELSE "none"]]]
     ELSE UNCHANGED op
  /\ UNCHANGED <<collector, world, retired, cleanup>>

\* The file system looks at the file; with an aborted signal it may refuse.
StatReads(e, t) ==
  /\ pc[e] = "stats" /\ op[e].stat[t] = "asked"
  /\ \E c \in op[e].eligible, refused \in BOOLEAN :
       /\ c.target = t
       /\ op' = [op EXCEPT ![e] = [op[e] EXCEPT !.stat = [op[e].stat EXCEPT ![t] =
            IF refused THEN "rejected" ELSE IF disk[t] = c.ver THEN "same" ELSE "other"]]]
  /\ UNCHANGED <<collector, world, pc, retired, cleanup>>

SettledIo(e, t) == {<<e, t>>}

\* The record's promise settles and leaves retiredIo.  Once the operation is
\* over, what the stat says is of no consequence.
StatSettles(e, t) ==
  /\ t \in Unsettled(op[e])
  /\ pc[e] = "stats" => op[e].stat[t] # "asked"
  /\ op' = [op EXCEPT ![e] = [op[e] EXCEPT !.settled = op[e].settled \cup {t}]]
  /\ retired' = retired \ SettledIo(e, t)
  /\ UNCHANGED <<collector, world, pc, cleanup>>

-----------------------------------------------------------------------------
(* The gate and the publication, in one segment without an await.          *)

BugRaceOver(o) == Unsettled(o) = {}
\* The race of all final stats with the abort signal.
RaceOver(o) == Unsettled(o) = {} \/ o.aborted

AllSettled(o) == Unsettled(o) = {} /\ o.settled # {}

BugExpired(e, o) == FALSE
\* The clock has reached the deadline before the timer task ran.
Expired(e, o) == ~o.aborted /\ e \in late

Decided(e, o) ==
  IF o.gate # "open" THEN o
  ELSE IF AllSettled(o) /\ e \notin late /\ ~o.aborted
       THEN [o EXCEPT !.gate = "committed"]
       ELSE IF Expired(e, o) THEN Aborted(o, "deadline")
                             ELSE [o EXCEPT !.gate = "timed-out"]

Entry(c, kind) == [target |-> c.target, nth |-> c.nth, kind |-> kind]

BugCurrent(o) == o.eligible
Current(o) == {c \in o.eligible : IsCurrent(marker, c)}

Entries(o) ==
  CASE o.gate = "committed" ->
         {Entry(c, "unavailable") : c \in {d \in Current(o) : o.stat[d.target] = "rejected"}}
         \cup {Entry(c, "answer") :
                 c \in {d \in Current(o) : o.stat[d.target] = "same"
                                           /\ o.out[d.target] # "stale"}}
    [] o.gate = "timed-out" /\ o.fired /\ o.kind = "none" ->
         {Entry(c, "timeout") : c \in Current(o)}
    [] OTHER -> {}

\* What the step Publish adds to the tool's result; the state does not keep it.
Report(e) ==
  LET o == Decided(e, op[e]) IN IF o.kind = "none" THEN Entries(o) ELSE {}

Publish(e) ==
  /\ pc[e] = "stats" /\ RaceOver(op[e])
  /\ Return(e, op[e])
  /\ retired' = retired \cup Given(e, op[e])
  /\ UNCHANGED <<disk, pending, cleanup>>

-----------------------------------------------------------------------------
(* The cleanup effect of apply().                                          *)

CleanupMove(from, to) ==
  /\ cleanup = from
  /\ cleanup' = to
  /\ UNCHANGED <<collector, world, pc>>

StopAdmission == CleanupMove("open", "stopped") /\ UNCHANGED <<op, retired>>
OffPost == CleanupMove("stopped", "post_off") /\ UNCHANGED <<op, retired>>
OffObserved == CleanupMove("post_off", "off") /\ UNCHANGED <<op, retired>>

AbortActiveOperations ==
  /\ CleanupMove("off", "aborted")
  /\ op' = [e \in Execs |-> IF Active(e) THEN Aborted(op[e], "cleanup") ELSE op[e]]
  /\ retired' = retired \cup UNION {Given(e, op[e]) : e \in {x \in Execs : Active(x)}}

\* Operations and invocations, also those still in next().
AwaitActiveOperations ==
  /\ CleanupMove("aborted", "quiet")
  /\ \A e \in Execs : pc[e] \in {"running", "done"}
  /\ UNCHANGED <<op, retired>>

AwaitRetiredIo ==
  /\ CleanupMove("quiet", "drained")
  /\ retired = {}
  /\ UNCHANGED <<op, retired>>

Dispose == CleanupMove("drained", "disposed") /\ UNCHANGED <<op, retired>>

Stopped ==
  /\ cleanup = "disposed"
  /\ UNCHANGED vars

-----------------------------------------------------------------------------
Transaction(e) ==
  \/ Body(e) \/ Workspace(e) \/ Eligibility(e)
  \/ (\E r \in {"answer", "stale"} : Diagnose(e, r))
  \/ StartFinalStats(e) \/ Publish(e)

Cleanup ==
  \/ OffPost \/ OffObserved \/ AbortActiveOperations
  \/ AwaitActiveOperations \/ AwaitRetiredIo \/ Dispose

Stat(e) == \E t \in Targets : StatReads(e, t) \/ StatSettles(e, t)

Next ==
  \/ \E e \in Execs, t \in Targets, v \in Versions : Observe(e, t, v)
  \/ \E t \in Targets, v \in Versions : Write(t, v)
  \/ \E e \in Execs :
       \/ Listener(e) \/ DownstreamFails(e) \/ BeginAugment(e)
       \/ Transaction(e) \/ Stat(e)
       \/ ClockPasses(e) \/ DeadlineFires(e) \/ CallerAborts(e)
  \/ StopAdmission \/ Cleanup \/ Stopped

Spec == Init /\ [][Next]_vars

\* Ready callbacks run, timers fire, the runtime and the workspace calls
\* settle.  A final stat may hang: the race must not wait for it.  Downstream
\* listeners are not the plugin's.
FairSpec ==
  /\ Spec
  /\ \A e \in Execs : WF_vars(Transaction(e)) /\ WF_vars(DeadlineFires(e))

\* What only the cleanup needs: its own steps run, final stats return and the
\* downstream listeners settle.
CleanupFair ==
  /\ WF_vars(Cleanup)
  /\ \A e \in Execs : WF_vars(Stat(e)) /\ []<>(pc[e] # "next")

-----------------------------------------------------------------------------
Decides(e) == pc[e] = "stats" /\ pc'[e] = "done"

Publishes(e) == Decides(e) /\ Report(e) # {}

Cleaning == cleanup \notin {"open", "stopped", "post_off", "off"}

\* Whatever other execs did meanwhile, and also once the generations of a file
\* are exhausted, a report only speaks of mutations that are still the newest
\* observed of their file (isCurrent at the commit, the exhausted fail-safe).
OnlyNewest ==
  [][\A e \in Execs : Publishes(e) =>
       \A x \in Report(e) : x.nth = seen[x.target]]_vars

\* Nothing is published after the caller or the cleanup aborted, even when the
\* deadline had fired before that (abortWith).
NoneAfterAbort ==
  [][\A e \in Execs : Publishes(e) => e \notin cancelled /\ ~Cleaning]_vars

\* The newest mutation of a file keeps its marker until its own exec is done
\* with it: an older operation that ends in between never takes it away.
NewestKept ==
  \A e \in Execs :
    pc[e] # "done" =>
      \A c \in pending[e] \cup op[e].todo \cup op[e].eligible :
        c.nth = seen[c.target] => IsCurrent(marker, c)

\* A marker always belongs to an exec that is still under way: none is left
\* behind, on whatever path the exec returned ("Every return path takes and
\* retires").
AllRetired ==
  \A t \in Targets : marker[t].gen > 0 =>
    \E e \in Execs : pc[e] # "done" /\
      \E c \in pending[e] \cup op[e].taken : c.target = t /\ IsCurrent(marker, c)

\* When the runtime has been disposed no operation is left to use it and no
\* file system call of the plugin is under way (cleanup order, retiredIo).
QuietAfterDispose ==
  cleanup = "disposed" =>
    \A e \in Execs : ~Active(e) /\ pc[e] # "next" /\ Unsettled(op[e]) = {}

\* A transaction that reached its gate and was not aborted from outside says
\* something of every newest eligible mutation, unless the file changed or the
\* diagnosis was stale: also when the clock reached the deadline before the
\* timer ran.
NoSilentLoss ==
  [][\A e \in Execs :
       Decides(e) /\ op[e].kind = "none" =>
         \A c \in op[e].eligible :
           \/ c.nth # seen[c.target]
           \/ op[e].stat[c.target] = "other" \/ op[e].out[c.target] = "stale"
           \/ \E x \in Report(e) : x.target = c.target]_vars

\* A transaction that began returns to the tool call, although a final stat
\* may never settle.
AugmentEnds == \A e \in Execs : pc[e] = "begun" ~> pc[e] = "done"

\* The cleanup effect ends if the final stats and the downstream listeners
\* settle.
CleanupEnds == CleanupFair => (cleanup = "stopped" ~> cleanup = "disposed")
=============================================================================
