------------------------------ MODULE FishTool ------------------------------
(***************************************************************************)
(* One call of the one-shot `fish` tool (execute and processJob of tool.js *)
(* and FishSandboxExecutor of local.js): its standing sandbox policy, the  *)
(* escalation it may ask for, and the process it runs in the foreground or *)
(* hands to the job registry.  A job is admitted before its process has a  *)
(* handle, and may be cancelled at any moment of that.                     *)
(*                                                                         *)
(* The environment: the user, who changes the session's mode and answers   *)
(* an approval; the executor, which publishes a handle after asynchronous  *)
(* preparation; the process; and whoever aborts the call or cancels the    *)
(* job.                                                                    *)
(***************************************************************************)
EXTENDS Naturals

CONSTANT MaxSwitches   \* bound on mode changes of the session

ToolModes == 1..3    \* read-only, workspace-write, danger-full-access

VARIABLES confines,   \* the mounted executor confines: there is a policy owner
          jobs,       \* the job registry is loaded
          standing,   \* the session's mode
          args,       \* what the model asked for
          pc,         \* where execute() is
          policy,     \* the mode execute() carries, 0 when there is no policy
          aborted,    \* the call's signal
          job, cancelled,   \* the job and its controller
          kills,      \* kill() on the handle: it may throw, in cancel() or in done
          proc,       \* the process behind the handle
          adopted,    \* processJob holds the handle
          answer,     \* of the call
          asked,      \* history: the session's mode when the call came
          granted,    \* history: the mode the user granted, or 0
          ran,        \* history: the mode the process runs in
          switches

vars == <<confines, jobs, standing, args, pc, policy, aborted, job, cancelled, kills, proc,
          adopted, answer, asked, granted, ran, switches>>

Args == [background : BOOLEAN, wants : {0} \cup ToolModes]

TypeOK ==
  /\ confines \in BOOLEAN /\ jobs \in BOOLEAN /\ standing \in ToolModes /\ args \in Args
  /\ pc \in {"idle", "approval", "go", "waits", "done"} /\ policy \in {0} \cup ToolModes
  /\ aborted \in BOOLEAN /\ job \in {"none", "running", "completed", "killed", "failed"}
  /\ cancelled \in BOOLEAN /\ kills \in {"none", "sent", "threw", "rethrown"}
  /\ proc \in {"none", "preparing", "rejected", "runs", "exited", "killed", "expired"}
  /\ adopted \in BOOLEAN /\ answer \in {"none", "result", "job", "aborted", "error"}
  /\ asked \in ToolModes /\ granted \in {0} \cup ToolModes /\ ran \in {0} \cup ToolModes
  /\ switches \in 0..MaxSwitches

Init ==
  /\ confines \in BOOLEAN /\ jobs \in BOOLEAN /\ standing \in ToolModes /\ args \in Args
  /\ pc = "idle" /\ policy = 0 /\ aborted = FALSE /\ job = "none" /\ cancelled = FALSE
  /\ kills = "none" /\ proc = "none" /\ adopted = FALSE /\ answer = "none"
  /\ asked = standing /\ granted = 0 /\ ran = 0 /\ switches = 0

Answer(a) == pc' = "done" /\ answer' = a

world == <<confines, jobs, standing, args, aborted, switches>>
work == <<job, cancelled, kills, proc, adopted, ran>>

---------------------------------------------------------------------------
(* execute().                                                              *)

\* The standing policy is resolved first; an escalation is refused without a
\* confining executor, and unless it widens that policy.
Execute ==
  /\ pc = "idle" /\ asked' = standing
  /\ policy' = IF confines THEN standing ELSE 0
  /\ CASE args.wants = 0 -> pc' = "go" /\ UNCHANGED answer
       [] args.wants # 0 /\ confines /\ args.wants > standing -> pc' = "approval" /\ UNCHANGED answer
       [] OTHER -> Answer("error")
  /\ UNCHANGED <<world, work, granted>>

\* The approver grants it for this one call, or not; an abort ends the wait.
\* Only the granted mode replaces the standing one.
Widened(grant) == IF grant THEN args.wants ELSE policy

Approval ==
  /\ pc = "approval"
  /\ \E grant \in BOOLEAN :
       /\ granted' = IF grant THEN args.wants ELSE 0
       /\ policy' = Widened(grant)
       /\ IF grant THEN pc' = "go" /\ UNCHANGED answer
          ELSE Answer(IF aborted THEN "aborted" ELSE "error")
  /\ UNCHANGED <<world, work, asked>>

\* A background command needs the registry and a call that is still wanted;
\* its job is admitted before there is a process.
Background ==
  /\ pc = "go" /\ args.background
  /\ IF jobs /\ ~aborted
     THEN /\ job' = "running" /\ proc' = "preparing" /\ Answer("job")
     ELSE /\ Answer(IF jobs THEN "aborted" ELSE "error") /\ UNCHANGED <<job, proc>>
  /\ UNCHANGED <<world, policy, cancelled, kills, adopted, ran, asked, granted>>

Foreground ==
  /\ pc = "go" /\ ~args.background
  /\ proc' = "preparing" /\ pc' = "waits"
  /\ UNCHANGED <<world, policy, job, cancelled, kills, adopted, ran, answer, asked, granted>>

\* The foreground result, which says whether the call's signal ended it.
ForegroundEnds ==
  /\ pc = "waits" /\ proc \in {"rejected", "exited", "killed", "expired"}
  /\ Answer(CASE proc \in {"exited", "expired"} -> "result"
              [] proc = "killed" -> "aborted"
              [] OTHER -> "error")
  /\ UNCHANGED <<world, work, policy, asked, granted>>

---------------------------------------------------------------------------
(* processJob.                                                             *)

Settled == job \in {"completed", "killed", "failed"}

\* job_kill, or the registry's own end: the second cancel changes nothing.
Cancel ==
  /\ job = "running" /\ ~cancelled /\ cancelled' = TRUE
  /\ IF adopted THEN kills' \in {"sent", "threw"} ELSE UNCHANGED kills
  /\ UNCHANGED <<world, pc, policy, job, proc, adopted, ran, answer, asked, granted>>

\* start() resolved with the handle: a cancel that came before it is made good.
BugMadeGood == FALSE
MadeGood == cancelled

Adopt ==
  /\ job = "running" /\ ~adopted /\ proc \in {"runs", "exited", "killed"}
  /\ adopted' = TRUE
  /\ IF MadeGood THEN kills' \in {"sent", "rethrown"} ELSE UNCHANGED kills
  /\ UNCHANGED <<world, pc, policy, job, cancelled, proc, ran, answer, asked, granted>>

\* start() rejected.
Unstarted ==
  /\ job = "running" /\ proc = "rejected"
  /\ job' = IF cancelled THEN "killed" ELSE "failed"
  /\ UNCHANGED <<world, pc, policy, cancelled, kills, proc, adopted, ran, answer, asked, granted>>

\* proc.done, which is awaited also when the kill right after adoption threw.
Over == adopted /\ proc \in {"exited", "killed"}

SettleJob ==
  /\ job = "running" /\ Over
  /\ job' = CASE kills = "rethrown" -> "failed"
              [] kills # "rethrown" /\ proc = "killed" -> "killed"
              [] OTHER -> "completed"
  /\ UNCHANGED <<world, pc, policy, cancelled, kills, proc, adopted, ran, answer, asked, granted>>

---------------------------------------------------------------------------
(* The executor and the process.                                           *)

\* The signal the executor was given: the call's or the job's.
Signalled == IF job = "none" THEN aborted ELSE cancelled

Publish ==
  /\ proc = "preparing" /\ proc' = "runs" /\ ran' = policy
  /\ UNCHANGED <<world, pc, policy, job, cancelled, kills, adopted, answer, asked, granted>>

\* Preparation fails, or its signal ends it.
Rejects ==
  /\ proc = "preparing" /\ proc' = "rejected"
  /\ UNCHANGED <<world, pc, policy, job, cancelled, kills, adopted, ran, answer, asked, granted>>

Exits ==
  /\ proc = "runs"
  /\ \/ proc' = "exited"
     \/ proc' = "killed" /\ (kills = "sent" \/ Signalled)
     \/ proc' = "expired" /\ job = "none"   \* only a foreground command has a deadline
  /\ UNCHANGED <<world, pc, policy, job, cancelled, kills, adopted, ran, answer, asked, granted>>

---------------------------------------------------------------------------
(* The user and the caller.                                                *)

Switch ==
  /\ switches < MaxSwitches /\ pc # "done" /\ switches' = switches + 1
  /\ \E m \in ToolModes \ {standing} : standing' = m
  /\ UNCHANGED <<confines, jobs, args, aborted, pc, policy, work, answer, asked, granted>>

Abort ==
  /\ pc # "done" /\ ~aborted /\ aborted' = TRUE
  /\ UNCHANGED <<confines, jobs, standing, args, switches, pc, policy, work, answer, asked, granted>>

Ended == pc = "done" /\ job # "running" /\ UNCHANGED vars

Next ==
  \/ Execute \/ Approval \/ Background \/ Foreground \/ ForegroundEnds
  \/ Cancel \/ Adopt \/ Unstarted \/ SettleJob
  \/ Publish \/ Rejects \/ Exits \/ Switch \/ Abort \/ Ended

Spec == Init /\ [][Next]_vars

---------------------------------------------------------------------------
(* Properties.                                                             *)

\* A confined command runs in the mode the session had when it was called,
\* or in the very mode the user granted this one call, whatever the session
\* switched to while the user decided (resolveSandboxPolicy,
\* approveFishEscalation).
NeverWider ==
  confines /\ proc \in {"runs", "exited", "killed", "expired"} =>
    ran = asked \/ (granted # 0 /\ ran = granted)

\* A job is over when its process is, not before; and whenever a cancel
\* arrives, before, while or after the handle is published, the handle is
\* killed once the job holds it, and the status tells which it was
\* (processJob, processOutcome).
JobsTell ==
  /\ Settled => proc \notin {"preparing", "runs"}
  /\ cancelled /\ adopted => kills # "none"
  /\ job = "killed" => cancelled
  /\ job = "completed" => proc = "exited"
=============================================================================
