---------------------------- MODULE NpmRegistry ----------------------------
(***************************************************************************)
(* How the release lane asks npm (lib/registry.mjs, and the dist-tag       *)
(* commands of release.mjs): one `npm` child at a time, whose failure is   *)
(* classified from what it printed, a plain view with a few attempts, the  *)
(* poll that waits until the read path shows a change, and the removal of  *)
(* a candidate tag, whose reads, command and poll share one deadline.      *)
(*                                                                         *)
(* The environment: the registry changes `now`, its read path follows in   *)
(* `served`, a caller may be refused, another release may move the tag.  A *)
(* child takes its time and is killed at its timeout; time is in ticks.    *)
(***************************************************************************)
EXTENDS Naturals, Sequences, FiniteSetsExt

CONSTANTS Budget, InitialDelay, MaxDelay,   \* of a readback, ticks, not 0
          Attempts,                         \* of a plain view, not 0
          MaxChanges                        \* bound on what others do

VARIABLES op,        \* what is asked of the module
          pc,
          now,       \* the value asked about, in the registry
          served,    \* ... as its read path answers it
          refused,   \* the registry refuses this caller
          clock, deadline,
          tried,     \* children of the running loop
          why,       \* the verdict on the failed removal command
          result,
          saw,       \* history: what the last child that answered saw
          changes

vars == <<op, pc, now, served, refused, clock, deadline, tried, why, result, saw, changes>>

Values == {"none", "ours", "other"}    \* absent; this release's; anybody else's
Failures == {"transient", "auth", "fatal", "shape"}   \* shape: an answer nobody expects
Ops == {"view", "assert", "latest", "remove"}

Results == {"none", "absent", "ours", "other", "removed"}    \* answers
           \cup Failures \cup {"late", "mismatch", "moved"}  \* errors

TypeOK ==
  /\ op \in Ops /\ pc \in {"view", "poll", "read", "command", "outcome", "done"}
  /\ now \in Values /\ served \in Values /\ refused \in BOOLEAN
  /\ clock \in Nat /\ deadline \in Nat
  /\ tried \in Nat /\ why \in Failures \cup {"no"}
  /\ result \in Results /\ saw \in Values \cup {"nothing", "refusal"}
  /\ changes \in 0..MaxChanges

\* A publish or a promotion was just accepted, and may not be readable yet; a
\* candidate tag may be gone or another release's before its removal starts.
Init ==
  /\ op \in Ops
  /\ pc = CASE op = "view" -> "view" [] op = "remove" -> "read" [] OTHER -> "poll"
  /\ served \in Values /\ now \in Values
  /\ op = "assert" => served = "none" /\ now # "none"
  /\ op = "latest" => served # "ours" /\ now = "ours"
  /\ op \in {"view", "remove"} => served = now
  /\ refused \in BOOLEAN /\ clock = 0 /\ deadline = Budget
  /\ tried = 0 /\ why = "no" /\ result = "none" /\ saw = "nothing" /\ changes = 0

---------------------------------------------------------------------------
(* What npm prints, and what it means.                                     *)

\* The lines that matter, of those an answer has: "no match found" with what
\* it names, and "the requested resource" with its channel.
Asked == [pkg |-> "p", ver |-> "v"]
Named == {Asked, [pkg |-> "q", ver |-> "v"], [pkg |-> "p", ver |-> "w"], [pkg |-> "", ver |-> "v"]}

NoMatch(n) == [line |-> "nomatch", channel |-> "error", names |-> n]
Resource(c, n) == [line |-> "resource", channel |-> c, names |-> n]

\* About others it prints anything, a notice may name our request, and the
\* version of an other package may be ours.  Our request is named by an
\* error only when it was not found, or when we may not see it.
Lines(found) ==
  {NoMatch(n) : n \in IF found THEN Named \ {Asked} ELSE Named}
  \cup {Resource("notice", n) : n \in Named}
  \cup {Resource("error", n) : n \in IF found THEN Named \ {Asked} ELSE Named}

\* The standard answers for what is absent, of `npm view` and `npm pack`.
Standard == {<<NoMatch([pkg |-> "", ver |-> "v"]), Resource("error", Asked)>>, <<NoMatch(Asked)>>}

Answers(found, denied) ==
  [lines : {<<>>} \cup {<<l>> : l \in Lines(found)}
           \cup {<<l, m>> : l \in Lines(found), m \in Lines(found)},
   denied : {denied}, flaky : BOOLEAN]
  \cup IF found \/ denied THEN {} ELSE [lines : Standard, denied : {FALSE}, flaky : {FALSE}]

First(lines, hits) == IF hits = {} THEN <<>> ELSE <<lines[Min(hits)]>>

\* The sentence counts on npm's error channel only.
BugIsResource(l) == l.line = "resource"
IsResource(l) == l.line = "resource" /\ l.channel = "error"

\* The no-match line names the request, or its version while the sentence
\* names the request.
AbsenceNamesSpec(lines) ==
  LET match == First(lines, {i \in DOMAIN lines : lines[i].line = "nomatch"})
      resource == First(lines, {i \in DOMAIN lines : IsResource(lines[i])}) IN
  /\ match # <<>>
  /\ \/ match[1].names = Asked
     \/ /\ match[1].names = [pkg |-> "", ver |-> Asked.ver]
        /\ resource # <<>> /\ resource[1].names = Asked

\* The permission clause of the sentence is no sign of a refusal.
AuthEvidence(a) == a.denied

ClassifyNpmFailure(a) ==
  CASE AuthEvidence(a) -> "auth"
    [] ~AuthEvidence(a) /\ a.flaky -> "transient"
    [] ~AuthEvidence(a) /\ ~a.flaky /\ AbsenceNamesSpec(a.lines) -> "absent"
    [] OTHER -> "fatal"

Verdicts == [found \in BOOLEAN |-> [denied \in BOOLEAN |->
               {ClassifyNpmFailure(a) : a \in Answers(found, denied)}]]

---------------------------------------------------------------------------
(* One child.                                                              *)

\* What a child that exits well prints.
Printed ==
  IF refused THEN {}
  ELSE IF served = "none" THEN {<<>>, <<"none">>}
  ELSE {<<served>>, <<"none", served>>, <<served, served>>}

\* A string, or an array of them: the empty ones do not count, and of the
\* others there must not be two.
NormaliseViewAnswer(printed) ==
  LET strings == {i \in DOMAIN printed : printed[i] # "none"}
  IN IF strings = {} THEN "none"
     ELSE IF \E i \in strings : strings = {i} THEN printed[CHOOSE i \in strings : TRUE]
     ELSE "shape"

\* The outcomes of one `npm view`: what it answers, a classified failure, or a
\* child killed at its timeout, which is a read without a verdict.
Outcomes ==
  {NormaliseViewAnswer(p) : p \in Printed}
  \cup {IF v = "absent" THEN "none" ELSE v : v \in Verdicts[served # "none"][refused]}

Seen == IF refused THEN "refusal" ELSE served

\* How a child with t ticks to run may end: how long it took, what it says, and
\* what it saw.
Ends(t) ==
  [took : 0..t, says : Outcomes, seen : {Seen}]
  \cup {[took |-> t, says |-> "transient", seen |-> saw]}

Done(r) == pc' = "done" /\ result' = r
Remaining == IF clock < deadline THEN deadline - clock ELSE 0

ask == <<op, now, served, refused, deadline, changes>>

\* viewField: only a transient failure is tried again.
ViewTries == tried + 1 < Attempts

View ==
  /\ pc = "view"
  /\ tried' = tried + 1
  /\ \E e \in Ends(0) :
       /\ saw' = e.seen
       /\ IF e.says = "transient" /\ ViewTries
          THEN UNCHANGED <<pc, result>>
          ELSE Done(IF e.says = "none" THEN "absent" ELSE e.says)
  /\ UNCHANGED <<ask, clock, why>>

---------------------------------------------------------------------------
(* pollRegistryUntil, on the deadline of its operation.                    *)

BackoffDelay(i) == Min({InitialDelay * 2^i, MaxDelay})

Wanted == IF op = "remove" THEN "none" ELSE "ours"

\* What one observation means for the one who waits: an absent value, and a
\* tag that still shows its old version, are on their way.
Verdict(o) ==
  CASE o = Wanted -> IF op = "remove" THEN "removed" ELSE "ours"
    [] o \in {"auth", "fatal", "shape"} -> o
    [] o = "other" /\ op = "assert" -> "mismatch"
    [] o = "other" /\ op = "remove" -> "moved"
    [] OTHER -> "wait"

\* One observation; the pause after it never outlasts the deadline.
Slept(d) == Min({BackoffDelay(tried), Remaining - d})

Poll ==
  /\ pc = "poll" /\ Remaining > 0
  /\ tried' = tried + 1
  /\ \E e \in Ends(Remaining) :
       /\ saw' = e.seen
       /\ clock' = clock + e.took + IF Verdict(e.says) = "wait" THEN Slept(e.took) ELSE 0
       /\ IF Verdict(e.says) = "wait" THEN UNCHANGED <<pc, result>> ELSE Done(Verdict(e.says))
  /\ UNCHANGED <<ask, why>>

\* No tick is left: no other child is started.
PollLate ==
  /\ pc = "poll" /\ Remaining = 0 /\ Done("late")
  /\ UNCHANGED <<ask, clock, tried, why, saw>>

---------------------------------------------------------------------------
(* removeCandidateTag.                                                     *)

\* The read right before the command.
ReadBefore ==
  /\ pc = "read"
  /\ \E e \in Ends(Remaining) :
       /\ saw' = e.seen /\ clock' = clock + e.took
       /\ IF e.says = "ours" THEN pc' = "command" /\ UNCHANGED result
          ELSE Done(CASE e.says = "none" -> "removed"
                      [] e.says = "other" -> "moved"
                      [] e.says \in {"transient", "shape"} /\ clock' >= deadline -> "late"
                      [] OTHER -> e.says)
  /\ UNCHANGED <<ask, tried, why>>

\* requireTime: a step that would begin with no tick left starts no child.
TooLate ==
  /\ pc \in {"command", "outcome"} /\ Remaining = 0
  /\ Done(IF why = "no" THEN "late" ELSE why)
  /\ UNCHANGED <<ask, clock, tried, why, saw>>

removal == <<op, served, refused, deadline, changes, tried, saw>>

\* The command takes off whatever the tag points at by now.  On success the
\* removal has to become visible, before the same deadline.
BugAfresh == clock' + Budget
Afresh == deadline

Remove ==
  /\ pc = "command" /\ Remaining > 0 /\ ~refused
  /\ \E d \in 0..Remaining : clock' = clock + d
  /\ now' = "none"
  /\ pc' = "poll" /\ deadline' = Afresh
  /\ UNCHANGED <<op, served, refused, changes, tried, saw, why, result>>

\* It fails, with or without effect: killed, refused, or anything else.
RemoveFails ==
  /\ pc = "command" /\ Remaining > 0
  /\ \E d \in 0..Remaining : clock' = clock + d
  /\ IF refused THEN UNCHANGED now ELSE now' \in {now, "none"}
  /\ why' \in IF refused THEN {"auth", "transient"} ELSE {"transient", "fatal"}
  /\ pc' = "outcome"
  /\ UNCHANGED <<removal, result>>

\* One read tells what the failed command did; its own failure is the verdict.
Outcome(o) == IF o = "none" THEN "removed" ELSE IF o = "other" THEN "moved"
              ELSE IF o = "ours" THEN why ELSE o

ReadOutcome ==
  /\ pc = "outcome" /\ Remaining > 0
  /\ \E e \in Ends(Remaining) :
       /\ saw' = e.seen /\ clock' = clock + e.took /\ Done(Outcome(e.says))
  /\ UNCHANGED <<ask, tried, why>>

---------------------------------------------------------------------------
(* Everybody else.                                                         *)

Propagate ==
  /\ served # now /\ served' = now
  /\ UNCHANGED <<op, pc, now, refused, clock, deadline, tried, why, result, saw, changes>>

\* Another release moves the tag, or the credentials change.
Change ==
  /\ pc # "done" /\ changes < MaxChanges /\ changes' = changes + 1
  /\ \/ op \in {"latest", "remove"} /\ now' = "other" /\ now # "other" /\ UNCHANGED refused
     \/ refused' = ~refused /\ UNCHANGED now
  /\ UNCHANGED <<op, pc, served, clock, deadline, tried, why, result, saw>>

Ended == pc = "done" /\ UNCHANGED vars

Next ==
  \/ View \/ Poll \/ PollLate \/ ReadBefore \/ TooLate \/ Remove \/ RemoveFails \/ ReadOutcome
  \/ Propagate \/ Change \/ Ended

Spec == Init /\ [][Next]_vars

---------------------------------------------------------------------------
(* Properties.                                                             *)

\* "Absent" authorises a publish and "removed" ends a release: both only when
\* the read path itself said so, and a refusal is never one of them nor the
\* absence a refusal (classifyNpmFailure, removeCandidateTag).
AbsenceProven ==
  /\ result \in {"absent", "removed"} => saw = "none"
  /\ result = "auth" => saw = "refusal" \/ why = "auth"
  /\ result \in {"ours", "other", "mismatch", "moved"} => saw \in {"ours", "other"}

\* The steps of one operation spend one budget: no child, no command and no
\* pause outlasts the deadline that was set when it began, and none gives up
\* for lack of time before it (createRegistryDeadline, pollRegistryUntil).
OneBudget ==
  op # "view" => clock <= Budget /\ (result = "late" => clock = Budget)
=============================================================================
