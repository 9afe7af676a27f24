------------------------------ MODULE MCReleaseLane ------------------------------
(* The release lane with two packages, whose second release bumps only the *)
(* first, and below it what it asks npm, one operation with its reads and  *)
(* its deadline.  A behaviour is about one of them.                        *)
EXTENDS ReleaseLane, TLC

CONSTANTS r1, r2, v1, v2, v3, b1, b2,           Budget, InitialDelay,
          MaxDelay, Attempts, MaxChanges  \* of npm's component

VARIABLE which   \* the component this behaviour is about

\* Ticks are whole, and a readback has some of them.
ASSUME NpmAssumption ==
  /\ Budget \in Nat \ {0} /\ InitialDelay \in Nat /\ MaxDelay \in Nat
  /\ Attempts \in Nat \ {0} /\ MaxChanges \in Nat

BumpOne == [r \in Releases |-> [p \in 1..N |-> IF r = r1 \/ p = 2 THEN v1 ELSE v2]]
Symmetric == Permutations(Bytes)

VARIABLES npm_op, npm_pc, npm_now, npm_served, npm_refused, npm_clock,
          npm_deadline, npm_tried, npm_why, npm_result, npm_saw, npm_changes
npm_vars == <<npm_op, npm_pc, npm_now, npm_served, npm_refused, npm_clock,
              npm_deadline, npm_tried, npm_why, npm_result, npm_saw,
              npm_changes>>
Npm == INSTANCE NpmRegistry WITH
  Budget <- Budget, InitialDelay <- InitialDelay, MaxDelay <- MaxDelay,
  Attempts <- Attempts, MaxChanges <- MaxChanges,
  op <- npm_op, pc <- npm_pc, now <- npm_now, served <- npm_served,
  refused <- npm_refused, clock <- npm_clock, deadline <- npm_deadline,
  tried <- npm_tried, why <- npm_why, result <- npm_result, saw <- npm_saw,
  changes <- npm_changes

-----------------------------------------------------------------------------
\* Every component starts; only one of them goes on.
Subjects == {"lane", "npm"}

AllInit ==
  /\ which \in Subjects
  /\ IF which = "npm" THEN TRUE ELSE npm_op = "view" /\ npm_now = "none" /\ npm_refused = FALSE
  /\ Init /\ Npm!Init

AllNext ==
  \/ which = "lane" /\ Next /\ UNCHANGED <<which, npm_vars>>
  \/ which = "npm" /\ Npm!Next /\ UNCHANGED <<which, vars>>

all == <<which, vars, npm_vars>>
AllSpec == AllInit /\ [][AllNext]_all

-----------------------------------------------------------------------------
\* npm's answers mean what this lane takes them to mean: a version is absent
\* and a tag removed only when the read path said so, and a refusal is never
\* an absence (classifyNpmFailure, viewField, removeCandidateTag).
AbsenceProven ==
  which = "npm" => Npm!TypeOK /\ Npm!AbsenceProven

\* One operation spends one budget, whatever its children take
\* (createRegistryDeadline, pollRegistryUntil).
OneBudget == which = "npm" => Npm!OneBudget
=============================================================================
