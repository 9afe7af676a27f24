---------------------------- MODULE ReleaseLane ----------------------------
(***************************************************************************)
(* The release lane (scripts/release/release.mjs as release.yml runs it):  *)
(* serial dispatches that pack, publish, promote and tag the packages of a *)
(* release, each with a journal that a later dispatch may resume.          *)
(*                                                                         *)
(* The registry answers reads from `served`, which follows `now`, what the *)
(* commands changed, one package at a time and never backwards.  None      *)
(* stands for absent, and for a `latest` older than the lane.              *)
(***************************************************************************)
EXTENDS Naturals

CONSTANTS N,          \* packages are 1..N, in the order of the release list
          Releases,   \* release commits
          Versions,
          VersionOf,  \* VersionOf[r][p]: the version in p's manifest at r
          Bytes,      \* tarballs (their integrity): a rebuild may differ
          None,
          MaxFaults   \* bound: failing commands, lost runners, other publishers

Packages == 1..N

ASSUME LaneAssumption ==
  /\ N \in Nat \ {0} /\ MaxFaults \in Nat
  /\ VersionOf \in [Releases -> [Packages -> Versions]]
  /\ None \notin Versions \cup Bytes \cup Releases

VARIABLES now,       \* the registry
          served,    \* what the registry's read path answers
          gitTag,    \* gitTag[p][v]: commit of the pushed tag
          gh,        \* gh[p][v]: commit of the GitHub release
          uploaded,  \* uploaded[r][dry]: the last final journal uploaded
          phase,     \* the running step of the dispatch
          at,        \* the package its loop has reached
          journal,   \* the journal file of the dispatch
          prior,     \* packages promoted according to the journal it resumed
          faults

registry == <<now, served>>
vars == <<now, served, gitTag, gh, uploaded, phase, at, journal, prior, faults>>

\* "readback" follows npm publish; "waiting", dist-tag add; "removing", the
\* read before dist-tag rm, and "removed", dist-tag rm.
Phases == {"idle", "pack", "publish", "readback", "verify", "promote", "waiting",
           "drop", "removing", "removed", "tag", "releases"}

States == {"planned", "packed", "skipped", "published", "promoted"}

Journals ==
  [sha : Releases, dry : BOOLEAN, state : [Packages -> States],
   packed : [Packages -> Bytes \cup {None}]]

ASSUME NoJournalAssumption == None \notin Journals

Entry == [bytes : [Versions -> Bytes \cup {None}],
          latest : Versions \cup {None}, next : Versions \cup {None}]

Marks == [Packages -> [Versions -> Releases \cup {None}]]

TypeOK ==
  /\ now \in [Packages -> Entry] /\ served \in [Packages -> Entry]
  /\ gitTag \in Marks /\ gh \in Marks
  /\ uploaded \in [Releases -> [BOOLEAN -> Journals \cup {None}]]
  /\ phase \in Phases /\ at \in Packages
  /\ journal \in Journals \cup {None} /\ (journal = None) = (phase = "idle")
  /\ prior \in SUBSET Packages
  /\ faults \in 0..MaxFaults

Absent == [bytes |-> [v \in Versions |-> None], latest |-> None, next |-> None]

Init ==
  /\ now = [p \in Packages |-> Absent] /\ served = now
  /\ gitTag = [p \in Packages |-> [v \in Versions |-> None]] /\ gh = gitTag
  /\ uploaded = [r \in Releases |-> [d \in BOOLEAN |-> None]]
  /\ phase = "idle" /\ at = 1 /\ journal = None /\ prior = {}
  /\ faults = 0

\* The version this dispatch gives p.
Own(p) == VersionOf[journal.sha][p]

-----------------------------------------------------------------------------
(* The end of a dispatch: whatever the outcome, the final journal is       *)
(* uploaded, unless the runner itself is lost.                             *)

IsPublished(s) == s \in {"published", "promoted", "skipped"}

\* The integrity of an entry that is not published is never read again.
Final(j) ==
  [j EXCEPT !.packed = [p \in Packages |-> IF IsPublished(j.state[p]) THEN j.packed[p] ELSE None]]

End ==
  /\ uploaded' = [uploaded EXCEPT ![journal.sha] =
                    [uploaded[journal.sha] EXCEPT ![journal.dry] = Final(journal)]]
  /\ phase' = "idle" /\ at' = 1 /\ journal' = None /\ prior' = {}

\* The script throws and the job fails.
Throw == End /\ UNCHANGED <<registry, gitTag, gh, faults>>

Fault == faults < MaxFaults /\ faults' = faults + 1

\* A command fails, before or after it took effect, or a poll runs out of time.
CommandFails ==
  /\ phase # "idle" /\ Fault
  /\ End
  /\ UNCHANGED <<registry, gitTag, gh>>

RunnerLost ==
  /\ phase # "idle" /\ Fault
  /\ phase' = "idle" /\ at' = 1 /\ journal' = None /\ prior' = {}
  /\ UNCHANGED <<registry, gitTag, gh, uploaded>>

-----------------------------------------------------------------------------
(* preflight                                                               *)

\* The commit fixes the packages and their versions.
Resumable(j, r, dry) == j.sha = r /\ j.dry = dry

CreateJournal(r, dry) ==
  [sha |-> r, dry |-> dry, state |-> [p \in Packages |-> "planned"],
   packed |-> [p \in Packages |-> None]]

\* A journal that may not be resumed and records a published version makes
\* preflight throw before there is a journal of this dispatch.
Preflight(r, dry, j) ==
  /\ phase = "idle"
  /\ \/ /\ j # None /\ Resumable(j, r, dry)
        /\ journal' = j
        /\ prior' = {p \in Packages : j.state[p] = "promoted"}
     \/ /\ j # None => ~Resumable(j, r, dry) /\ \A p \in Packages : ~IsPublished(j.state[p])
        /\ journal' = CreateJournal(r, dry)
        /\ prior' = {}
  /\ phase' = "pack"
  /\ UNCHANGED <<registry, gitTag, gh, uploaded, at, faults>>

\* The operator names no journal or one that a dispatch uploaded.
Dispatch ==
  \E r \in Releases, dry \in BOOLEAN :
    \E j \in {None} \cup {uploaded[s][d] : s \in Releases, d \in BOOLEAN} :
      Preflight(r, dry, j)

-----------------------------------------------------------------------------
(* pack and publish                                                        *)

\* Mutants: nothing is compared; the registry is not asked.
BugIdentical(p, b) == IF served[p].bytes[Own(p)] = None THEN "absent" ELSE "identical"
BugAbsent(p, b) == "absent"

\* What the registry says of p's version, against the bytes just packed.
ClassifyPublishedVersion(p, b) ==
  LET there == served[p].bytes[Own(p)]
  IN  IF there = None THEN "absent" ELSE IF there = b THEN "identical" ELSE "conflict"

Packed(p, b) ==
  IF ClassifyPublishedVersion(p, b) = "identical" THEN "skipped" ELSE "packed"

\* One read per package, in any order with the registry's own progress, and
\* the journal is written only when all of them are packed.
Pack(built) ==
  /\ phase = "pack"
  /\ \A p \in Packages : ClassifyPublishedVersion(p, built[p]) # "conflict"
  /\ journal' = [journal EXCEPT !.state = [p \in Packages |-> Packed(p, built[p])],
                                !.packed = built]
  /\ phase' = "publish"
  /\ UNCHANGED <<registry, gitTag, gh, uploaded, at, prior, faults>>

PackRefuses(built) ==
  /\ phase = "pack"
  /\ \E p \in Packages : ClassifyPublishedVersion(p, built[p]) = "conflict"
  /\ Throw

\* The workflow runs the later steps only when the dispatch is no dry run.
DryRunEnds == phase = "publish" /\ journal.dry /\ Throw

\* On to phase ph, with the same package.
Goto(ph) ==
  phase' = ph /\ UNCHANGED <<at, gitTag, gh, uploaded, prior, faults>>

\* The second loop starts where the first one ended.

\* The loop goes on to the next package in phase ph, or ends in phase after.
Advance(ph, after) ==
  /\ phase' = IF at = N THEN after ELSE ph
  /\ at' = IF at = N THEN 1 ELSE at + 1
  /\ UNCHANGED <<gitTag, gh, uploaded, prior, faults>>

Record(state) == journal' = [journal EXCEPT !.state = [journal.state EXCEPT ![at] = state]]

SkipPublished ==
  /\ phase = "publish" /\ ~journal.dry
  /\ journal.state[at] \in {"published", "skipped"}
  /\ Advance("publish", "verify")
  /\ UNCHANGED <<registry, journal>>

\* Published without --tag, a version becomes the latest one.
BugTagged(e, v) == [e EXCEPT !.latest = v]
Tagged(e, v) == [e EXCEPT !.next = v]

\* npm publish --tag next: the registry takes a version once.
NpmPublish ==
  LET e == now[at]
      v == Own(at)
  IN
  /\ phase = "publish" /\ ~journal.dry
  /\ journal.state[at] = "packed"
  /\ IF e.bytes[v] # None
     THEN Throw
     ELSE /\ now' = [now EXCEPT ![at] =
                       Tagged([e EXCEPT !.bytes = [e.bytes EXCEPT ![v] = journal.packed[at]]], v)]
          /\ Goto("readback")
          /\ UNCHANGED <<served, journal>>

\* Recorded only when the registry serves the packed bytes.
AssertRegistryIntegrity ==
  /\ phase = "readback" /\ served[at].bytes[Own(at)] = journal.packed[at]
  /\ Record("published")
  /\ Advance("publish", "verify")
  /\ UNCHANGED registry

-----------------------------------------------------------------------------
(* finalize                                                                *)

\* The registry still serves p's version with the bytes of the journal, and
\* no other release has taken the candidate tag.
Verified(p) ==
  /\ served[p].bytes[Own(p)] = journal.packed[p]
  /\ served[p].next \in {None, Own(p)}

Verify ==
  /\ phase = "verify"
  /\ IF \A p \in Packages : IsPublished(journal.state[p]) /\ Verified(p)
     THEN Goto("promote") /\ UNCHANGED <<registry, journal>>
     ELSE Throw

\* npm dist-tag add; an entry recorded as promoted is only checked.
Promote ==
  /\ phase = "promote"
  /\ IF journal.state[at] = "promoted"
     THEN IF served[at].latest = Own(at)
          THEN Advance("promote", "drop") /\ UNCHANGED <<registry, journal>>
          ELSE Throw
     ELSE /\ now' = [now EXCEPT ![at] = [now[at] EXCEPT !.latest = Own(at)]]
          /\ Goto("waiting")
          /\ UNCHANGED <<served, journal>>

WaitForDistTag ==
  /\ phase = "waiting" /\ served[at].latest = Own(at)
  /\ Record("promoted")
  /\ Advance("promote", "drop")
  /\ UNCHANGED registry

\* An absent candidate tag is already clean.
BugCleanTag(t) == FALSE
CleanTag(t) == t = None

\* removeCandidateTag: the read right before the command.
ReadCandidate ==
  LET t == served[at].next IN
  /\ phase = "drop"
  /\ IF CleanTag(t) THEN Advance("drop", "tag") /\ UNCHANGED <<registry, journal>>
     ELSE IF t = Own(at) THEN Goto("removing") /\ UNCHANGED <<registry, journal>>
     ELSE Throw

\* npm dist-tag rm removes whatever the tag points at by now.
RemoveCandidate ==
  /\ phase = "removing"
  /\ now' = [now EXCEPT ![at] = [now[at] EXCEPT !.next = None]]
  /\ Goto("removed")
  /\ UNCHANGED <<served, journal>>

\* A failed removal counts only when the tag is seen to be gone.
BugGone(t) == TRUE
Gone(t) == t = None

\* The command fails, with or without effect, and one read tells which.
RemovalFails ==
  /\ phase = "removing" /\ Fault
  /\ \E rest \in {None, now[at].next} :
       now' = [now EXCEPT ![at] = [now[at] EXCEPT !.next = rest]]
  /\ UNCHANGED <<served, gitTag, gh>>
  /\ IF Gone(served[at].next)
     THEN /\ phase' = IF at = N THEN "tag" ELSE "drop"
          /\ at' = IF at = N THEN 1 ELSE at + 1
          /\ UNCHANGED <<uploaded, prior, journal>>
     ELSE End

\* The read is repeated until the tag is gone or another release has it.
WaitForCandidateTagRemoval ==
  LET t == served[at].next IN
  /\ phase = "removed"
  /\ \/ t = None /\ Advance("drop", "tag") /\ UNCHANGED <<registry, journal>>
     \/ t \notin {None, Own(at)} /\ Throw

TagFits(t) == t \in {None, journal.sha}

\* Annotated tags for all packages, then git push.
TagAndPush ==
  /\ phase = "tag"
  /\ IF \A p \in Packages : TagFits(gitTag[p][Own(p)])
     THEN /\ gitTag' = [p \in Packages |->
                          IF gitTag[p][Own(p)] = None
                          THEN [gitTag[p] EXCEPT ![Own(p)] = journal.sha] ELSE gitTag[p]]
          /\ phase' = "releases"
          /\ UNCHANGED <<registry, gh, uploaded, at, journal, prior, faults>>
     ELSE Throw

\* gh release view, else create; the last one ends the dispatch.
Release ==
  LET t == gh[at][Own(at)]
      made == [gh EXCEPT ![at] = [gh[at] EXCEPT ![Own(at)] = journal.sha]]
  IN
  /\ phase = "releases"
  /\ IF t \notin {None, journal.sha} THEN Throw
     ELSE /\ gh' = made
          /\ IF at = N THEN End
             ELSE at' = at + 1 /\ UNCHANGED <<uploaded, phase, journal, prior>>
          /\ UNCHANGED <<registry, gitTag, faults>>

-----------------------------------------------------------------------------
(* Everybody else.                                                         *)

\* A read path catches up with the changes of one package.
Propagate(p) ==
  /\ served[p] # now[p]
  /\ served' = [served EXCEPT ![p] = now[p]]
  /\ UNCHANGED <<now, gitTag, gh, uploaded, phase, at, journal, prior, faults>>

\* Another publisher moves the candidate tag to a version of its own.
OthersMoveNext(p, v) ==
  /\ Fault
  /\ v \notin {VersionOf[r][p] : r \in Releases} /\ now[p].next # v
  /\ now' = [now EXCEPT ![p] = [now[p] EXCEPT !.next = v]]
  /\ UNCHANGED <<served, gitTag, gh, uploaded, phase, at, journal, prior>>

\* ... and takes it off when its own release is done.
OthersDropNext(p) ==
  /\ now[p].next \in Versions \ {VersionOf[r][p] : r \in Releases}
  /\ now' = [now EXCEPT ![p] = [now[p] EXCEPT !.next = None]]
  /\ UNCHANGED <<served, gitTag, gh, uploaded, phase, at, journal, prior, faults>>

Step ==
  \/ \E built \in [Packages -> Bytes] : Pack(built) \/ PackRefuses(built)
  \/ DryRunEnds \/ SkipPublished \/ NpmPublish \/ AssertRegistryIntegrity
  \/ Verify \/ Promote \/ WaitForDistTag \/ ReadCandidate \/ RemoveCandidate
  \/ WaitForCandidateTagRemoval \/ TagAndPush \/ Release

Next ==
  \/ Dispatch \/ Step
  \/ CommandFails \/ RunnerLost \/ RemovalFails
  \/ \E p \in Packages : Propagate(p) \/ OthersDropNext(p)
                        \/ \E v \in Versions : OthersMoveNext(p, v)

Spec == Init /\ [][Next]_vars

\* The operator dispatches every release again, from its last journal, each
\* step of a dispatch runs, the read path catches up, and other publishers
\* finish.
FairSpec ==
  /\ Spec /\ WF_vars(Step)
  /\ \A p \in Packages : WF_vars(Propagate(p)) /\ WF_vars(OthersDropNext(p))
  /\ \A r \in Releases : SF_vars(Preflight(r, FALSE, uploaded[r][FALSE]))

-----------------------------------------------------------------------------
Promotes(p) == now'[p].latest # now[p].latest

\* latest only moves when every package of the release is on the registry with
\* the bytes this dispatch packed, whatever failed before ("a partial failure
\* can never move the latest pointer", finalize).
LatestMovesWhole ==
  [][\A p \in Packages : Promotes(p) =>
       \A q \in Packages : now[q].bytes[Own(q)] = journal.packed[q]]_vars

Tells(j) ==
  j # None =>
    \A p \in Packages : IsPublished(j.state[p]) =>
      /\ j.packed[p] # None
      /\ now[p].bytes[VersionOf[j.sha][p]] = j.packed[p]

\* What a journal records as published is on the registry with its integrity,
\* in the running dispatch and in every journal it left behind.
RecordedIsThere ==
  Tells(journal) /\ \A r \in Releases, d \in BOOLEAN : Tells(uploaded[r][d])

Publishes(p) ==
  /\ phase = "publish" /\ ~journal.dry /\ at = p /\ journal.state[p] = "packed"
  /\ phase' # phase /\ faults' = faults

\* npm publish is never run for a version that some journal records as
\* published, even when the operator did not name that journal (publish,
\* "resumable without re-publishing").
NoRepublish ==
  [][\A p \in Packages, r \in Releases, d \in BOOLEAN :
       /\ Publishes(p)
       /\ uploaded[r][d] # None /\ VersionOf[r][p] = Own(p)
       => ~IsPublished(uploaded[r][d].state[p])]_vars

Completes ==
  /\ phase = "releases" /\ phase' = "idle" /\ faults' = faults
  /\ at = N /\ gh'[N][Own(N)] = journal.sha

\* A dispatch that reaches its end leaves every package promoted with the
\* packed bytes, off the candidate tag, tagged and released at one commit.
CompleteMeansReleased ==
  [][Completes => \A p \in Packages :
       LET v == Own(p) IN
       /\ now[p].bytes[v] = journal.packed[p]
       /\ now[p].latest = v /\ now[p].next # v
       /\ gitTag[p][v] = journal.sha /\ gh'[p][v] = journal.sha]_vars

\* Wherever dispatches died, dispatching again completes the release once
\* builds are reproducible and commands succeed (finalize, forward recovery).
Recovers ==
  \A r \in Releases : <>(\A p \in Packages : gh[p][VersionOf[r][p]] = r)

\* README: "finalize only promotes what has not been promoted yet".
OnlyRemainder ==
  [][\A p \in Packages :
       phase = "promote" /\ phase' = "waiting" /\ at = p =>
         p \notin prior]_vars
=============================================================================
