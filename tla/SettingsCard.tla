---------------------------- MODULE SettingsCard ---------------------------
(***************************************************************************)
(* The draft of the agents settings card (client/controller.ts): fields    *)
(* staged against one revision of the settings document, saved as one      *)
(* write that the host accepts only at that revision, while other writers  *)
(* change the document and the card's mirror of it lags behind.            *)
(***************************************************************************)
EXTENDS Naturals, FiniteSets, Functions

CONSTANTS Fields, Values,   \* settings fields; "unset" is one of the values
          MaxRevision       \* bound on the revisions of the document

VARIABLES doc, revision,    \* the document, at the host
          seen, seenAt,     \* scope.getSnapshot(): its value and revision
          open,             \* ... ready and writable
          staged,           \* field -> the value staged for it
          stagedAt,         \* the revision the card showed then: ours to remember
          draftRevision,
          saving, failed, conflicted, disposed,
          request,          \* the mutate call: none, sent, applied or refused
          written,          \* its operations
          shown             \* the snapshot the card renders

host == <<doc, revision>>
mirror == <<seen, seenAt, open>>
draft == <<staged, stagedAt, draftRevision>>
flags == <<saving, failed, conflicted>>
vars == <<host, mirror, draft, flags, disposed, request, written, shown>>

Revisions == 0..MaxRevision
NoRevision == MaxRevision + 1
Documents == [Fields -> Values]
Drafts == UNION {[S -> Values] : S \in SUBSET Fields}
NoDraft == [f \in {} |-> "unset"]

TypeOK ==
  /\ doc \in Documents /\ revision \in Revisions
  /\ seen \in Documents /\ seenAt \in Revisions /\ open \in BOOLEAN
  /\ staged \in Drafts /\ DOMAIN stagedAt = DOMAIN staged
  /\ \A f \in DOMAIN stagedAt : stagedAt[f] \in Revisions
  /\ draftRevision \in Revisions \cup {NoRevision}
  /\ saving \in BOOLEAN /\ failed \in BOOLEAN /\ conflicted \in BOOLEAN /\ disposed \in BOOLEAN
  /\ request \in {"none", "sent", "applied", "refused"} /\ written \in Drafts

\* project(): the section with the draft laid over it, and the flags.
Overlay(section, ops) == [f \in Fields |-> IF f \in DOMAIN ops THEN ops[f] ELSE section[f]]
Projection(section, ready, ops, s, x, c) ==
  [section |-> Overlay(section, ops), writable |-> ready, dirty |-> DOMAIN ops # {},
   saving |-> s, failed |-> x, conflicted |-> c]
Publish == shown' = Projection(seen', open', staged', saving', failed', conflicted')

Init ==
  /\ doc \in Documents /\ revision = 0 /\ seen = doc /\ seenAt = 0 /\ open = TRUE
  /\ staged = NoDraft /\ stagedAt = NoDraft /\ draftRevision = NoRevision
  /\ saving = FALSE /\ failed = FALSE /\ conflicted = FALSE /\ disposed = FALSE
  /\ request = "none" /\ written = NoDraft
  /\ shown = Projection(seen, open, staged, saving, failed, conflicted)

---------------------------------------------------------------------------
(* The card.                                                               *)

BugPinnedAt == seenAt
PinnedAt == IF staged = NoDraft THEN seenAt ELSE draftRevision

\* The first field of a draft pins its revision.  Staging another one hides a
\* conflict until the save, which finds it again.
Stage(f, v) ==
  /\ open /\ ~saving
  /\ draftRevision' = PinnedAt
  /\ staged' = [g \in DOMAIN staged \cup {f} |-> IF g = f THEN v ELSE staged[g]]
  /\ stagedAt' = [g \in DOMAIN staged \cup {f} |-> IF g = f THEN seenAt ELSE stagedAt[g]]
  /\ failed' = FALSE /\ conflicted' = FALSE
  /\ UNCHANGED <<host, mirror, saving, disposed, request, written>>
  /\ Publish

ClearDraft ==
  /\ staged' = NoDraft /\ stagedAt' = NoDraft /\ draftRevision' = NoRevision
  /\ failed' = FALSE /\ conflicted' = FALSE

Discard ==
  /\ ~saving /\ ClearDraft
  /\ UNCHANGED <<host, mirror, saving, disposed, request, written>>
  /\ Publish

Savable == ~disposed /\ ~saving /\ staged # NoDraft /\ open

SaveRefused ==
  /\ Savable /\ seenAt # draftRevision
  /\ conflicted' = TRUE
  /\ UNCHANGED <<host, mirror, draft, saving, failed, disposed, request, written>>
  /\ Publish

Save ==
  /\ Savable /\ seenAt = draftRevision
  /\ saving' = TRUE /\ failed' = FALSE /\ conflicted' = FALSE
  /\ request' = "sent" /\ written' = staged
  /\ UNCHANGED <<host, mirror, draft, disposed>>
  /\ Publish

\* Whether the mirror, as it is now, shows what was written.
Landed == \A f \in DOMAIN written : seen[f] = written[f]

\* A disposed card forgets about the answer.
MutateResolves ==
  /\ request = "applied" /\ request' = "none" /\ written' = NoDraft
  /\ UNCHANGED <<host, mirror, disposed>>
  /\ IF disposed THEN UNCHANGED <<draft, flags, shown>>
     ELSE /\ saving' = FALSE
          /\ IF Landed THEN ClearDraft ELSE failed' = TRUE /\ UNCHANGED <<draft, conflicted>>
          /\ Publish

\* Refused by the host, or an answer that was lost.
MutateRejects ==
  /\ request \in {"applied", "refused"} /\ request' = "none" /\ written' = NoDraft
  /\ UNCHANGED <<host, mirror, draft, conflicted, disposed>>
  /\ IF disposed THEN UNCHANGED <<saving, failed, shown>>
     ELSE saving' = FALSE /\ failed' = TRUE /\ Publish

Dispose ==
  /\ ~disposed /\ disposed' = TRUE
  /\ UNCHANGED <<host, mirror, draft, flags, request, written, shown>>

---------------------------------------------------------------------------
(* The host, other writers and the mirror.                                 *)

\* The write is compared with the revision the card sent.
HostAnswers ==
  /\ request = "sent"
  /\ IF revision = draftRevision /\ revision < MaxRevision
     THEN /\ doc' = Overlay(doc, written) /\ revision' = revision + 1
          /\ request' = "applied"
     ELSE request' = "refused" /\ UNCHANGED host
  /\ UNCHANGED <<mirror, draft, flags, disposed, written, shown>>

OtherWrites(f, v) ==
  /\ revision < MaxRevision /\ doc[f] # v
  /\ doc' = [doc EXCEPT ![f] = v] /\ revision' = revision + 1
  /\ UNCHANGED <<mirror, draft, flags, disposed, request, written, shown>>

\* The mirror catches up, or the document becomes read-only and back.
Heard ==
  IF disposed THEN UNCHANGED <<conflicted, shown>>
  ELSE /\ conflicted' = (conflicted \/ (~saving /\ staged # NoDraft /\ seenAt' # draftRevision))
       /\ Publish

MirrorUpdate ==
  /\ seenAt # revision /\ seen' = doc /\ seenAt' = revision
  /\ UNCHANGED <<host, open, draft, saving, failed, disposed, request, written>>
  /\ Heard

MirrorTurns ==
  /\ open' = ~open
  /\ UNCHANGED <<host, seen, seenAt, draft, saving, failed, disposed, request, written>>
  /\ Heard

Next ==
  \/ \E f \in Fields : \E v \in Values : Stage(f, v) \/ OtherWrites(f, v)
  \/ Discard \/ SaveRefused \/ Save \/ MutateResolves \/ MutateRejects \/ Dispose
  \/ HostAnswers \/ MirrorUpdate \/ MirrorTurns

Spec == Init /\ [][Next]_vars

---------------------------------------------------------------------------
(* Properties.                                                             *)

\* A save changes a field only over the document its user saw when staging
\* that field: no other writer's change is overwritten unseen, however late
\* the mirror hears of it (draftRevision, pinned by the first stage).
OnlySeen ==
  [][request = "sent" /\ request' = "applied" =>
       \A f \in DOMAIN written : stagedAt[f] = revision]_vars

\* A staged field leaves the draft only when the user discards it or when the
\* mirror shows it saved: what is staged while a save runs is not lost with
\* it, nor is a draft whose write failed.
DraftKept ==
  [][\A f \in DOMAIN staged : f \notin DOMAIN staged' =>
       \/ ~saving
       \/ request = "applied" /\ f \in DOMAIN written
          /\ written[f] = staged[f] /\ seen[f] = staged[f]]_vars

\* What the card renders is what its state says, after every step of the
\* card, of the mirror and of a save that ends (every publish is in place).
ShownIsTrue ==
  ~disposed => shown = Projection(seen, open, staged, saving, failed, conflicted)
=============================================================================
