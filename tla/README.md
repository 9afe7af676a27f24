# Verification of banbo-dsh

This directory is a TLA+ development of the repository's own logic: five plugin
bundles for the DSH agent host (language-server diagnostics, delegation to agents,
a fish shell, session routes for pi-ai models, rtk command rewriting) and the lane
that releases them.  TLC checks the modules on small instances; the `*Proofs` modules
are checked by TLAPS for every value of the constants.

## 1. Inventory of the system

The program is JavaScript: one callback runs at a time, so an atomic step is the
code between two `await`s, and every interleaving of callbacks is a behaviour.
Components talk through calls, promises, `AbortSignal`s, host events
(`tools/post-execute`, `tools/change`, `agent/created`, `subagent/end`), files, child
processes and, in the release lane, a public package registry.

| Component | State it keeps | What is hard | What makes it correct | Module |
|---|---|---|---|---|
| LSP runtime (`dsh-lsp-diagnostics/runtime.js`) | admission, a tail per key, pool of sessions, retired teardowns | calls queue, abort and restart while servers crash, publish late or never answer | one call per key; a result is the caller's own; no process is orphaned; disposal ends | `LspPool`, `DiagnosisService` |
| Session teardown (same file) | write tail, handlers, budgets, process tree | a peer that stops reading, a tree that never exits | bounded; nothing survives, nothing is written afterwards | `LspTeardown` |
| Framing (`framing.js`) | buffer | chunk boundaries, limits | chunking is invisible | `LspFraming` |
| Workspace root (`workspace-root.js`) | none | markers change during the walk, aborts | nearest marked level seen | `LspWorkspace` |
| Normalisation and rendering (`runtime.js`, `render.js`, `tool.js`) | none | orders, budgets, broken UTF-16 | order-independent, within the limits | `LspRender` |
| Collector and coordinator (`collector.js`, `coordinator.js`, `index.js`) | generations, markers, operations, the gate | deadline, abort, stat and diagnosis in any order | only the newest mutation is reported, once, never after an abort | `LspCoordinator` |
| `lsp_diagnostics` tool (`tool.js`) | mutation epochs | the file changes while it is diagnosed | an answer misses no mutation | `LspTool` |
| Delegation (`delegation.js`, `holder-registry.js`, `budget.js`) | holders, leases, slots | children end, hang or are cancelled while the parent is drained | every slot is given back once; what may live is registered | `Delegation` |
| Child authority (`main-runtime.js`, `child-authority.js`, `child-composition.js`) | parked compositions, live identities, two durable facts | crashes, cold resumes, damaged or forked records, settings changes | a child never sees more than was authorised | `ChildAuthority` |
| Identity store (`identity.js`) | one file per child | several writers, death between two file system calls | never half a record, never another's removed | `IdentityStore` |
| Preset generations (`preset-compiler.js`, `index.js`) | generations and a pointer on disk | late failures, crashes, Hosts at the same time | `current` names a complete generation | `Generations` |
| Catalog (`schema.js`, `catalog.js`, `tool-surface.js`) | frozen records | merge of two layers | delegations end; a scoped form has no shell | `Catalog` |
| Settings card (`src/client/controller.ts`) | draft and revision | replies and mirror out of order | a save overwrites only what its user saw | `SettingsCard` |
| Persistent fish (`persistent.js`, `terminal-fish.js`) | a cached shell per manager | creation, abort, exit, mode change and owner cleanup race | no shell leaks; a mode is fenced | `FishShell` |
| What a fish command answers (`persistent.js`) | scrollback, increments | paged reads of a scrollback that forgets | what it printed, or marked as a part | `FishOutput` |
| Fish policies (`policy.js`, `terminal-tools.js`) | registrations per agent | re-entrant `tools/change`, preset switches | registrations fit the preset | `FishPolicy` |
| One-shot fish tool (`tool.js`, `local.js`) | the process of one call | escalation, cancel before the handle exists | it runs under the policy that was approved; it ends when cancelled | `FishTool` |
| pi-ai adapter (`index.js`, `adapter.js`, `stream.js`) | routes, one call's table | settings change during a call, silent providers | one table per call; one terminal event | `PiAi` |
| rtk (`index.js`, `rewrite-decision.js`, `grep-compress.js`) | a shared decoration | several mounts, aborts | one oracle call; a denied command does not run | `Rtk` |
| Release lane (`scripts/release`) | journal, registry, git tags | a dispatch dies anywhere; stale reads; other publishers | published once with the packed bytes; `latest` moves when the release is whole | `ReleaseLane` |
| npm access of the lane (`lib/registry.mjs`, `release.mjs`) | one deadline | answers missing, damaged, refused or late | absence is proven; one budget | `NpmRegistry` |

Not modelled components are in section 6.

## 2. Structure and plan

A module describes one component.  A composite puts components with no common
state side by side: its variable `which` names the component a
behaviour is about, the others stay at a fixed initial state, so that its state space is the sum of
theirs and each component takes all of its own steps.  Real interactions are inside modules (the pool
and its teardowns, the coordinator and the collector, delegation and the holder registry) or
stated as an interface: `DiagnosisService` is what the runtime promises its
clients and `LspPool` implements it; the teardown step the pool takes as one is
`LspTeardown`; the readback the lane takes as one is `NpmRegistry`.

| Composite | Components |
|---|---|
| `MCLspPool` | `LspPool` alone, for liveness and refinement |
| `MCLsp` | `LspPool`, `LspFraming`, `LspWorkspace`, `LspRender` |
| `MCHost` | `LspCoordinator`, `LspTool`, `Rtk`, `PiAi` |
| `MCReleaseLane` | `ReleaseLane`, `NpmRegistry` |
| `MCFish` | `FishShell`, `FishPolicy`, `FishOutput`, `FishTool` |
| `MCAgents` | `ChildAuthority`, `Delegation` (two instances), `IdentityStore`, `Generations`, `Catalog`, `SettingsCard` |
| `MCEndings` | `LspTeardown`, `LspCoordinator`, `ReleaseLane`, `FishShell`, `PiAi`, with their fairness |
| `MCDelegation` | `Delegation` alone, for a finding |

What is left to do, most important first: a proof of `NoticeFaithful`;
`Delegation` as an implementation of an abstract slot counter; the guard of path-scoped writes; the
contract checks of `delegate_batch`.

## 3. Runs

Deadlock is checked in `lsp_pool_live`, `host`, `release_lane`, `fish` and `endings`: modules whose
work may be over stutter in a named final state.  `lsp` and `agents` switch it off
because calls there are used once and a child may hang.

### `lsp` (MCLsp, Lsp.cfg)

Three interchangeable calls for one document, one key, two sessions: one in service, one
queued, one behind it that gives up; at most one of the three is aborted
(`lsp_pool_live` aborts both of its calls); a session and the one replacement the code allows.
Streams of eight bytes of three kinds, cut anywhere, with a header cap of four and a body cap of one
(`MaxStream`, `MaxHeader`, `MaxBody`), so that streams of several frames, of headers cut inside the terminator and
of lengths over each cap occur; three directory levels with two marker changes (`Depth`, `MarkerWrites`); publications of at most two diagnostics of seven kinds (line breaks of every form, lone and
paired surrogates, unreadable ranges and severities), two files, four settings.

- `NeverReopened`, `Owned`, `DisposedMeansGone`: a session that is closing takes no call; a process
  that lives or may still be spawned is in its slot or has a running teardown; after `dispose()` none is left.
- `EarlyFailureRestarts`: the second attempt happens exactly when the first session failed before it was used.
- `FramesSound`: however the bytes arrive, the messages and the failure are the same, and what is retained is bounded.
- `NearestRoot`: the answer is the nearest marked level the probes saw or the fallback the caller allows, and none after an abort.
- `NoticeFaithful`: what the runtime normalises passes every check of the renderer; the text shows
  neither the order of mutations nor the server's; its budget of lines and its cap in code points hold for any
  strings, and no half of a surrogate pair is shown; the notice and the tool show the same lines.

### `lsp_pool_live` (MCLspPool, LspPoolLive.cfg)

Two calls for two documents share one session while one later write per document makes an old
publication wrong.  `OwnText`: an ok outcome is about the text its call read.
`Implements`: the pool implements `DiagnosisService` (a call is asked, served and
settled; `ahead` holds the unsettled calls of its key asked before it).  The mapping computes
`stage` from `call[c].pc` and `ahead` from the queue.  `CallsSettle` and `DisposeResolves` hold under
`FairSpec`: ready callbacks run, resolvers and spawns settle, each call's signal
fires (both clients pass one with a deadline).  Nothing makes a server answer.  Fairness of
`TeardownDone` is what `LspTeardown` shows, *if* write callbacks come; see `lsp_teardown_stuck`.

### `host` (MCHost, Host.cfg)

Two interchangeable execs on one file with two versions, two generations and two mutations, at most one of them aborted
(`FewAborts`; the proofs of `HostProofs` about the coordinator alone have no such bound); one call of the
tool (`ToolCalls`, `ToolVersions`, `ToolSeen`) on a file whose version may come back; rtk under two mounts with one command; one model call with two settings writes.
`MaxGen` stands for `Number.MAX_SAFE_INTEGER`, and the exhausted counter is reached in `endings`.

- `OnlyNewest`, `NoneAfterAbort`: entries are for the newest observed mutation; nothing is published after a caller's or the cleanup's abort.
- `ResultsKept`: an older candidate never takes the newer one's marker, and no accepted mutation is dropped in silence.
- `CleanupComplete`: no marker outlives its exec, and when the runtime has been disposed no retired read is under way and no exec is at work.
- `ToolSound`: no answer misses a mutation observed since its first stat, even when the file is restored; no call meets a disposed runtime.
- `RtkSound`: the decoration lives as long as its owners, a result is compressed once, a command asks once and never runs after a denial.
- `RequestsSound`: a call uses the table it started with, and its stream ends exactly once.

### `release_lane` (MCReleaseLane, ReleaseLane.cfg)

Two packages, two releases that share one version, two builds, one fault
(a failing command, a lost runner, another publisher).  Two packages give a partial release, two releases an unchanged
package, two builds other bytes.  `NpmRegistry`: budget 8 ticks, delays 1 to 4, three
attempts, two changes by others; answers with up to two lines, each about ours or
another package or version, on the error or the notice channel.

- `RecordedIsThere`: what any journal records as published is on the registry with that integrity.
- `LatestMovesWhole`, `NoRepublish`, `CompleteMeansReleased`: `latest` moves only when the whole release is there;
  no published version is published again; a completed release is tagged, promoted and has its GitHub releases.
- `AbsenceProven`: "absent" and "removed" are answered only when the read path said so; a refusal never is an absence.
- `OneBudget`: reads, the command, pauses and the poll of one removal spend one budget and stop exactly at its end.

### `fish` (MCFish, Fish.cfg)

Two managers (a preset switch leaves the old one behind), two calls of which one may be aborted or timed out
(`FewCuts`; the theorems about `FishShell` alone have no such bound), two modes, two shells, one failing close; two
agents and four host events, in the dispatch of each of which another plugin may switch a preset once (`MaxMeddles`; `PoliciesSettle` is for any number); a tape of nine tokens (`MaxTape`) over a scrollback of five
lines (`MaxLines`) read in pages of two (`PageLines`) or as a viewport of two (`Screen`); one call with two mode changes.

- `ModeFenced`: no shell lives, or is being created, under a mode that is no longer the agent's.
- `ShellsSound`: nothing is left after the owner's cleanup; a reset gives the next command a fresh shell.
- `PolicySettled`: when a dispatch is over, each agent the policies cover has exactly the registrations its present preset
  asks for, each once, and no other agent has any.  Excepted are agents that another plugin switched where no install looks
  again (`missed`; section 5): they have the swap of some preset, whole, or none.
- `OutputHonest`: an answer is what stands between the command's markers, whole or marked as partial.
- `CommandsConfined`: a process runs under the session's policy or the one that was approved for it, the handle of a cancelled job is killed once it is adopted, also when it came later (the job may still end completed or failed), and what a job tells is what became of its process.

### `agents` (MCAgents, Agents.cfg)

Two mains and two kinds of children in a chain, two ids, depth two, one settings change, two damaged facts;
a batch of two beside a job (`RunCalls`) and beside a continuable child (`KeepCalls`) on two slots; three writers of one identity; three
starts of one Host with two edits; a packaged and a user file of every kind (`CatalogInputs`) and every graph of three agents (`CatalogIds`); a card
with two fields over three revisions.

- `AuthorityHolds`: a child's tools stay within what its delegation authorised over resumes, crashes, forks and damage; it comes up
  only under an enabled definition and its own main; every delegation follows an edge of who the caller really is.
- `ChildrenAccounted`: each child that may live has a holder; slots, identities and statuses agree with what children do.
- `RecordsStay`: a sidecar is whole and is taken back by its own writer only.
- `GenerationsSound`: `current` names a complete generation that keeps every shape published before; a failed start restores it, or reports that it could not.
- `CatalogSound`: accepted definitions have no endless delegation; a form whose writes are confined has no shell; no form gets two shells unasked.
- `DraftsKept`: a save overwrites only what its user saw; a draft is lost only when saved or discarded.

### `endings` (MCEndings, Endings.cfg)

Smaller instances with fairness.  Each conjunct of `Fair` is restricted to the behaviours of its component:

| Component | Assumed | Because |
|---|---|---|
| teardown | its steps run, timers fire, a bootstrap settles, write callbacks come | event loop; the last is an assumption, see `lsp_teardown_stuck` |
| coordinator | the transaction's ready callbacks run, its deadline fires | event loop; a final stat may hang; `CleanupEnds` has the premise that stats and listeners settle, which the cleanup awaits |
| release | steps run, reads catch up, the candidate tag's other publishers finish, the operator resumes again and again (strong, since a dispatch needs the lane to be free) | the workflow's `prior_run_id` |
| fish | timeouts fire, ready call, creation and manager steps run, a gone owner is cleaned up | event loop and timers; PTY operations settle at the latest when their signal aborts |
| model call | ready steps and microtasks run, the idle timer fires | event loop |

`TeardownSound` (nothing survives, nothing is written late, it ends), `AugmentEnds` (also with an exhausted generation
counter), `Recovers` (one release, two faults; with a second build it would not hold, since different
bytes are refused by design), `ShellsEnd`, `ReadsEnd`.

### Runs that show a disagreement

| Run | What happens |
|---|---|
| `lsp_teardown_stuck` | `teardown` awaits all handlers without racing its budget (`runtime.js:1653`): with a peer that stops reading it does not end |
| `release_lane_resume` | `pack` overwrites `promoted` of an adopted journal (`release.mjs:572`), so a resumed dispatch promotes again what was promoted |
| `delegation_drain` | a disposal that rejects inside the grace leaves a live child the drain does not report (`holder-registry.js:179`) |
| `fish_lost_shell` | a close that fails while an aborted creation resets leaves a shell that no later reset finds (`persistent.js:614`) |
| `generations_race` | two Hosts: one prunes the generation the other has just pointed `current` at (`preset-compiler.js:841`) |

## 4. Proofs

Checked by TLAPS for every value of the constants, from the named assumptions only.  A theorem that names
`AllSpec` is about the composite of its runs: a component's own invariant is kept because every step
is a step of that component or leaves its variables alone.

| Module | Theorem (property) | Argument |
|---|---|---|
| `LspProofs` | `TypeCorrect`, `ProcessesOwned` (`Owned`), `DisposalComplete` (`DisposedMeansGone`), `NothingAfterDispose` | `PoolInv`: each session created is in the slot of its key or has a teardown (`Tracked`), a closing session has one (`Coherent`), and after the snapshot of `dispose` no slot is taken and, once done, no teardown runs (`AfterDispose`).  `Owned` alone is not inductive: a session may be neither alive nor resolving and still come alive |
| | `RuntimeImplementsService` (`Implements`), `OneAtATime` | `LineInv`: each call asked and not settled stands in its key's line exactly once, a line holds only calls of its key, and whoever precedes a served call is settled.  Every step then means nothing, one `Serve`, one `Settle`, an `Ask` or the `Close` |
| | `OneOpenPerProcess` (`NeverReopened`), `ResultsAreOwn` (`OwnText`) | `ResultInv` relates three things that each step moves separately: what a session has sent and opened (`Sent`), the waiter it holds for the one call that uses it (`Waits`), and what that call read (`Own`).  Since one call of a key is served at a time, a waiter can only be the server's newest version of that call's text |
| | `EarlyFailuresRestart` (`EarlyFailureRestarts`) | by `ResultInv` a call that throws before the write of its document has a session that accepted nothing for it, so that it may restart whatever the server had published |
| | `FramesKept` (`FramesSound`) | `FrameInv`: the buffer is what has come of one frame, which began where the byte-wise reader stood before a header with the same messages.  Lemmas say what that reader does over a header and over a body, that one `Step` on a buffer agrees with it (`Stepped`), and that the loop of `push` ends where the bytes do (`Drained`), since each round takes at least a byte |
| | `NearestRootFound` (`NearestRoot`) | `RootInv`: each level the walk has left was seen unmarked by a probe, whatever was written since, and there is no root before the answer |
| `HostProofs` | `TypeCorrect`, `NewestReported` (`OnlyNewest`), `SilentAfterAbort` (`NoneAfterAbort`) | `CollectorInv` ties three counts together: a candidate's generation is its place among the observed mutations, a marker holds the last of them or none, and the counter is one ahead until it stops.  For aborts `KindKnown`: a running operation knows of an outside abort even when its deadline had fired before |
| | `NoneLost`, `ResultsStay` (`ResultsKept`) | `KeepInv`: candidates of an exec are unique per file and never newer than what was seen, and the newest of a file is pending, held or retired.  Each step rests, retires its own or leaves the newest where it is |
| | `CleanupLeavesNothing`, `CleanupCompletes` (`CleanupComplete`) | `GateInv`: what an operation with a closed gate still waited for is retired (`GivenUp`), and once the cleanup has drained no transaction is between its start and its end and nothing retired is under way (`Drained`) |
| | `ToolTypes`, `MutationsNoticed`, `DisposalQuiet`, `ResultsGated`, `ToolKeeps` (`ToolSound`) | `EpochOrder`: epoch <= mutations at the first stat <= mutations now; an equal epoch at the end closes the gap |
| | `RequestsServed` (`RequestsSound`), `RtkKeeps` (`RtkSound`) | the theorems about `PiAi` and `Rtk`, carried to the composite |
| | `ShellDecorated`, `GrepsOnce`, `CommandsObey` | of any `Rtk!Spec`.  `RtkInv`: the references are as many as the mounted fibers (a cardinality); how deep a grep result is nested is its place in the chain of listeners, and only the innermost attempts it |
| `PiAiProofs` | `RoutesServed`, `ProviderPinned`, `EndingsTrue` | `PiInv`: what the plugin believes registered is what the llm service holds (`Registered`), what a call has read is of the one profile its pinned table has for its route (`Begun`), and its outcome fits what is still out (`Ended`) |
| `ReleaseLaneProofs` | `TypeCorrect`, `JournalsTell` (`RecordedIsThere`), `LatestWhole` (`LatestMovesWhole`) | `LaneInv`: the read path never answers bytes that are not there, everything is packed once pack is over, after finalize's verification all packages are on the registry with these bytes; bytes are never replaced |
| | `NeverAgain` (`NoRepublish`) | `MemoryInv`: what a journal records is not only there but *served*, so that the lagging read of a later dispatch sees it, and what its pack found absent no journal records.  `RecordedIsThere` says too little: publish is guarded by a read, not by the registry |
| | `CompleteReleased` (`CompleteMeansReleased`) | `LoopInv`: of each loop over the packages, those before `at` are done and stay done through the later loops |
| | `AbsencesProven` (`AbsenceProven`), `BudgetHolds` (`OneBudget`) | `NpmInv`: an operation has no result before it is over and its clock stays within one budget; lemmas say what a read that answers, is refused or runs out of time may print, and that a pause is cut to what remains |
| `FishProofs` | `ShellsKeep`, `ModeHolds` (`ModeFenced`), `SessionsSound` (`ShellsSound`) | `ShellInv`: a manager's line is what it serves (`LineInv`), a shell that runs is in its manager's cache, being created by the one call that holds it, or being closed (`CreateInv`, `LiveInv`), one that runs or is being created has the mode of now (`ModeInv`), and a manager that ended has none (`EndInv`).  Neither property is inductive: both depend on a shell in creation that no field of the manager names |
| | `PoliciesKept` (`PolicySettled`) | `PoliciesSettle`, for the instance of the composite |
| | `OutputKept` (`OutputHonest`) | `OutputInv`: each marker stands on the tape once, the start before the end and after all that was old (`Marked`), and the increments kept are one piece of the tape unless something was cut (`Piece`).  Lemma `Retained`: the pages put together are the retained part of the tape; the recursive function of the paged read has that solution and, by induction, no other |
| | `CommandsKept` (`CommandsConfined`) | a call carries the policy it was approved with, and a job's end is told by the handle's |
| `FishPolicyProofs` | `PoliciesSettle` | the property speaks of an empty call stack, its invariant of every frame of a re-entrant dispatch: the registrations in force for an agent are those in the hand of the frame that works for it, or else those its policy has noted (`Accounted`); what an agent or plugin that goes away still has is named by the frame that will take it away (`Left`); and each agent of a mounted policy is right, or a frame below will see to it: a round or an event still ahead of it, an install for its present preset, or it is one no install looks at again (`Served`).  A frame's guards are the frame (`Matched`), and no agent is worked for twice (`Unique`) |
| `DelegationProofs` | `Accounted` | `DelInv`: the slots in use are as many as the leases held (`Counted`, a cardinality), and a child's holder, place and what was told of it agree (`Owned`, `Placed`, `Told`) through a batch's grace and the drain |
| `AgentsProofs` | `AuthorityKept` (`AuthorityHolds`) | `AuthorityInv`: of a child's two durable facts, the live composition and what was granted, each of our kinds has those that agree (`FactsOf`), whichever is lost or exchanged; `EdgeOf`: the caller was who it says |
| | `IdentitiesStay` (`RecordsStay`) | `IdInv`: a temporary file that may be published is whole, and with links the target is the text of whoever published until that one has compared it and takes it back |
| | `DraftsStay` (`DraftsKept`) | `CardInv`: a draft was pinned no later than any of its fields was staged, and a request under way carries the draft, staged at one revision |
| | `GenerationsStay` (`GenerationsSound`) | `GenInv`: a boot remembers the pointer it found, and that one keeps each shape published (`KeepsAbi`) at every stage, through both ways to swap it |
| | `CatalogAccepts` (`CatalogSound`) | the search of `assertAcyclic` is a recursion within a fold.  Lemmas: a fold over a finite set keeps what its base and each step keep (`WalkKeeps`); the recursion has a solution, by induction on how many agents are still new (`VisitRight`); and its marks tell the truth (`MarksTell`): a cycle was there, or the delegations of every finished agent stay among finished ones and never come back to it.  What `Reach` gives in as many steps as there are agents is closed, for until then each step adds one.  `CatInv`: a form's tools are its allowlist of some earlier moment, and every merged form is one that can be enforced |
| | `ChildrenStay` (`ChildrenAccounted`) | `Accounted` for the two instances of the composite |

Assumptions: `CallAssumption`, `BoundAssumption` (one of the pool, one of the coordinator), `TargetAssumption`,
`LaneAssumption`, `NoJournalAssumption`, `NpmAssumption`, `ShellAssumption`, `GrantsAreTools`, `LimitsAreNumbers`,
`WritersTell`, `BoundsAreNumbers`, `OneChildEach`, `CatalogIsFinite`, `RefusalToldApart`, `FilesFormed` (a layer has an
entry for every id, a form names known capabilities).  They give constants their types, keep "none" values out of the
sets they are added to, and say that a call that is no batch has one child; TLC evaluates them.  `LspLimits`
(five bounds are numbers), `OutputLimits` (a page has a line at least, the tape room for what an earlier command left) and `RtkAssumption` (a finite set of mounts) are of the composites.  Three modules
are only instantiated, so their theorems have a hypothesis about their constants instead: `Configured` (`PiAi`: a route is a
source, a profile is not the missing one), another `Configured` (`FishPolicy`: finitely many agents, each with a known kind
of registration of its own, and bounds that are numbers) and `Delegates` (`Delegation`, which `OneChildEach`
discharges for both instances).  `MCHost` fixes the constants of `PiAi`, so `RequestsServed`
is about its instance and the theorems it cites about every one; `MCFish` fixes those of `FishPolicy`, so that `PoliciesKept` is
about four presets, two agents, four events and one switch per dispatch and `PoliciesSettle` about any, and the two mode changes
of `FishTool`; `MCAgents` fixes the one Host of `Generations`, and `MCLsp` the three kinds of bytes of the decoder.

Where a proof needs induction over a length (a header of any size, a loop of any number of rounds), it uses sets: a set that
contains 0 and, with each number, the next one contains every number (`Inductive`, proved from the cardinality of finite
sets: the members up to n would have an injection into themselves without 0).

The guards of a CASE exclude each other wherever it is used: where they overlap TLC takes the first and TLA+ allows any, so that
a proof would be about more behaviours than the runs.

Only model-checked:

- `NoticeFaithful`: it is about what sorts and folds over strings compute.  The induction above would serve them too; it has not been done.
- `CallsSettle`, `DisposeResolves`, and all of `endings`: liveness under fairness, with the safety half of `TeardownSound`,
  which is stated of `MCEndings` only.

## 5. Abstractions worth knowing

- **LspPool, LspTeardown.**  A publication carries the text its server computed it from.  A session beyond `MaxSessions` is not created and its call stays where it is, so the liveness run has calls that need one.
- **LspCoordinator, LspTool.**  Workspace resolution and its stat are one step; outcomes that publish text are one "answer"; commit and gate are two steps, which allows more than the code.
- **LspRender.**  A string is the sequence of its UTF-16 units, fixed wording and the marker are short, `MaxPos` stands for `MAX_SAFE_INTEGER`, `code` and `source` are left out.
- **Delegation.**  `cancel()` has no state: it obliges the manager to nothing.  A foreground call is a background call no job registry can refuse.  `runtimeForCall` (`delegation.js:1257`) hands no agents registry to a call, so a child with a write scope is refused after it was published (`Scoped`), against the comment at `delegation.js:1500-1503`.  `subagent/end` comes after `startActivation` returned.
- **ChildAuthority.**  A one-shot child is never materialised again.  A child that lost both facts is not ours by design and keeps the harness's surface; the model damages one at a time.  A recorded allowlist is honoured under the definition's current form.  Activation of a main is one step.
- **IdentityStore.**  Every writer has a text of its own: rollback compares and then removes, which two processes with identical text could not tell apart.
- **Generations.**  On a file system without atomic replacement the swap may leave `current` absent, as the code documents; a prune cut by a crash may leave the marker without its manifest.  `agents` has one Host; the race of two is the violation run.
- **Catalog.**  A user file that omits `allowedChildren` gets none (`schema.js:681`), one that omits the budget the default (`:719`), and `preferBackground: false` is dropped (`:756`), although `catalog.js:56-59` speaks of fields an override inherits; the partial override of `docs/agents-plugin-plan.md:799` is refused by the full validation.
- **FishPolicy.**  Another plugin may answer any `tools/change`, in any round or install, with a preset switch; of what else it could do there (registrations of its own) nothing is modelled.  `Mount` either empties the module-level `removed` (a reloaded module) or keeps it (disabled and enabled again).  Two things the code does not achieve are therefore excepted from `PolicySettled`, by name:
  - *Switches no install looks at again.*  `installFishPolicy` is said to be "Recomputed on every preset switch" (`policy.js:207-209`).  A switch that answers the registrations of the install made by the agent's own `agent/created` is skipped, for the agent is in `installing`, and the install commits under the `parentKey` it read before (`:219-229`, `:290-296`); one that arrives when the catch-up round has passed the agent by is dropped (`:341-350`); one away and back around an install that is under way or noted for that preset meets the fast path (`:235`).  The old swap then stays until the next `tools/change`, and in the last case until the agent's next switch.  The history variable `missed` is decided at the switch itself, by `PassedBy` and `BegunFor`, and cleared by the next install that does not skip the agent.  Without the exception TLC finds the first case in 27 steps: a mount, a publication, one switch in the middle of its install.
  - *Enabled again.*  A teardown puts every live agent into `removed` (`:96`, `:199`), so that a plugin enabled again without being reloaded skips them (`:223`) although `apply` means to "cover agents that already exist (plugin hot-reload)" (`:353-357`).  `Covers` leaves these agents out; they must have nothing.  Without it TLC needs a mount, a publication, an unmount and a mount.
- **FishOutput.**  The end marker is looked for in the newest page only, so more than a page of background output between two polls hides a finished command until its deadline.  The cap on an answer is left out, and `read` of a terminal is external.
- **FishTool.**  A kill that throws in `cancel()` is not retried.  `approveEscalation` is external; the working directory is left out.
- **SettingsCard.**  The mirror always shows a value; of one that shows none the code says that nothing has `landed`, which keeps the draft.
- **PiAi.**  A profile is a value with the facts the llm service captures; the conversion of messages and of model metadata is left out.
- **ReleaseLane.**  `RemovalFails` is the failed command and the read that decides its outcome (`release.mjs:1158-1193`) in one step.  Dispatches are serial (the workflow's concurrency group), an atomic push is one step, the last final journal of a release and dry-run flag is kept.
- **NpmRegistry.**  A read that is not authorised shows evidence of it; ticks are exact.  Between the read before a removal and the command another release may move the tag, and its tag is then removed: npm has no compare-and-delete, as the code's comment says, but that a tag which is not ours "is never reported as removed" does not hold in that window.  The check for a stalled clock concerns test seams.

## 6. What is not modelled

Path policies (`path-policy.js`: what decides is the operating system's real path), persona files, the
composition template and tool inventory (`preset-compiler.js`), schemas of single fields (agents and LSP
configuration), `delegate_batch`'s contract checks and the tools' descriptions, `guardResumedChildScope`
(`main-runtime.js:318`, which runs only where no sidecar exists), telemetry, pi-ai's
`context.js` and `model.js`, argument vectors, environments and rendered results of the fish tools, rtk's deprecated
helpers, git and toolchain checks of the release preflight, staging, tarball and npm
capability checks, the settings page's components and catalog remote: sequential code without
state that outlives a call.  The generated client bundle (`agents/lib/client.js`, nearly half of the repository's lines) is build
output of `src/client`.  The QA harness, CI and sync scripts drive external programs.
`PROJECT.json` lists every component with its status.
