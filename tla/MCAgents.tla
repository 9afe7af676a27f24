-------------------------------- MODULE MCAgents --------------------------------
(* The agents plugin: what children may do; the runs of two delegation     *)
(* calls and their drain, a batch of two beside a job (run) or beside a    *)
(* continuable child (keep); the writers of one child's identity; the      *)
(* settings card; the generations of presets over the starts of a Host;    *)
(* and the catalog, an agent with a packaged and a user file of every kind *)
(* and every graph of three agents.  A behaviour is about one of them, the *)
(* others stay as they start.                                              *)
EXTENDS ChildAuthority, TLC

CONSTANTS CallOfEach, ModeOf, RunCalls, RunChildren, RunScoped, KeepCalls,
          KeepChildren, Slots, NoField, Refused, Writers, Fields, Settings,
          MaxRevision, PresetAgents, MaxBoots, MaxEdits, CatalogIds,
          CatalogNames, CatalogInputs

VARIABLE which   \* the component this behaviour is about

ASSUME WritersTell == Writers \cap {"none", "half"} = {}
ASSUME BoundsAreNumbers == MaxRevision \in Nat /\ MaxBoots \in Nat /\ MaxEdits \in Nat

ASSUME CatalogIsFinite == IsFiniteSet(CatalogIds)
ASSUME RefusalToldApart == Refused # NoField /\ ~(DOMAIN Refused \subseteq CatalogIds)
\* A layer has an entry for every id; a form names known capabilities.
ASSUME FilesFormed ==
  \A in \in CatalogInputs : \A layer \in {in[1], in[2]} :
    /\ DOMAIN layer = CatalogIds
    /\ \A i \in CatalogIds : layer[i] # NoField /\ layer[i].child # NoField =>
         /\ DOMAIN layer[i].child = {"tools", "extra", "scope", "keep", "cont"}
         /\ layer[i].child.tools \subseteq {"read", "write", "exec"}

EdgesDef == ("m1" :> {"k1"}) @@ ("m2" :> {"k2"}) @@ ("k1" :> {"k2"}) @@ ("k2" :> {})
AllowDef == ("k1" :> {"read"}) @@ ("k2" :> {"read", "write"})

OneOfEach == ("h1" :> "job") @@ ("h2" :> "kept") @@ ("h3" :> "batch") @@ ("h4" :> "batch")
Modes == ("job" :> "background") @@ ("kept" :> "continuable") @@ ("batch" :> "batch")

\* Every writer's record is its own.
Payloads == [w \in Writers |-> w]

\* No agent has the id under which a refusal is kept.
NoCatalog == [refused |-> TRUE]
File(children, main, child) == [children |-> children, main |-> main, child |-> child]
Main(preset) == [preset |-> preset, budget |-> NoField]
Plain == [tools |-> {"read"}, extra |-> NoField, scope |-> NoField, keep |-> NoField,
          cont |-> "optional"]
Forms == [tools : {{"read"}, {"read", "exec"}}, extra : {NoField, {"fish"}, {"other"}, {"ralph"}},
          scope : {NoField, "dir", "cancel"}, keep : {NoField, "no", "yes"},
          cont : {"one-shot", "optional"}]
BaseForms == [tools : {{"read"}, {"read", "exec"}}, extra : {NoField, {"other"}},
              scope : {NoField, "dir"}, keep : {NoField, "yes"}, cont : {"optional"}]
OnlyQ(f) == [i \in CatalogIds |-> CASE i = "p" -> f [] i = "q" -> File(NoField, NoField, Plain)
                                 [] OTHER -> NoField]
OnlyP(f) == [i \in CatalogIds |-> IF i = "p" THEN f ELSE NoField]
NoFile == [i \in CatalogIds |-> NoField]
Graphs == {[i \in CatalogIds |-> File(g[i], IF i \in m THEN Main("x") ELSE NoField,
                                   IF i \in k THEN Plain ELSE NoField)] :
             g \in [CatalogIds -> SUBSET CatalogIds], m \in {{}, {"p"}, {"p", "q"}},
             k \in {CatalogIds, {"q", "r"}}}
Layers == {OnlyQ(File({"q"}, m, f)) : m \in {NoField, Main("x")}, f \in BaseForms}
Overrides == {OnlyP(File(c, NoField, f)) : c \in {NoField, {"q"}}, f \in Forms}
             \cup {OnlyP(File({"p"}, Main("standard"), Plain)), NoFile}
Tried == (Layers \X Overrides) \cup ({NoFile} \X (Overrides \cup Graphs))

VARIABLES run_running, run_lease, run_pc, run_final, run_holder, run_child,
          run_parked, run_identity, run_terminal, run_closed, run_boundary,
          run_kept, run_drain
run_vars == <<run_running, run_lease, run_pc, run_final, run_holder,
              run_child, run_parked, run_identity, run_terminal, run_closed,
              run_boundary, run_kept, run_drain>>
Run == INSTANCE Delegation WITH
  Calls <- RunCalls, Children <- RunChildren, CallOf <- CallOfEach,
  Mode <- ModeOf, Scoped <- RunScoped, Limit <- Slots,
  running <- run_running, lease <- run_lease, pc <- run_pc,
  final <- run_final, holder <- run_holder, child <- run_child,
  parked <- run_parked, identity <- run_identity, terminal <- run_terminal,
  closed <- run_closed, boundary <- run_boundary, kept <- run_kept,
  drain <- run_drain

Keep == INSTANCE Delegation WITH
  Calls <- KeepCalls, Children <- KeepChildren, CallOf <- CallOfEach,
  Mode <- ModeOf, Scoped <- {}, Limit <- Slots,
  running <- run_running, lease <- run_lease, pc <- run_pc,
  final <- run_final, holder <- run_holder, child <- run_child,
  parked <- run_parked, identity <- run_identity, terminal <- run_terminal,
  closed <- run_closed, boundary <- run_boundary, kept <- run_kept,
  drain <- run_drain

VARIABLES id_links, id_target, id_temp, id_pc, id_result
id_vars == <<id_links, id_target, id_temp, id_pc, id_result>>
Sidecar == INSTANCE IdentityStore WITH
  Writers <- Writers, Payload <- Payloads,
  links <- id_links, target <- id_target, temp <- id_temp, pc <- id_pc,
  result <- id_result

VARIABLES gen_files, gen_posix, gen_pointer, gen_parked, gen_whole,
          gen_partial, gen_pc, gen_boots, gen_edits, gen_before, gen_mine,
          gen_keep, gen_published
gen_vars == <<gen_files, gen_posix, gen_pointer, gen_parked, gen_whole,
              gen_partial, gen_pc, gen_boots, gen_edits, gen_before,
              gen_mine, gen_keep, gen_published>>
Gens == INSTANCE Generations WITH
  Hosts <- {"h"}, Agents <- PresetAgents, AtOnce <- 1, MaxBoots <- MaxBoots,
  MaxEdits <- MaxEdits,
  files <- gen_files, posix <- gen_posix, pointer <- gen_pointer,
  parked <- gen_parked, whole <- gen_whole, partial <- gen_partial,
  pc <- gen_pc, boots <- gen_boots, edits <- gen_edits, before <- gen_before,
  mine <- gen_mine, keep <- gen_keep, published <- gen_published

VARIABLES cat_builtin, cat_user, cat_catalog, cat_registered, cat_granted
cat_vars == <<cat_builtin, cat_user, cat_catalog, cat_registered, cat_granted>>
Cat == INSTANCE Catalog WITH
  Ids <- CatalogIds, Inputs <- CatalogInputs, Names <- CatalogNames,
  Absent <- NoField, Refused <- Refused,
  builtin <- cat_builtin, user <- cat_user, catalog <- cat_catalog,
  registered <- cat_registered, granted <- cat_granted

VARIABLES card_doc, card_revision, card_seen, card_seenAt, card_open,
          card_staged, card_stagedAt, card_draftRevision, card_saving,
          card_failed, card_conflicted, card_disposed, card_request,
          card_written, card_shown
card_vars == <<card_doc, card_revision, card_seen, card_seenAt, card_open,
               card_staged, card_stagedAt, card_draftRevision, card_saving,
               card_failed, card_conflicted, card_disposed, card_request,
               card_written, card_shown>>
Card == INSTANCE SettingsCard WITH
  Fields <- Fields, Values <- Settings, MaxRevision <- MaxRevision,
  doc <- card_doc, revision <- card_revision, seen <- card_seen,
  seenAt <- card_seenAt, open <- card_open, staged <- card_staged,
  stagedAt <- card_stagedAt, draftRevision <- card_draftRevision,
  saving <- card_saving, failed <- card_failed,
  conflicted <- card_conflicted, disposed <- card_disposed,
  request <- card_request, written <- card_written, shown <- card_shown

-----------------------------------------------------------------------------
\* Every component starts; only one of them goes on.
Subjects == {"authority", "run", "id", "gen", "cat", "card", "keep"}

AllInit ==
  /\ which \in Subjects
  /\ IF which = "id" THEN TRUE ELSE id_links = TRUE
  /\ IF which = "gen" THEN TRUE ELSE gen_posix = TRUE
  /\ IF which = "cat" THEN TRUE ELSE cat_builtin = NoFile /\ cat_user = NoFile
  /\ IF which = "card" THEN TRUE ELSE card_doc = [f \in Fields |-> "unset"]
  /\ Init /\ (IF which = "keep" THEN Keep!Init ELSE Run!Init) /\ Sidecar!Init /\ Gens!Init /\ Cat!Init /\ Card!Init

AllNext ==
  \/ which = "authority" /\ Next /\ UNCHANGED <<which, run_vars, id_vars, gen_vars, cat_vars, card_vars>>
  \/ which = "run" /\ Run!Next /\ UNCHANGED <<which, vars, id_vars, gen_vars, cat_vars, card_vars>>
  \/ which = "id" /\ Sidecar!Next /\ UNCHANGED <<which, vars, run_vars, gen_vars, cat_vars, card_vars>>
  \/ which = "gen" /\ Gens!Next /\ UNCHANGED <<which, vars, run_vars, id_vars, cat_vars, card_vars>>
  \/ which = "cat" /\ Cat!Next /\ UNCHANGED <<which, vars, run_vars, id_vars, gen_vars, card_vars>>
  \/ which = "card" /\ Card!Next /\ UNCHANGED <<which, vars, run_vars, id_vars, gen_vars, cat_vars>>
  \/ which = "keep" /\ Keep!Next /\ UNCHANGED <<which, vars, id_vars, gen_vars, cat_vars, card_vars>>

all == <<which, vars, run_vars, id_vars, gen_vars, cat_vars, card_vars>>
AllSpec == AllInit /\ [][AllNext]_all

-----------------------------------------------------------------------------
\* Every call but a batch is given one child.
ASSUME OneChildEach == Run!Delegates /\ Keep!Delegates

\* A child's tools stay within what its delegation authorised, also when it
\* is materialised again, and every delegation follows an edge of the agent
\* that asked (composeDelegatedChild, resolveCallerIdentity).
AuthorityHolds ==
  /\ MaterialisedRight
  /\ [](which = "authority" => TypeOK /\ NeverWider /\ EdgesHold)

\* A one-shot child that lives has a holder that will dispose or report it,
\* and the slots, the identities and the statuses of a call's children agree
\* with what they do (HolderRegistry, startOneShot, RootBudgetRegistry,
\* releaseOwnership, cancelRun).
ChildrenAccounted ==
  /\ which = "run" => /\ Run!TypeOK /\ Run!Registered
                      /\ Run!StatusTells /\ Run!IdentityKept /\ Run!SlotsReturned
  /\ which = "keep" => /\ Keep!TypeOK /\ Keep!Registered
                       /\ Keep!StatusTells /\ Keep!IdentityKept /\ Keep!SlotsReturned

\* An identity on disk is never half a record and never taken back by a
\* writer that did not publish it (writeChildIdentity, rollbackChildIdentity).
RecordsStay ==
  which = "id" => Sidecar!TypeOK /\ Sidecar!RecordsStay

\* A save overwrites only what its user saw, a draft leaves only saved or
\* discarded, and the card shows what its state says (save, landed, publish).
DraftsKept ==
  /\ Card!OnlySeen /\ Card!DraftKept
  /\ [](which = "card" => Card!TypeOK /\ Card!ShownIsTrue)

\* The pointer of the presets names a complete generation that keeps every
\* shape a Host published, also over failed and dead starts
\* (activateGeneration, restoreGenerationPointer).
GenerationsSound ==
  which = "gen" => Gens!TypeOK /\ Gens!CurrentIsWhole /\ Gens!AbiKept /\ Gens!FailureRestores

\* The catalog accepts exactly the definitions whose delegations end, and a
\* form whose writes are confined never gets a shell, nor two shells unasked
\* (loadCatalog, compileAllowlist).
CatalogSound ==
  which = "cat" => Cat!TypeOK /\ Cat!DelegationEnds /\ Cat!ScopeHolds /\ Cat!OneShell
=============================================================================
