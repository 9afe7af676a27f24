--------------------------------- MODULE MCHost ---------------------------------
(* What hangs on the host's events: the coordinator of automatic           *)
(* diagnostics with two tool calls on one file, the lsp_diagnostics tool   *)
(* with one call on a file whose version may come back, the rtk decoration *)
(* with two mounts, and one request of the model adapter.  They share no   *)
(* state here: a behaviour is about one, the others stay as they start.    *)
EXTENDS LspCoordinator, TLC

CONSTANTS ToolCalls, ToolVersions, ToolSeen,
          RtkMounts, RtkCompresses, RtkCommands, RtkGreps

\* The rtk plugin is mounted by some of finitely many fibers.
FiniteMounts == IsFiniteSet(RtkMounts)
ASSUME RtkAssumption == FiniteMounts

VARIABLE which   \* the component this behaviour is about

SourceNames  == {"light", "deep"}
ProfileNames == {"p", "q", "r", "b"}
Adverts == [p \in ProfileNames |-> CASE p = "b" -> "bad" [] p = "r" -> "other" [] OTHER -> "ok"]
\* Of the execs at most one is aborted by its caller at a time.
FewAborts == Cardinality(cancelled) <= 1
\* Execs and versions are interchangeable.
Symmetric == Permutations(Execs) \cup Permutations(Versions)

VARIABLES tool_ver, tool_seen, tool_pc, tool_rec, tool_late, tool_fired,
          tool_aborted, tool_result, tool_cleanup
tool_vars == <<tool_ver, tool_seen, tool_pc, tool_rec, tool_late, tool_fired,
               tool_aborted, tool_result, tool_cleanup>>
Tool == INSTANCE LspTool WITH
  Calls <- ToolCalls, Versions <- ToolVersions, MaxSeen <- ToolSeen,
  ver <- tool_ver, seen <- tool_seen, pc <- tool_pc, rec <- tool_rec,
  late <- tool_late, fired <- tool_fired, aborted <- tool_aborted,
  result <- tool_result, cleanup <- tool_cleanup

VARIABLES rtk_mounted, rtk_gone, rtk_refs, rtk_shared, rtk_wrapped, rtk_pc,
          rtk_aborted, rtk_asked, rtk_ran, rtk_decision, rtk_chain, rtk_at,
          rtk_unwinding, rtk_depth, rtk_attempted, rtk_attempts, rtk_plain
rtk_vars == <<rtk_mounted, rtk_gone, rtk_refs, rtk_shared, rtk_wrapped,
              rtk_pc, rtk_aborted, rtk_asked, rtk_ran, rtk_decision,
              rtk_chain, rtk_at, rtk_unwinding, rtk_depth, rtk_attempted,
              rtk_attempts, rtk_plain>>
Rtk == INSTANCE Rtk WITH
  Mounts <- RtkMounts, Compresses <- RtkCompresses, Commands <- RtkCommands,
  Greps <- RtkGreps,
  mounted <- rtk_mounted, gone <- rtk_gone, refs <- rtk_refs,
  shared <- rtk_shared, wrapped <- rtk_wrapped, pc <- rtk_pc,
  aborted <- rtk_aborted, asked <- rtk_asked, ran <- rtk_ran,
  decision <- rtk_decision, chain <- rtk_chain, at <- rtk_at,
  unwinding <- rtk_unwinding, depth <- rtk_depth, attempted <- rtk_attempted,
  attempts <- rtk_attempts, plain <- rtk_plain

VARIABLES pi_doc, pi_told, pi_writes, pi_held, pi_facts, pi_registry, pi_pc,
          pi_route, pi_snap, pi_used, pi_stage, pi_pending, pi_aborted,
          pi_fired, pi_open, pi_outcome
pi_vars == <<pi_doc, pi_told, pi_writes, pi_held, pi_facts, pi_registry,
             pi_pc, pi_route, pi_snap, pi_used, pi_stage, pi_pending,
             pi_aborted, pi_fired, pi_open, pi_outcome>>
PiAi == INSTANCE PiAi WITH
  Calls <- {"c1"}, Sources <- SourceNames, Routes <- SourceNames,
  Profiles <- ProfileNames, Advert <- Adverts, MaxWrites <- 2,
  doc <- pi_doc, told <- pi_told, writes <- pi_writes, held <- pi_held,
  facts <- pi_facts, registry <- pi_registry, pc <- pi_pc, route <- pi_route,
  snap <- pi_snap, used <- pi_used, stage <- pi_stage, pending <- pi_pending,
  aborted <- pi_aborted, fired <- pi_fired, open <- pi_open,
  outcome <- pi_outcome

-----------------------------------------------------------------------------
\* Every component starts; only one of them goes on.
Subjects == {"aug", "tool", "rtk", "pi"}

AllInit ==
  /\ which \in Subjects
  /\ IF which = "tool" THEN TRUE ELSE tool_ver = CHOOSE v \in ToolVersions : TRUE
  /\ IF which = "rtk" THEN TRUE ELSE rtk_plain = [g \in RtkGreps |-> TRUE]
  /\ IF which = "pi" THEN TRUE ELSE pi_doc = [s \in SourceNames |-> "p"]
  /\ Init /\ Tool!Init /\ Rtk!Init /\ PiAi!Init

AllNext ==
  \/ which = "aug" /\ Next /\ FewAborts' /\ UNCHANGED <<which, tool_vars, rtk_vars, pi_vars>>
  \/ which = "tool" /\ Tool!Next /\ UNCHANGED <<which, vars, rtk_vars, pi_vars>>
  \/ which = "rtk" /\ Rtk!Next /\ UNCHANGED <<which, vars, tool_vars, pi_vars>>
  \/ which = "pi" /\ PiAi!Next /\ UNCHANGED <<which, vars, tool_vars, rtk_vars>>

all == <<which, vars, tool_vars, rtk_vars, pi_vars>>
AllSpec == AllInit /\ [][AllNext]_all

-----------------------------------------------------------------------------
\* A marker is never left behind by an exec that has returned, and when the
\* runtime has been disposed every retired read has returned and no exec is at
\* work (apply, dispose).
CleanupComplete ==
  which = "aug" => AllRetired /\ QuietAfterDispose

\* No answer of the tool misses a mutation that was observed since its first
\* stat, whatever comes back (mutationEpochs); and no call meets a runtime
\* that is disposed.
ToolSound ==
  /\ Tool!NoMutationMissed /\ Tool!GatedResult
  /\ [](which = "tool" => Tool!TypeOK /\ Tool!NoCallAfterDispose)

\* The shell is decorated while the plugin is owned, a grep result is
\* compressed once however many mounts listen, and a command asks the oracle
\* once and does not run when that denied or cancelled it (apply,
\* mountGrepCompress, execute of the wrapper).
RtkSound ==
  /\ Rtk!RunsOnce
  /\ [](which = "rtk" => Rtk!TypeOK /\ Rtk!DecoratedWhileOwned /\ Rtk!CompressedOnce)

\* Requests are served from what the llm service captured, read one
\* generation of their provider and end as what ended them says
\* (ensureRegistration, streamWithSnapshot).
RequestsSound ==
  which = "pi" => PiAi!TypeOK /\ PiAi!RoutesFollow /\ PiAi!OneGeneration /\ PiAi!EndsTruly

\* No mutation is lost in silence: the newest of a file stays active until it
\* is reported, retired or replaced, and what is not reported has its reason
\* (record, retireIfCurrent, afterToolCall).
ResultsKept == NoSilentLoss /\ [](which = "aug" => NewestKept)
=============================================================================
