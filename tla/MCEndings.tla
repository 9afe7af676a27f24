-------------------------------- MODULE MCEndings --------------------------------
(* What must end: teardowns, augmentations, releases, shells and requests. *)
(* The teardown of one language server, the coordinator with two files, a  *)
(* release of two packages that meets two faults, one manager's fish       *)
(* sessions with two commands, and one model request.                      *)
(* A behaviour is about one of them, the others stay as they start, and    *)
(* the fairness of each is asked for in its own behaviours.                *)
EXTENDS Naturals, TLC

CONSTANTS c1, c2, q1, q2, e1, v1, r1, v3, b1, nothing, o1

VARIABLE which   \* the component this behaviour is about

OneRelease == [r \in {r1} |-> [p \in 1..2 |-> v1]]
SourceNames  == {"light", "deep"}
ProfileNames == {"p", "q", "r", "b"}
Adverts == [p \in ProfileNames |-> CASE p = "b" -> "bad" [] p = "r" -> "other" [] OTHER -> "ok"]

VARIABLES end_boot, end_pc, end_timer, end_tail, end_handlers, end_answered,
          end_root, end_helper, end_treeExited, end_kills, end_lifetime,
          end_late
end_vars == <<end_boot, end_pc, end_timer, end_tail, end_handlers,
              end_answered, end_root, end_helper, end_treeExited, end_kills,
              end_lifetime, end_late>>
Teardown == INSTANCE LspTeardown WITH
  Requests <- {q1, q2},
  boot <- end_boot, pc <- end_pc, timer <- end_timer, tail <- end_tail,
  handlers <- end_handlers, answered <- end_answered, root <- end_root,
  helper <- end_helper, treeExited <- end_treeExited, kills <- end_kills,
  lifetime <- end_lifetime, late <- end_late

VARIABLES aug_disk, aug_nextGen, aug_marker, aug_seen, aug_pending, aug_pc,
          aug_op, aug_late, aug_cancelled, aug_retired, aug_cleanup
aug_vars == <<aug_disk, aug_nextGen, aug_marker, aug_seen, aug_pending,
              aug_pc, aug_op, aug_late, aug_cancelled, aug_retired,
              aug_cleanup>>
Augment == INSTANCE LspCoordinator WITH
  Execs <- {e1}, Targets <- {1, 2}, Versions <- {v1}, MaxGen <- 1,
  MaxSeen <- 2,
  disk <- aug_disk, nextGen <- aug_nextGen, marker <- aug_marker,
  seen <- aug_seen, pending <- aug_pending, pc <- aug_pc, op <- aug_op,
  late <- aug_late, cancelled <- aug_cancelled, retired <- aug_retired,
  cleanup <- aug_cleanup

VARIABLES lane_now, lane_served, lane_gitTag, lane_gh, lane_uploaded,
          lane_phase, lane_at, lane_journal, lane_prior, lane_faults
lane_vars == <<lane_now, lane_served, lane_gitTag, lane_gh, lane_uploaded,
               lane_phase, lane_at, lane_journal, lane_prior, lane_faults>>
Lane == INSTANCE ReleaseLane WITH
  N <- 2, Releases <- {r1}, Versions <- {v1, v3}, VersionOf <- OneRelease,
  Bytes <- {b1}, None <- nothing, MaxFaults <- 2,
  now <- lane_now, served <- lane_served, gitTag <- lane_gitTag,
  gh <- lane_gh, uploaded <- lane_uploaded, phase <- lane_phase,
  at <- lane_at, journal <- lane_journal, prior <- lane_prior,
  faults <- lane_faults

VARIABLES fish_mode, fish_checkers, fish_line, fish_cmd, fish_shell,
          fish_pending, fish_live, fish_closing, fish_disposal, fish_cleanup,
          fish_ownerLive, fish_fails
fish_vars == <<fish_mode, fish_checkers, fish_line, fish_cmd, fish_shell,
               fish_pending, fish_live, fish_closing, fish_disposal,
               fish_cleanup, fish_ownerLive, fish_fails>>
Fish == INSTANCE FishShell WITH
  Managers <- {1}, Calls <- {c1, c2}, Modes <- {o1}, MaxShells <- 2,
  MaxFails <- 1,
  mode <- fish_mode, checkers <- fish_checkers, line <- fish_line,
  cmd <- fish_cmd, shell <- fish_shell, pending <- fish_pending,
  live <- fish_live, closing <- fish_closing, disposal <- fish_disposal,
  cleanup <- fish_cleanup, ownerLive <- fish_ownerLive, fails <- fish_fails

VARIABLES pi_doc, pi_told, pi_writes, pi_held, pi_facts, pi_registry, pi_pc,
          pi_route, pi_snap, pi_used, pi_stage, pi_pending, pi_aborted,
          pi_fired, pi_open, pi_outcome
pi_vars == <<pi_doc, pi_told, pi_writes, pi_held, pi_facts, pi_registry,
             pi_pc, pi_route, pi_snap, pi_used, pi_stage, pi_pending,
             pi_aborted, pi_fired, pi_open, pi_outcome>>
PiAi == INSTANCE PiAi WITH
  Calls <- {"c1"}, Sources <- SourceNames, Routes <- SourceNames,
  Profiles <- ProfileNames, Advert <- Adverts, MaxWrites <- 1,
  doc <- pi_doc, told <- pi_told, writes <- pi_writes, held <- pi_held,
  facts <- pi_facts, registry <- pi_registry, pc <- pi_pc, route <- pi_route,
  snap <- pi_snap, used <- pi_used, stage <- pi_stage, pending <- pi_pending,
  aborted <- pi_aborted, fired <- pi_fired, open <- pi_open,
  outcome <- pi_outcome

-----------------------------------------------------------------------------
\* Every component starts; only one of them goes on.
Subjects == {"end", "aug", "lane", "fish", "pi"}

AllInit ==
  /\ which \in Subjects
  /\ IF which = "pi" THEN TRUE ELSE pi_doc = [s \in SourceNames |-> "p"]
  /\ Teardown!Init /\ Augment!Init /\ Lane!Init /\ Fish!Init /\ PiAi!Init

AllNext ==
  \/ which = "end" /\ Teardown!Next /\ UNCHANGED <<which, aug_vars, lane_vars, fish_vars, pi_vars>>
  \/ which = "aug" /\ Augment!Next /\ UNCHANGED <<which, end_vars, lane_vars, fish_vars, pi_vars>>
  \/ which = "lane" /\ Lane!Next /\ UNCHANGED <<which, end_vars, aug_vars, fish_vars, pi_vars>>
  \/ which = "fish" /\ Fish!Next /\ UNCHANGED <<which, end_vars, aug_vars, lane_vars, pi_vars>>
  \/ which = "pi" /\ PiAi!Next /\ UNCHANGED <<which, end_vars, aug_vars, lane_vars, fish_vars>>

all == <<which, end_vars, aug_vars, lane_vars, fish_vars, pi_vars>>
AllSpec == AllInit /\ [][AllNext]_all

\* Each component's own fairness, as its module states and justifies it.
Fair ==
  /\ WF_end_vars(which = "end" /\ Teardown!TeardownStep) /\ WF_end_vars(which = "end" /\ Teardown!TimerFires)
  /\ WF_end_vars(which = "end" /\ Teardown!Bootstrap) /\ WF_end_vars(which = "end" /\ Teardown!WriteSettles)
  /\ WF_aug_vars(which = "aug" /\ Augment!Transaction(e1)) /\ WF_aug_vars(which = "aug" /\ Augment!DeadlineFires(e1))
  /\ WF_lane_vars(which = "lane" /\ Lane!Step)
  /\ \A p \in 1..2 : /\ WF_lane_vars(which = "lane" /\ Lane!Propagate(p))
                     /\ WF_lane_vars(which = "lane" /\ Lane!OthersDropNext(p))
  /\ SF_lane_vars(which = "lane" /\ Lane!Preflight(r1, FALSE, lane_uploaded[r1][FALSE]))
  /\ \A c \in {c1, c2} : WF_fish_vars(which = "fish" /\ Fish!Timeout(c)) /\ WF_fish_vars(which = "fish" /\ Fish!CallStep(c))
  /\ \A s \in 1..2 : WF_fish_vars(which = "fish" /\ Fish!CreationStep(s))
  /\ WF_fish_vars(which = "fish" /\ Fish!ManagerStep(1))
  /\ WF_fish_vars(which = "fish" /\ ~fish_ownerLive /\ Fish!DisposeBegin(1))
  /\ WF_pi_vars(which = "pi" /\ PiAi!Step("c1")) /\ WF_pi_vars(which = "pi" /\ PiAi!Microtasks("c1"))
  /\ WF_pi_vars(which = "pi" /\ PiAi!IdleFires("c1"))

FairAllSpec == AllSpec /\ Fair

-----------------------------------------------------------------------------
\* A teardown leaves no process behind that it did not terminate, hands no
\* frame to the pipe after it returned unless its budget ran out, and returns,
\* if write callbacks come (teardown, closeWithBudget).
TeardownSound ==
  /\ which = "end" => Teardown!TeardownEnds
  /\ [](which = "end" => Teardown!TypeOK /\ Teardown!NothingSurvives /\ Teardown!NoLateWrite)

\* The augmentation of a tool call ends although a final stat may hang, and
\* so does the cleanup effect once final stats and listeners settle.
AugmentEnds == which = "aug" => Augment!AugmentEnds /\ Augment!CleanupEnds

\* Every release is completed in the end, whatever failed before.
Recovers == which = "lane" => Lane!Recovers

\* Every accepted command ends, and the agent's end closes its shells.
ShellsEnd == which = "fish" => Fish!CommandEnds /\ Fish!CleanupEnds

\* No read waits for ever on a silent provider.
ReadsEnd == which = "pi" => PiAi!ReadsEnd
=============================================================================
