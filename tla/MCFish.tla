--------------------------------- MODULE MCFish ---------------------------------
(* The fish-shell plugin: the persistent sessions, with two managers and   *)
(* two calls, and the policy that puts fish in the place of bash, with two *)
(* agents, the second with a prompt of its own; what one command of a      *)
(* session answers; and one call of the one-shot tool.  They share no      *)
(* state: a behaviour is about one of them and the others stay as they     *)
(* start.                                                                  *)
EXTENDS FishShell, TLC

CONSTANTS c1, c2, o1, o2, a1, a2,
          MaxLines, PageLines, Screen, MaxTape   \* of FishOutput

\* A read gives a line at least; what an earlier command left has two.
ASSUME OutputLimits ==
  MaxLines \in Nat /\ PageLines \in Nat \ {0} /\ Screen \in Nat /\ MaxTape \in Nat /\ MaxTape >= 2

VARIABLE which   \* the component this behaviour is about

PresetNames == {"standard", "minimal", "nofish", "bare"}
BashForms == [p \in PresetNames |-> CASE p = "standard" -> "shot" [] p = "bare" -> "none"
                                      [] OTHER -> "persistent"]
ShowsFish == [p \in PresetNames |-> p # "nofish"]
StubbornSecond == [a \in {a1, a2} |-> IF a = a2 THEN "prompt" ELSE "no"]
\* Calls and modes are interchangeable.
Symmetric == Permutations(Calls) \cup Permutations(Modes)

VARIABLES policy_preset, policy_listed, policy_known, policy_mounted,
          policy_regs, policy_own, policy_live, policy_installing,
          policy_removed, policy_reconciling, policy_again, policy_stack,
          policy_events, policy_meddles, policy_missed
policy_vars == <<policy_preset, policy_listed, policy_known, policy_mounted,
                 policy_regs, policy_own, policy_live, policy_installing,
                 policy_removed, policy_reconciling, policy_again,
                 policy_stack, policy_events, policy_meddles,
                 policy_missed>>
Policy == INSTANCE FishPolicy WITH
  Agents <- {a1, a2}, Presets <- PresetNames, Bash <- BashForms,
  Fish <- ShowsFish, Stubborn <- StubbornSecond,
  MaxEvents <- 4, MaxMeddles <- 1,
  preset <- policy_preset, listed <- policy_listed, known <- policy_known,
  mounted <- policy_mounted, regs <- policy_regs, own <- policy_own,
  live <- policy_live, installing <- policy_installing,
  removed <- policy_removed, reconciling <- policy_reconciling,
  again <- policy_again, stack <- policy_stack, events <- policy_events,
  meddles <- policy_meddles, missed <- policy_missed

VARIABLES output_tape, output_sent, output_seen, output_fallback,
          output_cutoff, output_exited, output_answer
output_vars == <<output_tape, output_sent, output_seen, output_fallback,
                 output_cutoff, output_exited, output_answer>>
Output == INSTANCE FishOutput WITH
  tape <- output_tape, sent <- output_sent, seen <- output_seen,
  fallback <- output_fallback, cutoff <- output_cutoff,
  exited <- output_exited, answer <- output_answer

VARIABLES tool_confines, tool_jobs, tool_standing, tool_args, tool_pc,
          tool_policy, tool_aborted, tool_job, tool_cancelled, tool_kills,
          tool_proc, tool_adopted, tool_answer, tool_asked, tool_granted,
          tool_ran, tool_switches
tool_vars == <<tool_confines, tool_jobs, tool_standing, tool_args, tool_pc,
               tool_policy, tool_aborted, tool_job, tool_cancelled,
               tool_kills, tool_proc, tool_adopted, tool_answer, tool_asked,
               tool_granted, tool_ran, tool_switches>>
Tool == INSTANCE FishTool WITH
  MaxSwitches <- 2,
  confines <- tool_confines, jobs <- tool_jobs, standing <- tool_standing,
  args <- tool_args, pc <- tool_pc, policy <- tool_policy,
  aborted <- tool_aborted, job <- tool_job, cancelled <- tool_cancelled,
  kills <- tool_kills, proc <- tool_proc, adopted <- tool_adopted,
  answer <- tool_answer, asked <- tool_asked, granted <- tool_granted,
  ran <- tool_ran, switches <- tool_switches

-----------------------------------------------------------------------------
\* Of the two calls at most one is aborted or timed out.
FewCuts == Cardinality({c \in Calls : cmd[c].cut}) <= 1

\* Every component starts; only one of them goes on.
Subjects == {"shell", "policy", "output", "tool"}

AllInit ==
  /\ which \in Subjects
  /\ IF which = "policy" THEN TRUE ELSE policy_preset = [a \in {a1, a2} |-> "standard"]
  /\ IF which = "output" THEN TRUE ELSE output_tape = <<>>
  /\ IF which = "tool" THEN TRUE ELSE tool_confines = TRUE /\ tool_jobs = TRUE /\ tool_standing = 1
  /\ IF which = "tool" THEN TRUE ELSE tool_args = [background |-> FALSE, wants |-> 0]
  /\ Init /\ Policy!Init /\ Output!Init /\ Tool!Init

AllNext ==
  \/ which = "shell" /\ Next /\ FewCuts' /\ UNCHANGED <<which, policy_vars, output_vars, tool_vars>>
  \/ which = "policy" /\ Policy!Next /\ UNCHANGED <<which, vars, output_vars, tool_vars>>
  \/ which = "output" /\ Output!Next /\ UNCHANGED <<which, vars, policy_vars, tool_vars>>
  \/ which = "tool" /\ Tool!Next /\ UNCHANGED <<which, vars, policy_vars, output_vars>>

all == <<which, vars, policy_vars, output_vars, tool_vars>>
AllSpec == AllInit /\ [][AllNext]_all

-----------------------------------------------------------------------------
\* The types of the sessions; nothing of an agent is left after its end; and a
\* reset gives the next command a fresh shell (cleanup, reset).
ShellsSound == TypeOK /\ GoneAfterwards /\ ResetMeansFresh

\* The policy's types, and its promise at the end of every dispatch: an agent the
\* policies cover has exactly the registrations its present preset asks for, one
\* that was switched where no install looks again those of one preset or none, and
\* one that is not covered keeps nothing (installFishPolicy, mountDenyPolicy).
PolicySettled ==
  which = "policy" => Policy!TypeOK /\ Policy!Settled

\* What a command answers is what it printed: between its markers and nothing
\* else, whole or marked as a part, although the scrollback is read in pages
\* and forgets (commandOutput, partialOutput, retainedScrollback).
OutputHonest ==
  which = "output" =>
    /\ Output!TypeOK
    /\ Output!CompleteIsExact /\ Output!PartialIsHonest /\ Output!NothingOld

\* A command runs in the mode its session had or its user granted, and a job
\* tells what became of its process, whenever it is cancelled (execute,
\* processJob).
CommandsConfined ==
  which = "tool" => Tool!TypeOK /\ Tool!NeverWider /\ Tool!JobsTell
=============================================================================
