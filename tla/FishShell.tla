----------------------------- MODULE FishShell -----------------------------
(***************************************************************************)
(* The persistent fish shells of one agent (persistent.js) over the PTY    *)
(* backend (terminal-fish.js).  A preset switch may leave several managers *)
(* behind: each caches at most one shell, creates it on demand, resets it  *)
(* when a command times out, is aborted or finds it exited, and closes it  *)
(* when the tool is removed or the agent goes away.  The sandbox mode of   *)
(* the agent must not change while a shell runs under it.                  *)
(*                                                                         *)
(* The environment: shells exit, closes fail, operations of the PTY take   *)
(* their time and settle at the latest when their signal aborts.           *)
(***************************************************************************)
EXTENDS Naturals, Sequences, SequencesExt

CONSTANTS Managers,   \* registrations of the persistent tool, numbered in their order
          Calls,      \* commands the model issues, each once
          Modes,      \* sandbox modes
          MaxShells,  \* bound on creations
          MaxFails    \* bound on failing closes

ASSUME ShellAssumption ==
  /\ Managers \subseteq Nat \ {0} /\ "nobody" \notin Calls
  /\ MaxShells \in Nat /\ MaxFails \in Nat /\ Modes # {}

VARIABLES mode,      \* sandbox mode of the agent's session
          checkers,  \* managers whose activity the mode fence asks for
          line,      \* queues: commands of a manager, the first one running
          cmd,       \* the executeCommand of a call
          shell,     \* the creation of a shell and its process
          pending,   \* the cached creation of a manager, 0 if none
          live,      \* the published shell of a manager, 0 if none
          closing,   \* the shell whose close is in flight, 0 if none
          disposal,  \* dispose() of a manager
          cleanup,   \* the owner cleanup of a manager
          ownerLive, \* the agent's context is live
          fails      \* closes that failed

vars == <<mode, checkers, line, cmd, shell, pending, live, closing, disposal,
          cleanup, ownerLive, fails>>

Shells == 1..MaxShells

\* "answer" is output, complete or partial; "reset" tells (or throws an abort)
\* that the shell was reset; "failed" throws anything else.
Outs == {"none", "answer", "reset", "failed"}

NoShell == [by |-> "nobody", at |-> 0, step |-> "none", proc |-> "none", mode |-> "none",
            cut |-> FALSE, failed |-> "no"]

TypeOK ==
  /\ mode \in Modes /\ checkers \subseteq Managers /\ fails \in 0..MaxFails
  /\ \A m \in Managers : ToSet(line[m]) \subseteq {c \in Calls : cmd[c].at = m}
  /\ cmd \in [Calls -> [pc : {"idle", "queued", "getting", "loop", "sent", "reset", "done"},
                        at : Managers \cup {0}, cut : BOOLEAN,
                        shell : 0..MaxShells,
                        then : Outs, out : Outs]]
  /\ shell \in [Shells -> [by : Calls \cup {"nobody"}, at : Managers \cup {0},
                  step : {"none", "confine", "spawn", "startup", "cleanup", "init",
                          "reset", "ready", "failed"},
                  proc : {"none", "open", "exited", "closed"},
                  mode : Modes \cup {"none"}, cut : BOOLEAN,
                  failed : {"no", "startup", "close"}]]
  /\ pending \in [Managers -> 0..MaxShells] /\ live \in [Managers -> 0..MaxShells]
  /\ closing \in [Managers -> 0..MaxShells]
  /\ disposal \in [Managers -> {"none", "creating", "reset", "done"}]
  /\ cleanup \in [Managers -> {"none", "installed", "creating", "reset", "done"}]
  /\ ownerLive \in BOOLEAN

Init ==
  /\ mode \in Modes /\ checkers = {} /\ fails = 0
  /\ line = [m \in Managers |-> <<>>]
  /\ cmd = [c \in Calls |-> [pc |-> "idle", at |-> 0, cut |-> FALSE, shell |-> 0,
                             then |-> "none", out |-> "none"]]
  /\ shell = [s \in Shells |-> NoShell]
  /\ pending = [m \in Managers |-> 0] /\ live = [m \in Managers |-> 0]
  /\ closing = [m \in Managers |-> 0]
  /\ disposal = [m \in Managers |-> "none"]
  /\ cleanup = [m \in Managers |-> "none"] /\ ownerLive = TRUE

---------------------------------------------------------------------------
(* Helpers.                                                                *)

Unsettled == {"confine", "spawn", "startup", "cleanup", "init", "reset"}

\* The creations of a manager that have not settled (creating, pendingSpawns).
Creating(m) == {s \in Shells : shell[s].step \in Unsettled /\ shell[s].at = m}

\* hasActivity: what keeps the mode fence closed.
HasActivity(m) ==
  pending[m] # 0 \/ Creating(m) # {} \/ live[m] # 0 \/ closing[m] # 0

Disposing(m) == disposal[m] # "none"

\* The combined signal of a creation: its command's deadline or abort, the
\* manager's lifecycle, the reservation the owner cleanup aborts.
Aborted(s) ==
  \/ cmd[shell[s].by].cut \/ shell[s].cut
  \/ Disposing(shell[s].at)

\* closeSession: the shell being closed, joined if a close is in flight.
Close(m) == IF closing[m] # 0 THEN closing[m] ELSE live[m]

\* reset(): forgets the cached creation and closes the published shell.
Reset(m) ==
  /\ pending' = [pending EXCEPT ![m] = 0]
  /\ closing' = [closing EXCEPT ![m] = IF live[m] = 0 THEN @ ELSE Close(m)]

Finished(r, out) == [r EXCEPT !.pc = "done", !.out = out]

\* The call's turn, which only the first of its manager's queue has, ends: the
\* next one may begin.
Leave(c) == line' = [line EXCEPT ![cmd[c].at] = Tail(@)]

\* A command resets the shell and then returns or throws `out`.
ResetThen(c, out) ==
  LET m == cmd[c].at IN
  /\ Reset(m)
  /\ IF live[m] = 0
     THEN cmd' = [cmd EXCEPT ![c] = Finished(@, out)] /\ Leave(c)
     ELSE cmd' = [cmd EXCEPT ![c].pc = "reset", ![c].then = out] /\ UNCHANGED line

\* A creation, now r, fails: the manager is reset, then the reservation is
\* released.
Fail(s, r) ==
  /\ Reset(r.at)
  /\ shell' = [shell EXCEPT ![s] =
                 [r EXCEPT !.step = IF live[r.at] = 0 THEN "failed" ELSE "reset"]]

---------------------------------------------------------------------------
(* A command: the queue of its manager, and get().                         *)

\* The policy removes a persistent tool before it registers the next one; a
\* removed tool is no longer offered, but its commands go on.
Offered(m) ==
  ownerLive /\ ~Disposing(m) /\ \A k \in Managers : k < m => Disposing(k)

\* The tool is called.
Issue(c) ==
  /\ cmd[c].pc = "idle"
  /\ \E m \in Managers :
       /\ Offered(m)
       /\ cmd' = [cmd EXCEPT ![c].pc = "queued", ![c].at = m]
       /\ line' = [line EXCEPT ![m] = Append(@, c)]
  /\ UNCHANGED <<mode, checkers, shell, pending, live, closing, disposal, cleanup,
                 ownerLive, fails>>

\* The caller aborts.
AbortCall(c) ==
  /\ cmd[c].pc \notin {"idle", "done"} /\ ~cmd[c].cut
  /\ cmd' = [cmd EXCEPT ![c].cut = TRUE]
  /\ UNCHANGED <<mode, checkers, line, shell, pending, live, closing, disposal,
                 cleanup, ownerLive, fails>>

\* The command's deadline, which runs from the start of its turn.
Timeout(c) ==
  /\ cmd[c].pc \notin {"idle", "queued", "done"} /\ ~cmd[c].cut
  /\ cmd' = [cmd EXCEPT ![c].cut = TRUE]
  /\ UNCHANGED <<mode, checkers, line, shell, pending, live, closing, disposal,
                 cleanup, ownerLive, fails>>

Turn(c) == cmd[c].pc = "queued" /\ Head(line[cmd[c].at]) = c

\* The turn of a call that was aborted in the queue, or whose agent is gone.
Refuse(c) ==
  /\ Turn(c)
  /\ LET m == cmd[c].at IN
     \/ cmd[c].cut
     \/ /\ pending[m] = 0 /\ cleanup[m] # "installed"
        /\ ~ownerLive \/ cleanup[m] # "none"
  /\ cmd' = [cmd EXCEPT ![c] = Finished(@, "failed")]
  /\ Leave(c)
  /\ UNCHANGED <<mode, checkers, shell, pending, live, closing, disposal, cleanup,
                 ownerLive, fails>>

\* get() answers with the cached creation, settled or not.
GetCached(c) ==
  /\ Turn(c) /\ ~cmd[c].cut /\ pending[cmd[c].at] # 0
  /\ cmd' = [cmd EXCEPT ![c].pc = "getting", ![c].shell = pending[cmd[c].at]]
  /\ UNCHANGED <<mode, checkers, line, shell, pending, live, closing, disposal,
                 cleanup, ownerLive, fails>>

\* The fence of a session asks every manager that ever ran a shell.
BugFencing(m) == {m}
Fencing(m) == checkers \cup {m}

\* get() reserves a creation: cleanup effect, fence, and the policy in force.
GetNew(c) ==
  LET m == cmd[c].at IN
  /\ Turn(c) /\ ~cmd[c].cut /\ pending[m] = 0
  /\ cleanup[m] = "installed" \/ (ownerLive /\ cleanup[m] = "none")
  /\ \E s \in Shells :
       /\ shell[s].step = "none" /\ \A t \in 1..(s - 1) : shell[t].step # "none"
       /\ shell' = [shell EXCEPT ![s] = [NoShell EXCEPT !.by = c, !.at = m, !.step = "confine",
                                                        !.mode = mode]]
       /\ pending' = [pending EXCEPT ![m] = s]
       /\ cmd' = [cmd EXCEPT ![c].pc = "getting", ![c].shell = s]
  /\ cleanup' = [cleanup EXCEPT ![m] = "installed"]
  /\ checkers' = Fencing(m)
  /\ UNCHANGED <<mode, line, live, closing, disposal, ownerLive, fails>>

\* The awaited creation has settled.
GetSettles(c) ==
  /\ cmd[c].pc = "getting"
  /\ \/ /\ shell[cmd[c].shell].step = "ready"
        /\ cmd' = [cmd EXCEPT ![c].pc = "loop"] /\ UNCHANGED line
     \/ /\ shell[cmd[c].shell].step = "failed"
        /\ cmd' = [cmd EXCEPT ![c] = Finished(@, "failed")] /\ Leave(c)
  /\ UNCHANGED <<mode, checkers, shell, pending, live, closing, disposal, cleanup,
                 ownerLive, fails>>

---------------------------------------------------------------------------
(* A creation: backend.spawn and the first send.                           *)

creation == <<mode, checkers, line, cmd, disposal, cleanup, ownerLive>>

\* The argv is confined; the caller may have cancelled while it was.
Confined(s) ==
  /\ shell[s].step = "confine" /\ ~Aborted(s)
  /\ shell' = [shell EXCEPT ![s].step = "spawn"]
  /\ UNCHANGED <<creation, pending, live, closing, fails>>

Spawned(s) ==
  /\ shell[s].step = "spawn"
  /\ shell' = [shell EXCEPT ![s].step = "startup", ![s].proc = "open"]
  /\ UNCHANGED <<creation, pending, live, closing, fails>>

\* Aborted or failed before there was a process.
SpawnFails(s) ==
  /\ shell[s].step \in {"confine", "spawn"}
  /\ Fail(s, shell[s])
  /\ UNCHANGED <<creation, live, fails>>

\* The shell is ready: the manager publishes it and sends its first line.
StartupDone(s) ==
  /\ shell[s].step = "startup" /\ shell[s].proc = "open" /\ ~Aborted(s)
  /\ shell' = [shell EXCEPT ![s].step = "init"]
  /\ live' = [live EXCEPT ![shell[s].at] = s]
  /\ UNCHANGED <<creation, pending, closing, fails>>

\* Abort, startup deadline or exit: what was allocated is closed first.
StartupFails(s) ==
  /\ shell[s].step = "startup"
  /\ shell' = [shell EXCEPT ![s].step = "cleanup"]
  /\ UNCHANGED <<creation, pending, live, closing, fails>>

CleanupOk(s) ==
  /\ shell[s].step = "cleanup"
  /\ Fail(s, [shell[s] EXCEPT !.proc = "closed"])
  /\ UNCHANGED <<creation, live, fails>>

\* TerminalBackendCleanupError: the process is reported as leaked.
CleanupFails(s) ==
  /\ shell[s].step = "cleanup" /\ shell[s].proc = "open"
  /\ fails < MaxFails /\ fails' = fails + 1
  /\ Fail(s, [shell[s] EXCEPT !.failed = "startup"])
  /\ UNCHANGED <<creation, live>>

InitDone(s) ==
  /\ shell[s].step = "init" /\ shell[s].proc = "open"
  /\ shell' = [shell EXCEPT ![s].step = "ready"]
  /\ UNCHANGED <<creation, pending, live, closing, fails>>

InitFails(s) ==
  /\ shell[s].step = "init"
  /\ Fail(s, shell[s])
  /\ UNCHANGED <<creation, live, fails>>

ShellExits(s) ==
  /\ shell[s].proc = "open" /\ shell[s].failed = "no"
  /\ shell' = [shell EXCEPT ![s].proc = "exited"]
  /\ UNCHANGED <<creation, pending, live, closing, fails>>

---------------------------------------------------------------------------
(* The loop of executeCommand.                                             *)

command == <<mode, checkers, shell, live, disposal, cleanup, ownerLive, fails>>

Gone(s) == shell[s].proc # "open"

\* The shell is found exited, before a send or by its result.
SeesExit(c) ==
  /\ cmd[c].pc = "loop" \/ (cmd[c].pc = "sent" /\ ~cmd[c].cut)
  /\ Gone(cmd[c].shell)
  /\ ResetThen(c, "reset")
  /\ UNCHANGED command

Send(c) ==
  /\ cmd[c].pc = "loop" /\ ~Gone(cmd[c].shell)
  /\ cmd' = [cmd EXCEPT ![c].pc = "sent"]
  /\ UNCHANGED <<command, line, pending, closing>>

\* startSend throws, or its operation rejects.
SendFails(c) ==
  /\ cmd[c].pc = "sent" \/ (cmd[c].pc = "loop" /\ ~Gone(cmd[c].shell))
  /\ ResetThen(c, "failed")
  /\ UNCHANGED command

\* The deadline, or an abort, wins over whatever the operation brought.
Interrupted(c) ==
  /\ cmd[c].pc = "sent" /\ cmd[c].cut
  /\ ResetThen(c, "reset")
  /\ UNCHANGED command

\* The end marker is in the scrollback, or the program reads its input.
Answered(c) ==
  /\ cmd[c].pc = "sent" /\ ~cmd[c].cut
  /\ cmd' = [cmd EXCEPT ![c] = Finished(@, "answer")]
  /\ Leave(c)
  /\ UNCHANGED <<command, pending, closing>>

\* Neither: the loop pauses and polls again.
Pause(c) ==
  /\ cmd[c].pc = "sent" /\ ~cmd[c].cut
  /\ cmd' = [cmd EXCEPT ![c].pc = "loop"]
  /\ UNCHANGED <<command, line, pending, closing>>

---------------------------------------------------------------------------
(* The end of a close, on which every party that reset this manager waits. *)

BugReturned(phase) == phase
Returned(phase) == IF phase = "reset" THEN "done" ELSE phase

Settle(m, ok) ==
  LET resetting == {c \in Calls : cmd[c].at = m /\ cmd[c].pc = "reset"} IN
  /\ closing[m] # 0
  /\ closing' = [closing EXCEPT ![m] = 0]
  /\ cmd' = [c \in Calls |->
               IF c \in resetting THEN Finished(cmd[c], IF ok THEN cmd[c].then ELSE "failed")
               ELSE cmd[c]]
  /\ line' = [line EXCEPT ![m] = IF resetting = {} THEN @ ELSE Tail(@)]
  /\ shell' = [s \in Shells |->
                 LET r == IF shell[s].step = "reset" /\ shell[s].at = m
                          THEN [shell[s] EXCEPT !.step = "failed"] ELSE shell[s] IN
                 IF s # closing[m] THEN r
                 ELSE IF ok THEN [r EXCEPT !.proc = "closed"]
                 ELSE [r EXCEPT !.failed = "close"]]
  /\ disposal' = [disposal EXCEPT ![m] = Returned(@)]
  /\ cleanup' = [cleanup EXCEPT ![m] = Returned(@)]
  /\ UNCHANGED <<mode, checkers, pending, ownerLive>>

CloseOk(m) ==
  /\ Settle(m, TRUE)
  /\ live' = [live EXCEPT ![m] = 0] /\ UNCHANGED fails

\* The handle stays published and counted as activity.
CloseFails(m) ==
  /\ closing[m] # 0 /\ shell[closing[m]].proc = "open" /\ fails < MaxFails
  /\ Settle(m, FALSE)
  /\ fails' = fails + 1 /\ UNCHANGED live

---------------------------------------------------------------------------
(* Removing the tool, and the end of the agent.                            *)

\* Every creation is waited for, also one a reset has made the manager forget.
BugSpawnsSettled(m) == live[m] = 0 \/ Creating(m) = {}
SpawnsSettled(m) == Creating(m) = {}

DisposeBegin(m) ==
  /\ disposal[m] = "none" /\ (~ownerLive \/ Offered(m))
  /\ disposal' = [disposal EXCEPT ![m] = "creating"]
  /\ UNCHANGED <<mode, checkers, line, cmd, shell, pending, live, closing, cleanup,
                 ownerLive, fails>>

\* The creations have settled: the published shell is reset.
DisposeReset(m) ==
  /\ disposal[m] = "creating" /\ SpawnsSettled(m)
  /\ IF live[m] = 0 THEN UNCHANGED <<pending, closing>> ELSE Reset(m)
  /\ disposal' = [disposal EXCEPT ![m] = IF live[m] = 0 THEN "done" ELSE "reset"]
  /\ UNCHANGED <<mode, checkers, line, cmd, shell, live, cleanup, ownerLive, fails>>

OwnerDisposed ==
  /\ ownerLive /\ ownerLive' = FALSE
  /\ UNCHANGED <<mode, checkers, line, cmd, shell, pending, live, closing, disposal,
                 cleanup, fails>>

\* The cleanup effect of a manager: pending creations are aborted.
CleanupBegin(m) ==
  /\ ~ownerLive /\ cleanup[m] = "installed"
  /\ cleanup' = [cleanup EXCEPT ![m] = "creating"]
  /\ shell' = [s \in Shells |-> IF s \in Creating(m) THEN [shell[s] EXCEPT !.cut = TRUE]
                                ELSE shell[s]]
  /\ UNCHANGED <<mode, checkers, line, cmd, pending, live, closing, disposal, ownerLive,
                 fails>>

CleanupReset(m) ==
  /\ cleanup[m] = "creating" /\ SpawnsSettled(m)
  /\ Reset(m)
  /\ cleanup' = [cleanup EXCEPT ![m] = IF live[m] = 0 THEN "done" ELSE "reset"]
  /\ UNCHANGED <<mode, checkers, line, cmd, shell, live, disposal, ownerLive, fails>>

\* The fence refuses a mode change while any manager has activity.
ChangeMode ==
  /\ \A m \in checkers : ~HasActivity(m)
  /\ \E new \in Modes \ {mode} : mode' = new
  /\ UNCHANGED <<checkers, line, cmd, shell, pending, live, closing, disposal, cleanup,
                 ownerLive, fails>>

---------------------------------------------------------------------------

Quiet ==
  /\ ~ownerLive /\ \A c \in Calls : cmd[c].pc \in {"idle", "done"}
  /\ \A m \in Managers : disposal[m] = "done" /\ cleanup[m] \in {"none", "done"}
  /\ UNCHANGED vars

CallStep(c) ==
  \/ Refuse(c) \/ GetCached(c) \/ GetNew(c) \/ GetSettles(c)
  \/ SeesExit(c) \/ Send(c) \/ SendFails(c) \/ Interrupted(c)
  \/ Answered(c)

CreationStep(s) ==
  \/ Confined(s) \/ Spawned(s) \/ SpawnFails(s) \/ StartupDone(s) \/ StartupFails(s)
  \/ CleanupOk(s) \/ CleanupFails(s) \/ InitDone(s) \/ InitFails(s)

ManagerStep(m) ==
  \/ CloseOk(m) \/ CloseFails(m) \/ DisposeReset(m) \/ CleanupBegin(m) \/ CleanupReset(m)

Next ==
  \/ \E c \in Calls : Issue(c) \/ AbortCall(c) \/ Timeout(c) \/ CallStep(c) \/ Pause(c)
  \/ \E s \in Shells : CreationStep(s) \/ ShellExits(s)
  \/ \E m \in Managers : ManagerStep(m) \/ DisposeBegin(m)
  \/ OwnerDisposed \/ ChangeMode \/ Quiet

Spec == Init /\ [][Next]_vars

\* Deadlines fire, operations of the PTY settle, closes end (SIGTERM, then
\* SIGKILL).  A command may poll for ever only as long as its deadline has
\* not fired, so Pause needs no fairness and its own send does.
FairSpec ==
  /\ Spec
  /\ \A c \in Calls : WF_vars(Timeout(c)) /\ WF_vars(CallStep(c))
  /\ \A s \in Shells : WF_vars(CreationStep(s))
  /\ \A m \in Managers : WF_vars(ManagerStep(m))
  /\ \A m \in Managers : WF_vars(~ownerLive /\ DisposeBegin(m))

---------------------------------------------------------------------------
(* Properties.                                                             *)

\* A shell runs under the agent's current sandbox mode, from the confinement
\* of its command line to its close, unless a close of it failed
\* (ensureSandboxModeFence, hasActivity).
ModeFenced ==
  \A s \in Shells : shell[s].proc = "open" /\ shell[s].failed = "no"
                      => shell[s].mode = mode

\* Once a manager's disposal, or the agent's cleanup, has returned, no shell
\* of it runs, not even one whose creation was under way or a command asked
\* for since (dispose, ensureOwnerCleanup).
GoneAfterwards ==
  \A s \in Shells :
    shell[s].proc = "open" /\ shell[s].failed = "no"
      => LET m == shell[s].at IN
         disposal[m] # "done" /\ cleanup[m] # "done"

\* A call that was told the shell was reset is right: no later command of the
\* manager runs in that shell (executeCommand, respondToSessionExit, reset).
ResetMeansFresh ==
  \A c, d \in Calls :
    /\ c # d /\ cmd[c].at = cmd[d].at /\ cmd[c].shell = cmd[d].shell
    /\ cmd[c].out = "reset"
    => cmd[d].pc \notin {"loop", "sent"}

\* A failed close keeps the session retryable instead of losing the handle
\* (the comment above persistentShells).
HandleKept ==
  \A m \in Managers, s \in Shells :
    shell[s].failed = "close" /\ shell[s].proc = "open" /\ shell[s].at = m
      => live[m] = s

\* Every command that was accepted ends.
CommandEnds == \A c \in Calls : cmd[c].pc = "queued" ~> cmd[c].pc = "done"

\* The agent's end closes its shells: every manager's cleanup returns.
CleanupEnds ==
  ~ownerLive ~> \A m \in Managers : cleanup[m] \in {"none", "done"} /\ disposal[m] = "done"

=============================================================================
