---------------------------- MODULE LspTeardown ----------------------------
(***************************************************************************)
(* One language-server session from its bootstrap to the end of its        *)
(* teardown (LspSession in runtime.js): the frames queued on the single    *)
(* write tail, the handlers answering the server's requests, and the       *)
(* shutdown sequence with its three budgets.  LspPool takes this whole     *)
(* sequence as one step.                                                   *)
(*                                                                         *)
(* The environment is the process tree (a root and a helper that may       *)
(* outlive it), its pipe, and a containment that may never report the tree *)
(* as exited.  A timer may fire at any time while it is armed.             *)
(***************************************************************************)
EXTENDS Naturals, Sequences, SequencesExt

CONSTANTS Requests      \* server requests the server may send, each once;
                        \* none is called "frame", "shutdown" or "exit"

VARIABLES boot,      \* bootstrap: resolving, spawned, dropped (no pipes), failed
          pc,        \* where teardown() is
          timer,     \* the budget of the current phase
          tail,      \* outbound frames not yet settled, the first in flight
          handlers,  \* serverRequests: handlers whose response is unsettled
          answered,  \* the shutdown request was answered or has failed
          root,      \* the server process: "none", "alive", "exited"
          helper,    \* a child of the server is alive
          treeExited,\* what the liveness probe found
          kills,     \* calls of handle.terminate()
          lifetime,  \* lifetimeController not aborted yet
          late       \* a frame settled after the teardown had returned

vars == <<boot, pc, timer, tail, handlers, answered, root, helper,
          treeExited, kills, lifetime, late>>

env == <<boot, answered, root, helper>>

Frames == Requests \cup {"frame", "shutdown", "exit"}

Boots == {"resolving", "spawned", "dropped", "failed"}

\* In the order of teardown(); "serving" is the time before it is started.
Steps == <<"serving", "startup", "shutdown", "exit", "close", "probe",
           "settle_done", "settle_tree", "requests", "tail", "done">>

TypeOK ==
  /\ boot \in Boots /\ pc \in ToSet(Steps)
  /\ timer \in {"off", "armed", "fired"}
  /\ tail \in Seq(Frames) /\ handlers \in SUBSET Requests
  /\ answered \in BOOLEAN
  /\ root \in {"none", "alive", "exited"} /\ helper \in BOOLEAN
  /\ treeExited \in BOOLEAN /\ kills \in 0..1
  /\ lifetime \in BOOLEAN /\ late \in BOOLEAN

Init ==
  /\ boot = "resolving" /\ pc = "serving" /\ timer = "off"
  /\ tail = <<>> /\ handlers = {} /\ answered = FALSE
  /\ root = "none" /\ helper = FALSE
  /\ treeExited = FALSE /\ kills = 0 /\ lifetime = TRUE /\ late = FALSE

Piped == boot = "spawned"               \* this.stdin is there
HasHandle == boot \in {"spawned", "dropped"}
Fired == timer = "fired"
Gone == root # "alive" /\ ~helper       \* the whole tree

-----------------------------------------------------------------------------
(* Before and around the teardown.                                         *)

\* The spawn of a resolved executable; it may fail or yield no pipes.  Also
\* while the teardown waits for it.
Bootstrap ==
  /\ boot = "resolving"
  /\ boot' \in Boots \ {"resolving"}
  /\ root' = IF HasHandle' THEN "alive" ELSE "none"
  /\ UNCHANGED <<pc, timer, tail, handlers, answered, helper, treeExited,
                 kills, lifetime, late>>

\* The session's own frames; initialized may follow the shutdown request when
\* the initialize response and a fatal frame came in one chunk.
SendFrame ==
  /\ pc \in {"serving", "shutdown"} /\ Piped /\ "frame" \notin ToSet(tail)
  /\ tail' = Append(tail, "frame")
  /\ UNCHANGED <<env, pc, timer, handlers, treeExited, kills, lifetime, late>>

Accepting == pc = "serving"

\* A server request starts a handler, which queues its response.
ServerRequest(q) ==
  /\ Accepting /\ Piped /\ root = "alive"
  /\ q \notin handlers \cup ToSet(tail)
  /\ handlers' = handlers \cup {q}
  /\ tail' = Append(tail, q)
  /\ UNCHANGED <<env, pc, timer, treeExited, kills, lifetime, late>>

\* The callback of the frame in flight; its sender continues and the next
\* frame is handed to the pipe.  A shutdown that cannot be written is over.
WriteSettles ==
  /\ tail # <<>>
  /\ tail' = Tail(tail)
  /\ handlers' = handlers \ {Head(tail)}
  /\ \E failed \in BOOLEAN : answered' = (answered \/ (failed /\ Head(tail) = "shutdown"))
  /\ late' = (late \/ (pc = "done" /\ Len(tail) > 1))
  /\ UNCHANGED <<boot, pc, timer, root, helper, treeExited, kills, lifetime>>

ShutdownAnswered ==
  /\ pc = "shutdown" /\ ~answered
  /\ \A i \in 2..Len(tail) : tail[i] # "shutdown"
  /\ answered' = TRUE
  /\ UNCHANGED <<boot, pc, timer, tail, handlers, root, helper, treeExited,
                 kills, lifetime, late>>

StartHelper ==
  /\ pc = "serving" /\ root = "alive" /\ ~helper
  /\ helper' = TRUE
  /\ UNCHANGED <<boot, pc, timer, tail, handlers, answered, root, treeExited,
                 kills, lifetime, late>>

RootExits ==
  /\ root = "alive"
  /\ root' = "exited"
  /\ UNCHANGED <<boot, pc, timer, tail, handlers, answered, helper,
                 treeExited, kills, lifetime, late>>

HelperExits ==
  /\ helper
  /\ helper' = FALSE
  /\ UNCHANGED <<boot, pc, timer, tail, handlers, answered, root,
                 treeExited, kills, lifetime, late>>

-----------------------------------------------------------------------------
(* teardown().                                                             *)

\* A budget: armed on entering a phase, cleared on leaving the last phase it
\* covers.
TimerFires ==
  /\ timer = "armed"
  /\ timer' = "fired"
  /\ UNCHANGED <<env, pc, tail, handlers, treeExited, kills, lifetime, late>>

\* startTeardown is single-flight.
NotStarted == pc = "serving"

StartTeardown ==
  /\ NotStarted
  /\ pc' = "startup"
  /\ UNCHANGED <<env, timer, tail, handlers, treeExited, kills, lifetime, late>>

\* The teardown first waits for a bootstrap that has no handle yet.
StartupOwned == boot # "resolving"

\* The shutdown request; without pipes it fails at once and only the handle,
\* if any, is left to deal with.
OwnStartup ==
  /\ pc = "startup" /\ StartupOwned
  /\ timer' = "armed"
  /\ IF Piped THEN pc' = "shutdown" /\ tail' = Append(tail, "shutdown")
              ELSE pc' = "probe" /\ UNCHANGED tail
  /\ UNCHANGED <<env, handlers, treeExited, kills, lifetime, late>>

\* Whatever became of it, exit is queued next.
ShutdownSettles ==
  /\ pc = "shutdown"
  /\ answered \/ Fired
  /\ pc' = "exit"
  /\ tail' = Append(tail, "exit")
  /\ UNCHANGED <<env, timer, handlers, treeExited, kills, lifetime, late>>

ExitSettles ==
  /\ pc = "exit"
  /\ Fired \/ "exit" \notin ToSet(tail)
  /\ pc' = "close"
  /\ UNCHANGED <<env, timer, tail, handlers, treeExited, kills, lifetime, late>>

Closes ==
  /\ pc = "close"
  /\ Fired \/ root = "exited"
  /\ pc' = "probe"
  /\ UNCHANGED <<env, timer, tail, handlers, treeExited, kills, lifetime, late>>

\* What waitForExit reports: the tree, not the process that was spawned.
TreeSeen == Gone

\* terminate() unless the whole tree was seen to exit inside the budget.
Probe ==
  /\ pc = "probe"
  /\ IF ~HasHandle
     THEN pc' = "requests" /\ UNCHANGED <<treeExited, kills>>
     ELSE /\ pc' = "settle_done"
          /\ \/ TreeSeen /\ treeExited' = TRUE /\ UNCHANGED kills
             \/ Fired /\ kills' = kills + 1 /\ UNCHANGED treeExited
  /\ timer' = "armed"
  /\ UNCHANGED <<env, tail, handlers, lifetime, late>>

BugSettleFired == FALSE
\* The second budget: a killed tree may never be reported as exited.
SettleFired == Fired

SettleDone ==
  /\ pc = "settle_done"
  /\ SettleFired \/ root = "exited"
  /\ pc' = "settle_tree"
  /\ UNCHANGED <<env, timer, tail, handlers, treeExited, kills, lifetime, late>>

SettleTree ==
  /\ pc = "settle_tree"
  /\ SettleFired \/ TreeSeen
  /\ pc' = "requests"
  /\ timer' = "armed"
  /\ UNCHANGED <<env, tail, handlers, treeExited, kills, lifetime, late>>

\* allSettled over the handlers is not raced with the third budget.
RequestsSettle ==
  /\ pc = "requests" /\ handlers = {}
  /\ pc' = "tail"
  /\ UNCHANGED <<env, timer, tail, handlers, treeExited, kills, lifetime, late>>

\* The write tail that was awaited is still the tail, and no handler runs.
Quiet == tail = <<>> /\ handlers = {}

Finish ==
  /\ pc = "tail"
  /\ Quiet \/ Fired
  /\ pc' = "done"
  /\ timer' = IF Fired THEN "fired" ELSE "off"
  /\ lifetime' = FALSE
  /\ UNCHANGED <<env, tail, handlers, treeExited, kills, late>>

Stopped ==
  /\ pc = "done"
  /\ UNCHANGED vars

-----------------------------------------------------------------------------
TeardownStep ==
  \/ OwnStartup \/ ShutdownSettles \/ ExitSettles \/ Closes \/ Probe
  \/ SettleDone \/ SettleTree \/ RequestsSettle \/ Finish

Next ==
  \/ Bootstrap \/ SendFrame \/ (\E q \in Requests : ServerRequest(q))
  \/ WriteSettles \/ ShutdownAnswered \/ StartHelper \/ RootExits
  \/ HelperExits \/ TimerFires \/ StartTeardown \/ TeardownStep \/ Stopped

Spec == Init /\ [][Next]_vars

\* Timers fire, the bootstrap ends with the signal of the call that started
\* it, and JavaScript runs what is ready.  Nothing makes the server answer or
\* exit, or the containment report the tree as exited.
Fairness == WF_vars(TeardownStep) /\ WF_vars(TimerFires) /\ WF_vars(Bootstrap)

\* The peer may also stop reading, so that a write callback never comes.
StuckSpec == Spec /\ Fairness

\* Every write callback comes in the end, with an error if need be.
FairSpec == Spec /\ Fairness /\ WF_vars(WriteSettles)

-----------------------------------------------------------------------------
\* No process tree survives a teardown that did not terminate it: not one
\* spawned while the teardown had already begun, and not a helper that
\* outlives the server (teardown, the startup wait and the liveness probe).
NothingSurvives == pc = "done" /\ kills = 0 => Gone

\* Unless the quiescence budget ran out, no frame is handed to the pipe after
\* the teardown has returned (the quiescence loop, dispatch while closing).
NoLateWrite == late => Fired

\* A teardown that was started returns.
TeardownEnds == pc = "startup" ~> pc = "done"

\* The same when a write callback never comes: "The loop is therefore bounded
\* by the same graceful budget as the waits above".
BoundedTeardown == pc = "startup" ~> pc = "done"
=============================================================================
