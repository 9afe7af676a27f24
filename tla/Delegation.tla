---------------------------- MODULE Delegation ----------------------------
(***************************************************************************)
(* Delegations of one root session (delegation.js): single calls in the    *)
(* foreground or as a job, continuable children, and batches, over the     *)
(* concurrency budget (budget.js), the holders that own each one-shot run  *)
(* and the registry that drains them on unload (holder-registry.js).       *)
(*                                                                         *)
(* A child is one activation asked of the host's subagent manager.  The    *)
(* manager may reject, never answer, or answer after the caller has left;  *)
(* cancelling a child obliges it to nothing, so cancel() has no state.     *)
(***************************************************************************)
EXTENDS Naturals, FiniteSets

CONSTANTS Calls,     \* delegation tool calls, each used once
          Children,  \* the items of these calls
          CallOf,    \* the call of a child
          Mode,      \* foreground, background, continuable or batch
          Scoped,    \* children whose form declares a writeScope
          Limit      \* maxConcurrentChildren

Items(c) == {h \in Children : CallOf[h] = c}

\* What a call is made of: any items for a batch, one child for any other.
Delegates ==
  /\ IsFiniteSet(Children) /\ \A h \in Children : CallOf[h] \in Calls
  /\ \A c \in Calls : \/ Mode[c] = "batch"
                      \/ /\ Mode[c] \in {"foreground", "background", "continuable"}
                         /\ \E h \in Children : Items(c) = {h}
  /\ Limit \in Nat

VARIABLES running,   \* RootBudgetRegistry: slots in use
          lease,     \* lease[c]
          pc,        \* where the code that drives a child is
          final,     \* what the call was told of a child
          holder,    \* holder[h]: the RunHolder of a one-shot child
          child,     \* the manager's activation
          parked,    \* child-composition.js: compositions not consumed
          identity,  \* liveIdentities
          terminal,  \* batch items whose result arrived
          closed,    \* batch items the boundary gave up
          boundary,  \* progress of a batch call
          kept,      \* continuableLeases
          drain      \* HolderRegistry.drain and what it reported

flow == <<pc, final, terminal, closed, boundary>>
budget == <<running, lease>>
vars == <<running, lease, pc, final, holder, child, parked, identity,
          terminal, closed, boundary, kept, drain>>

Single(c) == Mode[c] \in {"foreground", "background"}
OneShot(h) == Mode[CallOf[h]] # "continuable"
InBatch(h) == Mode[CallOf[h]] = "batch"

Stages == {"idle", "starting", "refused", "running", "settling", "grace", "kept", "done"}

Holders == [reg : BOOLEAN,      \* in the registry
            pend : BOOLEAN,     \* startPending
            run : BOOLEAN,      \* attached
            asked : BOOLEAN,    \* settle() was called
            disp : {"none", "running", "done", "failed"}]

Statuses == {"none", "answer", "failed", "cancel_requested", "cleanup_deferred"}

TypeOK ==
  /\ lease \in [Calls -> {"none", "held", "released"}]
  /\ running = Cardinality({h \in Children : lease[CallOf[h]] = "held"})
  /\ running <= Limit
  /\ pc \in [Children -> Stages] /\ final \in [Children -> Statuses]
  /\ holder \in [Children -> Holders]
  /\ child \in [Children -> {"none", "live", "gone"}]
  /\ parked \subseteq {h \in Children : pc[h] = "starting"}
  /\ identity \subseteq {h \in Children : holder[h].run}
  /\ terminal \subseteq Children /\ closed \subseteq Children
  /\ boundary \in [Calls -> {"none", "open", "grace", "returned"}]
  /\ kept \subseteq {h \in Children : pc[h] = "kept"}
  /\ drain \in [state : {"none", "waiting", "done"}, owned : SUBSET Children,
                unresolved : SUBSET Children]

Reserved == [reg |-> TRUE, pend |-> TRUE, run |-> FALSE, asked |-> FALSE, disp |-> "none"]
NoHolder == [Reserved EXCEPT !.reg = FALSE, !.pend = FALSE]

Init ==
  /\ running = 0 /\ lease = [c \in Calls |-> "none"]
  /\ pc = [h \in Children |-> "idle"] /\ final = [h \in Children |-> "none"]
  /\ holder = [h \in Children |-> NoHolder]
  /\ child = [h \in Children |-> "none"]
  /\ parked = {} /\ identity = {} /\ terminal = {} /\ closed = {}
  /\ boundary = [c \in Calls |-> "none"] /\ kept = {}
  /\ drain = [state |-> "none", owned |-> {}, unresolved |-> {}]

-----------------------------------------------------------------------------
(* The budget.                                                             *)

Acquire(c) ==
  /\ lease[c] = "none" /\ running + Cardinality(Items(c)) <= Limit
  /\ lease' = [lease EXCEPT ![c] = "held"]
  /\ running' = running + Cardinality(Items(c))

\* A lease gives its slots back once, however often it is released.
Open(c) == lease[c] = "held"

Back(n) == IF n <= running THEN running - n ELSE 0

Release(C) ==
  /\ lease' = [c \in Calls |-> IF c \in C THEN "released" ELSE lease[c]]
  /\ running' = Back(Cardinality({h \in Children : CallOf[h] \in C /\ Open(CallOf[h])}))

\* Batch items are given a lease that releases nothing.
ReleaseOwn(h) == Release({CallOf[h]} \ {c \in Calls : Mode[c] = "batch"})

-----------------------------------------------------------------------------
(* The holder.                                                             *)

Attach(x) ==
  [x EXCEPT !.pend = FALSE, !.run = TRUE, !.disp = IF x.asked THEN "running" ELSE "none"]

FailStart(x) ==
  [x EXCEPT !.pend = FALSE, !.disp = IF x.asked THEN "done" ELSE "none",
            !.reg = x.reg /\ ~x.asked]

\* settle(): waits for a start that is pending, else disposes what is there.
Settle(x) ==
  IF x.asked THEN x
  ELSE [x EXCEPT !.asked = TRUE,
                 !.disp = IF x.pend THEN "none" ELSE IF x.run THEN "running" ELSE "done",
                 !.reg = x.reg /\ (x.pend \/ x.run)]

Settled(x) == x.disp \in {"done", "failed"}

DidSettle(x) == x.disp = "done"

-----------------------------------------------------------------------------
(* Calls.                                                                  *)

\* reserve, beginStart, reserveChildComposition and startActivation run
\* without an await.
StartAll(H) ==
  /\ holder' = [h \in Children |->
                  IF h \in H /\ OneShot(h) THEN Reserved ELSE holder[h]]
  /\ parked' = parked \cup H

Tell(H, status) == final' = [h \in Children |-> IF h \in H THEN status ELSE final[h]]

Delegate(c) ==
  /\ Mode[c] # "batch" /\ Acquire(c)
  /\ StartAll(Items(c))
  /\ pc' = [h \in Children |-> IF h \in Items(c) THEN "starting" ELSE pc[h]]
  /\ UNCHANGED <<final, child, identity, terminal, closed, boundary, kept, drain>>

\* The job registry refuses the job, or the sidecar cannot be written: what
\* was acquired is given back in the same segment.
NotStarted(c) ==
  /\ Mode[c] \in {"background", "continuable"}
  /\ lease[c] = "none" /\ running + Cardinality(Items(c)) <= Limit
  /\ lease' = [lease EXCEPT ![c] = "released"]
  /\ pc' = [h \in Children |-> IF h \in Items(c) THEN "done" ELSE pc[h]]
  /\ Tell(Items(c), "failed")
  /\ UNCHANGED <<running, holder, child, parked, identity, terminal, closed, boundary, kept, drain>>

\* The items that are not authorised fail at once; the others start.
DelegateBatch(c, authorised) ==
  /\ Mode[c] = "batch" /\ Acquire(c)
  /\ StartAll(authorised)
  /\ pc' = [h \in Children |->
              IF h \notin Items(c) THEN pc[h] ELSE IF h \in authorised THEN "starting" ELSE "done"]
  /\ Tell(Items(c) \ authorised, "failed")
  /\ boundary' = [boundary EXCEPT ![c] = "open"]
  /\ UNCHANGED <<child, identity, terminal, closed, kept, drain>>

-----------------------------------------------------------------------------
(* One child.                                                              *)

GoTo(h, stage) == pc' = [pc EXCEPT ![h] = stage]
Hold(h, x) == holder' = [holder EXCEPT ![h] = x]

\* What the driver of h returns counts unless the batch gave h up.
Return(h, status) == GoTo(h, "done") /\ Tell({h} \ closed, status)

\* The agent/created listener takes the composition.
Materialize(h) ==
  /\ pc[h] = "starting" /\ child[h] = "none"
  /\ child' = [child EXCEPT ![h] = "live"]
  /\ parked' = parked \ {h}
  /\ UNCHANGED <<budget, flow, holder, identity, kept, drain>>

StartRejects(h) ==
  /\ pc[h] = "starting" /\ child[h] = "none"
  /\ parked' = parked \ {h}
  /\ IF OneShot(h) THEN Hold(h, Settle(FailStart(holder[h]))) ELSE UNCHANGED holder
  /\ ReleaseOwn(h)
  /\ Return(h, "failed")
  /\ UNCHANGED <<child, identity, terminal, closed, boundary, kept, drain>>

\* runtimeForCall passes no agents registry, so that the child of a scoped
\* form cannot be guarded.
Guarded(h) == h \notin Scoped

Refuse(h) ==
  /\ pc[h] = "starting" /\ OneShot(h) /\ child[h] = "live" /\ ~Guarded(h)
  /\ Hold(h, FailStart(holder[h]))
  /\ GoTo(h, "refused")
  /\ UNCHANGED <<budget, final, child, parked, identity, terminal, closed, boundary, kept, drain>>

\* The run the holder never got is disposed by hand; either way the rest follows.
RefusedDisposed(h) ==
  /\ pc[h] = "refused"
  /\ \E end \in {"live", "gone"} : child' = [child EXCEPT ![h] = end]
  /\ Hold(h, Settle(holder[h]))
  /\ ReleaseOwn(h)
  /\ Return(h, "failed")
  /\ UNCHANGED <<parked, identity, terminal, closed, boundary, kept, drain>>

\* A batch item that was closed meanwhile only waits for its settlement.
Started(h) ==
  /\ pc[h] = "starting" /\ OneShot(h) /\ child[h] = "live" /\ Guarded(h)
  /\ Hold(h, Attach(holder[h]))
  /\ identity' = identity \cup {h}
  /\ GoTo(h, IF h \in closed THEN "settling" ELSE "running")
  /\ UNCHANGED <<budget, final, child, parked, terminal, closed, boundary, kept, drain>>

KeptStarted(h) ==
  /\ pc[h] = "starting" /\ ~OneShot(h) /\ child[h] = "live"
  /\ kept' = kept \cup {h}
  /\ GoTo(h, "kept")
  /\ UNCHANGED <<budget, final, holder, child, parked, identity, terminal, closed, boundary, drain>>

\* subagent/end, which comes after startActivation has returned.
FirstRoundEnds(h) ==
  /\ h \in kept
  /\ kept' = kept \ {h}
  /\ ReleaseOwn(h)
  /\ Return(h, "answer")
  /\ UNCHANGED <<holder, child, parked, identity, terminal, closed, boundary, drain>>

\* run.result resolves: the holder is settled and awaited.
ResultArrives(h) ==
  /\ pc[h] = "running"
  /\ Hold(h, Settle(holder[h]))
  /\ terminal' = IF InBatch(h) THEN terminal \cup {h} ELSE terminal
  /\ GoTo(h, "settling")
  /\ UNCHANGED <<budget, final, child, parked, identity, closed, boundary, kept, drain>>

\* The cleanup attached to the settlement of h.
Forget(h, x) == IF DidSettle(x) THEN identity \ {h} ELSE identity

CleanedUp(h, x) ==
  /\ identity' = Forget(h, x)
  /\ IF Settled(x) THEN ReleaseOwn(h) ELSE UNCHANGED budget

\* run.result rejects: nobody waits for the settlement.
ResultRejects(h) ==
  /\ pc[h] = "running"
  /\ Hold(h, Settle(holder[h]))
  /\ CleanedUp(h, Settle(holder[h]))
  /\ Return(h, "failed")
  /\ UNCHANGED <<child, parked, terminal, closed, boundary, kept, drain>>

SettlementArrives(h) ==
  /\ pc[h] = "settling" /\ Settled(holder[h])
  /\ CleanedUp(h, holder[h])
  /\ Return(h, IF DidSettle(holder[h]) THEN "answer" ELSE "failed")
  /\ UNCHANGED <<holder, child, parked, terminal, closed, boundary, kept, drain>>

\* The deadline of a single call, or its caller's abort in the foreground.
CutShort(h) ==
  /\ pc[h] = "running" /\ Single(CallOf[h])
  /\ Hold(h, Settle(holder[h]))
  /\ GoTo(h, "grace")
  /\ UNCHANGED <<budget, final, child, parked, identity, terminal, closed, boundary, kept, drain>>

CutStatus(h) == IF DidSettle(holder[h]) THEN "cancel_requested" ELSE "cleanup_deferred"

\* cancelAndDrain: the settlement, its rejection or the grace timer.
GraceEnds(h) ==
  /\ pc[h] = "grace"
  /\ identity' = Forget(h, holder[h])
  /\ ReleaseOwn(h)
  /\ Return(h, CutStatus(h))
  /\ UNCHANGED <<holder, child, parked, terminal, closed, boundary, kept, drain>>

-----------------------------------------------------------------------------
(* run.dispose() settles.                                                  *)

\* Mutant: any settlement unregisters the holder.
BugKeepsHolder(ok) == FALSE
KeepsHolder(ok) == ~ok

DisposeSettles(h, ok) ==
  LET x == [holder[h] EXCEPT !.disp = IF ok THEN "done" ELSE "failed",
                             !.reg = holder[h].reg /\ KeepsHolder(ok)]
  IN
  /\ holder[h].disp = "running"
  /\ Hold(h, x)
  /\ child' = IF ok THEN [child EXCEPT ![h] = "gone"] ELSE child
  /\ IF pc[h] = "done" THEN CleanedUp(h, x) ELSE UNCHANGED <<budget, identity>>
  /\ UNCHANGED <<flow, parked, kept, drain>>

-----------------------------------------------------------------------------
(* The boundary of a batch.                                                *)

BatchAll(c) ==
  /\ boundary[c] = "open" /\ \A h \in Items(c) : pc[h] = "done"
  /\ boundary' = [boundary EXCEPT ![c] = "returned"]
  /\ Release({c})
  /\ UNCHANGED <<pc, final, holder, child, parked, identity, terminal, closed, kept, drain>>

\* Its deadline or the caller's abort: results that arrived stand, the other
\* items are closed, cancelled and settled.
BatchCut(c) ==
  LET unfinished == {h \in Items(c) : final[h] = "none" /\ h \notin terminal} IN
  /\ boundary[c] = "open"
  /\ Tell({h \in Items(c) \cap terminal : final[h] = "none"}, "answer")
  /\ closed' = closed \cup unfinished
  /\ holder' = [h \in Children |-> IF h \in unfinished THEN Settle(holder[h]) ELSE holder[h]]
  /\ boundary' = [boundary EXCEPT ![c] = "grace"]
  /\ UNCHANGED <<budget, pc, child, parked, identity, terminal, kept, drain>>

\* All settlements or the grace timer.
BatchGraceEnds(c) ==
  LET gone == {h \in Items(c) \cap closed : DidSettle(holder[h])} IN
  /\ boundary[c] = "grace"
  /\ final' = [h \in Children |->
                 IF h \in Items(c) \cap closed THEN CutStatus(h) ELSE final[h]]
  /\ identity' = identity \ gone
  /\ Release({c})
  /\ boundary' = [boundary EXCEPT ![c] = "returned"]
  /\ UNCHANGED <<pc, holder, child, parked, terminal, closed, kept, drain>>

-----------------------------------------------------------------------------
(* The drain of the plugin's cleanup.                                      *)

DrainBegin ==
  LET owned == {h \in Children : holder[h].reg} IN
  /\ drain.state = "none"
  /\ holder' = [h \in Children |-> IF h \in owned THEN Settle(holder[h]) ELSE holder[h]]
  /\ drain' = [state |-> "waiting", owned |-> owned, unresolved |-> {}]
  /\ UNCHANGED <<budget, flow, child, parked, identity, kept>>

\* Every settlement came, also by rejecting, or the grace is over.
DrainEnds ==
  /\ drain.state = "waiting"
  /\ \/ /\ \A h \in drain.owned : Settled(holder[h])
        /\ drain' = [drain EXCEPT !.state = "done"]
     \/ drain' = [drain EXCEPT !.state = "done",
                               !.unresolved = {h \in drain.owned : holder[h].reg}]
  /\ Release({CallOf[h] : h \in kept})
  /\ kept' = {}
  /\ pc' = [h \in Children |-> IF h \in kept THEN "done" ELSE pc[h]]
  /\ UNCHANGED <<final, holder, child, parked, identity, terminal, closed, boundary>>

-----------------------------------------------------------------------------
Drive(h) ==
  \/ Refuse(h) \/ Started(h) \/ KeptStarted(h) \/ SettlementArrives(h)
  \/ CutShort(h) \/ GraceEnds(h)

Host(h) ==
  \/ Materialize(h) \/ StartRejects(h) \/ RefusedDisposed(h)
  \/ FirstRoundEnds(h) \/ ResultArrives(h) \/ ResultRejects(h)
  \/ \E ok \in BOOLEAN : DisposeSettles(h, ok)

Boundary(c) == BatchAll(c) \/ BatchCut(c) \/ BatchGraceEnds(c)

Next ==
  \/ \E c \in Calls : \/ Delegate(c) \/ NotStarted(c) \/ Boundary(c)
                      \/ \E S \in SUBSET Items(c) : DelegateBatch(c, S)
  \/ \E h \in Children : Drive(h) \/ Host(h)
  \/ DrainBegin \/ DrainEnds

Spec == Init /\ [][Next]_vars

-----------------------------------------------------------------------------
Lives(h) == OneShot(h) /\ child[h] = "live"

\* A one-shot child that lives has an owner that will still dispose it or
\* report it: its holder is in the registry, except while, or after, a child
\* that could not be guarded is disposed by hand (reserve, startOneShot).
Registered ==
  \A h \in Children : Lives(h) => holder[h].reg \/ h \in Scoped

\* The slot of a single call is only free again when its child is gone, or
\* the caller knows better; and a child whose cancellation was reported as
\* done is gone (cancelAndDrain, releaseOwnership, BatchGraceEnds).
StatusTells ==
  \A h \in Children \ Scoped : Lives(h) =>
    /\ final[h] # "cancel_requested"
    /\ Single(CallOf[h]) /\ lease[CallOf[h]] = "released" =>
         final[h] = "cleanup_deferred" \/ holder[h].disp = "failed"

\* A published child keeps its identity while it lives, so that it may
\* delegate; nothing of a child stays behind when it is gone and its call is
\* over (cleanupOneShotOnSettlement, child-composition.js).
IdentityKept ==
  \A h \in Children :
    /\ Lives(h) /\ holder[h].run => h \in identity
    /\ child[h] # "live" /\ pc[h] = "done" => h \notin identity \cup parked

\* On every path a delegation may end, its slots are given back once it has
\* returned and the disposals it asked for have settled ("so this path cannot
\* forget the lease", startOneShot; the finally of runForeground).
SlotsReturned ==
  \A c \in Calls :
    /\ lease[c] = "held"
    /\ boundary[c] \in {"none", "returned"} /\ \A h \in Items(c) : pc[h] = "done"
    => \E h \in Items(c) : holder[h].disp = "running"

\* "A rejected settlement did not prove resources were released; retain the
\* holder so Host drain still owns and reports it": what lives when the drain
\* returns is in its report.
DrainReports ==
  drain.state = "done" =>
    \A h \in drain.owned : child[h] = "live" => h \in drain.unresolved
=============================================================================
