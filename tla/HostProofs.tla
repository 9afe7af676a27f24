----------------------------- MODULE HostProofs -----------------------------
(***************************************************************************)
(* What hangs on the host's events, for every value of the constants.      *)
(*                                                                         *)
(* First automatic diagnostics: a report speaks only of the newest         *)
(* observed mutation of each file and never after an abort from outside,   *)
(* none of these mutations is lost in silence, and the cleanup leaves      *)
(* nothing behind.  Three invariants carry the proofs.  CollectorInv ties  *)
(* the counts of a file together: the generation a candidate was given is  *)
(* its place among the observed mutations, the marker holds the last of    *)
(* these or none, and the counter is one ahead until it stops.  KeepInv    *)
(* says whose candidates are whose, GateInv how the gate, the final stats  *)
(* and retiredIo stand.                                                    *)
(*                                                                         *)
(* Then the tool, whose answers miss no observed mutation: an order        *)
(* between three counts, the epoch a call took, the mutations seen when    *)
(* its first stat looked at the file, and those seen now.                  *)
(*                                                                         *)
(* Then the rtk decoration, for any mounts, commands and tool calls: its   *)
(* references are counted, a command asks the oracle once and obeys it,    *)
(* and how deep a grep result is nested is where it is in its chain.       *)
(*                                                                         *)
(* Last, these theorems and those of the model adapter are                 *)
(* carried over to the composite that is model-checked.  A behaviour of it *)
(* is one of each component, which stands still while another one moves.   *)
(***************************************************************************)
EXTENDS MCHost, Sequences, FiniteSetTheorems, TLAPS

Held(o) == o.taken \cup o.todo \cup o.eligible

MarkerType == [gen : 0..MaxGen, ver : Versions]

Numbered == \A e \in Execs : \A c \in pending[e] \cup Held(op[e]) : c.gen = c.nth

MarkerNewest == \A t \in Targets : marker[t].gen # 0 => marker[t].gen = seen[t]

CounterAhead ==
  \A t \in Targets : nextGen[t] # MaxGen + 1 => nextGen[t] = seen[t] + 1

CollectorInv == TypeOK /\ Numbered /\ MarkerNewest /\ CounterAhead

-----------------------------------------------------------------------------
(* Operation records.                                                      *)

LEMMA NewOpType == NewOp \in Operation /\ Held(NewOp) = {}
<1>1. [t \in Targets |-> "none"] \in [Targets -> {"none", "answer", "stale"}]
  OBVIOUS
<1>2. [t \in Targets |-> "none"] \in
        [Targets -> {"none", "asked", "same", "other", "rejected"}]
  OBVIOUS
<1> QED BY <1>1, <1>2 DEF NewOp, Operation, Held

LEMMA AbortedType ==
  ASSUME NEW o \in Operation, NEW why \in {"deadline", "caller", "cleanup"}
  PROVE  Aborted(o, why) \in Operation /\ Held(Aborted(o, why)) = Held(o)
<1> DEFINE k == IF why = "deadline" THEN o.kind ELSE AbortKind(o, why)
           f == o.fired \/ (why = "deadline" /\ ~o.aborted)
           g == Closed(o)
<1>1. k \in {"none", "caller", "cleanup"}
  BY DEF AbortKind, Operation
<1>2. f \in BOOLEAN
  BY DEF Operation
<1>3. g \in {"open", "committed", "timed-out"}
  BY DEF Closed, Operation
<1>4. Aborted(o, why) = [o EXCEPT !.kind = k, !.fired = f, !.aborted = TRUE, !.gate = g]
  BY DEF Aborted
<1> HIDE DEF k, f, g
<1> QED BY <1>1, <1>2, <1>3, <1>4 DEF Operation, Held

LEMMA RemainsType ==
  ASSUME NEW o \in Operation
  PROVE  Remains(o) \in Operation /\ Held(Remains(o)) = {}
<1>1. CASE Unsettled(o) = {}
  BY <1>1, NewOpType DEF Remains
<1>2. CASE Unsettled(o) # {}
  <2>1. Remains(o) = [NewOp EXCEPT !.stat = o.stat, !.settled = o.settled]
    BY <1>2 DEF Remains
  <2>2. o.stat \in [Targets -> {"none", "asked", "same", "other", "rejected"}]
        /\ o.settled \in SUBSET Targets
    BY DEF Operation
  <2> HIDE DEF NewOp
  <2> QED BY <2>1, <2>2, NewOpType DEF Operation, Held
<1> QED BY <1>1, <1>2

\* Retiring candidates removes markers and changes none.
LEMMA Retiring ==
  ASSUME TypeOK, NEW cs
  PROVE  /\ RetireIfCurrent(marker, cs) \in [Targets -> MarkerType]
         /\ \A t \in Targets : RetireIfCurrent(marker, cs)[t].gen # 0
                               => RetireIfCurrent(marker, cs)[t] = marker[t]
<1> DEFINE m == RetireIfCurrent(marker, cs)
<1>1. ASSUME NEW t \in Targets
      PROVE  m[t] \in MarkerType /\ (m[t].gen # 0 => m[t] = marker[t])
  <2>1. marker[t] \in MarkerType /\ NoMarker(marker[t].ver) \in MarkerType
    BY BoundAssumption DEF TypeOK, MarkerType, NoMarker
  <2>2. m[t] = marker[t] \/ m[t] = NoMarker(marker[t].ver)
    BY DEF RetireIfCurrent
  <2>3. NoMarker(marker[t].ver).gen = 0
    BY DEF NoMarker
  <2> QED BY <2>1, <2>2, <2>3
<1>2. m \in [Targets -> MarkerType]
  BY <1>1 DEF RetireIfCurrent
<1> QED BY <1>1, <1>2

-----------------------------------------------------------------------------
LEMMA InitInv == Init => CollectorInv
<1> SUFFICES ASSUME Init PROVE CollectorInv
  OBVIOUS
<1>1. /\ NewOp \in Operation /\ Held(NewOp) = {}
  BY NewOpType
<1>2. marker \in [Targets -> MarkerType] /\ \A t \in Targets : marker[t].gen = 0
  BY BoundAssumption DEF Init, MarkerType, NoMarker
<1>3. nextGen \in [Targets -> 1..(MaxGen + 1)] /\ seen \in [Targets -> 0..MaxSeen]
  BY BoundAssumption DEF Init
<1>4. TypeOK
  BY <1>1, <1>2, <1>3 DEF Init, TypeOK, MarkerType, Stages, CleanupSteps
<1>5. Numbered
  BY <1>1 DEF Init, Numbered
<1>6. MarkerNewest /\ CounterAhead
  BY <1>2 DEF Init, MarkerNewest, CounterAhead
<1> QED BY <1>4, <1>5, <1>6 DEF CollectorInv

\* What a step of one exec has to show when nothing is observed.
LEMMA ExecStep ==
  ASSUME CollectorInv, NEW e \in Execs, NEW o \in Operation, NEW s \in Stages,
         op' = [op EXCEPT ![e] = o], pc' = [pc EXCEPT ![e] = s],
         Held(o) \subseteq Held(op[e]) \cup pending[e],
         pending' = pending \/ pending' = [pending EXCEPT ![e] = {}],
         marker' \in [Targets -> MarkerType],
         \A t \in Targets : marker'[t].gen # 0 => marker'[t] = marker[t],
         UNCHANGED <<disk, nextGen, seen, cleanup>>,
         late' \in SUBSET Execs, cancelled' \in SUBSET Execs,
         retired' \in SUBSET (Execs \X Targets)
  PROVE  CollectorInv'
<1>1. TypeOK'
  BY DEF CollectorInv, TypeOK, MarkerType
<1>2. Numbered'
  BY DEF CollectorInv, TypeOK, Numbered
<1>3. MarkerNewest'
  BY DEF CollectorInv, MarkerNewest
<1>4. CounterAhead'
  BY DEF CollectorInv, CounterAhead
<1> QED BY <1>1, <1>2, <1>3, <1>4 DEF CollectorInv

\* A return retires what was taken and keeps at most the final stats.
LEMMA ReturnStep ==
  ASSUME CollectorInv, NEW e \in Execs, NEW o \in Operation, Return(e, o),
         pending' = pending \/ TakeAll(e), UNCHANGED <<disk, cleanup>>,
         retired' \in SUBSET (Execs \X Targets)
  PROVE  CollectorInv'
<1>1. Remains(o) \in Operation /\ Held(Remains(o)) = {}
  BY RemainsType
<1>2. /\ marker' \in [Targets -> MarkerType]
      /\ \A t \in Targets : marker'[t].gen # 0 => marker'[t] = marker[t]
  BY Retiring DEF CollectorInv, Return
<1>3. late' \in SUBSET Execs /\ cancelled' \in SUBSET Execs
  BY DEF CollectorInv, TypeOK, Return
<1>4. "done" \in Stages
  BY DEF Stages
<1> QED BY <1>1, <1>2, <1>3, <1>4, ExecStep DEF Return, TakeAll

LEMMA ObserveStep ==
  ASSUME CollectorInv, NEW e \in Execs, NEW t \in Targets, NEW v \in Versions,
         Observe(e, t, v)
  PROVE  CollectorInv'
<1>0. /\ nextGen[t] \in 1..(MaxGen + 1) /\ seen[t] \in 0..MaxSeen
      /\ marker[t] \in MarkerType /\ seen[t] < MaxSeen
      /\ MaxGen \in Nat \ {0} /\ MaxSeen \in Nat
  BY BoundAssumption DEF CollectorInv, TypeOK, MarkerType, Observe
<1>1. /\ seen' = [seen EXCEPT ![t] = seen[t] + 1]
      /\ seen[t] + 1 \in 1..MaxSeen
      /\ seen' \in [Targets -> 0..MaxSeen]
  BY <1>0 DEF Observe, CollectorInv, TypeOK
<1>2. UNCHANGED <<disk, late, cancelled, pc, op, retired, cleanup>>
  BY DEF Observe, world
<1>3. CASE Exhausted(t)
  <2>1. marker' = [marker EXCEPT ![t] = NoMarker(marker[t].ver)]
        /\ UNCHANGED <<nextGen, pending>>
    BY <1>3 DEF Observe, Suppressed
  <2>2. NoMarker(marker[t].ver) \in MarkerType /\ NoMarker(marker[t].ver).gen = 0
    BY <1>0 DEF MarkerType, NoMarker
  <2>3. marker' \in [Targets -> MarkerType]
    BY <2>1, <2>2 DEF CollectorInv, TypeOK, MarkerType
  <2>4. TypeOK'
    BY <1>1, <1>2, <2>1, <2>3 DEF CollectorInv, TypeOK, MarkerType
  <2>5. Numbered'
    BY <1>2, <2>1 DEF CollectorInv, Numbered
  <2>6. MarkerNewest'
    BY <1>1, <2>1, <2>2 DEF CollectorInv, TypeOK, MarkerNewest
  <2>7. CounterAhead'
    BY <1>1, <1>3, <2>1 DEF CollectorInv, TypeOK, CounterAhead, Exhausted
  <2> QED BY <2>4, <2>5, <2>6, <2>7 DEF CollectorInv
<1>4. CASE ~Exhausted(t)
  <2> DEFINE g == nextGen[t]
             new == [target |-> t, gen |-> g, ver |-> v, nth |-> seen[t] + 1]
             rest == {c \in pending[e] : c.target # t}
  <2>1. g = seen[t] + 1 /\ g \in 1..MaxGen
    BY <1>0, <1>4 DEF CollectorInv, CounterAhead, Exhausted
  <2>2. new \in Candidate /\ new.gen = new.nth
    BY <1>1, <2>1 DEF Candidate
  <2>3. /\ nextGen' = [nextGen EXCEPT ![t] = g + 1]
        /\ marker' = [marker EXCEPT ![t] = [gen |-> g, ver |-> v]]
        /\ pending' = [pending EXCEPT ![e] = rest \cup {new}]
    BY <1>4 DEF Observe
  <2>4. rest \cup {new} \in SUBSET Candidate
    BY <2>2 DEF CollectorInv, TypeOK
  <2>5. g + 1 \in 1..(MaxGen + 1) /\ [gen |-> g, ver |-> v] \in MarkerType
    BY <1>0, <2>1 DEF MarkerType
  <2>6. [gen |-> g, ver |-> v].gen = g
    OBVIOUS
  <2> HIDE DEF new, rest, g
  <2>7. nextGen' \in [Targets -> 1..(MaxGen + 1)] /\ marker' \in [Targets -> MarkerType]
        /\ pending' \in [Execs -> SUBSET Candidate]
    BY <2>3, <2>4, <2>5 DEF CollectorInv, TypeOK, MarkerType
  <2>8. TypeOK'
    BY <1>1, <1>2, <2>7 DEF CollectorInv, TypeOK, MarkerType
  <2>9. Numbered'
    <3>1. \A d \in Execs : pending'[d] \subseteq pending[d] \cup {new}
      BY <2>3 DEF CollectorInv, TypeOK, rest
    <3> QED BY <1>2, <2>2, <3>1 DEF CollectorInv, Numbered
  <2>10. MarkerNewest'
    BY <1>1, <2>1, <2>3, <2>6 DEF CollectorInv, TypeOK, MarkerNewest
  <2>11. CounterAhead'
    BY <1>0, <1>1, <2>1, <2>3 DEF CollectorInv, TypeOK, CounterAhead
  <2> QED BY <2>8, <2>9, <2>10, <2>11 DEF CollectorInv
<1> QED BY <1>3, <1>4

\* The steps that leave the marker and the candidates alone.
LEMMA QuietStep ==
  ASSUME CollectorInv, UNCHANGED <<collector, disk, cleanup>>,
         NEW e \in Execs, NEW o \in Operation, NEW s \in Stages,
         op' = [op EXCEPT ![e] = o], pc' = [pc EXCEPT ![e] = s],
         Held(o) \subseteq Held(op[e]) \cup pending[e],
         late' \in SUBSET Execs, cancelled' \in SUBSET Execs,
         retired' \in SUBSET (Execs \X Targets)
  PROVE  CollectorInv'
<1>1. marker' \in [Targets -> MarkerType]
      /\ \A t \in Targets : marker'[t].gen # 0 => marker'[t] = marker[t]
  BY DEF CollectorInv, TypeOK, MarkerType, collector
<1> QED BY <1>1, ExecStep DEF collector

\* The signals of an operation, and what becomes of its final stats.
LEMMA SignalStep ==
  ASSUME CollectorInv, NEW e \in Execs,
         ClockPasses(e) \/ DeadlineFires(e) \/ CallerAborts(e)
  PROVE  CollectorInv'
<1>0. op[e] \in Operation /\ op \in [Execs -> Operation] /\ pc \in [Execs -> Stages]
      /\ late \in SUBSET Execs /\ cancelled \in SUBSET Execs
      /\ retired \in SUBSET (Execs \X Targets) /\ pc[e] \in Stages
  BY DEF CollectorInv, TypeOK
<1>1. Given(e, op[e]) \in SUBSET (Execs \X Targets)
  BY DEF Given, Unsettled
<1>2. op = [op EXCEPT ![e] = op[e]] /\ pc = [pc EXCEPT ![e] = pc[e]]
  BY <1>0
<1>3. CASE ClockPasses(e)
  BY <1>0, <1>2, <1>3, QuietStep DEF ClockPasses
<1>4. CASE DeadlineFires(e)
  <2>1. Aborted(op[e], "deadline") \in Operation
        /\ Held(Aborted(op[e], "deadline")) = Held(op[e])
    BY <1>0, AbortedType
  <2> QED BY <1>0, <1>1, <1>2, <1>4, <2>1, QuietStep DEF DeadlineFires, world
<1>5. CASE CallerAborts(e)
  <2>1. Aborted(op[e], "caller") \in Operation
        /\ Held(Aborted(op[e], "caller")) = Held(op[e])
    BY <1>0, AbortedType
  <2> QED BY <1>0, <1>1, <1>2, <1>5, <2>1, QuietStep DEF CallerAborts
<1> QED BY <1>3, <1>4, <1>5

LEMMA BeginStep ==
  ASSUME CollectorInv, NEW e \in Execs,
         Listener(e) \/ DownstreamFails(e) \/ BeginAugment(e) \/ Body(e)
  PROVE  CollectorInv'
<1>0. /\ op[e] \in Operation /\ op \in [Execs -> Operation]
      /\ pending[e] \in SUBSET Candidate /\ pending \in [Execs -> SUBSET Candidate]
      /\ late \in SUBSET Execs /\ cancelled \in SUBSET Execs
      /\ retired \in SUBSET (Execs \X Targets)
  BY DEF CollectorInv, TypeOK
<1>1. Taken(e) \in Operation /\ Rejected(e) \in Operation
      /\ Held(Taken(e)) \subseteq Held(op[e]) \cup pending[e]
  BY <1>0 DEF Taken, Rejected, Operation, Held
<1>2. CASE Listener(e)
  <2>1. op = [op EXCEPT ![e] = op[e]] /\ "next" \in Stages
    BY <1>0 DEF Stages
  <2> QED BY <1>0, <1>2, <2>1, QuietStep DEF Listener, world
<1>3. CASE DownstreamFails(e)
  BY <1>0, <1>1, <1>3, ReturnStep DEF DownstreamFails
<1>4. CASE BeginAugment(e) /\ cleanup # "open"
  BY <1>0, <1>1, <1>4, ReturnStep DEF BeginAugment
<1>5. CASE BeginAugment(e) /\ cleanup = "open"
  <2> DEFINE o == IF e \in cancelled THEN Aborted(NewOp, "caller") ELSE NewOp
  <2>1. o \in Operation /\ Held(o) = {}
    BY NewOpType, AbortedType
  <2>2. op' = [op EXCEPT ![e] = o] /\ pc' = [pc EXCEPT ![e] = "begun"]
        /\ UNCHANGED <<collector, disk, late, cancelled, retired, cleanup>>
    BY <1>5 DEF BeginAugment
  <2>3. "begun" \in Stages
    BY DEF Stages
  <2> HIDE DEF o
  <2> QED BY <1>0, <2>1, <2>2, <2>3, QuietStep
<1>6. CASE Body(e)
  <2>1. CASE Return(e, Taken(e))
    BY <1>0, <1>1, <1>6, <2>1, ReturnStep DEF Body
  <2>2. ASSUME NEW routed \in SUBSET pending[e],
               pc' = [pc EXCEPT ![e] = "workspace"],
               op' = [op EXCEPT ![e] = [Taken(e) EXCEPT !.todo = routed]],
               marker' = RetireIfCurrent(marker, pending[e] \ routed),
               UNCHANGED <<nextGen, seen, late, cancelled>>
        PROVE  CollectorInv'
    <3> DEFINE o == [Taken(e) EXCEPT !.todo = routed]
    <3>1. o \in Operation /\ Held(o) \subseteq Held(op[e]) \cup pending[e]
      BY <1>0, <1>1 DEF Operation, Held, Taken
    <3>2. "workspace" \in Stages
      BY DEF Stages
    <3>3. pending' = [pending EXCEPT ![e] = {}] /\ UNCHANGED <<disk, retired, cleanup>>
      BY <1>6 DEF Body, TakeAll
    <3>4. /\ marker' \in [Targets -> MarkerType]
          /\ \A t \in Targets : marker'[t].gen # 0 => marker'[t] = marker[t]
      BY <2>2, Retiring DEF CollectorInv
    <3>5. op' = [op EXCEPT ![e] = o]
      BY <2>2
    <3> HIDE DEF o
    <3> QED BY <1>0, <2>2, <3>1, <3>2, <3>3, <3>4, <3>5, ExecStep
  <2> QED BY <1>6, <2>1, <2>2 DEF Body
<1> QED BY <1>2, <1>3, <1>4, <1>5, <1>6

LEMMA EligibleStep ==
  ASSUME CollectorInv, NEW e \in Execs, Workspace(e) \/ Eligibility(e)
  PROVE  CollectorInv'
<1>0. /\ op[e] \in Operation /\ op \in [Execs -> Operation]
      /\ late \in SUBSET Execs /\ cancelled \in SUBSET Execs
      /\ retired \in SUBSET (Execs \X Targets)
      /\ op = [op EXCEPT ![e] = op[e]]
  BY DEF CollectorInv, TypeOK
<1>1. {"eligible", "diagnose"} \subseteq Stages
  BY DEF Stages
<1>2. CASE Workspace(e)
  <2>1. CASE Return(e, op[e])
    BY <1>0, <1>2, <2>1, ReturnStep DEF Workspace
  <2>2. CASE ~Return(e, op[e])
    BY <1>0, <1>1, <1>2, <2>2, QuietStep DEF Workspace, collector
  <2> QED BY <2>1, <2>2
<1>3. ASSUME NEW keep \in BOOLEAN, NEW c \in op[e].todo, Consider(e, c, keep),
             UNCHANGED <<disk, pending, retired, cleanup>>
      PROVE  CollectorInv'
  <2>1. CASE Return(e, op[e])
    BY <1>0, <1>3, <2>1, ReturnStep
  <2>2. CASE ~Return(e, op[e])
    <3> DEFINE o == Sorted(op[e], c, keep)
    <3> DEFINE ds == op[e].eligible \cup (IF keep THEN {c} ELSE {})
    <3>a. o = [op[e] EXCEPT !.todo = op[e].todo \ {c}, !.eligible = ds]
      BY DEF Sorted
    <3>b. op[e].todo \in SUBSET Candidate /\ op[e].eligible \in SUBSET Candidate
      BY <1>0 DEF Operation
    <3>c. ds \in SUBSET Candidate /\ ds \subseteq op[e].eligible \cup op[e].todo
      BY <3>b
    <3>d. op[e].todo \ {c} \in SUBSET Candidate
      BY <3>b
    <3> HIDE DEF ds
    <3> DEFINE ts == op[e].todo \ {c}
    <3>e. o = [op[e] EXCEPT !.todo = ts, !.eligible = ds]
      BY <3>a
    <3>f. ts \in SUBSET Candidate /\ ts \subseteq op[e].todo
      BY <3>d
    <3> HIDE DEF ts, o
    <3>g. o \in Operation
      BY <1>0, <3>c, <3>e, <3>f DEF Operation
    <3>h. o.taken = op[e].taken /\ o.todo = ts /\ o.eligible = ds
      BY <1>0, <3>e DEF Operation
    <3>1. o \in Operation /\ Held(o) \subseteq Held(op[e])
      BY <3>c, <3>f, <3>g, <3>h DEF Held
    <3>2. PICK s \in Stages : pc' = [pc EXCEPT ![e] = s]
      BY <1>1, <1>3, <2>2 DEF Consider
    <3>3. op' = [op EXCEPT ![e] = o] /\ UNCHANGED <<nextGen, seen, late, cancelled>>
          /\ marker' = RetireIfCurrent(marker, IF keep THEN {} ELSE {c})
      BY <1>3, <2>2 DEF Consider, o
    <3>4. /\ marker' \in [Targets -> MarkerType]
          /\ \A t \in Targets : marker'[t].gen # 0 => marker'[t] = marker[t]
      BY <3>3, Retiring DEF CollectorInv
    <3> HIDE DEF o
    <3> QED BY <1>0, <1>3, <3>1, <3>2, <3>3, <3>4, ExecStep
  <2> QED BY <2>1, <2>2
<1> QED BY <1>2, <1>3 DEF Eligibility

LEMMA DiagnoseStep ==
  ASSUME CollectorInv, NEW e \in Execs,
         (\E r \in {"answer", "stale"} : Diagnose(e, r)) \/ StartFinalStats(e)
         \/ (\E t \in Targets : StatReads(e, t) \/ StatSettles(e, t))
  PROVE  CollectorInv'
<1>0. /\ op[e] \in Operation /\ op \in [Execs -> Operation] /\ pc \in [Execs -> Stages]
      /\ late \in SUBSET Execs /\ cancelled \in SUBSET Execs
      /\ retired \in SUBSET (Execs \X Targets) /\ pc[e] \in Stages
      /\ op = [op EXCEPT ![e] = op[e]] /\ pc = [pc EXCEPT ![e] = pc[e]]
  BY DEF CollectorInv, TypeOK
<1>1. \A c \in op[e].eligible : c.target \in Targets
  BY <1>0 DEF Operation, Candidate
<1>2. ASSUME NEW r \in {"answer", "stale"}, Diagnose(e, r)
      PROVE  CollectorInv'
  <2>1. PICK c \in op[e].eligible :
          op' = [op EXCEPT ![e] = [op[e] EXCEPT !.out = [op[e].out EXCEPT ![c.target] = r]]]
    BY <1>2 DEF Diagnose
  <2> DEFINE o == [op[e] EXCEPT !.out = [op[e].out EXCEPT ![c.target] = r]]
  <2>2. o \in Operation
    <3>1. [op[e].out EXCEPT ![c.target] = r] \in [Targets -> {"none", "answer", "stale"}]
      BY <1>0, <1>1 DEF Operation
    <3> QED BY <1>0, <3>1 DEF Operation
  <2>3. Held(o) = Held(op[e])
    BY <1>0 DEF Held, Operation
  <2>4. op' = [op EXCEPT ![e] = o] /\ UNCHANGED <<collector, disk, late, cancelled, pc, retired, cleanup>>
    BY <1>2, <2>1 DEF Diagnose, world
  <2> HIDE DEF o
  <2> QED BY <1>0, <2>2, <2>3, <2>4, QuietStep
<1>3. CASE StartFinalStats(e)
  <2> DEFINE m == [t \in Targets |-> IF \E c \in Diagnosed(op[e]) : c.target = t
                                     THEN "asked" ELSE "none"]
  <2>1. m \in [Targets -> {"none", "asked", "same", "other", "rejected"}]
    OBVIOUS
  <2>2. [op[e] EXCEPT !.stat = m] \in Operation
    BY <1>0, <2>1 DEF Operation
  <2>3. Held([op[e] EXCEPT !.stat = m]) = Held(op[e])
    BY <1>0 DEF Held, Operation
  <2>4. op' = op \/ op' = [op EXCEPT ![e] = [op[e] EXCEPT !.stat = m]]
    BY <1>3 DEF StartFinalStats
  <2>5. "stats" \in Stages /\ pc' = [pc EXCEPT ![e] = "stats"]
        /\ UNCHANGED <<collector, disk, late, cancelled, retired, cleanup>>
    BY <1>3 DEF StartFinalStats, Stages, world
  <2>6. "stats" \in Stages
    BY DEF Stages
  <2> HIDE DEF m
  <2>7. CASE op' = op
    <3>1. op' = [op EXCEPT ![e] = op[e]]
      BY <1>0, <2>7
    <3> QED BY <1>0, <2>5, <2>6, <3>1, QuietStep
  <2>8. CASE op' = [op EXCEPT ![e] = [op[e] EXCEPT !.stat = m]]
    <3> DEFINE o == [op[e] EXCEPT !.stat = m]
    <3>1. o \in Operation /\ Held(o) = Held(op[e]) /\ op' = [op EXCEPT ![e] = o]
      BY <2>2, <2>3, <2>8
    <3> HIDE DEF o
    <3> QED BY <1>0, <2>5, <2>6, <3>1, QuietStep
  <2> QED BY <2>4, <2>7, <2>8
<1>4. ASSUME NEW t \in Targets, StatReads(e, t)
      PROVE  CollectorInv'
  <2>1. PICK s \in {"same", "other", "rejected"} :
          op' = [op EXCEPT ![e] = [op[e] EXCEPT !.stat = [op[e].stat EXCEPT ![t] = s]]]
    BY <1>4 DEF StatReads
  <2> DEFINE o == [op[e] EXCEPT !.stat = [op[e].stat EXCEPT ![t] = s]]
  <2>2. [op[e].stat EXCEPT ![t] = s] \in [Targets -> {"none", "asked", "same", "other", "rejected"}]
    BY <1>0 DEF Operation
  <2>3. o \in Operation
    BY <1>0, <2>2 DEF Operation
  <2>4. Held(o) = Held(op[e])
    BY <1>0 DEF Held, Operation
  <2>5. op' = [op EXCEPT ![e] = o] /\ UNCHANGED <<collector, disk, late, cancelled, pc, retired, cleanup>>
    BY <1>4, <2>1 DEF StatReads, world
  <2> HIDE DEF o
  <2> QED BY <1>0, <2>3, <2>4, <2>5, QuietStep
<1>5. ASSUME NEW t \in Targets, StatSettles(e, t)
      PROVE  CollectorInv'
  <2> DEFINE o == [op[e] EXCEPT !.settled = op[e].settled \cup {t}]
  <2>1. o \in Operation
    BY <1>0 DEF Operation
  <2>2. Held(o) = Held(op[e])
    BY <1>0 DEF Held, Operation
  <2>3. op' = [op EXCEPT ![e] = o] /\ UNCHANGED <<collector, disk, late, cancelled, pc, cleanup>>
    BY <1>5 DEF StatSettles, world
  <2>4. retired' \in SUBSET (Execs \X Targets)
    BY <1>0, <1>5 DEF StatSettles
  <2> HIDE DEF o
  <2> QED BY <1>0, <2>1, <2>2, <2>3, <2>4, QuietStep
<1> QED BY <1>2, <1>3, <1>4, <1>5

LEMMA CleanupStep ==
  ASSUME CollectorInv, StopAdmission \/ Cleanup
  PROVE  CollectorInv'
<1>1. /\ UNCHANGED <<collector, disk, late, cancelled, pc>>
      /\ cleanup' \in CleanupSteps
  BY DEF Cleanup, StopAdmission, OffPost, OffObserved, AbortActiveOperations,
       AwaitActiveOperations, AwaitRetiredIo, Dispose, CleanupMove, CleanupSteps, world
<1>2. /\ op' \in [Execs -> Operation] /\ retired' \in SUBSET (Execs \X Targets)
      /\ \A e \in Execs : Held(op'[e]) = Held(op[e])
  <2>1. CASE AbortActiveOperations
    <3>1. \A e \in Execs : /\ Aborted(op[e], "cleanup") \in Operation
                           /\ Held(Aborted(op[e], "cleanup")) = Held(op[e])
                           /\ op[e] \in Operation
      BY AbortedType DEF CollectorInv, TypeOK
    <3>2. \A e \in Execs : Given(e, op[e]) \in SUBSET (Execs \X Targets)
      BY DEF Given, Unsettled
    <3>3. op' = [e \in Execs |-> IF Active(e) THEN Aborted(op[e], "cleanup") ELSE op[e]]
      BY <2>1 DEF AbortActiveOperations
    <3>4. retired' \in SUBSET (Execs \X Targets)
      BY <2>1, <3>2 DEF AbortActiveOperations, CollectorInv, TypeOK
    <3> QED BY <3>1, <3>3, <3>4
  <2>2. CASE ~AbortActiveOperations
    BY <2>2 DEF Cleanup, StopAdmission, OffPost, OffObserved,
         AwaitActiveOperations, AwaitRetiredIo, Dispose, CollectorInv, TypeOK
  <2> QED BY <2>1, <2>2
<1>3. TypeOK'
  BY <1>1, <1>2 DEF CollectorInv, TypeOK, collector
<1>4. Numbered'
  BY <1>1, <1>2 DEF CollectorInv, Numbered, collector
<1>5. MarkerNewest' /\ CounterAhead'
  BY <1>1 DEF CollectorInv, MarkerNewest, CounterAhead, collector
<1> QED BY <1>3, <1>4, <1>5 DEF CollectorInv

LEMMA NextInv == CollectorInv /\ [Next]_vars => CollectorInv'
<1> SUFFICES ASSUME CollectorInv, [Next]_vars PROVE CollectorInv'
  OBVIOUS
<1>1. ASSUME NEW e \in Execs, NEW t \in Targets, NEW v \in Versions, Observe(e, t, v)
      PROVE  CollectorInv'
  BY <1>1, ObserveStep
<1>2. ASSUME NEW t \in Targets, NEW v \in Versions, Write(t, v)
      PROVE  CollectorInv'
  <2>1. UNCHANGED <<collector, pc, op, late, cancelled, retired, cleanup>>
        /\ disk' \in [Targets -> Versions]
    BY <1>2 DEF Write, CollectorInv, TypeOK
  <2> QED BY <2>1 DEF CollectorInv, TypeOK, Numbered, MarkerNewest, CounterAhead, collector
<1>3. ASSUME NEW e \in Execs, Publish(e)
      PROVE  CollectorInv'
  <2>1. op[e] \in Operation /\ retired' \in SUBSET (Execs \X Targets)
    BY <1>3 DEF Publish, Given, Unsettled, CollectorInv, TypeOK
  <2> QED BY <1>3, <2>1, ReturnStep DEF Publish
<1>4. ASSUME NEW e \in Execs,
             \/ Listener(e) \/ DownstreamFails(e) \/ BeginAugment(e)
             \/ Transaction(e) \/ Stat(e)
             \/ ClockPasses(e) \/ DeadlineFires(e) \/ CallerAborts(e)
      PROVE  CollectorInv'
  BY <1>3, <1>4, BeginStep, EligibleStep, DiagnoseStep, SignalStep DEF Transaction, Stat
<1>5. CASE StopAdmission \/ Cleanup
  BY <1>5, CleanupStep
<1>6. CASE Stopped \/ UNCHANGED vars
  BY <1>6 DEF Stopped, vars, CollectorInv, TypeOK, Numbered, MarkerNewest, CounterAhead
<1> QED BY <1>1, <1>2, <1>4, <1>5, <1>6 DEF Next

LEMMA Invariance == Spec => []CollectorInv
  BY InitInv, NextInv, PTL DEF Spec

-----------------------------------------------------------------------------
\* Every variable keeps its type; generations stop at MaxGen.
THEOREM TypeCorrect == Spec => []TypeOK
<1>1. CollectorInv => TypeOK
  BY DEF CollectorInv
<1> QED BY <1>1, Invariance, PTL

\* Every entry of a report is for the newest observed mutation of its file,
\* also after the generations of the file are exhausted.
THEOREM NewestReported == Spec => OnlyNewest
<1> DEFINE Newest == \A e \in Execs : Publishes(e) =>
                       \A x \in Report(e) : x.nth = seen[x.target]
<1>1. ASSUME CollectorInv
      PROVE  Newest
  <2> SUFFICES ASSUME NEW e \in Execs, NEW x \in Report(e)
               PROVE  x.nth = seen[x.target]
    OBVIOUS
  <2> DEFINE o == Decided(e, op[e])
  <2>1. o.eligible = op[e].eligible
    <3>1. op[e] \in Operation
      BY <1>1 DEF CollectorInv, TypeOK
    <3> QED BY <3>1 DEF Decided, Aborted, Operation
  <2>2. x \in Entries(o)
    BY DEF Report
  <2>3. PICK c \in Current(o) : x.target = c.target /\ x.nth = c.nth
    BY <2>2 DEF Entries, Entry
  <2>4. c \in op[e].eligible /\ IsCurrent(marker, c)
    BY <2>1, <2>3 DEF Current
  <2>5. c.target \in Targets /\ c.gen \in 1..MaxGen /\ c.gen = c.nth
    BY <1>1, <2>4 DEF CollectorInv, TypeOK, Operation, Candidate, Numbered, Held
  <2>6. marker[c.target].gen = c.gen /\ marker[c.target].gen = seen[c.target]
    BY <1>1, <2>4, <2>5, BoundAssumption DEF CollectorInv, MarkerNewest, IsCurrent
  <2> QED BY <2>3, <2>5, <2>6
<1>2. CollectorInv /\ [Next]_vars => [Newest]_vars
  BY <1>1
<1> QED BY <1>2, Invariance, PTL DEF Spec, OnlyNewest

-----------------------------------------------------------------------------
(* External aborts.  An operation under way knows of the abort of its      *)
(* caller and of the cleanup, whatever ended its signal first.             *)

KindKnown ==
  \A e \in Execs : Active(e) /\ (e \in cancelled \/ Cleaning) => op[e].kind # "none"

LEMMA AbortedKind ==
  ASSUME NEW o \in Operation
  PROVE  /\ Aborted(o, "deadline").kind = o.kind
         /\ \A why \in {"caller", "cleanup"} : Aborted(o, why).kind # "none"
  BY DEF Aborted, AbortKind, Operation

\* A step of one exec: the abort it did not know is not there.
LEMMA KindStep ==
  ASSUME TypeOK, KindKnown, NEW e \in Execs, NEW o, NEW s,
         op' = [op EXCEPT ![e] = o], pc' = [pc EXCEPT ![e] = s],
         cancelled' \subseteq cancelled, UNCHANGED cleanup,
         \/ s \in {"running", "next", "done"}
         \/ Active(e) /\ o.kind = op[e].kind
         \/ o.kind # "none"
         \/ e \notin cancelled /\ ~Cleaning
  PROVE  KindKnown'
  BY DEF TypeOK, KindKnown, Active, Cleaning

LEMMA KindReturn ==
  ASSUME TypeOK, KindKnown, NEW e \in Execs, NEW o, Return(e, o), UNCHANGED cleanup
  PROVE  KindKnown'
  BY KindStep DEF Return

\* The steps between the start of an operation and its gate.
LEMMA KindMiddle ==
  ASSUME TypeOK, KindKnown, NEW e \in Execs,
         \/ Workspace(e) \/ Eligibility(e) \/ StartFinalStats(e)
         \/ \E r \in {"answer", "stale"} : Diagnose(e, r)
         \/ \E t \in Targets : StatReads(e, t) \/ StatSettles(e, t)
  PROVE  KindKnown'
<1>0. /\ op[e] \in Operation /\ pc[e] \in Stages
      /\ op = [op EXCEPT ![e] = op[e]] /\ pc = [pc EXCEPT ![e] = pc[e]]
  BY DEF TypeOK
<1>1. CASE Return(e, op[e]) /\ UNCHANGED cleanup
  BY <1>1, KindReturn
<1>2. ASSUME NEW o, o.kind = op[e].kind, op' = [op EXCEPT ![e] = o],
             UNCHANGED <<cancelled, cleanup>>,
             NEW s, pc' = [pc EXCEPT ![e] = s],
             Active(e) \/ s \in {"running", "next", "done"}
      PROVE  KindKnown'
  BY <1>2, KindStep
<1>3. CASE Workspace(e) /\ ~Return(e, op[e])
  BY <1>0, <1>2, <1>3 DEF Workspace, Active
<1>4. ASSUME NEW keep \in BOOLEAN, NEW c \in op[e].todo, Consider(e, c, keep),
             pc[e] = "eligible", UNCHANGED cleanup, ~Return(e, op[e])
      PROVE  KindKnown'
  <2>1. Sorted(op[e], c, keep).kind = op[e].kind
    BY <1>0 DEF Sorted, Operation
  <2>2. op' = [op EXCEPT ![e] = Sorted(op[e], c, keep)] /\ UNCHANGED <<cancelled, cleanup>>
    BY <1>4 DEF Consider
  <2>3. PICK s : pc' = [pc EXCEPT ![e] = s]
    BY <1>4 DEF Consider
  <2>4. Active(e)
    BY <1>4 DEF Active
  <2> QED BY <1>2, <2>1, <2>2, <2>3, <2>4
<1>5. CASE Eligibility(e)
  <2>1. PICK keep \in BOOLEAN, c \in op[e].todo : Consider(e, c, keep)
    BY <1>5 DEF Eligibility
  <2>2. pc[e] = "eligible" /\ UNCHANGED cleanup
    BY <1>5 DEF Eligibility
  <2> QED BY <1>1, <1>4, <2>1, <2>2
<1>6. CASE StartFinalStats(e)
  <2>1. \A m : [op[e] EXCEPT !.stat = m].kind = op[e].kind
    BY <1>0 DEF Operation
  <2>2. PICK o : o.kind = op[e].kind /\ op' = [op EXCEPT ![e] = o]
    BY <1>0, <1>6, <2>1 DEF StartFinalStats
  <2>3. pc' = [pc EXCEPT ![e] = "stats"] /\ Active(e) /\ UNCHANGED <<cancelled, cleanup>>
    BY <1>6 DEF StartFinalStats, Active, world
  <2> QED BY <1>2, <2>2, <2>3
<1>7. ASSUME NEW r \in {"answer", "stale"}, Diagnose(e, r)
      PROVE  KindKnown'
  <2>1. \A m : [op[e] EXCEPT !.out = m].kind = op[e].kind
    BY <1>0 DEF Operation
  <2>2. PICK m : op' = [op EXCEPT ![e] = [op[e] EXCEPT !.out = m]]
    BY <1>7 DEF Diagnose
  <2>3. pc' = [pc EXCEPT ![e] = pc[e]] /\ Active(e) /\ UNCHANGED <<cancelled, cleanup>>
    BY <1>0, <1>7 DEF Diagnose, Active, world
  <2> QED BY <1>2, <2>1, <2>2, <2>3
<1>8. ASSUME NEW t \in Targets, StatReads(e, t)
      PROVE  KindKnown'
  <2>1. \A m : [op[e] EXCEPT !.stat = m].kind = op[e].kind
    BY <1>0 DEF Operation
  <2>2. PICK m : op' = [op EXCEPT ![e] = [op[e] EXCEPT !.stat = m]]
    BY <1>8 DEF StatReads
  <2>3. pc' = [pc EXCEPT ![e] = pc[e]] /\ Active(e) /\ UNCHANGED <<cancelled, cleanup>>
    BY <1>0, <1>8 DEF StatReads, Active, world
  <2> QED BY <1>2, <2>1, <2>2, <2>3
<1>9. ASSUME NEW t \in Targets, StatSettles(e, t)
      PROVE  KindKnown'
  <2>1. \A m : [op[e] EXCEPT !.settled = m].kind = op[e].kind
    BY <1>0 DEF Operation
  <2>2. PICK m : op' = [op EXCEPT ![e] = [op[e] EXCEPT !.settled = m]]
    BY <1>9 DEF StatSettles
  <2>3. pc' = [pc EXCEPT ![e] = pc[e]] /\ UNCHANGED <<cancelled, cleanup>>
    BY <1>0, <1>9 DEF StatSettles, world
  <2>4. Active(e) \/ pc[e] \in {"running", "next", "done"}
    BY DEF Active
  <2> QED BY <1>2, <2>1, <2>2, <2>3, <2>4
<1>10. CASE Workspace(e) /\ Return(e, op[e])
  BY <1>1, <1>10 DEF Workspace
<1> QED BY <1>3, <1>5, <1>6, <1>7, <1>8, <1>9, <1>10

LEMMA KindStart ==
  ASSUME TypeOK, KindKnown, NEW e \in Execs,
         Listener(e) \/ DownstreamFails(e) \/ BeginAugment(e) \/ Body(e)
  PROVE  KindKnown'
<1>0. op[e] \in Operation /\ op = [op EXCEPT ![e] = op[e]]
  BY DEF TypeOK
<1>1. CASE Listener(e)
  BY <1>0, <1>1, KindStep DEF Listener, world
<1>2. CASE DownstreamFails(e)
  BY <1>2, KindReturn DEF DownstreamFails
<1>3. CASE BeginAugment(e) /\ cleanup # "open"
  BY <1>3, KindReturn DEF BeginAugment
<1>4. CASE BeginAugment(e) /\ cleanup = "open"
  <2> DEFINE o == IF e \in cancelled THEN Aborted(NewOp, "caller") ELSE NewOp
  <2>1. e \in cancelled => o.kind # "none"
    BY NewOpType, AbortedKind
  <2>2. ~Cleaning
    BY <1>4 DEF Cleaning
  <2>3. op' = [op EXCEPT ![e] = o] /\ pc' = [pc EXCEPT ![e] = "begun"]
        /\ UNCHANGED <<cancelled, cleanup>>
    BY <1>4 DEF BeginAugment
  <2> HIDE DEF o
  <2> QED BY <2>1, <2>2, <2>3, KindStep
<1>5. CASE Body(e)
  <2>1. CASE Return(e, Taken(e))
    BY <1>5, <2>1, KindReturn DEF Body
  <2>2. CASE ~Return(e, Taken(e))
    <3>1. PICK routed \in SUBSET pending[e] :
            op' = [op EXCEPT ![e] = [Taken(e) EXCEPT !.todo = routed]]
      BY <1>5, <2>2 DEF Body
    <3>2. [Taken(e) EXCEPT !.todo = routed].kind = op[e].kind
      BY <1>0 DEF Taken, Operation
    <3>3. pc' = [pc EXCEPT ![e] = "workspace"] /\ UNCHANGED <<cancelled, cleanup>> /\ Active(e)
      BY <1>5, <2>2 DEF Body, Active
    <3> QED BY <3>1, <3>2, <3>3, KindStep
  <2> QED BY <2>1, <2>2
<1> QED BY <1>1, <1>2, <1>3, <1>4, <1>5

LEMMA KindSignal ==
  ASSUME TypeOK, KindKnown, NEW e \in Execs,
         ClockPasses(e) \/ DeadlineFires(e) \/ CallerAborts(e)
  PROVE  KindKnown'
<1>0. op[e] \in Operation /\ \A d \in Execs : op[d] \in Operation
  BY DEF TypeOK
<1>1. CASE ClockPasses(e)
  BY <1>1 DEF ClockPasses, KindKnown, Active, Cleaning
<1>2. CASE DeadlineFires(e)
  <2>1. op' = [op EXCEPT ![e] = Aborted(op[e], "deadline")] /\ Active(e)
        /\ UNCHANGED <<pc, cancelled, cleanup>>
    BY <1>2 DEF DeadlineFires, world
  <2>2. Aborted(op[e], "deadline").kind = op[e].kind
    BY <1>0, AbortedKind
  <2> HIDE DEF Aborted
  <2> QED BY <2>1, <2>2 DEF KindKnown, Active, Cleaning, TypeOK
<1>3. CASE CallerAborts(e)
  <2>1. Aborted(op[e], "caller").kind # "none"
    BY <1>0, AbortedKind
  <2>2. cancelled' = cancelled \cup {e} /\ UNCHANGED <<pc, cleanup>>
    BY <1>3 DEF CallerAborts
  <2>3. IF Active(e) THEN op' = [op EXCEPT ![e] = Aborted(op[e], "caller")] ELSE op' = op
    BY <1>3 DEF CallerAborts
  <2> QED BY <2>1, <2>2, <2>3 DEF KindKnown, Active, Cleaning, TypeOK
<1> QED BY <1>1, <1>2, <1>3

LEMMA KindCleanup ==
  ASSUME TypeOK, KindKnown, StopAdmission \/ Cleanup
  PROVE  KindKnown'
<1>1. CASE AbortActiveOperations
  <2>1. \A e \in Execs : Aborted(op[e], "cleanup").kind # "none"
    BY AbortedKind DEF TypeOK
  <2>2. op' = [e \in Execs |-> IF Active(e) THEN Aborted(op[e], "cleanup") ELSE op[e]]
        /\ UNCHANGED pc
    BY <1>1 DEF AbortActiveOperations, CleanupMove
  <2> QED BY <2>1, <2>2 DEF KindKnown, Active
<1>2. CASE ~AbortActiveOperations
  <2>1. UNCHANGED <<op, pc, cancelled>> /\ (Cleaning' => Cleaning)
    BY <1>2 DEF Cleanup, StopAdmission, OffPost, OffObserved, AwaitActiveOperations,
         AwaitRetiredIo, Dispose, CleanupMove, Cleaning, world
  <2> QED BY <2>1 DEF KindKnown, Active
<1> QED BY <1>1, <1>2

\* Nothing is published once the caller or the cleanup has aborted: the report
\* is withheld for the recorded kind, and the kind is always recorded.
THEOREM SilentAfterAbort == Spec => NoneAfterAbort
<1> DEFINE Silent == \A e \in Execs : Publishes(e) => e \notin cancelled /\ ~Cleaning
<1>1. Init => KindKnown
  BY DEF Init, KindKnown, Active
<1>2. ASSUME TypeOK, KindKnown, [Next]_vars
      PROVE  KindKnown'
  <2>1. ASSUME NEW e \in Execs, Publish(e)
        PROVE  KindKnown'
    BY <1>2, <2>1, KindReturn DEF Publish
  <2>2. ASSUME NEW e \in Execs,
               \/ Listener(e) \/ DownstreamFails(e) \/ BeginAugment(e)
               \/ Transaction(e) \/ Stat(e)
               \/ ClockPasses(e) \/ DeadlineFires(e) \/ CallerAborts(e)
        PROVE  KindKnown'
    BY <1>2, <2>1, <2>2, KindStart, KindMiddle, KindSignal DEF Transaction, Stat
  <2>3. CASE \/ \E e \in Execs, t \in Targets, v \in Versions : Observe(e, t, v)
             \/ \E t \in Targets, v \in Versions : Write(t, v)
             \/ Stopped \/ UNCHANGED vars
    <3>1. UNCHANGED <<pc, op, cancelled, cleanup>>
      BY <2>3 DEF Observe, Write, Stopped, vars, world
    <3> QED BY <1>2, <3>1 DEF KindKnown, Active, Cleaning
  <2> QED BY <1>2, <2>2, <2>3, KindCleanup DEF Next
<1>3. ASSUME TypeOK, KindKnown
      PROVE  Silent
  <2> SUFFICES ASSUME NEW e \in Execs, Publishes(e)
               PROVE  e \notin cancelled /\ ~Cleaning
    OBVIOUS
  <2>1. Active(e) /\ op[e] \in Operation
    BY <1>3 DEF Publishes, Decides, Active, TypeOK
  <2>2. Decided(e, op[e]).kind = "none"
    BY DEF Publishes, Report
  <2>3. Decided(e, op[e]).kind = op[e].kind
    BY <2>1, AbortedKind DEF Decided, Operation
  <2> QED BY <1>3, <2>1, <2>2, <2>3 DEF KindKnown
<1>4. TypeOK /\ KindKnown /\ [Next]_vars => [Silent]_vars
  BY <1>3
<1> QED BY <1>1, <1>2, <1>4, TypeCorrect, PTL DEF Spec, NoneAfterAbort

-----------------------------------------------------------------------------
(* What the collector keeps.  Every candidate an exec still has is its own *)
(* (Unique) and older than the next observation (Fresh): retiring what one *)
(* exec took never touches the marker of another exec's newest mutation,   *)
(* and a marker left over has an exec that will retire it.                 *)

Mine(e) == pending[e] \cup Held(op[e])

Early == {"running", "next", "begun"}

Fresh == \A e \in Execs : \A c \in Mine(e) : c.nth <= seen[c.target]

Unique ==
  \A e, f \in Execs : \A c \in Mine(e), d \in Mine(f) :
    c.target = d.target /\ c.gen = d.gen => e = f /\ c = d

Sorting(s, p, o) ==
  /\ s \in Early \cup {"done"} => Held(o) = {}
  /\ s \notin Early => p = {}
  /\ o.todo \cap o.eligible = {}
  /\ o.todo \cup o.eligible \subseteq o.taken

Sorts == \A e \in Execs : Sorting(pc[e], pending[e], op[e])

KeepInv == CollectorInv /\ Fresh /\ Unique /\ Sorts /\ NewestKept /\ AllRetired

\* Nothing is taken, kept back or retired.
Rests ==
  /\ UNCHANGED <<marker, seen, pending>>
  /\ \A e \in Execs :
       /\ op'[e].taken = op[e].taken
       /\ op'[e].todo = op[e].todo
       /\ op'[e].eligible = op[e].eligible
       /\ \/ pc'[e] = pc[e]
          \/ pc[e] \in Early /\ pc'[e] \in Early
          \/ pc[e] \notin Early \cup {"done"} /\ pc'[e] \notin Early \cup {"done"}

\* e returns, and all that it took or was still to take is retired.
Leaves(e) ==
  \E o \in Operation :
    /\ Return(e, o)
    /\ o.taken = pending[e] \cup op[e].taken
    /\ pending' = [pending EXCEPT ![e] = {}]

\* e goes on with a part of what it took and retires another part.
Selects(e) ==
  \E o \in Operation, cs \in SUBSET Mine(e), s \in Stages :
    /\ pc' = [pc EXCEPT ![e] = s] /\ op' = [op EXCEPT ![e] = o]
    /\ pc[e] # "done" /\ s \notin Early \cup {"done"}
    /\ o.taken = pending[e] \cup op[e].taken
    /\ o.todo \cap o.eligible = {}
    /\ o.todo \cup o.eligible \subseteq pending[e] \cup op[e].todo \cup op[e].eligible
    /\ o.todo \cup o.eligible \subseteq o.taken
    /\ cs \cap (o.todo \cup o.eligible) = {}
    /\ marker' = RetireIfCurrent(marker, cs)
    /\ pending' = [pending EXCEPT ![e] = {}]
    /\ UNCHANGED seen

LEMMA KeepRests == KeepInv /\ CollectorInv' /\ Rests => KeepInv'
<1> SUFFICES ASSUME KeepInv, CollectorInv', Rests PROVE KeepInv'
  OBVIOUS
<1>1. \A e \in Execs : /\ Held(op'[e]) = Held(op[e]) /\ Mine(e)' = Mine(e)
                       /\ pc'[e] = "done" <=> pc[e] = "done"
                       /\ pc'[e] \in Early <=> pc[e] \in Early
  BY DEF Rests, Held, Mine, Early
<1>2. Fresh'
  BY <1>1 DEF KeepInv, Fresh, Rests
<1>3. Unique'
  BY <1>1 DEF KeepInv, Unique
<1>4. Sorts'
  BY <1>1 DEF KeepInv, Sorts, Sorting, Rests
<1>5. NewestKept'
  BY <1>1 DEF KeepInv, NewestKept, Rests, IsCurrent
<1>6. AllRetired'
  BY <1>1 DEF KeepInv, AllRetired, Rests, IsCurrent
<1> QED BY <1>2, <1>3, <1>4, <1>5, <1>6 DEF KeepInv

\* A marker that is retired was the one of a retired candidate.
LEMMA RetiresOwn ==
  ASSUME TypeOK, NEW cs, NEW t \in Targets
  PROVE  /\ RetireIfCurrent(marker, cs)[t].gen > 0 =>
              /\ RetireIfCurrent(marker, cs)[t] = marker[t]
              /\ ~\E c \in cs : c.target = t /\ IsCurrent(marker, c)
         /\ RetireIfCurrent(marker, cs)[t] # marker[t] =>
              \E c \in cs : c.target = t /\ IsCurrent(marker, c)
<1>1. NoMarker(marker[t].ver).gen = 0
  BY DEF NoMarker
<1> QED BY <1>1 DEF RetireIfCurrent

\* What e does with its own candidates leaves the others' markers alone.
LEMMA OthersKept ==
  ASSUME KeepInv, NEW e \in Execs, NEW cs \in SUBSET Mine(e),
         marker' = RetireIfCurrent(marker, cs), UNCHANGED seen,
         NEW f \in Execs, NEW c \in Mine(f), f # e \/ c \notin cs,
         IsCurrent(marker, c)
  PROVE  IsCurrent(marker', c)
<1>1. c \in Candidate /\ c.target \in Targets
  BY DEF KeepInv, CollectorInv, TypeOK, Mine, Held, Operation, Candidate
<1>2. ASSUME NEW x \in cs, x.target = c.target, IsCurrent(marker, x)
      PROVE  FALSE
  <2>1. x \in Mine(e) /\ x.gen = c.gen
    BY <1>2 DEF IsCurrent
  <2> QED BY <1>2, <2>1 DEF KeepInv, Unique
<1>3. marker'[c.target] = marker[c.target]
  BY <1>1, <1>2, RetiresOwn DEF KeepInv, CollectorInv
<1> QED BY <1>3 DEF IsCurrent

LEMMA KeepLeaves ==
  ASSUME KeepInv, CollectorInv', NEW e \in Execs, Leaves(e)
  PROVE  KeepInv'
<1>0. PICK o \in Operation :
        /\ Return(e, o)
        /\ o.taken = pending[e] \cup op[e].taken
        /\ pending' = [pending EXCEPT ![e] = {}]
  BY DEF Leaves
<1>1. Remains(o) \in Operation /\ Held(Remains(o)) = {}
  BY RemainsType
<1>2. /\ pc' = [pc EXCEPT ![e] = "done"] /\ op' = [op EXCEPT ![e] = Remains(o)]
      /\ marker' = RetireIfCurrent(marker, o.taken) /\ UNCHANGED seen
      /\ o.taken \in SUBSET Mine(e)
  BY <1>0 DEF Return, Mine, Held
<1>3. /\ pc'[e] = "done" /\ Held(op'[e]) = {} /\ Mine(e)' = {}
      /\ \A f \in Execs \ {e} : pc'[f] = pc[f] /\ op'[f] = op[f] /\ Mine(f)' = Mine(f)
                                /\ pending'[f] = pending[f]
      /\ pending'[e] = {}
  BY <1>0, <1>1, <1>2 DEF KeepInv, CollectorInv, TypeOK, Mine
<1>4. Fresh'
  BY <1>2, <1>3 DEF KeepInv, Fresh
<1>5. Unique'
  BY <1>3 DEF KeepInv, Unique
<1>6. Sorts'
  BY <1>3 DEF KeepInv, Sorts, Sorting, Early, Held
<1>7. NewestKept'
  <2> SUFFICES ASSUME NEW f \in Execs \ {e}, pc[f] # "done",
                      NEW c \in pending[f] \cup op[f].todo \cup op[f].eligible,
                      c.nth = seen[c.target]
               PROVE  IsCurrent(marker', c)
    BY <1>2, <1>3 DEF NewestKept
  <2>1. IsCurrent(marker, c) /\ c \in Mine(f)
    BY DEF KeepInv, NewestKept, Mine, Held
  <2> QED BY <1>2, <2>1, OthersKept
<1>8. AllRetired'
  <2> SUFFICES ASSUME NEW t \in Targets, marker'[t].gen > 0
               PROVE  \E f \in Execs : pc'[f] # "done" /\
                        \E c \in pending'[f] \cup op'[f].taken :
                          c.target = t /\ IsCurrent(marker', c)
    BY DEF AllRetired
  <2>1. marker'[t] = marker[t] /\ ~\E c \in o.taken : c.target = t /\ IsCurrent(marker, c)
    BY <1>2, RetiresOwn DEF KeepInv, CollectorInv
  <2>2. PICK f \in Execs : pc[f] # "done" /\
               \E c \in pending[f] \cup op[f].taken : c.target = t /\ IsCurrent(marker, c)
    BY <2>1 DEF KeepInv, AllRetired
  <2>3. f # e
    BY <1>0, <2>1, <2>2
  <2> QED BY <1>3, <2>1, <2>2, <2>3 DEF IsCurrent
<1> QED BY <1>4, <1>5, <1>6, <1>7, <1>8 DEF KeepInv

LEMMA KeepSelects ==
  ASSUME KeepInv, CollectorInv', NEW e \in Execs, Selects(e)
  PROVE  KeepInv'
<1>0. PICK o \in Operation, cs \in SUBSET Mine(e), s \in Stages :
        /\ pc' = [pc EXCEPT ![e] = s] /\ op' = [op EXCEPT ![e] = o]
        /\ pc[e] # "done" /\ s \notin Early \cup {"done"}
        /\ o.taken = pending[e] \cup op[e].taken
        /\ o.todo \cap o.eligible = {}
        /\ o.todo \cup o.eligible \subseteq pending[e] \cup op[e].todo \cup op[e].eligible
        /\ o.todo \cup o.eligible \subseteq o.taken
        /\ cs \cap (o.todo \cup o.eligible) = {}
        /\ marker' = RetireIfCurrent(marker, cs)
        /\ pending' = [pending EXCEPT ![e] = {}]
        /\ UNCHANGED seen
  BY DEF Selects
<1>3. /\ pc'[e] = s /\ op'[e] = o /\ Mine(e)' = Held(o) /\ pending'[e] = {}
      /\ Held(o) \subseteq Mine(e)
      /\ \A f \in Execs \ {e} : pc'[f] = pc[f] /\ op'[f] = op[f] /\ Mine(f)' = Mine(f)
                                /\ pending'[f] = pending[f]
  BY <1>0 DEF KeepInv, CollectorInv, TypeOK, Mine, Held
<1>4. Fresh'
  BY <1>0, <1>3 DEF KeepInv, Fresh
<1>5. Unique'
  BY <1>3 DEF KeepInv, Unique
<1>6. Sorts'
  BY <1>0, <1>3 DEF KeepInv, Sorts, Sorting, Early
<1>7. NewestKept'
  <2> SUFFICES ASSUME NEW f \in Execs, pc'[f] # "done",
                      NEW c \in pending'[f] \cup op'[f].todo \cup op'[f].eligible,
                      c.nth = seen[c.target]
               PROVE  IsCurrent(marker', c)
    BY <1>0 DEF NewestKept
  <2>1. /\ c \in pending[f] \cup op[f].todo \cup op[f].eligible /\ pc[f] # "done"
        /\ f # e \/ c \notin cs
    BY <1>0, <1>3
  <2>2. IsCurrent(marker, c) /\ c \in Mine(f)
    BY <2>1 DEF KeepInv, NewestKept, Mine, Held
  <2> QED BY <1>0, <2>1, <2>2, OthersKept
<1>8. AllRetired'
  <2> SUFFICES ASSUME NEW t \in Targets, marker'[t].gen > 0
               PROVE  \E f \in Execs : pc'[f] # "done" /\
                        \E c \in pending'[f] \cup op'[f].taken :
                          c.target = t /\ IsCurrent(marker', c)
    BY DEF AllRetired
  <2>1. marker'[t] = marker[t]
    BY <1>0, RetiresOwn DEF KeepInv, CollectorInv
  <2>2. PICK f \in Execs : pc[f] # "done" /\
               \E c \in pending[f] \cup op[f].taken : c.target = t /\ IsCurrent(marker, c)
    BY <2>1 DEF KeepInv, AllRetired
  <2> QED BY <1>0, <1>3, <2>1, <2>2 DEF IsCurrent
<1> QED BY <1>4, <1>5, <1>6, <1>7, <1>8 DEF KeepInv

LEMMA KeepObserves ==
  ASSUME KeepInv, CollectorInv', NEW e \in Execs, NEW t \in Targets,
         NEW v \in Versions, Observe(e, t, v)
  PROVE  KeepInv'
<1>0. /\ nextGen[t] \in 1..(MaxGen + 1) /\ seen[t] \in 0..MaxSeen
      /\ marker[t] \in MarkerType /\ MaxGen \in Nat \ {0} /\ MaxSeen \in Nat
      /\ pc[e] = "running"
      /\ seen' = [seen EXCEPT ![t] = seen[t] + 1]
      /\ seen'[t] = seen[t] + 1
      /\ \A u \in Targets \ {t} : seen'[u] = seen[u]
      /\ UNCHANGED <<pc, op>>
  BY BoundAssumption DEF KeepInv, CollectorInv, TypeOK, MarkerType, Observe
<1>1. \A f \in Execs : \A c \in Mine(f) :
        c \in Candidate /\ c.target \in Targets /\ c.gen \in 1..MaxGen
        /\ c.nth \in 1..MaxSeen /\ c.gen = c.nth /\ c.nth <= seen[c.target]
  BY DEF KeepInv, CollectorInv, TypeOK, Numbered, Fresh, Mine, Held, Operation, Candidate
<1>2. CASE Exhausted(t)
  <2>1. marker' = [marker EXCEPT ![t] = NoMarker(marker[t].ver)]
        /\ UNCHANGED <<nextGen, pending>>
    BY <1>2 DEF Observe, Suppressed
  <2>2. marker'[t].gen = 0 /\ \A u \in Targets \ {t} : marker'[u] = marker[u]
    BY <2>1 DEF KeepInv, CollectorInv, TypeOK, NoMarker
  <2>3. \A f \in Execs : Mine(f)' = Mine(f)
    BY <1>0, <2>1 DEF Mine
  <2>4. Fresh'
    BY <1>0, <1>1, <2>3 DEF Fresh
  <2>5. Unique' /\ Sorts'
    BY <1>0, <2>1, <2>3 DEF KeepInv, Unique, Sorts
  <2>6. NewestKept'
    <3> SUFFICES ASSUME NEW f \in Execs, pc[f] # "done",
                        NEW c \in pending[f] \cup op[f].todo \cup op[f].eligible,
                        c.nth = seen'[c.target]
                 PROVE  IsCurrent(marker', c)
      BY <1>0, <2>1 DEF NewestKept
    <3>1. c.target \in Targets /\ c.nth \in 1..MaxSeen /\ c.nth <= seen[c.target]
      BY <1>1 DEF Mine, Held
    <3>2. c.target # t
      BY <1>0, <3>1
    <3> QED BY <1>0, <2>2, <3>1, <3>2 DEF KeepInv, NewestKept, IsCurrent
  <2>7. AllRetired'
    BY <1>0, <2>1, <2>2 DEF KeepInv, AllRetired, IsCurrent
  <2> QED BY <2>4, <2>5, <2>6, <2>7 DEF KeepInv
<1>3. CASE ~Exhausted(t)
  <2> DEFINE new == [target |-> t, gen |-> nextGen[t], ver |-> v, nth |-> seen[t] + 1]
             rest == {c \in pending[e] : c.target # t}
  <2>1. nextGen[t] = seen[t] + 1 /\ nextGen[t] \in 1..MaxGen
    BY <1>0, <1>3 DEF KeepInv, CollectorInv, CounterAhead, Exhausted
  <2>2. /\ marker' = [marker EXCEPT ![t] = [gen |-> nextGen[t], ver |-> v]]
        /\ pending' = [pending EXCEPT ![e] = rest \cup {new}]
    BY <1>3 DEF Observe
  <2>3. /\ new.target = t /\ new.gen = seen[t] + 1 /\ new.nth = seen[t] + 1
        /\ marker'[t].gen = new.gen /\ marker'[t].ver = new.ver /\ new.gen > 0
        /\ \A u \in Targets \ {t} : marker'[u] = marker[u]
    BY <1>0, <2>1, <2>2 DEF KeepInv, CollectorInv, TypeOK
  <2> HIDE DEF new
  <2>4. /\ pending'[e] = rest \cup {new}
        /\ \A f \in Execs \ {e} : pending'[f] = pending[f]
    BY <2>2 DEF KeepInv, CollectorInv, TypeOK
  <2>5. Held(op[e]) = {}
    BY <1>0 DEF KeepInv, Sorts, Sorting, Early
  <2>6. /\ Mine(e)' = rest \cup {new} /\ rest \subseteq Mine(e)
        /\ \A f \in Execs \ {e} : Mine(f)' = Mine(f)
    BY <1>0, <2>4, <2>5 DEF Mine
  <2>7. Fresh'
    BY <1>0, <1>1, <2>3, <2>6 DEF Fresh
  <2>8. Unique'
    <3> SUFFICES ASSUME NEW f \in Execs, NEW g \in Execs,
                        NEW c \in Mine(f)', NEW d \in Mine(g)',
                        c.target = d.target, c.gen = d.gen
                 PROVE  f = g /\ c = d
      BY DEF Unique
    <3>1. \A h \in Execs : \A x \in Mine(h)' :
            x \in Mine(h) \/ (h = e /\ x = new)
      BY <2>6
    <3>2. \A h \in Execs : \A x \in Mine(h) : x.target = t => x.gen # new.gen
      BY <1>0, <1>1, <2>3
    <3>3. CASE c = new \/ d = new
      BY <2>3, <3>1, <3>2, <3>3
    <3>4. CASE c # new /\ d # new
      BY <3>1, <3>4 DEF KeepInv, Unique
    <3> QED BY <3>3, <3>4
  <2>9. Sorts'
    BY <1>0, <2>4 DEF KeepInv, Sorts, Sorting, Early
  <2>10. NewestKept'
    <3> SUFFICES ASSUME NEW f \in Execs, pc[f] # "done",
                        NEW c \in pending'[f] \cup op[f].todo \cup op[f].eligible,
                        c.nth = seen'[c.target]
                 PROVE  IsCurrent(marker', c)
      BY <1>0 DEF NewestKept
    <3>1. CASE c = new
      BY <2>3, <3>1 DEF IsCurrent
    <3>2. CASE c # new
      <4>1. c \in pending[f] \cup op[f].todo \cup op[f].eligible
        BY <2>4, <3>2
      <4>2. c.target \in Targets /\ c.nth \in 1..MaxSeen /\ c.nth <= seen[c.target]
        BY <1>1, <4>1 DEF Mine, Held
      <4>3. c.target # t
        BY <1>0, <4>2
      <4> QED BY <1>0, <2>3, <4>1, <4>2, <4>3 DEF KeepInv, NewestKept, IsCurrent
    <3> QED BY <3>1, <3>2
  <2>11. AllRetired'
    <3> SUFFICES ASSUME NEW u \in Targets, marker'[u].gen > 0
                 PROVE  \E f \in Execs : pc'[f] # "done" /\
                          \E c \in pending'[f] \cup op'[f].taken :
                            c.target = u /\ IsCurrent(marker', c)
      BY DEF AllRetired
    <3>1. CASE u = t
      BY <1>0, <2>3, <2>4, <3>1 DEF IsCurrent
    <3>2. CASE u # t
      <4>1. PICK f \in Execs : pc[f] # "done" /\
              \E c \in pending[f] \cup op[f].taken : c.target = u /\ IsCurrent(marker, c)
        BY <2>3, <3>2 DEF KeepInv, AllRetired
      <4>2. PICK c \in pending[f] \cup op[f].taken : c.target = u /\ IsCurrent(marker, c)
        BY <4>1
      <4>3. c \in pending'[f] \cup op[f].taken
        BY <2>4, <3>2, <4>2
      <4> QED BY <1>0, <2>3, <3>2, <4>1, <4>2, <4>3 DEF IsCurrent
    <3> QED BY <3>1, <3>2
  <2> QED BY <2>7, <2>8, <2>9, <2>10, <2>11 DEF KeepInv
<1> QED BY <1>2, <1>3

LEMMA InitKeep == Init => KeepInv
<1> SUFFICES ASSUME Init PROVE KeepInv
  OBVIOUS
<1>1. CollectorInv
  BY InitInv
<1>2. \A e \in Execs : pending[e] = {} /\ op[e] = NewOp /\ Held(op[e]) = {} /\ pc[e] = "running"
                       /\ NewOp.todo = {} /\ NewOp.eligible = {}
  BY NewOpType DEF Init, NewOp
<1>3. \A t \in Targets : marker[t].gen = 0
  BY DEF Init, NoMarker
<1>4. Fresh /\ Unique /\ Sorts /\ NewestKept
  BY <1>2 DEF Fresh, Unique, Sorts, Sorting, Early, NewestKept, Mine
<1>5. AllRetired
  BY <1>3 DEF AllRetired
<1> QED BY <1>1, <1>4, <1>5 DEF KeepInv

\* An exec that returns has its candidates in the operation it returns with.
LEMMA LeavesBy ==
  ASSUME KeepInv, NEW e \in Execs, NEW o \in Operation, Return(e, o),
         \/ o.taken = pending[e] /\ op[e].taken = {} /\ TakeAll(e)
         \/ o = op[e] /\ pc[e] \notin Early /\ UNCHANGED pending
  PROVE  Leaves(e)
<1>1. pc[e] \notin Early => pending[e] = {}
  BY DEF KeepInv, Sorts, Sorting
<1>2. pending \in [Execs -> SUBSET Candidate]
  BY DEF KeepInv, CollectorInv, TypeOK
<1>3. pending' = [pending EXCEPT ![e] = {}]
  BY <1>1, <1>2 DEF TakeAll
<1>4. o.taken = pending[e] \cup op[e].taken
  BY <1>1
<1> QED BY <1>3, <1>4 DEF Leaves

\* Which of the three each step of the transaction is.
LEMMA BeginKeeps ==
  ASSUME KeepInv, NEW e \in Execs,
         Listener(e) \/ DownstreamFails(e) \/ BeginAugment(e) \/ Body(e)
  PROVE  Rests \/ Leaves(e) \/ Selects(e)
<1>0. /\ op[e] \in Operation /\ op \in [Execs -> Operation] /\ pc \in [Execs -> Stages]
      /\ pending[e] \in SUBSET Candidate
  BY DEF KeepInv, CollectorInv, TypeOK
<1>1. Taken(e) \in Operation /\ Rejected(e) \in Operation
      /\ Taken(e).taken = pending[e] /\ Rejected(e).taken = pending[e]
  BY <1>0 DEF Taken, Rejected, Operation
<1>2. pc[e] \in Early
  BY DEF Listener, DownstreamFails, BeginAugment, Body, Early
<1>3. op[e].taken = {} /\ op[e].todo = {} /\ op[e].eligible = {}
  BY <1>2 DEF KeepInv, Sorts, Sorting, Held
<1>4. CASE Listener(e)
  BY <1>0, <1>4 DEF Listener, Rests, Early, collector
<1>5. CASE DownstreamFails(e)
  BY <1>1, <1>3, <1>5, LeavesBy DEF DownstreamFails
<1>6. CASE BeginAugment(e) /\ cleanup # "open"
  BY <1>1, <1>3, <1>6, LeavesBy DEF BeginAugment
<1>7. CASE BeginAugment(e) /\ cleanup = "open"
  <2> DEFINE o == IF e \in cancelled THEN Aborted(NewOp, "caller") ELSE NewOp
  <2>1. o \in Operation /\ Held(o) = {}
    BY NewOpType, AbortedType
  <2>2. op' = [op EXCEPT ![e] = o] /\ pc' = [pc EXCEPT ![e] = "begun"]
        /\ UNCHANGED collector
    BY <1>7 DEF BeginAugment
  <2> HIDE DEF o
  <2>3. o.taken = {} /\ o.todo = {} /\ o.eligible = {}
    BY <2>1 DEF Held
  <2> QED BY <1>0, <1>2, <1>3, <2>2, <2>3 DEF Rests, Early, collector
<1>8. CASE Body(e)
  <2>1. CASE Return(e, Taken(e))
    BY <1>1, <1>3, <1>8, <2>1, LeavesBy DEF Body
  <2>2. CASE ~Return(e, Taken(e))
    <3>1. PICK routed \in SUBSET pending[e] :
            /\ pc' = [pc EXCEPT ![e] = "workspace"]
            /\ op' = [op EXCEPT ![e] = [Taken(e) EXCEPT !.todo = routed]]
            /\ marker' = RetireIfCurrent(marker, pending[e] \ routed)
            /\ UNCHANGED seen
      BY <1>8, <2>2 DEF Body
    <3> DEFINE o == [Taken(e) EXCEPT !.todo = routed]
    <3>2. o \in Operation /\ o.taken = pending[e] /\ o.todo = routed /\ o.eligible = {}
      BY <1>0, <1>1, <1>3 DEF Operation, Taken
    <3>3. op' = [op EXCEPT ![e] = o]
      BY <3>1
    <3> HIDE DEF o
    <3>4. "workspace" \in Stages /\ "workspace" \notin Early \cup {"done"} /\ pc[e] # "done"
      BY <1>2 DEF Stages, Early
    <3>5. pending[e] \ routed \in SUBSET Mine(e) /\ pending' = [pending EXCEPT ![e] = {}]
      BY <1>8 DEF Mine, Body, TakeAll
    <3> DEFINE cs == pending[e] \ routed
    <3>6. cs \cap (o.todo \cup o.eligible) = {} /\ cs \in SUBSET Mine(e)
          /\ marker' = RetireIfCurrent(marker, cs)
      BY <3>1, <3>2, <3>5
    <3> HIDE DEF cs
    <3> QED BY <1>3, <3>1, <3>2, <3>3, <3>4, <3>5, <3>6 DEF Selects
  <2> QED BY <2>1, <2>2
<1> QED BY <1>4, <1>5, <1>6, <1>7, <1>8

LEMMA EligibleKeeps ==
  ASSUME KeepInv, NEW e \in Execs, Workspace(e) \/ Eligibility(e)
  PROVE  Rests \/ Leaves(e) \/ Selects(e)
<1>0. /\ op[e] \in Operation /\ op \in [Execs -> Operation] /\ pc \in [Execs -> Stages]
      /\ pending \in [Execs -> SUBSET Candidate]
  BY DEF KeepInv, CollectorInv, TypeOK
<1>1. pc[e] \notin Early \cup {"done"} /\ UNCHANGED pending
  BY DEF Workspace, Eligibility, Early
<1>2. pending[e] = {} /\ op[e].todo \cup op[e].eligible \subseteq op[e].taken
      /\ op[e].todo \cap op[e].eligible = {}
  BY <1>1 DEF KeepInv, Sorts, Sorting
<1>3. CASE Return(e, op[e])
  BY <1>0, <1>1, <1>3, LeavesBy
<1>4. CASE Workspace(e) /\ ~Return(e, op[e])
  <2>1. pc' = [pc EXCEPT ![e] = "eligible"] /\ UNCHANGED <<op, marker, seen>>
    BY <1>4 DEF Workspace
  <2> QED BY <1>0, <1>1, <2>1 DEF Rests, Early
<1>5. CASE Eligibility(e) /\ ~Return(e, op[e])
  <2>1. PICK keep \in BOOLEAN, c \in op[e].todo : Consider(e, c, keep)
    BY <1>5 DEF Eligibility
  <2> DEFINE o == Sorted(op[e], c, keep)
             cs == IF keep THEN {} ELSE {c}
             ts == op[e].todo \ {c}
             ds == op[e].eligible \cup (IF keep THEN {c} ELSE {})
  <2>2. o = [op[e] EXCEPT !.todo = ts, !.eligible = ds]
    BY DEF Sorted
  <2>3. /\ ts \in SUBSET Candidate /\ ds \in SUBSET Candidate
        /\ ts \cap ds = {} /\ ts \cup ds \subseteq op[e].todo \cup op[e].eligible
        /\ cs \cap (ts \cup ds) = {} /\ cs \subseteq op[e].todo
    BY <1>0, <1>2 DEF Operation
  <2>4. op' = [op EXCEPT ![e] = o] /\ UNCHANGED seen
        /\ marker' = RetireIfCurrent(marker, cs)
    BY <1>5, <2>1 DEF Consider
  <2>5. PICK s \in {"diagnose", "eligible"} : pc' = [pc EXCEPT ![e] = s]
    BY <1>5, <2>1 DEF Consider
  <2> HIDE DEF o, cs, ts, ds
  <2>6. o \in Operation /\ o.taken = op[e].taken /\ o.todo = ts /\ o.eligible = ds
    BY <1>0, <2>2, <2>3 DEF Operation
  <2>7. s \in Stages /\ s \notin Early \cup {"done"}
    BY <2>5 DEF Stages, Early
  <2>8. cs \in SUBSET Mine(e)
    BY <2>3 DEF Mine, Held
  <2>9. pending' = [pending EXCEPT ![e] = {}]
    BY <1>0, <1>1, <1>2
  <2>10. /\ o.taken = pending[e] \cup op[e].taken
         /\ o.todo \cup o.eligible \subseteq pending[e] \cup op[e].todo \cup op[e].eligible
         /\ o.todo \cup o.eligible \subseteq o.taken
    BY <1>2, <2>3, <2>6
  <2> QED BY <1>1, <2>3, <2>4, <2>5, <2>6, <2>7, <2>8, <2>9, <2>10 DEF Selects
<1> QED BY <1>3, <1>4, <1>5

\* A step that leaves the collector and the candidates of every exec alone.
LEMMA RestsBy ==
  ASSUME KeepInv, NEW e \in Execs, NEW o, NEW s, UNCHANGED <<marker, seen, pending>>,
         op' = [op EXCEPT ![e] = o], pc' = [pc EXCEPT ![e] = s],
         o.taken = op[e].taken, o.todo = op[e].todo, o.eligible = op[e].eligible,
         s = pc[e] \/ {s, pc[e]} \cap (Early \cup {"done"}) = {}
  PROVE  Rests
<1>1. op \in [Execs -> Operation] /\ pc \in [Execs -> Stages]
  BY DEF KeepInv, CollectorInv, TypeOK
<1> QED BY <1>1 DEF Rests

LEMMA DiagnoseKeeps ==
  ASSUME KeepInv, NEW e \in Execs,
         (\E r \in {"answer", "stale"} : Diagnose(e, r)) \/ StartFinalStats(e)
         \/ (\E t \in Targets : StatReads(e, t) \/ StatSettles(e, t))
  PROVE  Rests
<1>0. /\ op[e] \in Operation /\ op \in [Execs -> Operation] /\ pc \in [Execs -> Stages]
      /\ op = [op EXCEPT ![e] = op[e]] /\ pc = [pc EXCEPT ![e] = pc[e]]
  BY DEF KeepInv, CollectorInv, TypeOK
<1>1. \A m : /\ [op[e] EXCEPT !.out = m].taken = op[e].taken
             /\ [op[e] EXCEPT !.out = m].todo = op[e].todo
             /\ [op[e] EXCEPT !.out = m].eligible = op[e].eligible
             /\ [op[e] EXCEPT !.stat = m].taken = op[e].taken
             /\ [op[e] EXCEPT !.stat = m].todo = op[e].todo
             /\ [op[e] EXCEPT !.stat = m].eligible = op[e].eligible
             /\ [op[e] EXCEPT !.settled = m].taken = op[e].taken
             /\ [op[e] EXCEPT !.settled = m].todo = op[e].todo
             /\ [op[e] EXCEPT !.settled = m].eligible = op[e].eligible
  BY <1>0 DEF Operation
<1>2. UNCHANGED <<marker, seen, pending>>
  BY DEF Diagnose, StartFinalStats, StatReads, StatSettles, collector
<1>3. ASSUME NEW r \in {"answer", "stale"}, Diagnose(e, r)
      PROVE  Rests
  <2>1. PICK m : op' = [op EXCEPT ![e] = [op[e] EXCEPT !.out = m]]
    BY <1>3 DEF Diagnose
  <2> DEFINE o == [op[e] EXCEPT !.out = m]
  <2>2. o.taken = op[e].taken /\ o.todo = op[e].todo /\ o.eligible = op[e].eligible
        /\ op' = [op EXCEPT ![e] = o]
    BY <1>1, <2>1
  <2>3. pc' = [pc EXCEPT ![e] = pc[e]]
    BY <1>0, <1>3 DEF Diagnose
  <2> HIDE DEF o
  <2> QED BY <1>2, <2>2, <2>3, RestsBy
<1>4. CASE StartFinalStats(e)
  <2> DEFINE m == [t \in Targets |-> IF \E c \in Diagnosed(op[e]) : c.target = t
                                     THEN "asked" ELSE "none"]
  <2>0. op' = op \/ op' = [op EXCEPT ![e] = [op[e] EXCEPT !.stat = m]]
    BY <1>4 DEF StartFinalStats
  <2> HIDE DEF m
  <2>1. PICK o : op' = [op EXCEPT ![e] = o] /\ o.taken = op[e].taken
                 /\ o.todo = op[e].todo /\ o.eligible = op[e].eligible
    <3>1. CASE op' = op
      BY <1>0, <3>1
    <3>2. CASE op' = [op EXCEPT ![e] = [op[e] EXCEPT !.stat = m]]
      <4> DEFINE q == [op[e] EXCEPT !.stat = m]
      <4>1. q.taken = op[e].taken /\ q.todo = op[e].todo /\ q.eligible = op[e].eligible
            /\ op' = [op EXCEPT ![e] = q]
        BY <1>1, <3>2
      <4> HIDE DEF q
      <4> QED BY <4>1
    <3> QED BY <2>0, <3>1, <3>2
  <2>2. pc' = [pc EXCEPT ![e] = "stats"] /\ pc[e] = "diagnose"
    BY <1>4 DEF StartFinalStats
  <2> QED BY <1>2, <2>1, <2>2, RestsBy DEF Early
<1>5. ASSUME NEW t \in Targets, StatReads(e, t)
      PROVE  Rests
  <2>1. PICK m : op' = [op EXCEPT ![e] = [op[e] EXCEPT !.stat = m]]
    BY <1>5 DEF StatReads
  <2> DEFINE o == [op[e] EXCEPT !.stat = m]
  <2>2. o.taken = op[e].taken /\ o.todo = op[e].todo /\ o.eligible = op[e].eligible
        /\ op' = [op EXCEPT ![e] = o]
    BY <1>1, <2>1
  <2>3. pc' = [pc EXCEPT ![e] = pc[e]]
    BY <1>0, <1>5 DEF StatReads
  <2> HIDE DEF o
  <2> QED BY <1>2, <2>2, <2>3, RestsBy
<1>6. ASSUME NEW t \in Targets, StatSettles(e, t)
      PROVE  Rests
  <2>1. PICK m : op' = [op EXCEPT ![e] = [op[e] EXCEPT !.settled = m]]
    BY <1>6 DEF StatSettles
  <2> DEFINE o == [op[e] EXCEPT !.settled = m]
  <2>2. o.taken = op[e].taken /\ o.todo = op[e].todo /\ o.eligible = op[e].eligible
        /\ op' = [op EXCEPT ![e] = o]
    BY <1>1, <2>1
  <2>3. pc' = [pc EXCEPT ![e] = pc[e]]
    BY <1>0, <1>6 DEF StatSettles
  <2> HIDE DEF o
  <2> QED BY <1>2, <2>2, <2>3, RestsBy
<1> QED BY <1>3, <1>4, <1>5, <1>6

LEMMA AbortedKeeps ==
  ASSUME NEW o \in Operation, NEW why
  PROVE  /\ Aborted(o, why).taken = o.taken
         /\ Aborted(o, why).todo = o.todo
         /\ Aborted(o, why).eligible = o.eligible
  BY DEF Aborted, Operation

LEMMA SignalKeeps ==
  ASSUME KeepInv,
         \/ \E e \in Execs : ClockPasses(e) \/ DeadlineFires(e) \/ CallerAborts(e)
         \/ \E t \in Targets, v \in Versions : Write(t, v)
         \/ StopAdmission \/ Cleanup \/ Stopped \/ UNCHANGED vars
  PROVE  Rests
<1>1. UNCHANGED <<marker, seen, pending, pc>>
  BY DEF ClockPasses, DeadlineFires, CallerAborts, Write, StopAdmission, Cleanup, Stopped,
       OffPost, OffObserved, AbortActiveOperations, AwaitActiveOperations, AwaitRetiredIo,
       Dispose, CleanupMove, vars, collector
<1>2. \A e \in Execs : op'[e] = op[e] \/ \E why : op'[e] = Aborted(op[e], why)
  <2>0. op \in [Execs -> Operation]
    BY DEF KeepInv, CollectorInv, TypeOK
  <2>1. CASE AbortActiveOperations
    BY <2>1 DEF AbortActiveOperations
  <2>2. CASE ~AbortActiveOperations
    <3>1. UNCHANGED op \/ \E e \in Execs, why \in {"deadline", "caller"} :
                             op' = [op EXCEPT ![e] = Aborted(op[e], why)]
      BY <2>2 DEF ClockPasses, DeadlineFires, CallerAborts, Write, StopAdmission, Cleanup,
           Stopped, OffPost, OffObserved, AwaitActiveOperations, AwaitRetiredIo, Dispose, vars
    <3> QED BY <2>0, <3>1
  <2> QED BY <2>1, <2>2
<1>3. \A e \in Execs : op[e] \in Operation
  BY DEF KeepInv, CollectorInv, TypeOK
<1> QED BY <1>1, <1>2, <1>3, AbortedKeeps DEF Rests

LEMMA NextKeep == KeepInv /\ [Next]_vars => KeepInv'
<1> SUFFICES ASSUME KeepInv, [Next]_vars PROVE KeepInv'
  OBVIOUS
<1>0. CollectorInv'
  BY NextInv DEF KeepInv
<1>1. ASSUME NEW e \in Execs, NEW t \in Targets, NEW v \in Versions, Observe(e, t, v)
      PROVE  KeepInv'
  BY <1>0, <1>1, KeepObserves
<1>2. ASSUME NEW e \in Execs, Rests \/ Leaves(e) \/ Selects(e)
      PROVE  KeepInv'
  BY <1>0, <1>2, KeepRests, KeepLeaves, KeepSelects
<1>3. ASSUME NEW e \in Execs, Publish(e)
      PROVE  KeepInv'
  <2>1. op[e] \in Operation /\ pc[e] \notin Early /\ UNCHANGED pending
    BY <1>3 DEF KeepInv, CollectorInv, TypeOK, Publish, Early
  <2> QED BY <1>2, <1>3, <2>1, LeavesBy DEF Publish
<1>4. CASE Rests
  BY <1>0, <1>4, KeepRests
<1>5. ASSUME NEW e \in Execs,
             Listener(e) \/ DownstreamFails(e) \/ BeginAugment(e)
             \/ Transaction(e) \/ Stat(e)
      PROVE  KeepInv'
  BY <1>2, <1>3, <1>4, <1>5, BeginKeeps, EligibleKeeps, DiagnoseKeeps DEF Transaction, Stat
<1> QED BY <1>1, <1>4, <1>5, SignalKeeps DEF Next

\* While its exec is under way the newest mutation of a file keeps its marker,
\* and no marker outlives its exec.
LEMMA KeepInvariance == Spec => []KeepInv
  BY InitKeep, NextKeep, PTL DEF Spec

-----------------------------------------------------------------------------
(* The gate and the final stats.  A closed gate has its reason, and what    *)
(* an operation leaves unsettled is in retiredIo, which the cleanup empties *)
(* before it disposes of the runtime.                                      *)

Gating(s, o, l) ==
  /\ s \notin {"stats", "done"} => o.settled = {} /\ \A t \in Targets : o.stat[t] = "none"
  /\ s = "stats" => \A t \in o.settled : o.stat[t] # "asked"
  /\ o.aborted <=> o.gate # "open"
  /\ o.gate # "open" => o.gate = "timed-out" /\ (o.kind # "none" \/ o.fired)
  /\ s = "stats" /\ o.gate = "open" =>
       l \/ \A c \in o.eligible : o.stat[c.target] # "none"

Gates == \A e \in Execs : Gating(pc[e], op[e], e \in late)

\* The final stats of an operation that no longer waits for them.
GivenUp == \A e \in Execs : pc[e] = "done" \/ op[e].gate # "open" =>
                              {e} \X Unsettled(op[e]) \subseteq retired

Drained ==
  /\ cleanup \in {"quiet", "drained", "disposed"} =>
       \A e \in Execs : pc[e] \in {"running", "done"}
  /\ cleanup \in {"drained", "disposed"} => retired = {}

GateInv == TypeOK /\ Gates /\ GivenUp /\ Drained

LEMMA NewOpGate ==
  /\ Unsettled(NewOp) = {} /\ NewOp.gate = "open" /\ ~NewOp.aborted
  /\ NewOp.settled = {} /\ \A t \in Targets : NewOp.stat[t] = "none"
  BY DEF NewOp, Unsettled

LEMMA AbortedGate ==
  ASSUME NEW o \in Operation, NEW why \in {"deadline", "caller", "cleanup"}
  PROVE  /\ Aborted(o, why).stat = o.stat /\ Aborted(o, why).settled = o.settled
         /\ Unsettled(Aborted(o, why)) = Unsettled(o)
         /\ Aborted(o, why).aborted
         /\ Aborted(o, why).gate = Closed(o)
         /\ o.gate = "timed-out" /\ (o.kind # "none" \/ o.fired) =>
              Aborted(o, why).kind # "none" \/ Aborted(o, why).fired
         /\ ~o.aborted => Aborted(o, why).kind # "none" \/ Aborted(o, why).fired
  BY DEF Aborted, AbortKind, Unsettled, Operation

\* An abort of e closes its gate and hands the final stats over.
LEMMA AbortGates ==
  ASSUME NEW o \in Operation, NEW why \in {"deadline", "caller", "cleanup"},
         NEW s, NEW l, Gating(s, o, l)
  PROVE  /\ Gating(s, Aborted(o, why), l)
         /\ Unsettled(Aborted(o, why)) = Unsettled(o)
<1>1. Closed(o) = "timed-out"
  BY DEF Gating, Closed
<1>2. Aborted(o, why).gate = "timed-out"
  BY <1>1, AbortedGate
<1>3. \A q : q = Aborted(o, why) => Gating(s, q, l)
  <2> SUFFICES ASSUME NEW q, q = Aborted(o, why) PROVE Gating(s, q, l)
    OBVIOUS
  <2>1. /\ q.stat = o.stat /\ q.settled = o.settled /\ q.aborted /\ q.gate = "timed-out"
        /\ q.kind # "none" \/ q.fired
    BY <1>2, AbortedGate DEF Gating
  <2> HIDE DEF Aborted
  <2> QED BY <2>1 DEF Gating
<1> QED BY <1>3, AbortedGate

\* A step of one exec, which may give up final stats of its own.
LEMMA GateStep ==
  ASSUME GateInv, TypeOK', NEW e \in Execs, NEW o, NEW s,
         op' = [op EXCEPT ![e] = o], pc' = [pc EXCEPT ![e] = s],
         Gating(s, o, e \in late'),
         \A f \in Execs \ {e} : f \in late' <=> f \in late,
         retired \subseteq retired', retired' \subseteq retired \cup ({e} \X Targets),
         s = "done" \/ o.gate # "open" => {e} \X Unsettled(o) \subseteq retired',
         UNCHANGED cleanup,
         s = pc[e] \/ s = "done" \/ pc[e] \notin {"running", "done"}
           \/ cleanup \notin {"quiet", "drained", "disposed"},
         retired' = retired \/ pc[e] \notin {"running", "done"}
  PROVE  GateInv'
<1>1. /\ op'[e] = o /\ pc'[e] = s
      /\ \A f \in Execs \ {e} : op'[f] = op[f] /\ pc'[f] = pc[f]
  BY DEF GateInv, TypeOK
<1>2. Gates'
  BY <1>1 DEF GateInv, Gates
<1>3. GivenUp'
  BY <1>1 DEF GateInv, GivenUp
<1>4. Drained'
  BY <1>1 DEF GateInv, Drained
<1> QED BY <1>2, <1>3, <1>4 DEF GateInv

\* A return without a final stat that is still out leaves nothing; Publish
\* hands over those that are.
LEMMA GateReturn ==
  ASSUME GateInv, TypeOK', NEW e \in Execs, NEW o \in Operation, Return(e, o),
         pc[e] # "done",
         \A t \in o.settled : o.stat[t] # "asked",
         retired' = retired \cup ({e} \X Unsettled(o)) \/
           (retired' = retired /\ {e} \X Unsettled(o) \subseteq retired),
         retired' = retired \/ pc[e] \notin {"running", "done"},
         UNCHANGED cleanup
  PROVE  GateInv'
<1> DEFINE q == Remains(o)
<1>1. /\ q.gate = "open" /\ ~q.aborted /\ Unsettled(q) = Unsettled(o)
  <2>1. CASE Unsettled(o) = {}
    BY <2>1, NewOpGate DEF Remains
  <2>2. CASE Unsettled(o) # {}
    <3>1. q = [NewOp EXCEPT !.stat = o.stat, !.settled = o.settled]
      BY <2>2 DEF Remains
    <3>2. q.gate = "open" /\ ~q.aborted /\ q.stat = o.stat /\ q.settled = o.settled
      BY <3>1 DEF NewOp
    <3> HIDE DEF q
    <3> QED BY <3>2 DEF Unsettled
  <2> QED BY <2>1, <2>2
<1>2. /\ op' = [op EXCEPT ![e] = q] /\ pc' = [pc EXCEPT ![e] = "done"]
      /\ late' = late \ {e}
  BY DEF Return
<1> HIDE DEF q
<1>3. Gating("done", q, e \in late')
  BY <1>1 DEF Gating
<1>4. {e} \X Unsettled(q) \subseteq retired' /\ retired \subseteq retired'
      /\ retired' \subseteq retired \cup ({e} \X Targets)
  BY <1>1 DEF Unsettled
<1> QED BY <1>2, <1>3, <1>4, GateStep

\* Before the final stats are asked for there is nothing to give up.
LEMMA NothingOut ==
  ASSUME GateInv, NEW e \in Execs, pc[e] \notin {"stats", "done"}, NEW o,
         o.stat = op[e].stat
  PROVE  Unsettled(o) = {} /\ \A t \in Targets : o.stat[t] = "none"
  BY DEF GateInv, Gates, Gating, Unsettled

LEMMA GateEarlyReturn ==
  ASSUME GateInv, TypeOK', NEW e \in Execs, NEW o \in Operation, Return(e, o),
         pc[e] \notin {"stats", "done"}, o.stat = op[e].stat,
         UNCHANGED <<retired, cleanup>>
  PROVE  GateInv'
<1>1. Unsettled(o) = {} /\ \A t \in Targets : o.stat[t] = "none"
  BY NothingOut
<1>2. o.settled \subseteq Targets
  BY DEF Operation
<1>3. {e} \X Unsettled(o) \subseteq retired
  BY <1>1
<1>4. \A t \in o.settled : o.stat[t] # "asked"
  BY <1>1, <1>2
<1> QED BY <1>3, <1>4, GateReturn

\* A step of a running operation that keeps its gate and its final stats.
LEMMA GateGoesOn ==
  ASSUME GateInv, TypeOK', NEW e \in Execs, NEW o, NEW s,
         op' = [op EXCEPT ![e] = o], pc' = [pc EXCEPT ![e] = s],
         pc[e] \notin {"stats", "done"}, s \notin {"stats", "done"},
         o.stat = op[e].stat, o.settled = op[e].settled, o.gate = op[e].gate, o.aborted = op[e].aborted,
         o.kind = op[e].kind, o.fired = op[e].fired,
         UNCHANGED <<late, retired, cleanup>>,
         s = pc[e] \/ pc[e] # "running" \/ cleanup \notin {"quiet", "drained", "disposed"}
  PROVE  GateInv'
<1>1. Unsettled(o) = {} /\ \A t \in Targets : o.stat[t] = "none"
  BY NothingOut
<1>2. Gating(pc[e], op[e], e \in late)
  BY DEF GateInv, Gates
<1>3. Gating(s, o, e \in late')
  BY <1>1, <1>2 DEF Gating, GateInv
<1>4. {e} \X Unsettled(o) \subseteq retired'
  BY <1>1
<1> QED BY <1>3, <1>4, GateStep

LEMMA GateBegins ==
  ASSUME GateInv, TypeOK', NEW e \in Execs,
         Listener(e) \/ DownstreamFails(e) \/ BeginAugment(e) \/ Body(e)
  PROVE  GateInv'
<1>0. /\ op[e] \in Operation /\ op = [op EXCEPT ![e] = op[e]]
      /\ pending[e] \in SUBSET Candidate
      /\ pc[e] \in {"running", "next", "begun"} /\ UNCHANGED <<retired, cleanup>>
  BY DEF GateInv, TypeOK, Listener, DownstreamFails, BeginAugment, Body
<1>1. Taken(e) \in Operation /\ Taken(e).stat = op[e].stat
      /\ Rejected(e) \in Operation /\ Rejected(e).stat = op[e].stat
  BY <1>0 DEF Taken, Rejected, Operation
<1>2. CASE Listener(e)
  <2>1. UNCHANGED <<op, late>> /\ cleanup \notin {"quiet", "drained", "disposed"}
    BY <1>2 DEF Listener, world
  <2>2. PICK s \in {"next"} : pc' = [pc EXCEPT ![e] = s]
    BY <1>2 DEF Listener
  <2> QED BY <1>0, <2>1, <2>2, GateGoesOn
<1>3. CASE DownstreamFails(e)
  BY <1>0, <1>1, <1>3, GateEarlyReturn DEF DownstreamFails
<1>4. CASE BeginAugment(e) /\ cleanup # "open"
  BY <1>0, <1>1, <1>4, GateEarlyReturn DEF BeginAugment
<1>5. CASE BeginAugment(e) /\ cleanup = "open"
  <2> DEFINE o == IF e \in cancelled THEN Aborted(NewOp, "caller") ELSE NewOp
  <2>1. op' = [op EXCEPT ![e] = o] /\ pc' = [pc EXCEPT ![e] = "begun"] /\ UNCHANGED late
    BY <1>5 DEF BeginAugment
  <2>2. Gating("begun", NewOp, e \in late)
    BY NewOpGate DEF Gating
  <2>3. NewOp \in Operation
    BY NewOpType
  <2>4. Gating("begun", o, e \in late) /\ Unsettled(o) = {}
    BY <2>2, <2>3, NewOpGate, AbortGates
  <2> HIDE DEF o
  <2>5. {e} \X Unsettled(o) \subseteq retired'
    BY <2>4
  <2> QED BY <1>0, <1>5, <2>1, <2>4, <2>5, GateStep
<1>6. CASE Body(e)
  <2>1. CASE Return(e, Taken(e))
    BY <1>0, <1>1, <1>6, <2>1, GateEarlyReturn
  <2>2. CASE ~Return(e, Taken(e))
    <3>1. PICK routed \in SUBSET pending[e], s \in {"workspace"} :
            /\ pc' = [pc EXCEPT ![e] = s]
            /\ op' = [op EXCEPT ![e] = [Taken(e) EXCEPT !.todo = routed]]
            /\ UNCHANGED late
      BY <1>6, <2>2 DEF Body
    <3> DEFINE o == [Taken(e) EXCEPT !.todo = routed]
    <3>2. /\ o.stat = op[e].stat /\ o.settled = op[e].settled /\ o.gate = op[e].gate
          /\ o.aborted = op[e].aborted
          /\ o.kind = op[e].kind /\ o.fired = op[e].fired
      BY <1>0 DEF Taken, Operation
    <3>3. op' = [op EXCEPT ![e] = o]
      BY <3>1
    <3> HIDE DEF o
    <3>4. pc[e] = "begun"
      BY <1>6 DEF Body
    <3> QED BY <1>0, <3>1, <3>2, <3>3, <3>4, GateGoesOn
  <2> QED BY <2>1, <2>2
<1> QED BY <1>2, <1>3, <1>4, <1>5, <1>6

LEMMA GateEligible ==
  ASSUME GateInv, TypeOK', NEW e \in Execs, Workspace(e) \/ Eligibility(e)
  PROVE  GateInv'
<1>0. /\ op[e] \in Operation /\ op = [op EXCEPT ![e] = op[e]]
      /\ pc[e] \in {"workspace", "eligible"} /\ UNCHANGED <<retired, cleanup>>
  BY DEF GateInv, TypeOK, Workspace, Eligibility
<1>1. CASE Return(e, op[e])
  BY <1>0, <1>1, GateEarlyReturn
<1>2. CASE Workspace(e) /\ ~Return(e, op[e])
  <2>1. UNCHANGED <<op, late>>
    BY <1>2 DEF Workspace
  <2>2. PICK s \in {"eligible"} : pc' = [pc EXCEPT ![e] = s]
    BY <1>2 DEF Workspace
  <2> QED BY <1>0, <2>1, <2>2, GateGoesOn
<1>3. CASE Eligibility(e) /\ ~Return(e, op[e])
  <2>1. PICK keep \in BOOLEAN, c \in op[e].todo : Consider(e, c, keep)
    BY <1>3 DEF Eligibility
  <2> DEFINE o == Sorted(op[e], c, keep)
  <2>2. /\ o.stat = op[e].stat /\ o.settled = op[e].settled /\ o.gate = op[e].gate
        /\ o.aborted = op[e].aborted
        /\ o.kind = op[e].kind /\ o.fired = op[e].fired
    BY <1>0 DEF Sorted, Operation
  <2>3. op' = [op EXCEPT ![e] = o] /\ UNCHANGED late
    BY <1>3, <2>1 DEF Consider
  <2>4. PICK s \in {"diagnose", "eligible"} : pc' = [pc EXCEPT ![e] = s]
    BY <1>3, <2>1 DEF Consider
  <2> HIDE DEF o
  <2> QED BY <1>0, <2>2, <2>3, <2>4, GateGoesOn
<1> QED BY <1>1, <1>2, <1>3

LEMMA GateDiagnoses ==
  ASSUME GateInv, TypeOK', NEW e \in Execs,
         (\E r \in {"answer", "stale"} : Diagnose(e, r)) \/ StartFinalStats(e)
  PROVE  GateInv'
<1>0. /\ op[e] \in Operation /\ op = [op EXCEPT ![e] = op[e]] /\ pc = [pc EXCEPT ![e] = pc[e]]
      /\ pc[e] = "diagnose" /\ UNCHANGED <<late, retired, cleanup>>
      /\ Gating(pc[e], op[e], e \in late)
      /\ op[e].eligible \in SUBSET Candidate
  BY DEF GateInv, Gates, TypeOK, Diagnose, StartFinalStats, world, Operation
<1>1. ASSUME NEW r \in {"answer", "stale"}, Diagnose(e, r)
      PROVE  GateInv'
  <2>1. PICK m : op' = [op EXCEPT ![e] = [op[e] EXCEPT !.out = m]]
    BY <1>1 DEF Diagnose
  <2> DEFINE o == [op[e] EXCEPT !.out = m]
  <2>2. /\ o.stat = op[e].stat /\ o.settled = op[e].settled /\ o.gate = op[e].gate
        /\ o.aborted = op[e].aborted
        /\ o.kind = op[e].kind /\ o.fired = op[e].fired
    BY <1>0 DEF Operation
  <2>3. op' = [op EXCEPT ![e] = o] /\ UNCHANGED pc
    BY <1>1, <2>1 DEF Diagnose
  <2> HIDE DEF o
  <2> QED BY <1>0, <2>2, <2>3, GateGoesOn
<1>2. CASE StartFinalStats(e)
  <2>0. pc' = [pc EXCEPT ![e] = "stats"]
    BY <1>2 DEF StartFinalStats
  <2>1. \A t \in Targets : op[e].stat[t] = "none"
    BY <1>0 DEF Gating
  <2>2. CASE op[e].gate = "open" /\ ~op[e].aborted /\ e \notin late
    <3> DEFINE m == [t \in Targets |-> IF \E c \in Diagnosed(op[e]) : c.target = t
                                       THEN "asked" ELSE "none"]
               o == [op[e] EXCEPT !.stat = m]
    <3>1. op' = [op EXCEPT ![e] = o]
      BY <1>2, <2>2 DEF StartFinalStats
    <3>2. /\ o.stat = m /\ o.gate = op[e].gate /\ o.aborted = op[e].aborted
          /\ o.kind = op[e].kind /\ o.fired = op[e].fired
          /\ o.settled = op[e].settled /\ o.eligible = op[e].eligible
      BY <1>0 DEF Operation
    <3>3. Diagnosed(op[e]) = op[e].eligible
      BY <1>2, <2>2 DEF StartFinalStats
    <3>4. \A c \in op[e].eligible : m[c.target] # "none"
      BY <1>0, <3>3 DEF Candidate
    <3> HIDE DEF m, o
    <3>5. op[e].settled = {}
      BY <1>0 DEF Gating
    <3>6. Gating("stats", o, e \in late')
      BY <1>0, <2>2, <3>2, <3>4, <3>5 DEF Gating
    <3> QED BY <1>0, <2>0, <2>2, <3>1, <3>2, <3>6, GateStep
  <2>3. CASE ~(op[e].gate = "open" /\ ~op[e].aborted /\ e \notin late)
    <3>1. op' = [op EXCEPT ![e] = op[e]]
      BY <1>0, <1>2, <2>3 DEF StartFinalStats
    <3>2. Unsettled(op[e]) = {}
      BY <2>1 DEF Unsettled
    <3>3. \A t \in op[e].settled : op[e].stat[t] # "asked"
      BY <1>0, <2>1 DEF Operation
    <3>4. Gating("stats", op[e], e \in late')
      BY <1>0, <2>3, <3>3 DEF Gating
    <3>5. {e} \X Unsettled(op[e]) \subseteq retired'
      BY <3>2
    <3> QED BY <1>0, <2>0, <3>1, <3>4, <3>5, GateStep
  <2> QED BY <2>2, <2>3
<1> QED BY <1>1, <1>2

LEMMA GateStats ==
  ASSUME GateInv, TypeOK', NEW e \in Execs,
         (\E t \in Targets : StatReads(e, t) \/ StatSettles(e, t)) \/ Publish(e)
  PROVE  GateInv'
<1>0. /\ op[e] \in Operation /\ op = [op EXCEPT ![e] = op[e]] /\ pc = [pc EXCEPT ![e] = pc[e]]
      /\ UNCHANGED cleanup /\ Gating(pc[e], op[e], e \in late)
      /\ pc[e] = "done" \/ op[e].gate # "open" => {e} \X Unsettled(op[e]) \subseteq retired
      /\ op[e].stat \in [Targets -> {"none", "asked", "same", "other", "rejected"}]
      /\ op[e].settled \in SUBSET Targets
  BY DEF GateInv, Gates, GivenUp, TypeOK, StatReads, StatSettles, Publish, Operation
<1>1. ASSUME NEW t \in Targets, StatReads(e, t)
      PROVE  GateInv'
  <2>1. PICK a \in {"same", "other", "rejected"} :
          op' = [op EXCEPT ![e] = [op[e] EXCEPT !.stat = [op[e].stat EXCEPT ![t] = a]]]
    BY <1>1 DEF StatReads
  <2> DEFINE m == [op[e].stat EXCEPT ![t] = a]
             o == [op[e] EXCEPT !.stat = m]
  <2>2. op' = [op EXCEPT ![e] = o] /\ UNCHANGED <<late, pc, retired>> /\ op[e].stat[t] = "asked"
        /\ pc[e] = "stats"
    BY <1>1, <2>1 DEF StatReads, world
  <2>3. /\ m \in [Targets -> {"none", "asked", "same", "other", "rejected"}]
        /\ \A u \in Targets : /\ m[u] = "none" <=> op[e].stat[u] = "none"
                              /\ m[u] = "asked" => op[e].stat[u] = "asked"
    BY <1>0, <2>2
  <2> HIDE DEF m
  <2>4. /\ o.stat = m /\ o.settled = op[e].settled /\ o.gate = op[e].gate
        /\ o.aborted = op[e].aborted /\ o.kind = op[e].kind /\ o.fired = op[e].fired
        /\ o.eligible = op[e].eligible
    BY <1>0 DEF Operation
  <2> HIDE DEF o
  <2>5. Unsettled(o) = Unsettled(op[e])
    BY <2>3, <2>4 DEF Unsettled
  <2>6. \A c \in op[e].eligible : c.target \in Targets
    BY <1>0 DEF Operation, Candidate
  <2>7. Gating(pc[e], o, e \in late')
    BY <1>0, <2>2, <2>3, <2>4, <2>6 DEF Gating
  <2>8. PICK s : s = pc[e] /\ pc' = [pc EXCEPT ![e] = s] /\ Gating(s, o, e \in late')
    BY <1>0, <2>2, <2>7
  <2> QED BY <1>0, <2>2, <2>4, <2>5, <2>8, GateStep
<1>2. ASSUME NEW t \in Targets, StatSettles(e, t)
      PROVE  GateInv'
  <2> DEFINE ss == op[e].settled \cup {t}
             o == [op[e] EXCEPT !.settled = ss]
  <2>1. /\ op' = [op EXCEPT ![e] = o] /\ retired' = retired \ {<<e, t>>}
        /\ UNCHANGED <<late, pc>> /\ t \in Unsettled(op[e])
        /\ pc[e] = "stats" => op[e].stat[t] # "asked"
    BY <1>2 DEF StatSettles, SettledIo, world
  <2> HIDE DEF ss
  <2>2. /\ o.stat = op[e].stat /\ o.settled = ss /\ o.gate = op[e].gate
        /\ o.aborted = op[e].aborted /\ o.kind = op[e].kind /\ o.fired = op[e].fired
        /\ o.eligible = op[e].eligible
    BY <1>0 DEF Operation
  <2> HIDE DEF o
  <2>3. Unsettled(o) = Unsettled(op[e]) \ {t}
    BY <2>2 DEF Unsettled, ss
  <2>4. pc[e] \in {"stats", "done"}
    BY <1>0, <2>1 DEF Gating, Unsettled
  <2>5. Gating(pc[e], o, e \in late)
    BY <1>0, <2>1, <2>2, <2>4 DEF Gating, ss
  <2>6. op'[e] = o /\ pc' = pc /\ \A f \in Execs \ {e} : op'[f] = op[f]
    BY <2>1 DEF GateInv, TypeOK
  <2>7. Gates'
    BY <2>1, <2>5, <2>6 DEF GateInv, Gates
  <2>8. GivenUp'
    BY <1>0, <2>1, <2>2, <2>3, <2>6 DEF GateInv, GivenUp
  <2>9. Drained'
    BY <1>0, <2>1 DEF GateInv, Drained
  <2> QED BY <2>7, <2>8, <2>9 DEF GateInv
<1>3. CASE Publish(e)
  <2>1. /\ pc[e] = "stats" /\ Return(e, op[e])
        /\ retired' = retired \cup Given(e, op[e])
    BY <1>3 DEF Publish
  <2>2. \A t \in op[e].settled : op[e].stat[t] # "asked"
    BY <1>0, <2>1 DEF Gating
  <2>3. \/ retired' = retired \cup ({e} \X Unsettled(op[e]))
        \/ retired' = retired /\ {e} \X Unsettled(op[e]) \subseteq retired
    BY <1>0, <2>1 DEF Given
  <2> QED BY <1>0, <2>1, <2>2, <2>3, GateReturn
<1> QED BY <1>1, <1>2, <1>3

LEMMA GateSignals ==
  ASSUME GateInv, TypeOK', NEW e \in Execs,
         ClockPasses(e) \/ DeadlineFires(e) \/ CallerAborts(e)
  PROVE  GateInv'
<1>0. /\ op[e] \in Operation /\ op = [op EXCEPT ![e] = op[e]] /\ pc = [pc EXCEPT ![e] = pc[e]]
      /\ UNCHANGED <<pc, cleanup>> /\ Gating(pc[e], op[e], e \in late)
      /\ op[e].gate # "open" => {e} \X Unsettled(op[e]) \subseteq retired
  BY DEF GateInv, Gates, GivenUp, TypeOK, ClockPasses, DeadlineFires, CallerAborts
<1>1. ASSUME NEW why \in {"deadline", "caller"}, Active(e), UNCHANGED late,
             op' = [op EXCEPT ![e] = Aborted(op[e], why)],
             retired' = retired \cup Given(e, op[e])
      PROVE  GateInv'
  <2> DEFINE o == Aborted(op[e], why)
  <2>1. Gating(pc[e], o, e \in late) /\ Unsettled(o) = Unsettled(op[e])
    BY <1>0, AbortGates
  <2>2. {e} \X Unsettled(o) \subseteq retired'
    BY <1>0, <1>1, <2>1 DEF Given
  <2>3. retired \subseteq retired' /\ retired' \subseteq retired \cup ({e} \X Targets)
    BY <1>1 DEF Given, Unsettled
  <2>4. pc[e] \notin {"running", "done"}
    BY <1>1 DEF Active
  <2>5. op' = [op EXCEPT ![e] = o]
    BY <1>1
  <2> HIDE DEF o
  <2>6. PICK s : s = pc[e] /\ pc' = [pc EXCEPT ![e] = s] /\ Gating(s, o, e \in late')
    BY <1>0, <1>1, <2>1
  <2> QED BY <1>0, <1>1, <2>2, <2>3, <2>4, <2>5, <2>6, GateStep
<1>2. CASE ClockPasses(e)
  <2>1. late' = late \cup {e} /\ UNCHANGED <<op, retired>> /\ Active(e)
    BY <1>2 DEF ClockPasses
  <2>2. Gating(pc[e], op[e], TRUE)
    BY <1>0 DEF Gating
  <2>3. Gates'
    BY <1>0, <2>1, <2>2 DEF GateInv, Gates, Gating
  <2> QED BY <1>0, <2>1, <2>3 DEF GateInv, GivenUp, Drained
<1>3. CASE DeadlineFires(e)
  BY <1>1, <1>3 DEF DeadlineFires, world
<1>4. CASE CallerAborts(e)
  <2>1. CASE Active(e)
    BY <1>1, <1>4, <2>1 DEF CallerAborts
  <2>2. CASE ~Active(e)
    <3>1. UNCHANGED <<op, late, retired>>
      BY <1>4, <2>2 DEF CallerAborts
    <3> QED BY <1>0, <3>1 DEF GateInv, Gates, GivenUp, Drained
  <2> QED BY <2>1, <2>2
<1> QED BY <1>2, <1>3, <1>4

LEMMA GateCleanup ==
  ASSUME GateInv, TypeOK', StopAdmission \/ Cleanup
  PROVE  GateInv'
<1>0. UNCHANGED <<pc, late>>
  BY DEF Cleanup, StopAdmission, OffPost, OffObserved, AbortActiveOperations,
       AwaitActiveOperations, AwaitRetiredIo, Dispose, CleanupMove, world
<1>1. CASE AbortActiveOperations
  <2>1. /\ op' = [e \in Execs |-> IF Active(e) THEN Aborted(op[e], "cleanup") ELSE op[e]]
        /\ retired' = retired \cup UNION {Given(e, op[e]) : e \in {x \in Execs : Active(x)}}
        /\ cleanup' = "aborted"
    BY <1>1 DEF AbortActiveOperations, CleanupMove
  <2>2. ASSUME NEW e \in Execs
        PROVE  /\ Gating(pc[e], op'[e], e \in late)
               /\ pc[e] = "done" \/ op'[e].gate # "open" =>
                    {e} \X Unsettled(op'[e]) \subseteq retired'
    <3>0. op[e] \in Operation /\ Gating(pc[e], op[e], e \in late)
          /\ (pc[e] = "done" \/ op[e].gate # "open" => {e} \X Unsettled(op[e]) \subseteq retired)
      BY DEF GateInv, TypeOK, Gates, GivenUp
    <3>1. CASE Active(e)
      <4>1. op'[e] = Aborted(op[e], "cleanup")
        BY <2>1, <3>1
      <4>2. Gating(pc[e], op'[e], e \in late) /\ Unsettled(op'[e]) = Unsettled(op[e])
        BY <3>0, <4>1, AbortGates
      <4>3. Given(e, op[e]) \subseteq retired' /\ retired \subseteq retired'
        BY <2>1, <3>1
      <4> QED BY <3>0, <4>2, <4>3 DEF Given
    <3>2. CASE ~Active(e)
      BY <2>1, <3>0, <3>2
    <3> QED BY <3>1, <3>2
  <2>3. Gates' /\ GivenUp'
    BY <1>0, <2>2 DEF Gates, GivenUp
  <2> QED BY <2>1, <2>3 DEF GateInv, Drained
<1>2. CASE ~AbortActiveOperations
  <2>1. /\ UNCHANGED <<op, retired>>
        /\ cleanup' \in {"quiet", "drained", "disposed"} =>
             \/ cleanup \in {"quiet", "drained", "disposed"}
             \/ \A e \in Execs : pc[e] \in {"running", "done"}
        /\ cleanup' \in {"drained", "disposed"} =>
             cleanup \in {"drained", "disposed"} \/ retired = {}
    BY <1>2 DEF Cleanup, StopAdmission, OffPost, OffObserved, AwaitActiveOperations,
         AwaitRetiredIo, Dispose, CleanupMove
  <2>2. Gates' /\ GivenUp'
    BY <1>0, <2>1 DEF GateInv, Gates, GivenUp
  <2>3. Drained'
    BY <1>0, <2>1 DEF GateInv, Drained
  <2> QED BY <2>2, <2>3 DEF GateInv
<1> QED BY <1>1, <1>2

LEMMA InitGate == Init => GateInv
<1> SUFFICES ASSUME Init PROVE GateInv
  OBVIOUS
<1>1. TypeOK
  BY InitInv DEF CollectorInv
<1>2. \A e \in Execs : op[e] = NewOp /\ pc[e] = "running"
  BY DEF Init
<1>3. Gates /\ GivenUp
  BY <1>2, NewOpGate DEF Gates, Gating, GivenUp
<1>4. Drained
  BY DEF Init, Drained
<1> QED BY <1>1, <1>3, <1>4 DEF GateInv

LEMMA NextGate == GateInv /\ TypeOK' /\ [Next]_vars => GateInv'
<1> SUFFICES ASSUME GateInv, TypeOK', [Next]_vars PROVE GateInv'
  OBVIOUS
<1>1. ASSUME NEW e \in Execs,
             \/ Listener(e) \/ DownstreamFails(e) \/ BeginAugment(e)
             \/ Transaction(e) \/ Stat(e)
             \/ ClockPasses(e) \/ DeadlineFires(e) \/ CallerAborts(e)
      PROVE  GateInv'
  BY <1>1, GateBegins, GateEligible, GateDiagnoses, GateStats, GateSignals DEF Transaction, Stat
<1>2. CASE \/ \E e \in Execs, t \in Targets, v \in Versions : Observe(e, t, v)
           \/ \E t \in Targets, v \in Versions : Write(t, v)
           \/ Stopped \/ UNCHANGED vars
  <2>1. UNCHANGED <<pc, op, late, retired, cleanup>>
    BY <1>2 DEF Observe, Write, Stopped, vars, world
  <2> QED BY <2>1 DEF GateInv, Gates, GivenUp, Drained
<1> QED BY <1>1, <1>2, GateCleanup DEF Next

LEMMA GateInvariance == Spec => []GateInv
<1>1. Spec => []TypeOK
  BY TypeCorrect
<1>2. Init => GateInv
  BY InitGate
<1>3. GateInv /\ TypeOK' /\ [Next]_vars => GateInv'
  BY NextGate
<1> QED BY <1>1, <1>2, <1>3, PTL DEF Spec

-----------------------------------------------------------------------------
\* What is under way or left behind when the runtime has been disposed:
\* nothing, because every read was retired and the retired ones have returned.
THEOREM CleanupLeavesNothing == Spec => [](AllRetired /\ QuietAfterDispose)
<1>1. ASSUME GateInv
      PROVE  QuietAfterDispose
  <2> SUFFICES ASSUME cleanup = "disposed", NEW e \in Execs
               PROVE  ~Active(e) /\ pc[e] # "next" /\ Unsettled(op[e]) = {}
    BY DEF QuietAfterDispose
  <2>1. pc[e] \in {"running", "done"} /\ retired = {}
    BY <1>1 DEF GateInv, Drained
  <2>2. CASE pc[e] = "running"
    BY <1>1, <2>2, NothingOut DEF Active
  <2>3. CASE pc[e] = "done"
    <3>1. {e} \X Unsettled(op[e]) = {}
      BY <1>1, <2>1, <2>3 DEF GateInv, GivenUp
    <3>2. \A t \in Unsettled(op[e]) : <<e, t>> \in {e} \X Unsettled(op[e])
      OBVIOUS
    <3> QED BY <2>3, <3>1, <3>2 DEF Active
  <2> QED BY <2>1, <2>2, <2>3
<1>2. KeepInv => AllRetired
  BY DEF KeepInv
<1>3. GateInv => QuietAfterDispose
  BY <1>1
<1> QED BY <1>2, <1>3, KeepInvariance, GateInvariance, PTL

\* An exec that was in its final stats and is done went through Publish.
LEMMA DecidesAtGate ==
  ASSUME TypeOK, NEW e \in Execs, Decides(e), [Next]_vars
  PROVE  RaceOver(op[e])
<1>0. pc[e] = "stats" /\ pc'[e] = "done" /\ pc \in [Execs -> Stages]
  BY DEF Decides, TypeOK
<1>1. pc' # pc
  BY <1>0
<1>2. ASSUME NEW f \in Execs,
             \/ Listener(f) \/ DownstreamFails(f) \/ BeginAugment(f) \/ Body(f)
             \/ Workspace(f) \/ Eligibility(f) \/ StartFinalStats(f)
      PROVE  FALSE
  <2>1. pc[f] \in {"running", "next", "begun", "workspace", "eligible", "diagnose"}
    BY <1>2 DEF Listener, DownstreamFails, BeginAugment, Body, Workspace, Eligibility,
         StartFinalStats
  <2>2. PICK s : pc' = [pc EXCEPT ![f] = s]
    BY <1>2 DEF Listener, DownstreamFails, BeginAugment, Body, Workspace, Eligibility,
         StartFinalStats, Return, Consider
  <2> QED BY <1>0, <2>1, <2>2
<1>3. ASSUME NEW f \in Execs, Publish(f)
      PROVE  f = e
  BY <1>0, <1>3 DEF Publish, Return
<1>4. PICK f \in Execs : Publish(f)
  BY <1>1, <1>2 DEF Next, Transaction, Stat, Observe, Write, ClockPasses, DeadlineFires,
       CallerAborts, Diagnose, StatReads, StatSettles, StopAdmission, Cleanup, OffPost,
       OffObserved, AbortActiveOperations, AwaitActiveOperations, AwaitRetiredIo, Dispose,
       CleanupMove, Stopped, vars
<1> QED BY <1>3, <1>4 DEF Publish

\* A transaction that was not aborted from outside reports each of its newest
\* mutations, as timed out if the deadline came first, also by the clock alone.
LEMMA GateSays ==
  ASSUME KeepInv, GateInv, NEW e \in Execs, pc[e] = "stats", RaceOver(op[e]),
         op[e].kind = "none", NEW c \in op[e].eligible, c.nth = seen[c.target],
         op[e].stat[c.target] # "other", op[e].out[c.target] # "stale"
  PROVE  \E x \in Report(e) : x.target = c.target
<1> DEFINE o == op[e]
           d == Decided(e, o)
<1>0. /\ o \in Operation /\ c \in Candidate /\ c.target \in Targets
      /\ o.stat[c.target] \in {"none", "asked", "same", "other", "rejected"}
      /\ Gating("stats", o, e \in late)
  BY DEF KeepInv, CollectorInv, TypeOK, Operation, Candidate, GateInv, Gates
<1>1. IsCurrent(marker, c)
  BY DEF KeepInv, NewestKept
<1>2. \A kind : Entry(c, kind).target = c.target
  BY DEF Entry
<1>3. CASE o.gate # "open"
  <2>1. d = o /\ o.gate = "timed-out" /\ o.fired
    BY <1>0, <1>3 DEF Gating, Decided
  <2>2. Report(e) = {Entry(x, "timeout") : x \in Current(o)}
    BY <2>1 DEF Report, Entries
  <2> QED BY <1>1, <1>2, <2>2 DEF Current
<1>4. CASE o.gate = "open" /\ e \in late
  <2>1. ~o.aborted /\ d = Aborted(o, "deadline")
    BY <1>0, <1>4 DEF Gating, Decided, Expired
  <2>2. d.gate = "timed-out" /\ d.fired /\ d.kind = "none" /\ d.eligible = o.eligible
    BY <1>0, <1>4, <2>1 DEF Aborted, Closed, Operation
  <2> HIDE DEF d
  <2>3. Entries(d) = {Entry(x, "timeout") : x \in Current(d)}
    BY <2>2 DEF Entries
  <2>4. c \in Current(d)
    BY <1>1, <2>2 DEF Current
  <2>5. Report(e) = Entries(d)
    BY <2>2 DEF Report, d
  <2> QED BY <1>2, <2>3, <2>4, <2>5
<1>5. CASE o.gate = "open" /\ e \notin late
  <2>1. Unsettled(o) = {} /\ ~o.aborted /\ o.stat[c.target] # "none"
    BY <1>0, <1>5 DEF Gating, RaceOver
  <2>2. c.target \in o.settled /\ o.stat[c.target] \in {"same", "rejected"}
    BY <1>0, <2>1 DEF Unsettled, Gating
  <2>3. d = [o EXCEPT !.gate = "committed"]
    BY <1>5, <2>1, <2>2 DEF Decided, AllSettled
  <2>4. d.gate = "committed" /\ d.kind = "none" /\ d.eligible = o.eligible
        /\ d.stat = o.stat /\ d.out = o.out
    BY <1>0, <2>3 DEF Operation
  <2> HIDE DEF d
  <2>5. Report(e) = Entries(d)
    BY <2>4 DEF Report, d
  <2>6. Entries(d) =
          {Entry(x, "unavailable") : x \in {y \in Current(d) : d.stat[y.target] = "rejected"}}
          \cup {Entry(x, "answer") : x \in {y \in Current(d) :
                                        d.stat[y.target] = "same" /\ d.out[y.target] # "stale"}}
    BY <2>4 DEF Entries
  <2>7. c \in Current(d)
    BY <1>1, <2>4 DEF Current
  <2>8. CASE o.stat[c.target] = "rejected"
    <3>1. Entry(c, "unavailable") \in Entries(d)
      BY <2>4, <2>6, <2>7, <2>8
    <3> QED BY <1>2, <2>5, <3>1
  <2>9. CASE o.stat[c.target] = "same"
    <3>1. Entry(c, "answer") \in Entries(d)
      BY <2>4, <2>6, <2>7, <2>9
    <3> QED BY <1>2, <2>5, <3>1
  <2> QED BY <2>2, <2>8, <2>9
<1> QED BY <1>3, <1>4, <1>5

\* No mutation is dropped in silence.
THEOREM NoneLost == Spec => NoSilentLoss /\ []NewestKept
<1> DEFINE Said ==
      \A e \in Execs :
        Decides(e) /\ op[e].kind = "none" =>
          \A c \in op[e].eligible :
            \/ c.nth # seen[c.target]
            \/ op[e].stat[c.target] = "other" \/ op[e].out[c.target] = "stale"
            \/ \E x \in Report(e) : x.target = c.target
<1>1. ASSUME KeepInv, GateInv, Next
      PROVE  Said
  <2> SUFFICES ASSUME NEW e \in Execs, Decides(e), op[e].kind = "none",
                      NEW c \in op[e].eligible, c.nth = seen[c.target],
                      op[e].stat[c.target] # "other", op[e].out[c.target] # "stale"
               PROVE  \E x \in Report(e) : x.target = c.target
    OBVIOUS
  <2>1. RaceOver(op[e]) /\ pc[e] = "stats"
    BY <1>1, DecidesAtGate DEF Decides, GateInv
  <2> QED BY <1>1, <2>1, GateSays
<1>2. KeepInv /\ GateInv /\ [Next]_vars => [Said]_vars
  BY <1>1
<1>3. KeepInv => NewestKept
  BY DEF KeepInv
<1> QED BY <1>2, <1>3, KeepInvariance, GateInvariance, PTL DEF Spec, NoSilentLoss

-----------------------------------------------------------------------------
(* The tool.                                                               *)

\* The stages after the epoch was taken, and after the first stat.
HasEpoch(c) == tool_pc[c] \in {"before", "before_read", "root", "diagnose",
                          "after", "after_read"}
HasStat(c) == tool_pc[c] \in {"before_read", "root", "diagnose", "after", "after_read"}

EpochOrder ==
  \A c \in ToolCalls : /\ HasEpoch(c) => tool_rec[c].epoch <= tool_seen
                       /\ HasStat(c) => tool_rec[c].epoch <= tool_rec[c].saw /\ tool_rec[c].saw <= tool_seen

ToolInv == Tool!TypeOK /\ EpochOrder

\* A record set by one step of a call keeps its type.
LEMMA RecordType ==
  ASSUME NEW r \in Tool!Record, NEW v \in ToolVersions, NEW n \in Nat, NEW b \in BOOLEAN
  PROVE  /\ [r EXCEPT !.epoch = n] \in Tool!Record
         /\ [r EXCEPT !.before = v, !.saw = n] \in Tool!Record
         /\ [r EXCEPT !.stale = b] \in Tool!Record
         /\ [r EXCEPT !.after = v] \in Tool!Record
         /\ Tool!Blank(v) \in Tool!Record
<1>1. 0 \in Nat
  OBVIOUS
<1>2. Tool!Blank(v) \in Tool!Record
  BY <1>1 DEF Tool!Record, Tool!Blank
<1>3. [r EXCEPT !.epoch = n] \in Tool!Record
  BY DEF Tool!Record
<1>4. [r EXCEPT !.before = v, !.saw = n] \in Tool!Record
  BY DEF Tool!Record
<1>5. [r EXCEPT !.stale = b] \in Tool!Record
  BY DEF Tool!Record
<1>6. [r EXCEPT !.after = v] \in Tool!Record
  BY DEF Tool!Record
<1> QED BY <1>2, <1>3, <1>4, <1>5, <1>6

LEMMA ToolInit == Tool!Init => ToolInv
<1> SUFFICES ASSUME Tool!Init PROVE ToolInv
  OBVIOUS
<1>1. Tool!Blank(tool_ver) \in Tool!Record
  BY DEF Tool!Init, Tool!Record, Tool!Blank
<1>2. Tool!TypeOK
  BY <1>1 DEF Tool!Init, Tool!TypeOK, Tool!Stages, Tool!Active
<1>3. EpochOrder
  BY DEF Tool!Init, EpochOrder, HasEpoch, HasStat
<1> QED BY <1>2, <1>3 DEF ToolInv

\* What one call's step has to show: the others and the file stand still.
LEMMA ToolStep ==
  ASSUME ToolInv, NEW c \in ToolCalls, NEW s \in Tool!Stages, NEW r \in Tool!Record,
         tool_pc' = [tool_pc EXCEPT ![c] = s], tool_rec' = [tool_rec EXCEPT ![c] = r],
         UNCHANGED <<tool_ver, tool_seen, tool_cleanup>>,
         tool_late' \in SUBSET ToolCalls, tool_aborted' \in SUBSET ToolCalls,
         tool_fired' \subseteq {d \in ToolCalls : (IF d = c THEN s ELSE tool_pc[d]) \notin {"idle", "done"}},
         tool_result' \in [ToolCalls -> {"none", "throw", "timeout", "answer"}],
         s \in {"before", "before_read", "root", "diagnose", "after", "after_read"}
           => r.epoch <= tool_seen,
         s \in {"before_read", "root", "diagnose", "after", "after_read"}
           => r.epoch <= r.saw /\ r.saw <= tool_seen
  PROVE  ToolInv'
<1>1. Tool!TypeOK'
  BY DEF ToolInv, Tool!TypeOK, Tool!Active
<1>2. EpochOrder'
  BY DEF ToolInv, Tool!TypeOK, EpochOrder, HasEpoch, HasStat
<1> QED BY <1>1, <1>2 DEF ToolInv

\* A call that ends forgets its record, its timer and its signals.
LEMMA ToolReturns ==
  ASSUME ToolInv, NEW c \in ToolCalls, NEW a \in {"throw", "answer"}, Tool!Return(c, a)
  PROVE  ToolInv'
<1>1. Tool!Blank(tool_ver) \in Tool!Record
  BY RecordType, tool_rec[c] \in Tool!Record, tool_ver \in ToolVersions, tool_seen \in Nat DEF
       ToolInv, Tool!TypeOK
<1>2. tool_result' \in [ToolCalls -> {"none", "throw", "timeout", "answer"}]
  BY DEF ToolInv, Tool!TypeOK, Tool!Return
<1>3. tool_fired' \subseteq {d \in ToolCalls : (IF d = c THEN "done" ELSE tool_pc[d]) \notin {"idle", "done"}}
  BY DEF ToolInv, Tool!TypeOK, Tool!Return, Tool!Cleared, Tool!Active
<1>4. tool_late' \in SUBSET ToolCalls /\ tool_aborted' \in SUBSET ToolCalls
  BY DEF ToolInv, Tool!TypeOK, Tool!Return
<1>5. "done" \in Tool!Stages
  BY DEF Tool!Stages
<1> QED BY <1>1, <1>2, <1>3, <1>4, <1>5, ToolStep DEF Tool!Return

\* A call that goes on keeps its signals, and is still under way.
LEMMA ToolContinues ==
  ASSUME ToolInv, NEW c \in ToolCalls, NEW from \in Tool!Stages, NEW to \in Tool!Stages \ {"idle", "done"},
         tool_pc[c] = from, tool_pc' = [tool_pc EXCEPT ![c] = to],
         UNCHANGED <<tool_ver, tool_seen, Tool!signals, tool_result, tool_cleanup>>,
         NEW r \in Tool!Record, tool_rec' = [tool_rec EXCEPT ![c] = r],
         to \in {"before", "before_read", "root", "diagnose", "after", "after_read"}
           => r.epoch <= tool_seen,
         to \in {"before_read", "root", "diagnose", "after", "after_read"}
           => r.epoch <= r.saw /\ r.saw <= tool_seen
  PROVE  ToolInv'
<1>1. tool_late' \in SUBSET ToolCalls /\ tool_aborted' \in SUBSET ToolCalls
      /\ tool_result' \in [ToolCalls -> {"none", "throw", "timeout", "answer"}]
  BY DEF ToolInv, Tool!TypeOK, Tool!signals
<1>2. tool_fired' \subseteq {d \in ToolCalls : (IF d = c THEN to ELSE tool_pc[d]) \notin {"idle", "done"}}
  BY DEF ToolInv, Tool!TypeOK, Tool!signals, Tool!Active
<1>3. UNCHANGED <<tool_ver, tool_seen, tool_cleanup>> /\ to \in Tool!Stages
  OBVIOUS
<1> QED BY <1>1, <1>2, <1>3, ToolStep

\* Every step of Next keeps the invariant.
LEMMA ToolNext == ToolInv /\ [Tool!Next]_(Tool!vars) => ToolInv'
<1> SUFFICES ASSUME ToolInv, [Tool!Next]_(Tool!vars) PROVE ToolInv'
  OBVIOUS
<1>0. /\ tool_ver \in ToolVersions /\ tool_seen \in Nat /\ tool_seen <= tool_seen
      /\ \A c \in ToolCalls : tool_rec[c] \in Tool!Record /\ tool_pc[c] \in Tool!Stages
      /\ \A c \in ToolCalls : tool_rec[c].epoch \in Nat /\ tool_rec[c].saw \in Nat
  BY DEF ToolInv, Tool!TypeOK, Tool!Record
<1>r. ASSUME NEW c \in ToolCalls
      PROVE  tool_rec = [tool_rec EXCEPT ![c] = tool_rec[c]]
  BY DEF ToolInv, Tool!TypeOK
<1>1. CASE \E v \in ToolVersions : Tool!Write(v)
  BY <1>1, <1>0 DEF Tool!Write, ToolInv, Tool!TypeOK, EpochOrder, HasEpoch, HasStat,
       Tool!signals, Tool!Active
<1>2. CASE Tool!ObserveMutation
  <2>1. tool_seen' \in Nat /\ tool_seen <= tool_seen'
    BY <1>2, <1>0 DEF Tool!ObserveMutation
  <2>2. Tool!TypeOK'
    BY <1>2, <2>1 DEF Tool!ObserveMutation, ToolInv, Tool!TypeOK, Tool!signals, Tool!Active
  <2>3. EpochOrder'
    BY <1>2, <2>1, <1>0 DEF Tool!ObserveMutation, ToolInv, EpochOrder, HasEpoch, HasStat,
         Tool!signals
  <2> QED BY <2>2, <2>3 DEF ToolInv
<1>3. ASSUME NEW c \in ToolCalls, Tool!Execute(c)
      PROVE  ToolInv'
  <2>1. "workspace" \in Tool!Stages \ {"idle", "done"} /\ "idle" \in Tool!Stages
    BY DEF Tool!Stages
  <2>2. tool_rec' = [tool_rec EXCEPT ![c] = tool_rec[c]]
    BY <1>3, <1>r DEF Tool!Execute
  <2>3. tool_pc[c] = "idle" /\ tool_pc' = [tool_pc EXCEPT ![c] = "workspace"]
        /\ UNCHANGED <<tool_ver, tool_seen, Tool!signals, tool_result, tool_cleanup>>
    BY <1>3 DEF Tool!Execute
  <2>4. tool_rec[c] \in Tool!Record
    BY <1>0
  <2> QED BY <2>1, <2>2, <2>3, <2>4, ToolContinues
<1>4. ASSUME NEW c \in ToolCalls, Tool!Call(c)
      PROVE  ToolInv'
  <2>0. tool_rec[c] \in Tool!Record /\ tool_pc[c] \in Tool!Stages
    BY <1>0
  <2>e. /\ HasEpoch(c) => tool_rec[c].epoch <= tool_seen
        /\ HasStat(c) => tool_rec[c].epoch <= tool_rec[c].saw /\ tool_rec[c].saw <= tool_seen
    BY DEF ToolInv, EpochOrder
  <2>1. CASE Tool!End(c)
    BY <2>1, ToolReturns DEF Tool!End
  <2>2. CASE Tool!After(c)
    <3>1. (IF Tool!Unchanged(c) THEN "answer" ELSE "throw") \in {"throw", "answer"}
      OBVIOUS
    <3> QED BY <2>2, <3>1, ToolReturns DEF Tool!After
  <2>3. CASE Tool!Workspace(c)
    <3>1. "workspace" \in Tool!Stages /\ "target" \in Tool!Stages \ {"idle", "done"}
      BY DEF Tool!Stages
    <3>2. tool_rec' = [tool_rec EXCEPT ![c] = tool_rec[c]]
      BY <2>3, <1>r DEF Tool!Workspace
    <3>3. tool_pc[c] = "workspace" /\ tool_pc' = [tool_pc EXCEPT ![c] = "target"]
          /\ UNCHANGED <<tool_ver, tool_seen, Tool!signals, tool_result, tool_cleanup>>
      BY <2>3 DEF Tool!Workspace, Tool!Continue
    <3>4. "target" \notin {"before", "before_read", "root", "diagnose", "after", "after_read"}
      OBVIOUS
    <3> QED BY <2>0, <3>1, <3>2, <3>3, <3>4, ToolContinues
  <2>4. CASE Tool!Target(c)
    <3>1. "target" \in Tool!Stages /\ "before" \in Tool!Stages \ {"idle", "done"}
      BY DEF Tool!Stages
    <3> DEFINE r == [tool_rec[c] EXCEPT !.epoch = tool_seen]
    <3>2. r \in Tool!Record
      BY <2>0, <1>0, RecordType, TRUE \in BOOLEAN
    <3>3. r.epoch <= tool_seen
      BY <1>0, <2>0 DEF Tool!Record
    <3>4. tool_rec' = [tool_rec EXCEPT ![c] = r]
      BY <2>4 DEF Tool!Target
    <3>5. tool_pc[c] = "target" /\ tool_pc' = [tool_pc EXCEPT ![c] = "before"]
          /\ UNCHANGED <<tool_ver, tool_seen, Tool!signals, tool_result, tool_cleanup>>
      BY <2>4 DEF Tool!Target, Tool!Continue
    <3>6. "before" \notin {"before_read", "root", "diagnose", "after", "after_read"}
      OBVIOUS
    <3> HIDE DEF r
    <3> QED BY <3>1, <3>2, <3>3, <3>4, <3>5, <3>6, ToolContinues
  <2>5. CASE Tool!BeforeReads(c)
    <3>1. "before" \in Tool!Stages /\ "before_read" \in Tool!Stages \ {"idle", "done"}
      BY DEF Tool!Stages
    <3> DEFINE r == [tool_rec[c] EXCEPT !.before = tool_ver, !.saw = tool_seen]
    <3>2. r \in Tool!Record
      BY <2>0, <1>0, RecordType, TRUE \in BOOLEAN
    <3>3. r.epoch <= tool_seen /\ r.epoch <= r.saw /\ r.saw <= tool_seen
      BY <1>0, <2>0, <2>5, <2>e DEF Tool!Record, Tool!BeforeReads, HasEpoch
    <3>4. tool_rec' = [tool_rec EXCEPT ![c] = r]
      BY <2>5 DEF Tool!BeforeReads
    <3>5. tool_pc[c] = "before" /\ tool_pc' = [tool_pc EXCEPT ![c] = "before_read"]
          /\ UNCHANGED <<tool_ver, tool_seen, Tool!signals, tool_result, tool_cleanup>>
      BY <2>5 DEF Tool!BeforeReads
    <3> HIDE DEF r
    <3> QED BY <3>1, <3>2, <3>3, <3>4, <3>5, ToolContinues
  <2>6. CASE Tool!Before(c)
    <3>1. "before_read" \in Tool!Stages /\ "root" \in Tool!Stages \ {"idle", "done"}
      BY DEF Tool!Stages
    <3>2. tool_rec' = [tool_rec EXCEPT ![c] = tool_rec[c]]
      BY <2>6 DEF Tool!Before, Tool!EpochAtStat
    <3>3. tool_rec[c].epoch <= tool_seen /\ tool_rec[c].epoch <= tool_rec[c].saw /\ tool_rec[c].saw <= tool_seen
      BY <2>6, <2>e DEF Tool!Before, Tool!Continue, HasEpoch, HasStat
    <3> QED BY <2>6, <2>0, <3>1, <3>2, <3>3, ToolContinues DEF Tool!Before, Tool!Continue
  <2>7. CASE Tool!Root(c)
    <3>1. "root" \in Tool!Stages /\ "diagnose" \in Tool!Stages \ {"idle", "done"}
      BY DEF Tool!Stages
    <3>2. tool_rec' = [tool_rec EXCEPT ![c] = tool_rec[c]]
      BY <2>7, <1>r DEF Tool!Root
    <3>3. tool_rec[c].epoch <= tool_seen /\ tool_rec[c].epoch <= tool_rec[c].saw /\ tool_rec[c].saw <= tool_seen
      BY <2>7, <2>e DEF Tool!Root, Tool!Continue, HasEpoch, HasStat
    <3> QED BY <2>7, <2>0, <3>1, <3>2, <3>3, ToolContinues DEF Tool!Root, Tool!Continue
  <2>8. ASSUME NEW b \in BOOLEAN, Tool!Diagnose(c, b)
        PROVE  ToolInv'
    <3>1. "diagnose" \in Tool!Stages /\ "after" \in Tool!Stages \ {"idle", "done"}
      BY DEF Tool!Stages
    <3> DEFINE r == [tool_rec[c] EXCEPT !.stale = b]
    <3>2. r \in Tool!Record
      BY <2>0, <1>0, RecordType
    <3>3. r.epoch <= tool_seen /\ r.epoch <= r.saw /\ r.saw <= tool_seen
      BY <2>0, <2>8, <2>e DEF Tool!Record, Tool!Diagnose, Tool!Continue, HasEpoch, HasStat
    <3>4. tool_rec' = [tool_rec EXCEPT ![c] = r]
      BY <2>8 DEF Tool!Diagnose
    <3> HIDE DEF r
    <3> QED BY <2>8, <3>1, <3>2, <3>3, <3>4, ToolContinues DEF Tool!Diagnose, Tool!Continue
  <2>9. CASE Tool!AfterReads(c)
    <3>1. "after" \in Tool!Stages /\ "after_read" \in Tool!Stages \ {"idle", "done"}
      BY DEF Tool!Stages
    <3> DEFINE r == [tool_rec[c] EXCEPT !.after = tool_ver]
    <3>2. r \in Tool!Record
      BY <2>0, <1>0, RecordType, TRUE \in BOOLEAN
    <3>3. r.epoch <= tool_seen /\ r.epoch <= r.saw /\ r.saw <= tool_seen
      BY <2>0, <2>9, <2>e DEF Tool!Record, Tool!AfterReads, HasEpoch, HasStat
    <3>4. tool_rec' = [tool_rec EXCEPT ![c] = r]
      BY <2>9 DEF Tool!AfterReads
    <3>5. tool_pc[c] = "after" /\ tool_pc' = [tool_pc EXCEPT ![c] = "after_read"]
          /\ UNCHANGED <<tool_ver, tool_seen, Tool!signals, tool_result, tool_cleanup>>
      BY <2>9 DEF Tool!AfterReads
    <3> HIDE DEF r
    <3> QED BY <3>1, <3>2, <3>3, <3>4, <3>5, ToolContinues
  <2> QED BY <1>4, <2>1, <2>2, <2>3, <2>4, <2>5, <2>6, <2>7, <2>8, <2>9 DEF Tool!Call
<1>5. ASSUME NEW c \in ToolCalls, Tool!ClockPasses(c) \/ Tool!DeadlineFires(c) \/ Tool!CallerAborts(c)
      PROVE  ToolInv'
  <2>1. UNCHANGED <<tool_ver, tool_seen, tool_pc, tool_rec, tool_result, tool_cleanup>>
    BY <1>5 DEF Tool!ClockPasses, Tool!DeadlineFires, Tool!CallerAborts
  <2>2. tool_late' \in SUBSET ToolCalls /\ tool_aborted' \in SUBSET ToolCalls
        /\ tool_fired' \subseteq {d \in ToolCalls : Tool!Active(d)}
    BY <1>5 DEF Tool!ClockPasses, Tool!DeadlineFires, Tool!CallerAborts, ToolInv, Tool!TypeOK
  <2>3. Tool!TypeOK'
    BY <2>1, <2>2 DEF ToolInv, Tool!TypeOK, Tool!Active
  <2>4. EpochOrder'
    BY <2>1 DEF ToolInv, EpochOrder, HasEpoch, HasStat
  <2> QED BY <2>3, <2>4 DEF ToolInv
<1>6. CASE Tool!StopAdmission \/ Tool!AbortActiveOperations \/ Tool!AwaitActiveOperations
  <2>1. UNCHANGED <<tool_ver, tool_seen, tool_pc, tool_rec, tool_late, tool_fired, tool_result>>
    BY <1>6 DEF Tool!StopAdmission, Tool!AbortActiveOperations, Tool!AwaitActiveOperations,
         Tool!signals
  <2>2. tool_aborted' \in SUBSET ToolCalls /\ tool_cleanup' \in {"open", "stopped", "aborted", "disposed"}
    BY <1>6 DEF Tool!StopAdmission, Tool!AbortActiveOperations, Tool!AwaitActiveOperations,
         Tool!signals, ToolInv, Tool!TypeOK
  <2>3. Tool!TypeOK'
    BY <2>1, <2>2 DEF ToolInv, Tool!TypeOK, Tool!Active
  <2>4. EpochOrder'
    BY <2>1 DEF ToolInv, EpochOrder, HasEpoch, HasStat
  <2> QED BY <2>3, <2>4 DEF ToolInv
<1>7. CASE UNCHANGED Tool!vars
  BY <1>7 DEF Tool!vars, ToolInv, Tool!TypeOK, EpochOrder, HasEpoch, HasStat, Tool!Active
<1> QED BY <1>1, <1>2, <1>3, <1>4, <1>5, <1>6, <1>7 DEF Tool!Next

LEMMA ToolInvariance == Tool!Spec => []ToolInv
  BY ToolInit, ToolNext, PTL DEF Tool!Spec

-----------------------------------------------------------------------------
\* The variables keep their types and no deadline timer outlives its call.
THEOREM ToolTypes == Tool!Spec => []Tool!TypeOK
<1>1. ToolInv => Tool!TypeOK
  BY DEF ToolInv
<1> QED BY <1>1, ToolInvariance, PTL

\* No answer misses an observed mutation: the epoch is at most what had been
\* seen at the first stat, and they are equal when it is still the epoch.
THEOREM MutationsNoticed == Tool!Spec => Tool!NoMutationMissed
<1> DEFINE Noticed == \A c \in ToolCalls : Tool!Answers(c) => tool_rec[c].saw = tool_seen
<1>1. ASSUME ToolInv, Tool!Next
      PROVE  Noticed
  <2> SUFFICES ASSUME NEW c \in ToolCalls, Tool!Answers(c) PROVE tool_rec[c].saw = tool_seen
    OBVIOUS
  <2>1. Tool!After(c)
    <3>1. tool_result' # tool_result /\ tool_result[c] = "none" /\ tool_result'[c] = "answer"
      BY DEF Tool!Answers
    <3>2. PICK d \in ToolCalls : Tool!End(d) \/ Tool!After(d)
      BY <1>1, <3>1 DEF Tool!Next, Tool!Call, Tool!Write, Tool!ObserveMutation, Tool!Execute,
           Tool!Workspace,
           Tool!Target, Tool!BeforeReads, Tool!Before, Tool!Root, Tool!Diagnose,
                Tool!AfterReads, Tool!Continue,
           Tool!ClockPasses, Tool!DeadlineFires, Tool!CallerAborts, Tool!StopAdmission,
           Tool!AbortActiveOperations, Tool!AwaitActiveOperations, Tool!signals
    <3>3. d = c
      BY <1>1, <3>1, <3>2 DEF Tool!End, Tool!After, Tool!Return, ToolInv, Tool!TypeOK
    <3>4. ~Tool!End(c)
      BY <1>1, <3>1 DEF Tool!End, Tool!Return, ToolInv, Tool!TypeOK
    <3> QED BY <3>2, <3>3, <3>4
  <2>2. Tool!Unchanged(c)
    BY <1>1, <2>1 DEF Tool!After, Tool!Answers, Tool!Return, ToolInv, Tool!TypeOK
  <2>3. tool_rec[c].epoch <= tool_rec[c].saw /\ tool_rec[c].saw <= tool_seen /\ tool_rec[c].epoch = tool_seen
    BY <1>1, <2>1, <2>2 DEF Tool!After, ToolInv, EpochOrder, HasStat, Tool!Unchanged
  <2>4. tool_rec[c].saw \in Nat /\ tool_seen \in Nat
    BY <1>1 DEF ToolInv, Tool!TypeOK, Tool!Record
  <2> QED BY <2>3, <2>4
<1>2. ToolInv /\ [Tool!Next]_(Tool!vars) => [Noticed]_(Tool!vars)
  BY <1>1
<1> QED BY <1>2, ToolInvariance, PTL DEF Tool!Spec, Tool!NoMutationMissed

\* No call is under way once the runtime is disposed: calls only start while
\* admission is open, and the cleanup waits for those that had started.
THEOREM DisposalQuiet == Tool!Spec => []Tool!NoCallAfterDispose
<1>1. Tool!Init => Tool!NoCallAfterDispose
  BY DEF Tool!Init, Tool!NoCallAfterDispose
<1>2. ASSUME Tool!TypeOK, Tool!NoCallAfterDispose, [Tool!Next]_(Tool!vars)
      PROVE  Tool!NoCallAfterDispose'
  <2>1. CASE UNCHANGED Tool!vars
    BY <1>2, <2>1 DEF Tool!vars, Tool!NoCallAfterDispose, Tool!Active
  <2>2. CASE UNCHANGED <<tool_pc, tool_cleanup>>
    BY <1>2, <2>2 DEF Tool!NoCallAfterDispose, Tool!Active
  <2>3. ASSUME NEW c \in ToolCalls, Tool!Execute(c)
        PROVE  Tool!NoCallAfterDispose'
    BY <2>3 DEF Tool!Execute, Tool!Admitted, Tool!NoCallAfterDispose
  <2>4. ASSUME NEW c \in ToolCalls, Tool!Active(c), UNCHANGED tool_cleanup,
               NEW s, tool_pc' = [tool_pc EXCEPT ![c] = s]
        PROVE  Tool!NoCallAfterDispose'
    BY <1>2, <2>4 DEF Tool!NoCallAfterDispose
  <2>5. ASSUME NEW c \in ToolCalls, Tool!Call(c)
        PROVE  Tool!NoCallAfterDispose'
    <3>1. Tool!Active(c) /\ UNCHANGED tool_cleanup
      BY <2>5 DEF Tool!Call, Tool!End, Tool!Workspace, Tool!Target, Tool!BeforeReads,
           Tool!Before, Tool!Root,
           Tool!Diagnose, Tool!AfterReads, Tool!After, Tool!Continue, Tool!Return, Tool!Active
    <3>2. PICK s \in Tool!Stages : tool_pc' = [tool_pc EXCEPT ![c] = s]
      BY <2>5 DEF Tool!Call, Tool!End, Tool!Workspace, Tool!Target, Tool!BeforeReads,
           Tool!Before, Tool!Root,
           Tool!Diagnose, Tool!AfterReads, Tool!After, Tool!Continue, Tool!Return, Tool!Stages
    <3> QED BY <2>4, <3>1, <3>2
  <2>6. CASE Tool!AwaitActiveOperations
    BY <2>6 DEF Tool!AwaitActiveOperations, Tool!NoCallAfterDispose, Tool!Active
  <2>7. CASE Tool!StopAdmission \/ Tool!AbortActiveOperations
    BY <2>7 DEF Tool!StopAdmission, Tool!AbortActiveOperations, Tool!NoCallAfterDispose
  <2>8. CASE \/ \E v \in ToolVersions : Tool!Write(v)
             \/ Tool!ObserveMutation
             \/ \E c \in ToolCalls : Tool!ClockPasses(c) \/ Tool!DeadlineFires(c) \/ Tool!CallerAborts(c)
    BY <2>2, <2>8 DEF Tool!Write, Tool!ObserveMutation, Tool!ClockPasses, Tool!DeadlineFires,
         Tool!CallerAborts
  <2> QED BY <1>2, <2>1, <2>3, <2>5, <2>6, <2>7, <2>8 DEF Tool!Next
<1> QED BY <1>1, <1>2, ToolTypes, PTL DEF Tool!Spec

\* A call that ends after an abort throws, and one past its deadline never
\* answers: every return looks at both signals, and at the clock.
THEOREM ResultsGated == Tool!Spec => Tool!GatedResult
<1> DEFINE Gated == \A c \in ToolCalls : tool_result'[c] # tool_result[c] =>
                       /\ c \in tool_aborted => tool_result'[c] = "throw"
                       /\ c \in tool_late => tool_result'[c] # "answer"
<1>1. ASSUME ToolInv, Tool!Next
      PROVE  Gated
  <2> SUFFICES ASSUME NEW c \in ToolCalls, tool_result'[c] # tool_result[c]
               PROVE  /\ c \in tool_aborted => tool_result'[c] = "throw"
                      /\ c \in tool_late => tool_result'[c] # "answer"
    OBVIOUS
  <2>1. PICK d \in ToolCalls, r \in {"throw", "answer"} : Tool!Return(d, r)
    <3>1. tool_result' # tool_result
      OBVIOUS
    <3>2. PICK d \in ToolCalls : Tool!End(d) \/ Tool!After(d)
      BY <1>1, <3>1 DEF Tool!Next, Tool!Call, Tool!Write, Tool!ObserveMutation, Tool!Execute,
           Tool!Workspace,
           Tool!Target, Tool!BeforeReads, Tool!Before, Tool!Root, Tool!Diagnose,
                Tool!AfterReads, Tool!Continue,
           Tool!ClockPasses, Tool!DeadlineFires, Tool!CallerAborts, Tool!StopAdmission,
           Tool!AbortActiveOperations, Tool!AwaitActiveOperations, Tool!signals
    <3> QED BY <3>2 DEF Tool!End, Tool!After
  <2>2. tool_result \in [ToolCalls -> {"none", "throw", "timeout", "answer"}]
    BY <1>1 DEF ToolInv, Tool!TypeOK
  <2>3. d = c
    BY <2>1, <2>2 DEF Tool!Return
  <2> QED BY <2>1, <2>2, <2>3 DEF Tool!Return, Tool!Stopped, Tool!TimedOut
<1>2. ToolInv /\ [Tool!Next]_(Tool!vars) => [Gated]_(Tool!vars)
  <2>1. CASE UNCHANGED Tool!vars
    BY <2>1
  <2> QED BY <1>1, <2>1
<1> QED BY <1>2, ToolInvariance, PTL DEF Tool!Spec, Tool!GatedResult

---------------------------------------------------------------------------
(* The rtk decoration and its references.                                  *)

OwnerInv ==
  /\ rtk_mounted \subseteq RtkMounts /\ rtk_gone \subseteq RtkMounts
  /\ rtk_shared \in {"grep", "silent", Rtk!NoOptions}
  /\ rtk_wrapped = (rtk_mounted # {})
  /\ rtk_refs = Rtk!Cardinality(rtk_mounted) /\ (rtk_shared = Rtk!NoOptions <=> rtk_mounted = {})

\* References never exceed the fibers that may hold one.
LEMMA RtkCounts == \A S : Rtk!Cardinality(S) = Cardinality(S)
BY DEF Rtk!Cardinality, Cardinality

LEMMA RefsBounded ==
  ASSUME FiniteMounts, NEW S \in SUBSET RtkMounts
  PROVE  /\ IsFiniteSet(S) /\ Rtk!Cardinality(S) \in Nat /\ Rtk!Cardinality(RtkMounts) \in Nat
         /\ Rtk!Cardinality(S) <= Rtk!Cardinality(RtkMounts)
         /\ Rtk!Cardinality(S) = 0 <=> S = {}
BY RtkCounts, FS_Subset, FS_CardinalityType, FS_EmptySet DEF FiniteMounts

LEMMA OwnerMount ==
  ASSUME FiniteMounts, OwnerInv, NEW m \in RtkMounts, Rtk!Mount(m)
  PROVE  OwnerInv'
<1>1. /\ m \notin rtk_mounted /\ rtk_mounted' = rtk_mounted \cup {m} /\ rtk_gone' = rtk_gone /\ rtk_refs' = rtk_refs + 1
      /\ Rtk!Decorate(m)
  BY DEF Rtk!Mount
<1>2. rtk_refs' = Rtk!Cardinality(rtk_mounted')
  <2>1. IsFiniteSet(rtk_mounted)
    BY RefsBounded DEF OwnerInv
  <2>. QED BY RtkCounts, <1>1, <2>1, FS_AddElement DEF OwnerInv
<1>3. rtk_shared' \in {"grep", "silent"} /\ rtk_wrapped' = TRUE
  BY <1>1 DEF Rtk!Decorate, OwnerInv, Rtk!NoOptions
<1>. QED BY <1>1, <1>2, <1>3 DEF OwnerInv, Rtk!NoOptions

LEMMA OwnerUnmount ==
  ASSUME FiniteMounts, OwnerInv, NEW m \in RtkMounts, Rtk!Unmount(m)
  PROVE  OwnerInv'
<1>1. /\ m \in rtk_mounted /\ rtk_mounted' = rtk_mounted \ {m} /\ rtk_gone' = rtk_gone \cup {m} /\ rtk_refs' = rtk_refs - 1
      /\ Rtk!Undecorate
  BY DEF Rtk!Unmount
<1>2. rtk_refs' = Rtk!Cardinality(rtk_mounted')
  <2>1. IsFiniteSet(rtk_mounted)
    BY RefsBounded DEF OwnerInv
  <2>. QED BY RtkCounts, <1>1, <2>1, FS_RemoveElement DEF OwnerInv
<1>3. /\ rtk_refs' > 0 <=> rtk_mounted' # {}
  <2>1. rtk_mounted' \in SUBSET RtkMounts
    BY <1>1 DEF OwnerInv
  <2>. QED BY <1>2, <2>1, RefsBounded
<1>4. CASE rtk_mounted' = {}
  BY <1>1, <1>2, <1>3, <1>4 DEF Rtk!Undecorate, OwnerInv, Rtk!NoOptions
<1>5. CASE rtk_mounted' # {}
  BY <1>1, <1>2, <1>3, <1>5 DEF Rtk!Undecorate, OwnerInv, Rtk!NoOptions
<1>. QED BY <1>4, <1>5

---------------------------------------------------------------------------
(* The commands.                                                           *)

CommandOf(c) ==
  /\ rtk_pc[c] = "idle" => rtk_asked[c] = 0
  /\ rtk_pc[c] # "delegated" => rtk_ran[c] = "nothing"
  /\ rtk_asked[c] \in 0..1

CommandInv ==
  /\ rtk_pc \in [RtkCommands -> {"idle", "oracle", "decided", "delegated", "denied", "thrown"}]
  /\ rtk_aborted \in [RtkCommands -> BOOLEAN] /\ rtk_asked \in [RtkCommands -> 0..2]
  /\ rtk_ran \in [RtkCommands -> {"nothing", "original", "rewritten"}]
  /\ rtk_decision \in [RtkCommands -> Rtk!Decisions]
  /\ \A c \in RtkCommands : CommandOf(c)

CommandSteps(c) == Rtk!Execute(c) \/ Rtk!Abort(c) \/ Rtk!OracleAnswers(c) \/ Rtk!OracleCancelled(c) \/ Rtk!Decide(c)

LEMMA CommandKeeps ==
  ASSUME CommandInv, NEW c \in RtkCommands, CommandSteps(c)
  PROVE  CommandInv'
<1>1. CASE Rtk!Execute(c)
  BY <1>1 DEF Rtk!Execute, Rtk!Delegate, Rtk!Go, CommandInv, CommandOf
<1>2. CASE Rtk!Abort(c)
  BY <1>2 DEF Rtk!Abort, CommandInv, CommandOf
<1>3. CASE Rtk!OracleAnswers(c)
  <2>1. \E d \in Rtk!Decisions : rtk_decision' = [rtk_decision EXCEPT ![c] = d]
    BY <1>3 DEF Rtk!OracleAnswers, Rtk!MapRtkExit, Rtk!Decisions
  <2>. QED BY <1>3, <2>1 DEF Rtk!OracleAnswers, Rtk!Go, CommandInv, CommandOf
<1>4. CASE Rtk!OracleCancelled(c)
  BY <1>4 DEF Rtk!OracleCancelled, Rtk!Go, CommandInv, CommandOf
<1>5. CASE Rtk!Decide(c)
  BY <1>5 DEF Rtk!Decide, Rtk!Delegate, Rtk!Go, CommandInv, CommandOf
<1>. QED BY <1>1, <1>2, <1>3, <1>4, <1>5 DEF CommandSteps

\* What a step of one command does to the runs of all.
Obeys(c) ==
  /\ rtk_asked[c] <= 1
  /\ rtk_pc[c] \in {"oracle", "decided"} /\ rtk_ran'[c] # rtk_ran[c] => ~rtk_aborted[c] /\ rtk_decision[c] # "deny"
  /\ rtk_ran[c] # "nothing" => rtk_ran'[c] = rtk_ran[c]

LEMMA CommandObeys ==
  ASSUME CommandInv, NEW c \in RtkCommands, CommandSteps(c), NEW d \in RtkCommands
  PROVE  Obeys(d)
<1>1. rtk_asked[d] <= 1
  BY DEF CommandInv, CommandOf
<1>2. CASE d # c
  <2>1. rtk_ran'[d] = rtk_ran[d]
    BY <1>2 DEF CommandInv, CommandSteps, Rtk!Execute, Rtk!Abort, Rtk!OracleAnswers, Rtk!OracleCancelled, Rtk!Decide, Rtk!Delegate
  <2>. QED BY <1>1, <2>1 DEF Obeys
<1>3. CASE d = c
  <2>1. CASE rtk_ran' = rtk_ran
    BY <1>1, <2>1 DEF Obeys
  <2>2. CASE rtk_ran' # rtk_ran
    <3>1. Rtk!Execute(c) \/ Rtk!Decide(c)
      BY <2>2 DEF CommandSteps, Rtk!Abort, Rtk!OracleAnswers, Rtk!OracleCancelled
    <3>2. rtk_ran[c] = "nothing"
      BY <3>1 DEF CommandInv, CommandOf, Rtk!Execute, Rtk!Decide
    <3>3. rtk_pc[c] = "idle" \/ (rtk_pc[c] = "decided" /\ ~rtk_aborted[c] /\ rtk_decision[c] # "deny")
      BY <2>2, <3>1 DEF Rtk!Execute, Rtk!Decide, Rtk!Cancelled
    <3>. QED BY <1>1, <1>3, <3>2, <3>3 DEF Obeys
  <2>. QED BY <2>1, <2>2
<1>. QED BY <1>2, <1>3

---------------------------------------------------------------------------
(* The grep results.                                                       *)

\* How deep a grep result is nested is where it is in its chain; it is attempted
\* by the innermost listener, and only there.
GrepOf(g) ==
  /\ Len(rtk_chain[g]) <= Rtk!Cardinality(RtkMounts) /\ rtk_at[g] \in 0..(Len(rtk_chain[g]) + 1)
  /\ ~rtk_unwinding[g] =>
       /\ rtk_depth[g] = IF rtk_at[g] = 0 THEN 0 ELSE rtk_at[g] - 1
       /\ rtk_at[g] = 0 => rtk_chain[g] = <<>>
       /\ ~rtk_attempted[g] /\ rtk_attempts[g] = 0
  /\ rtk_unwinding[g] =>
       /\ rtk_at[g] <= Len(rtk_chain[g]) /\ rtk_depth[g] = rtk_at[g]
       /\ rtk_attempts[g] = IF rtk_attempted[g] \/ (rtk_plain[g] /\ rtk_at[g] < Len(rtk_chain[g])) THEN 1 ELSE 0
       /\ rtk_attempted[g] => rtk_plain[g] /\ rtk_at[g] > 0
       /\ rtk_plain[g] /\ rtk_at[g] \in 1..(Len(rtk_chain[g]) - 1) => rtk_attempted[g]

GrepInv ==
  /\ rtk_chain \in [RtkGreps -> Seq(RtkMounts)] /\ rtk_at \in [RtkGreps -> Nat] /\ rtk_depth \in [RtkGreps -> Nat]
  /\ rtk_unwinding \in [RtkGreps -> BOOLEAN] /\ rtk_attempted \in [RtkGreps -> BOOLEAN]
  /\ rtk_attempts \in [RtkGreps -> 0..2] /\ rtk_plain \in [RtkGreps -> BOOLEAN]
  /\ \A g \in RtkGreps : GrepOf(g)

GrepSteps(g) == Rtk!Dispatch(g) \/ Rtk!Enter(g) \/ Rtk!Downstream(g) \/ Rtk!Compress(g) \/ Rtk!LeaveListener(g)

\* The chains of a set of mounts hold each of them once.
LEMMA Orders ==
  ASSUME FiniteMounts, NEW S \in SUBSET RtkMounts, NEW order \in Rtk!SetToSeqs(S)
  PROVE  order \in Seq(RtkMounts) /\ Len(order) <= Rtk!Cardinality(RtkMounts)
<1>1. Rtk!Cardinality(S) \in Nat /\ Rtk!Cardinality(S) <= Rtk!Cardinality(RtkMounts)
  BY RefsBounded
<1>2. order \in [1..Rtk!Cardinality(S) -> S]
  BY DEF Rtk!SetToSeqs
<1>3. order \in Seq(S) /\ Len(order) = Rtk!Cardinality(S)
  BY <1>1, <1>2
<1>. QED BY <1>1, <1>3

LEMMA DispatchKeeps ==
  ASSUME FiniteMounts, OwnerInv, GrepInv, NEW g \in RtkGreps, Rtk!Dispatch(g)
  PROVE  GrepInv'
<1>1. PICK order \in Rtk!SetToSeqs(IF rtk_shared = "grep" THEN rtk_mounted ELSE {}) :
        rtk_chain' = [rtk_chain EXCEPT ![g] = order]
  BY DEF Rtk!Dispatch
<1>2. order \in Seq(RtkMounts) /\ Len(order) \in Nat /\ Len(order) <= Rtk!Cardinality(RtkMounts)
  <2>1. (IF rtk_shared = "grep" THEN rtk_mounted ELSE {}) \in SUBSET RtkMounts
    BY DEF OwnerInv
  <2>. QED BY <2>1, Orders
<1>3. /\ rtk_at[g] = 0 /\ ~rtk_unwinding[g] /\ rtk_at' = [rtk_at EXCEPT ![g] = 1]
      /\ UNCHANGED <<rtk_unwinding, rtk_depth, rtk_attempted, rtk_attempts, rtk_plain>>
  BY DEF Rtk!Dispatch
<1>4. ASSUME NEW h \in RtkGreps PROVE GrepOf(h)'
  <2>1. CASE h = g
    <3>1. /\ rtk_chain'[h] = order /\ rtk_at'[h] = 1 /\ rtk_depth[h] = 0 /\ ~rtk_attempted[h] /\ rtk_attempts[h] = 0
          /\ ~rtk_unwinding[h]
      BY <1>1, <1>3, <2>1 DEF GrepInv, GrepOf
    <3>. QED BY <1>2, <1>3, <3>1 DEF GrepOf
  <2>2. CASE h # g
    <3>1. rtk_chain'[h] = rtk_chain[h] /\ rtk_at'[h] = rtk_at[h] /\ GrepOf(h)
      BY <1>1, <1>3, <2>2 DEF GrepInv
    <3>. QED BY <1>3, <3>1 DEF GrepOf
  <2>. QED BY <2>1, <2>2
<1>5. rtk_chain' \in [RtkGreps -> Seq(RtkMounts)] /\ rtk_at' \in [RtkGreps -> Nat]
  BY <1>1, <1>2, <1>3 DEF GrepInv
<1>. QED BY <1>3, <1>4, <1>5 DEF GrepInv

LEMMA GrepKeeps ==
  ASSUME FiniteMounts, OwnerInv, GrepInv, NEW g \in RtkGreps, GrepSteps(g)
  PROVE  GrepInv'
<1>1. /\ rtk_chain[g] \in Seq(RtkMounts) /\ Len(rtk_chain[g]) \in Nat /\ rtk_at[g] \in Nat /\ rtk_depth[g] \in Nat
      /\ rtk_attempts[g] \in 0..2 /\ rtk_unwinding[g] \in BOOLEAN /\ rtk_attempted[g] \in BOOLEAN
      /\ rtk_plain[g] \in BOOLEAN /\ GrepOf(g)
  BY DEF GrepInv
<1>2. ASSUME UNCHANGED <<rtk_chain, rtk_plain>>,
             \A h \in RtkGreps \ {g} :
               /\ rtk_at'[h] = rtk_at[h] /\ rtk_depth'[h] = rtk_depth[h] /\ rtk_unwinding'[h] = rtk_unwinding[h]
               /\ rtk_attempted'[h] = rtk_attempted[h] /\ rtk_attempts'[h] = rtk_attempts[h],
             GrepOf(g)'
      PROVE  \A h \in RtkGreps : GrepOf(h)'
  <2>. TAKE h \in RtkGreps
  <2>1. CASE h = g
    BY <1>2, <2>1
  <2>2. CASE h # g
    <3>1. /\ rtk_at'[h] = rtk_at[h] /\ rtk_depth'[h] = rtk_depth[h] /\ rtk_unwinding'[h] = rtk_unwinding[h]
          /\ rtk_attempted'[h] = rtk_attempted[h] /\ rtk_attempts'[h] = rtk_attempts[h]
      BY <1>2, <2>2
    <3>2. GrepOf(h)
      BY DEF GrepInv
    <3>. QED BY <1>2, <3>1, <3>2 DEF GrepOf
  <2>. QED BY <2>1, <2>2
<1>3. CASE Rtk!Enter(g)
  <2>1. GrepOf(g)'
    BY <1>1, <1>3 DEF Rtk!Enter, Rtk!Inside, GrepInv, GrepOf
  <2>. QED BY <1>2, <1>3, <2>1 DEF Rtk!Enter, GrepInv
<1>4. CASE Rtk!Downstream(g)
  <2>1. GrepOf(g)' /\ rtk_at' \in [RtkGreps -> Nat]
    BY <1>1, <1>4 DEF Rtk!Downstream, GrepInv, GrepOf
  <2>. QED BY <1>2, <1>4, <2>1 DEF Rtk!Downstream, GrepInv
<1>5. CASE Rtk!Compress(g)
  <2>1. GrepOf(g)' /\ rtk_attempts' \in [RtkGreps -> 0..2]
    BY <1>1, <1>5 DEF Rtk!Compress, Rtk!Inside, GrepInv, GrepOf
  <2>. QED BY <1>2, <1>5, <2>1 DEF Rtk!Compress, GrepInv
<1>6. CASE Rtk!LeaveListener(g)
  <2>1. /\ rtk_depth' = [rtk_depth EXCEPT ![g] = rtk_depth[g] - 1] /\ rtk_at' = [rtk_at EXCEPT ![g] = rtk_at[g] - 1]
        /\ rtk_attempted' = [rtk_attempted EXCEPT ![g] = rtk_attempted[g] /\ rtk_depth[g] - 1 > 0]
    BY <1>6 DEF Rtk!LeaveListener, GrepInv
  <2>2. /\ rtk_at[g] \in 1..Len(rtk_chain[g]) /\ rtk_depth[g] = rtk_at[g] /\ rtk_unwinding[g]
        /\ rtk_attempted[g] = rtk_plain[g] /\ rtk_attempts[g] = IF rtk_plain[g] THEN 1 ELSE 0
    BY <1>1, <1>6 DEF Rtk!LeaveListener, Rtk!Inside, GrepOf
  <2>3. /\ rtk_at'[g] = rtk_at[g] - 1 /\ rtk_depth'[g] = rtk_at[g] - 1
        /\ rtk_attempted'[g] = (rtk_plain[g] /\ rtk_at[g] - 1 > 0)
        /\ UNCHANGED <<rtk_chain, rtk_unwinding, rtk_attempts, rtk_plain>>
    BY <1>6, <2>1, <2>2 DEF Rtk!LeaveListener, GrepInv
  <2>4. GrepOf(g)'
    <3>1. CASE rtk_plain[g]
      <4>1. rtk_attempts'[g] = 1 /\ rtk_plain'[g] /\ rtk_unwinding'[g] /\ (rtk_attempted'[g] <=> rtk_at[g] - 1 > 0)
        BY <1>1, <2>2, <2>3, <3>1
      <4>2. rtk_at'[g] = rtk_at[g] - 1 /\ rtk_depth'[g] = rtk_at'[g] /\ rtk_chain'[g] = rtk_chain[g]
        BY <2>3
      <4>3. rtk_at'[g] \in 0..(Len(rtk_chain[g]) - 1) /\ (rtk_attempted'[g] <=> rtk_at'[g] > 0)
        BY <1>1, <2>2, <4>1, <4>2
      <4>4. Len(rtk_chain[g]) <= Rtk!Cardinality(RtkMounts)
        BY <1>1 DEF GrepOf
      <4>. QED BY <1>1, <4>1, <4>2, <4>3, <4>4 DEF GrepOf
    <3>2. CASE ~rtk_plain[g]
      BY <1>1, <2>2, <2>3, <3>2 DEF GrepOf
    <3>. QED BY <1>1, <3>1, <3>2
  <2>5. rtk_at' \in [RtkGreps -> Nat] /\ rtk_depth' \in [RtkGreps -> Nat]
    BY <2>1, <2>2 DEF GrepInv
  <2>6. rtk_attempted' \in [RtkGreps -> BOOLEAN]
    BY <2>1 DEF GrepInv
  <2>. QED BY <1>2, <1>6, <2>1, <2>3, <2>4, <2>5, <2>6 DEF Rtk!LeaveListener, GrepInv
<1>. QED BY <1>3, <1>4, <1>5, <1>6, DispatchKeeps DEF GrepSteps

---------------------------------------------------------------------------
(* The theorems.                                                           *)

RtkInv == OwnerInv /\ CommandInv /\ GrepInv

LEMMA RtkInit == ASSUME FiniteMounts, Rtk!Init PROVE RtkInv
<1>1. OwnerInv
  BY RtkCounts, FS_EmptySet DEF Rtk!Init, OwnerInv
<1>2. CommandInv
  BY DEF Rtk!Init, CommandInv, CommandOf, Rtk!Decisions
<1>3. GrepInv
  <2>1. Rtk!Cardinality(RtkMounts) \in Nat
    BY RtkCounts, FS_CardinalityType DEF FiniteMounts
  <2>. QED BY <2>1 DEF Rtk!Init, GrepInv, GrepOf
<1>. QED BY <1>1, <1>2, <1>3 DEF RtkInv

LEMMA RtkNext == ASSUME FiniteMounts, RtkInv, [Rtk!Next]_(Rtk!vars) PROVE RtkInv'
<1>1. ASSUME NEW m \in RtkMounts, Rtk!Mount(m) \/ Rtk!Unmount(m) PROVE RtkInv'
  <2>1. UNCHANGED <<Rtk!commands, Rtk!greps>>
    BY <1>1 DEF Rtk!Mount, Rtk!Unmount
  <2>2. CommandInv' /\ GrepInv'
    BY <2>1 DEF Rtk!commands, Rtk!greps, RtkInv, CommandInv, CommandOf, GrepInv, GrepOf
  <2>. QED BY <1>1, <2>2, OwnerMount, OwnerUnmount DEF RtkInv
<1>2. ASSUME NEW c \in RtkCommands, CommandSteps(c) PROVE RtkInv'
  <2>1. UNCHANGED <<Rtk!owners, Rtk!greps>>
    BY <1>2 DEF CommandSteps, Rtk!Execute, Rtk!Abort, Rtk!OracleAnswers, Rtk!OracleCancelled, Rtk!Decide
  <2>2. OwnerInv' /\ GrepInv'
    BY <2>1 DEF Rtk!owners, Rtk!greps, RtkInv, OwnerInv, GrepInv, GrepOf
  <2>. QED BY <1>2, <2>2, CommandKeeps DEF RtkInv
<1>3. ASSUME NEW g \in RtkGreps, GrepSteps(g) PROVE RtkInv'
  <2>1. UNCHANGED <<Rtk!owners, Rtk!commands>>
    BY <1>3 DEF GrepSteps, Rtk!Dispatch, Rtk!Enter, Rtk!Downstream, Rtk!Compress, Rtk!LeaveListener
  <2>2. OwnerInv' /\ CommandInv'
    BY <2>1 DEF Rtk!owners, Rtk!commands, RtkInv, OwnerInv, CommandInv, CommandOf
  <2>. QED BY <1>3, <2>2, GrepKeeps DEF RtkInv
<1>4. CASE UNCHANGED Rtk!vars
  BY <1>4 DEF Rtk!vars, RtkInv, OwnerInv, CommandInv, CommandOf, GrepInv, GrepOf
<1>. QED BY <1>1, <1>2, <1>3, <1>4 DEF Rtk!Next, Rtk!Idle, CommandSteps, GrepSteps

LEMMA RtkHolds == FiniteMounts => (Rtk!Spec => []RtkInv)
<1>. SUFFICES ASSUME FiniteMounts PROVE Rtk!Spec => []RtkInv
  OBVIOUS
<1>1. Rtk!Init => RtkInv
  BY RtkInit
<1>2. RtkInv /\ [Rtk!Next]_(Rtk!vars) => RtkInv'
  BY RtkNext
<1>. QED BY <1>1, <1>2, PTL DEF Rtk!Spec

\* The shell is decorated while a fiber owns the plugin and given back with the
\* last one, in whatever order they go (apply).
THEOREM ShellDecorated == FiniteMounts => (Rtk!Spec => [](Rtk!TypeOK /\ Rtk!DecoratedWhileOwned))
<1>. SUFFICES ASSUME FiniteMounts PROVE Rtk!Spec => [](Rtk!TypeOK /\ Rtk!DecoratedWhileOwned)
  OBVIOUS
<1>1. RtkInv => Rtk!TypeOK /\ Rtk!DecoratedWhileOwned
  <2>. SUFFICES ASSUME RtkInv PROVE Rtk!TypeOK /\ Rtk!DecoratedWhileOwned
    OBVIOUS
  <2>1. rtk_refs \in 0..Rtk!Cardinality(RtkMounts)
    BY RefsBounded DEF RtkInv, OwnerInv
  <2>2. \A g \in RtkGreps :
          /\ Rtk!ToSet(rtk_chain[g]) \subseteq RtkMounts
          /\ rtk_at[g] \in 0..(Len(rtk_chain[g]) + 1) /\ rtk_depth[g] \in 0..Rtk!Cardinality(RtkMounts)
    <3>. TAKE g \in RtkGreps
    <3>1. rtk_chain[g] \in Seq(RtkMounts) /\ Len(rtk_chain[g]) \in Nat /\ GrepOf(g) /\ Rtk!Cardinality(RtkMounts) \in Nat
      BY RtkCounts, FS_CardinalityType DEF RtkInv, GrepInv, FiniteMounts
    <3>2. Rtk!ToSet(rtk_chain[g]) \subseteq RtkMounts
      BY <3>1 DEF Rtk!ToSet
    <3>. QED BY <3>1, <3>2 DEF RtkInv, GrepInv, GrepOf
  <2>3. rtk_depth \in [RtkGreps -> 0..Rtk!Cardinality(RtkMounts)]
    BY <2>2 DEF RtkInv, GrepInv
  <2>. QED BY <2>1, <2>2, <2>3 DEF RtkInv, OwnerInv, CommandInv, GrepInv, Rtk!TypeOK, Rtk!DecoratedWhileOwned
<1>. QED BY <1>1, RtkHolds, PTL

\* A grep result is compressed once if it can be and somebody listens, however
\* many mounts are nested (mountGrepCompress).
THEOREM GrepsOnce == FiniteMounts => (Rtk!Spec => []Rtk!CompressedOnce)
<1>. SUFFICES ASSUME FiniteMounts PROVE Rtk!Spec => []Rtk!CompressedOnce
  OBVIOUS
<1>1. RtkInv => Rtk!CompressedOnce
  BY DEF RtkInv, GrepInv, GrepOf, Rtk!CompressedOnce
<1>. QED BY <1>1, RtkHolds, PTL

\* A command asks once, and what was denied or cancelled does not run (execute of
\* the wrapper, rtkRewriteDecision).
THEOREM CommandsObey == FiniteMounts => (Rtk!Spec => Rtk!RunsOnce)
<1>. SUFFICES ASSUME FiniteMounts PROVE Rtk!Spec => Rtk!RunsOnce
  OBVIOUS
<1>1. RtkInv /\ [Rtk!Next]_(Rtk!vars) => [\A c \in RtkCommands : Obeys(c)]_(Rtk!vars)
  <2>. SUFFICES ASSUME RtkInv, Rtk!Next, NEW d \in RtkCommands PROVE Obeys(d)
    OBVIOUS
  <2>1. CASE \E c \in RtkCommands : CommandSteps(c)
    BY <2>1, CommandObeys DEF RtkInv
  <2>2. CASE ~ \E c \in RtkCommands : CommandSteps(c)
    <3>1. rtk_ran' = rtk_ran
      BY <2>2 DEF Rtk!Next, Rtk!Idle, Rtk!vars, CommandSteps, Rtk!Mount, Rtk!Unmount, Rtk!Dispatch, Rtk!Enter, Rtk!Downstream,
                  Rtk!Compress, Rtk!LeaveListener, Rtk!commands
    <3>. QED BY <3>1 DEF Obeys, RtkInv, CommandInv, CommandOf
  <2>. QED BY <2>1, <2>2
<1>2. [\A c \in RtkCommands : Obeys(c)]_(Rtk!vars) =>
        [\A c \in RtkCommands :
           /\ rtk_asked[c] <= 1
           /\ rtk_pc[c] \in {"oracle", "decided"} /\ rtk_ran'[c] # rtk_ran[c]
                => ~rtk_aborted[c] /\ rtk_decision[c] # "deny"
           /\ rtk_ran[c] # "nothing" => rtk_ran'[c] = rtk_ran[c]]_(Rtk!vars)
  BY DEF Obeys
<1>. QED BY <1>1, <1>2, RtkHolds, PTL DEF Rtk!Spec, Rtk!RunsOnce

-----------------------------------------------------------------------------
(* The composite.                                                          *)

PiP == INSTANCE PiAiProofs WITH
  Calls <- {"c1"}, Sources <- SourceNames, Routes <- SourceNames,
  Profiles <- ProfileNames, Advert <- Adverts, MaxWrites <- 2,
  doc <- pi_doc, told <- pi_told, writes <- pi_writes, held <- pi_held,
  facts <- pi_facts, registry <- pi_registry, pc <- pi_pc, route <- pi_route,
  snap <- pi_snap, used <- pi_used, stage <- pi_stage, pending <- pi_pending,
  aborted <- pi_aborted, fired <- pi_fired, open <- pi_open,
  outcome <- pi_outcome

(* A behaviour of the composite is one of the coordinator, one of the     *)
(* tool, one of the adapter and one of the rtk decoration.                 *)

LEMMA AugmentBehaves == AllSpec => Spec
<1>1. AllInit => Init
  BY DEF AllInit
<1>2. [AllNext]_all => [Next]_vars
  BY DEF AllNext, all
<1> QED BY <1>1, <1>2, PTL DEF AllSpec, Spec

LEMMA ToolBehaves == AllSpec => Tool!Spec
<1>1. AllInit => Tool!Init
  BY DEF AllInit
<1>2. [AllNext]_all => [Tool!Next]_(Tool!vars)
  BY DEF AllNext, all, tool_vars, Tool!vars
<1> QED BY <1>1, <1>2, PTL DEF AllSpec, Tool!Spec

LEMMA PiBehaves == AllSpec => PiP!Spec
<1>1. AllInit => PiP!Init
  BY DEF AllInit, PiAi!Init, PiP!Init, PiAi!Tables, PiP!Tables, PiAi!None, PiP!None,
       PiAi!Empty, PiP!Empty
<1>2. PiAi!Next => PiP!Next
  BY DEF PiAi!Next, PiP!Next,
       PiAi!None, PiP!None, PiAi!Tables, PiP!Tables, PiAi!routing, PiP!routing, PiAi!flow,
       PiP!flow, PiAi!Empty, PiP!Empty, PiAi!FactsOf, PiP!FactsOf, PiAi!AllFacts,
       PiP!AllFacts, PiAi!Outcomes, PiP!Outcomes, PiAi!Serviceable, PiP!Serviceable,
       PiAi!Keep, PiP!Keep, PiAi!Dormant, PiP!Dormant, PiAi!Register, PiP!Register,
       PiAi!Refused, PiP!Refused, PiAi!EnsureRegistration, PiP!EnsureRegistration,
       PiAi!DocumentUpdated, PiP!DocumentUpdated, PiAi!WriteSettings, PiP!WriteSettings,
       PiAi!Reads, PiP!Reads, PiAi!End, PiP!End, PiAi!PrepareCall, PiP!PrepareCall,
       PiAi!Pinned, PiP!Pinned, PiAi!Stream, PiP!Stream, PiAi!KeyResolved, PiP!KeyResolved,
       PiAi!ContextFails, PiP!ContextFails, PiAi!ContextReady, PiP!ContextReady,
       PiAi!Verdict, PiP!Verdict, PiAi!Leave, PiP!Leave, PiAi!Chunk, PiP!Chunk, PiAi!Delta,
       PiP!Delta, PiAi!Terminal, PiP!Terminal, PiAi!Finish, PiP!Finish, PiAi!Exhausted,
       PiP!Exhausted, PiAi!SdkFails, PiP!SdkFails, PiAi!GivenUp, PiP!GivenUp,
       PiAi!ReadAbandoned, PiP!ReadAbandoned, PiAi!IdleFires, PiP!IdleFires,
       PiAi!CallerAborts, PiP!CallerAborts, PiAi!Pull, PiP!Pull, PiAi!Stop, PiP!Stop,
       PiAi!SdkSettles, PiP!SdkSettles, PiAi!Step, PiP!Step, PiAi!Provider, PiP!Provider,
       PiAi!Microtasks, PiP!Microtasks, PiAi!Done, PiP!Done, PiAi!vars, PiP!vars
<1>3. [AllNext]_all => [PiP!Next]_(PiP!vars)
  BY <1>2 DEF AllNext, all, pi_vars, PiP!vars, PiP!routing
<1> QED BY <1>1, <1>3, PTL DEF AllSpec, PiP!Spec

LEMMA RtkBehaves == AllSpec => Rtk!Spec
<1>1. AllInit => Rtk!Init
  BY DEF AllInit
<1>2. [AllNext]_all => [Rtk!Next]_(Rtk!vars)
  BY DEF AllNext, all, rtk_vars, Rtk!vars
<1> QED BY <1>1, <1>2, PTL DEF AllSpec, Rtk!Spec

-----------------------------------------------------------------------------
\* The cleanup of automatic diagnostics leaves no marker, no operation and no
\* file system call behind.
THEOREM CleanupCompletes == AllSpec => []CleanupComplete
<1>1. AllRetired /\ QuietAfterDispose => CleanupComplete
  BY DEF CleanupComplete
<1> QED BY <1>1, AugmentBehaves, CleanupLeavesNothing, PTL

\* No mutation is lost in silence.
THEOREM ResultsStay == AllSpec => ResultsKept
<1>1. NewestKept => (which = "aug" => NewestKept)
  OBVIOUS
<1> QED BY <1>1, AugmentBehaves, NoneLost, PTL DEF ResultsKept

\* The tool's answers miss no mutation, its results say how the call ended,
\* and no call is under way in a disposed runtime.
THEOREM ToolKeeps == AllSpec => ToolSound
<1>1. Tool!TypeOK /\ Tool!NoCallAfterDispose =>
        (which = "tool" => Tool!TypeOK /\ Tool!NoCallAfterDispose)
  OBVIOUS
<1> QED BY <1>1, ToolBehaves, ToolTypes, DisposalQuiet, MutationsNoticed, ResultsGated, PTL
         DEF ToolSound

\* Requests are served from what was captured, read one generation of their
\* provider and end as what ended them says.
THEOREM RequestsServed == AllSpec => []RequestsSound
<1>1. PiP!Configured
  BY DEF PiP!Configured, SourceNames, ProfileNames, Adverts, PiP!None
<1>0. \A S : PiP!Cardinality(S) = PiAi!Cardinality(S)
  BY DEF PiP!Cardinality, PiAi!Cardinality
<1>2. PiP!TypeOK /\ PiP!RoutesFollow /\ PiP!OneGeneration /\ PiP!EndsTruly => RequestsSound
  BY <1>0 DEF RequestsSound, PiP!TypeOK, PiAi!TypeOK, PiP!RoutesFollow, PiAi!RoutesFollow,
       PiP!OneGeneration, PiAi!OneGeneration, PiP!EndsTruly, PiAi!EndsTruly,
       PiP!Tables, PiAi!Tables, PiP!None, PiAi!None, PiP!AllFacts, PiAi!AllFacts,
       PiP!Outcomes, PiAi!Outcomes, PiP!FactsOf, PiAi!FactsOf,
       PiP!Serviceable, PiAi!Serviceable
<1> QED BY <1>1, <1>2, PiBehaves, PiP!RoutesServed, PiP!ProviderPinned, PiP!EndingsTrue, PTL

\* The shell is decorated while the plugin is owned, commands obey the oracle and
\* a grep result is compressed once.
THEOREM RtkKeeps == AllSpec => RtkSound
<1>1. Rtk!TypeOK /\ Rtk!DecoratedWhileOwned /\ Rtk!CompressedOnce =>
        (which = "rtk" => Rtk!TypeOK /\ Rtk!DecoratedWhileOwned /\ Rtk!CompressedOnce)
  OBVIOUS
<1> QED BY <1>1, RtkAssumption, RtkBehaves, ShellDecorated, GrepsOnce, CommandsObey, PTL DEF RtkSound
=============================================================================
