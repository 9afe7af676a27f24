-------------------------- MODULE DelegationProofs --------------------------
(***************************************************************************)
(* Delegations, for any calls, children, modes and limit: who owns a child *)
(* that lives, and what becomes of its slot, its identity and its holder.  *)
(***************************************************************************)
EXTENDS Delegation, FiniteSetTheorems, TLAPS

---------------------------------------------------------------------------
(* The inductive invariant.                                                *)

Held(S) == {h \in S : lease[CallOf[h]] = "held"}

DelTypes ==
  /\ lease \in [Calls -> {"none", "held", "released"}]
  /\ pc \in [Children -> Stages] /\ final \in [Children -> Statuses]
  /\ holder \in [Children -> Holders]
  /\ child \in [Children -> {"none", "live", "gone"}]
  /\ parked \subseteq Children /\ identity \subseteq Children
  /\ terminal \subseteq Children /\ closed \subseteq Children /\ kept \subseteq Children
  /\ boundary \in [Calls -> {"none", "open", "grace", "returned"}]
  /\ drain \in [state : {"none", "waiting", "done"}, owned : SUBSET Children,
                unresolved : SUBSET Children]

Counted == running = Cardinality(Held(Children)) /\ running <= Limit

\* The holder of a child agrees with its activation.
Owned(h) ==
  /\ ~OneShot(h) => holder[h] = NoHolder
  /\ pc[h] = "starting" /\ OneShot(h) =>
       holder[h].reg /\ holder[h].pend /\ ~holder[h].run /\ holder[h].disp = "none"
  /\ holder[h].run =>
       /\ OneShot(h) /\ ~holder[h].pend /\ child[h] # "none" /\ h \notin Scoped
       /\ pc[h] \in {"running", "settling", "grace", "done"}
  /\ ~holder[h].asked => holder[h].disp = "none"
  /\ holder[h].run /\ holder[h].asked => holder[h].disp # "none"
  /\ holder[h].disp \in {"running", "failed"} => holder[h].run
  /\ holder[h].run /\ child[h] = "live" => holder[h].reg /\ holder[h].disp # "done"
  /\ holder[h].run /\ child[h] = "gone" => holder[h].disp = "done"

\* Where the code that drives a child is, and what is filed under its id.
Placed(h) ==
  /\ pc[h] = "idle" <=> lease[CallOf[h]] = "none"
  /\ pc[h] = "idle" => child[h] = "none" /\ final[h] = "none"
  /\ pc[h] \in {"running", "settling", "grace"} => OneShot(h) /\ holder[h].run
  /\ pc[h] = "grace" => Single(CallOf[h]) /\ holder[h].asked
  /\ pc[h] = "kept" => ~OneShot(h)
  /\ pc[h] = "refused" => OneShot(h) /\ h \in Scoped
  /\ child[h] = "live" /\ OneShot(h) /\ h \notin Scoped => pc[h] = "starting" \/ holder[h].run
  /\ h \in parked => pc[h] = "starting" /\ child[h] = "none"
  /\ h \in kept => pc[h] = "kept"
  /\ h \in identity => holder[h].run
  /\ h \in closed => InBatch(h)

\* What was told, released and forgotten.
Told(h) ==
  /\ final[h] = "cancel_requested" => holder[h].disp = "done"
  /\ ~InBatch(h) /\ lease[CallOf[h]] = "released" => pc[h] = "done"
  /\ Single(CallOf[h]) /\ lease[CallOf[h]] = "released" /\ Lives(h) /\ h \notin Scoped =>
       final[h] = "cleanup_deferred" \/ holder[h].disp = "failed"
  /\ ~InBatch(h) /\ lease[CallOf[h]] = "held" /\ pc[h] = "done" => holder[h].disp = "running"
  /\ holder[h].run /\ child[h] = "live" => h \in identity
  /\ child[h] # "live" /\ pc[h] = "done" => h \notin identity

Fine(h) == Owned(h) /\ Placed(h) /\ Told(h)

CallFine(c) ==
  /\ boundary[c] # "none" => Mode[c] = "batch" /\ lease[c] # "none"
  /\ Mode[c] = "batch" /\ lease[c] = "held" => boundary[c] \in {"open", "grace"}

DelInv ==
  /\ DelTypes /\ Counted
  /\ \A h \in Children : Fine(h)
  /\ \A c \in Calls : CallFine(c)
---------------------------------------------------------------------------
(* Holders.                                                                *)

LEMMA HolderFields ==
  ASSUME NEW x \in Holders
  PROVE  /\ x.reg \in BOOLEAN /\ x.pend \in BOOLEAN /\ x.run \in BOOLEAN /\ x.asked \in BOOLEAN
         /\ x.disp \in {"none", "running", "done", "failed"}
BY DEF Holders

LEMMA NewHolders ==
  /\ Reserved \in Holders /\ NoHolder \in Holders
  /\ Reserved.reg /\ Reserved.pend /\ ~Reserved.run /\ ~Reserved.asked /\ Reserved.disp = "none"
  /\ ~NoHolder.reg /\ ~NoHolder.pend /\ ~NoHolder.run /\ ~NoHolder.asked
  /\ NoHolder.disp = "none"
BY DEF Reserved, NoHolder, Holders

LEMMA AttachFields ==
  ASSUME NEW x \in Holders
  PROVE  /\ Attach(x) \in Holders
         /\ Attach(x).reg = x.reg /\ ~Attach(x).pend /\ Attach(x).run
         /\ Attach(x).asked = x.asked
         /\ Attach(x).disp = IF x.asked THEN "running" ELSE "none"
BY DEF Attach, Holders

LEMMA FailStartFields ==
  ASSUME NEW x \in Holders
  PROVE  /\ FailStart(x) \in Holders
         /\ FailStart(x).reg = (x.reg /\ ~x.asked) /\ ~FailStart(x).pend
         /\ FailStart(x).run = x.run /\ FailStart(x).asked = x.asked
         /\ FailStart(x).disp = IF x.asked THEN "done" ELSE "none"
BY DEF FailStart, Holders

LEMMA SettleFields ==
  ASSUME NEW x \in Holders
  PROVE  /\ Settle(x) \in Holders /\ Settle(x).asked
         /\ Settle(x).pend = x.pend /\ Settle(x).run = x.run
         /\ x.asked => Settle(x) = x
         /\ ~x.asked => /\ Settle(x).reg = (x.reg /\ (x.pend \/ x.run))
                        /\ Settle(x).disp =
                             IF x.pend THEN "none" ELSE IF x.run THEN "running" ELSE "done"
<1>1. CASE x.asked
  BY <1>1 DEF Settle
<1>2. CASE ~x.asked
  <2> DEFINE d == IF x.pend THEN "none" ELSE IF x.run THEN "running" ELSE "done"
             r == x.reg /\ (x.pend \/ x.run)
  <2>1. d \in {"none", "running", "done", "failed"} /\ r \in BOOLEAN
    OBVIOUS
  <2>2. Settle(x) = [x EXCEPT !.asked = TRUE, !.disp = d, !.reg = r]
    BY <1>2 DEF Settle
  <2>3. /\ Settle(x) \in Holders /\ Settle(x).asked
        /\ Settle(x).pend = x.pend /\ Settle(x).run = x.run
        /\ Settle(x).reg = r /\ Settle(x).disp = d
    <3> HIDE DEF d, r
    <3> QED BY <2>1, <2>2 DEF Holders
  <2> QED BY <1>2, <2>3
<1> QED BY <1>1, <1>2, HolderFields

---------------------------------------------------------------------------
(* Slots.                                                                  *)

\* Slots given back are those of the leases that are open.
LEMMA Releasing ==
  ASSUME Delegates, DelTypes, Counted, NEW C, Release(C)
  PROVE  /\ lease' \in [Calls -> {"none", "held", "released"}]
         /\ Counted'
<1>1. lease' \in [Calls -> {"none", "held", "released"}]
  BY DEF Release, DelTypes
<1> DEFINE H == Held(Children)
           G == {h \in Children : CallOf[h] \in C /\ Open(CallOf[h])}
<1>2. IsFiniteSet(H) /\ IsFiniteSet(G) /\ G \subseteq H
  <2>1. H \subseteq Children /\ G \subseteq Children /\ G \subseteq H
    BY DEF Held, Open
  <2> QED BY <2>1, FS_Subset DEF Delegates
<1>3. Held(Children)' = H \ G
  BY DEF Held, Open, Release, Delegates
<1>4. Cardinality(H) \in Nat /\ Cardinality(G) \in Nat /\ Cardinality(G) <= Cardinality(H)
  BY <1>2, FS_CardinalityType, FS_Subset
<1>5. Cardinality(H \ G) = Cardinality(H) - Cardinality(G)
  <2>1. H \cap G = G
    BY <1>2
  <2> QED BY SMTT(20), <1>2, <2>1, FS_Difference
<1>6. running' = running - Cardinality(G)
  BY <1>4 DEF Release, Back, Counted
<1> HIDE DEF H, G
<1>7. running = Cardinality(H) /\ running <= Limit
  BY DEF Counted, H
<1>8. Counted'
  BY <1>3, <1>4, <1>5, <1>6, <1>7 DEF Counted, Delegates
<1> QED BY <1>1, <1>8

LEMMA Acquiring ==
  ASSUME Delegates, DelTypes, Counted, NEW c \in Calls, Acquire(c)
  PROVE  /\ lease' \in [Calls -> {"none", "held", "released"}]
         /\ Counted'
<1>1. lease' = [lease EXCEPT ![c] = "held"] /\ lease[c] = "none"
  BY DEF Acquire
<1>2. lease' \in [Calls -> {"none", "held", "released"}]
  BY <1>1 DEF DelTypes
<1> DEFINE H == Held(Children)
           I == Items(c)
<1>3. IsFiniteSet(H) /\ IsFiniteSet(I)
  <2>1. H \subseteq Children /\ I \subseteq Children
    BY DEF Held, Items
  <2> QED BY <2>1, FS_Subset DEF Delegates
<1>4. Held(Children)' = H \cup I /\ H \cap I = {}
  BY <1>1 DEF Held, Items, DelTypes, Delegates
<1>5. Cardinality(H \cup I) = Cardinality(H) + Cardinality(I)
  <2>1. Cardinality(H \cap I) = 0
    BY <1>4, FS_EmptySet
  <2>2. Cardinality(H) \in Nat /\ Cardinality(I) \in Nat
    BY <1>3, FS_CardinalityType
  <2> HIDE DEF H, I
  <2>3. Cardinality(H \cup I) = Cardinality(H) + Cardinality(I) - Cardinality(H \cap I)
    BY <1>3, FS_Union
  <2> QED BY <2>1, <2>2, <2>3
<1>6. running' = running + Cardinality(I) /\ running + Cardinality(I) <= Limit
  BY DEF Acquire
<1> HIDE DEF H, I
<1>7. running = Cardinality(H)
  BY DEF Counted, H
<1>8. Counted'
  BY <1>4, <1>5, <1>6, <1>7 DEF Counted
<1> QED BY <1>2, <1>8

\* No slot moves when no lease is opened or closed.
LEMMA Counting ==
  ASSUME Counted, UNCHANGED budget
  PROVE  Counted'
BY DEF Counted, Held, budget

\* A call that is no batch has one child.
LEMMA OnlyChild ==
  ASSUME Delegates, NEW h \in Children, NEW k \in Children,
         CallOf[k] = CallOf[h], ~InBatch(h)
  PROVE  k = h
<1>1. CallOf[h] \in Calls /\ Mode[CallOf[h]] # "batch"
  BY DEF Delegates, InBatch
<1>2. PICK i \in Children : Items(CallOf[h]) = {i}
  BY <1>1 DEF Delegates
<1>3. h \in Items(CallOf[h]) /\ k \in Items(CallOf[h])
  BY DEF Items
<1> QED BY <1>2, <1>3

LEMMA OwnRelease ==
  ASSUME Delegates, NEW h \in Children, ReleaseOwn(h)
  PROVE  /\ InBatch(h) => lease'[CallOf[h]] = lease[CallOf[h]]
         /\ ~InBatch(h) => lease'[CallOf[h]] = "released"
         /\ \A k \in Children \ {h} : lease'[CallOf[k]] = lease[CallOf[k]]
         /\ \A c \in Calls : Mode[c] = "batch" => lease'[c] = lease[c]
         /\ \A c \in Calls : lease[c] # "none" => lease'[c] # "none"
<1> DEFINE C == {CallOf[h]} \ {c \in Calls : Mode[c] = "batch"}
<1>1. \A k \in Children : CallOf[k] \in Calls
  BY DEF Delegates
<1>2. \A c \in Calls : lease'[c] = IF c \in C THEN "released" ELSE lease[c]
  BY DEF ReleaseOwn, Release
<1>3. CallOf[h] \in C <=> ~InBatch(h)
  BY <1>1 DEF InBatch
<1>4. \A k \in Children \ {h} : CallOf[k] \notin C
  BY <1>1, OnlyChild DEF InBatch
<1>5. \A c \in Calls : Mode[c] = "batch" => c \notin C
  OBVIOUS
<1> HIDE DEF C
<1> QED BY <1>1, <1>2, <1>3, <1>4, <1>5

---------------------------------------------------------------------------
(* What a step has to show of a child.                                     *)

\* The lease of a child stays, or moves with its batch.
LeaseRests(h) ==
  \/ lease'[CallOf[h]] = lease[CallOf[h]]
  \/ InBatch(h) /\ lease[CallOf[h]] # "none" /\ lease'[CallOf[h]] # "none"

\* A step that is about other children.
Rests(h) ==
  /\ pc'[h] = pc[h] /\ final'[h] = final[h] /\ holder'[h] = holder[h] /\ child'[h] = child[h]
  /\ h \in parked' <=> h \in parked
  /\ h \in identity' <=> h \in identity
  /\ h \in kept' <=> h \in kept
  /\ h \in closed' <=> h \in closed
  /\ LeaseRests(h)

LEMMA RestingChild ==
  ASSUME NEW h \in Children, Fine(h), Rests(h)
  PROVE  Fine(h)'
<1>1. Owned(h)'
  BY DEF Fine, Owned, Rests, OneShot
<1>2. Placed(h)'
  BY DEF Fine, Placed, Rests, LeaseRests, OneShot, InBatch, Single
<1>3. Told(h)'
  BY DEF Fine, Told, Rests, LeaseRests, InBatch, Single, Lives, OneShot
<1> QED BY <1>1, <1>2, <1>3 DEF Fine

\* A step of one child.
StepOf(h) ==
  /\ \A k \in Children \ {h} :
       /\ pc'[k] = pc[k] /\ final'[k] = final[k] /\ holder'[k] = holder[k]
       /\ child'[k] = child[k]
       /\ k \in parked' <=> k \in parked
       /\ k \in identity' <=> k \in identity
       /\ k \in kept' <=> k \in kept
       /\ k \in closed' <=> k \in closed
  /\ UNCHANGED boundary

LEMMA Stepping ==
  ASSUME Delegates, DelInv, NEW h \in Children, StepOf(h), DelTypes', Fine(h)',
         UNCHANGED budget \/ ReleaseOwn(h)
  PROVE  DelInv'
<1>1. ASSUME NEW k \in Children \ {h} PROVE Fine(k)'
  <2>1. lease'[CallOf[k]] = lease[CallOf[k]]
    BY OwnRelease DEF budget
  <2>2. Rests(k)
    BY <2>1 DEF StepOf, Rests, LeaseRests
  <2> QED BY <2>2, RestingChild DEF DelInv
<1>2. Counted'
  BY Counting, Releasing DEF ReleaseOwn, DelInv
<1>3. ASSUME NEW c \in Calls PROVE CallFine(c)'
  <2>1. CallFine(c) /\ boundary'[c] = boundary[c]
    BY DEF DelInv, StepOf
  <2>2. Mode[c] = "batch" => lease'[c] = lease[c]
    BY OwnRelease DEF budget
  <2>3. lease[c] # "none" => lease'[c] # "none"
    BY OwnRelease DEF budget
  <2> QED BY <2>1, <2>2, <2>3 DEF CallFine
<1> QED BY <1>1, <1>2, <1>3 DEF DelInv

\* The types of what one child's step leaves of the variables.
LEMMA StepTypes ==
  ASSUME Delegates, DelInv, NEW h \in Children,
         pc' \in [Children -> Stages], final' \in [Children -> Statuses],
         holder' \in [Children -> Holders], child' \in [Children -> {"none", "live", "gone"}],
         parked' \subseteq Children, identity' \subseteq Children, terminal' \subseteq Children,
         closed' \subseteq Children, kept' \subseteq Children,
         UNCHANGED <<boundary, drain>>, UNCHANGED budget \/ ReleaseOwn(h)
  PROVE  DelTypes'
<1>1. lease' \in [Calls -> {"none", "held", "released"}]
  BY Releasing DEF ReleaseOwn, DelInv, budget, DelTypes
<1> QED BY <1>1 DEF DelInv, DelTypes

\* Every child has its place in the variables.
LEMMA ChildFacts ==
  ASSUME Delegates, DelInv, NEW h \in Children
  PROVE  /\ holder[h] \in Holders /\ pc[h] \in Stages /\ final[h] \in Statuses
         /\ child[h] \in {"none", "live", "gone"}
         /\ CallOf[h] \in Calls /\ lease[CallOf[h]] \in {"none", "held", "released"}
         /\ holder = [holder EXCEPT ![h] = holder[h]] /\ pc = [pc EXCEPT ![h] = pc[h]]
         /\ child = [child EXCEPT ![h] = child[h]]
         /\ holder[h].reg \in BOOLEAN /\ holder[h].pend \in BOOLEAN
         /\ holder[h].run \in BOOLEAN /\ holder[h].asked \in BOOLEAN
         /\ holder[h].disp \in {"none", "running", "done", "failed"}
         /\ Owned(h) /\ Placed(h) /\ Told(h)
<1>1. DelTypes /\ Fine(h)
  BY DEF DelInv
<1>2. holder[h] \in Holders
  BY <1>1 DEF DelTypes
<1> QED BY <1>1, <1>2, HolderFields DEF DelTypes, Delegates, Fine

\* What a driver returns.
LEMMA Returned ==
  ASSUME Delegates, DelInv, NEW h \in Children, NEW t \in Statuses, Return(h, t)
  PROVE  /\ pc' = [pc EXCEPT ![h] = "done"] /\ final' \in [Children -> Statuses]
         /\ final'[h] = IF h \in closed THEN final[h] ELSE t
         /\ pc'[h] = "done"
         /\ \A k \in Children \ {h} : pc'[k] = pc[k] /\ final'[k] = final[k]
BY DEF Return, GoTo, Tell, DelInv, DelTypes

---------------------------------------------------------------------------
(* The steps of one child.                                                 *)

LEMMA Materializes ==
  ASSUME Delegates, DelInv, NEW h \in Children, Materialize(h)
  PROVE  DelInv'
<1> USE ChildFacts DEF Materialize
<1>1. /\ pc' = pc /\ final' = final /\ holder' = holder /\ identity' = identity /\ kept' = kept
      /\ closed' = closed /\ terminal' = terminal /\ boundary' = boundary /\ drain' = drain
      /\ UNCHANGED budget
  BY DEF flow
<1>2. parked' = parked \ {h} /\ child' = [child EXCEPT ![h] = "live"] /\ child'[h] = "live"
      /\ child[h] = "none" /\ pc[h] = "starting"
  BY DEF DelInv, DelTypes
<1>3. DelTypes'
  BY <1>1, <1>2 DEF DelInv, DelTypes, budget
<1>4. StepOf(h)
  BY <1>1, <1>2 DEF StepOf, DelInv, DelTypes
<1>5. lease'[CallOf[h]] = lease[CallOf[h]]
  BY <1>1 DEF budget
<1>6. Owned(h)'
  BY <1>1, <1>2 DEF Owned, OneShot
<1>7. Placed(h)'
  BY <1>1, <1>2, <1>5 DEF Placed, OneShot, Single, InBatch
<1>8. Told(h)'
  BY <1>1, <1>2, <1>5 DEF Told, Owned, Placed, OneShot, Single, InBatch, Lives, NoHolder
<1> QED BY <1>1, <1>3, <1>4, <1>6, <1>7, <1>8, Stepping DEF Fine

LEMMA StartFails ==
  ASSUME Delegates, DelInv, NEW h \in Children, StartRejects(h)
  PROVE  DelInv'
<1> USE ChildFacts
<1>1. /\ child' = child /\ identity' = identity /\ kept' = kept /\ parked' = parked \ {h}
      /\ closed' = closed /\ terminal' = terminal /\ boundary' = boundary /\ drain' = drain
      /\ pc[h] = "starting" /\ child[h] = "none" /\ ReleaseOwn(h) /\ Return(h, "failed")
  BY DEF StartRejects
<1>2. /\ pc' = [pc EXCEPT ![h] = "done"] /\ final' \in [Children -> Statuses]
      /\ final'[h] \in {final[h], "failed"} /\ pc'[h] = "done"
      /\ \A k \in Children \ {h} : pc'[k] = pc[k] /\ final'[k] = final[k]
  BY <1>1, Returned DEF Statuses
<1> DEFINE x == IF OneShot(h) THEN Settle(FailStart(holder[h])) ELSE holder[h]
<1>3. x \in Holders /\ holder' = [holder EXCEPT ![h] = x]
  BY FailStartFields, SettleFields DEF StartRejects, Hold
<1>4. /\ ~OneShot(h) => x = NoHolder
      /\ OneShot(h) => ~x.run /\ x.asked /\ x.disp = "done"
  <2>1. CASE OneShot(h)
    <3> DEFINE y == FailStart(holder[h])
    <3>1. y \in Holders /\ ~y.pend /\ ~y.run /\ (y.asked => y.disp = "done")
      BY <2>1, <1>1, FailStartFields DEF Owned
    <3>2. x = Settle(y)
      BY <2>1
    <3> HIDE DEF x, y
    <3> QED BY <2>1, <3>1, <3>2, SettleFields
  <2>2. CASE ~OneShot(h)
    BY <2>2 DEF Owned
  <2> QED BY <2>1, <2>2
<1> HIDE DEF x
<1>5. holder'[h] = x /\ \A k \in Children \ {h} : holder'[k] = holder[k]
  BY <1>3 DEF DelInv, DelTypes
<1>6. DelTypes'
  <2>1. parked' \subseteq Children
    BY <1>1 DEF DelInv, DelTypes
  <2>2. pc' \in [Children -> Stages] /\ holder' \in [Children -> Holders]
    BY <1>2, <1>3 DEF Stages, DelInv, DelTypes
  <2> QED BY <1>1, <1>2, <2>1, <2>2, StepTypes DEF DelInv, DelTypes
<1>7. StepOf(h)
  BY <1>1, <1>2, <1>5 DEF StepOf
<1>8. /\ ~InBatch(h) => lease'[CallOf[h]] = "released"
      /\ InBatch(h) => lease'[CallOf[h]] = lease[CallOf[h]]
  BY <1>1, OwnRelease
<1>9. Owned(h)'
  BY <1>1, <1>2, <1>4, <1>5, NewHolders DEF Owned, OneShot
<1>10. Placed(h)'
  BY <1>1, <1>2, <1>4, <1>5, <1>8, NewHolders DEF Owned, Placed, OneShot, Single, InBatch
<1>11. Told(h)'
  BY <1>1, <1>2, <1>4, <1>5, <1>8, NewHolders
     DEF Told, Owned, Placed, OneShot, Single, InBatch, Lives
<1> QED BY <1>1, <1>6, <1>7, <1>9, <1>10, <1>11, Stepping DEF Fine

LEMMA Refuses ==
  ASSUME Delegates, DelInv, NEW h \in Children, Refuse(h)
  PROVE  DelInv'
<1> USE ChildFacts
<1> DEFINE x == FailStart(holder[h])
<1>1. /\ final' = final /\ child' = child /\ identity' = identity /\ kept' = kept
      /\ parked' = parked /\ closed' = closed /\ terminal' = terminal
      /\ boundary' = boundary /\ drain' = drain /\ UNCHANGED budget
      /\ pc[h] = "starting" /\ OneShot(h) /\ child[h] = "live" /\ h \in Scoped
      /\ holder' = [holder EXCEPT ![h] = x] /\ pc' = [pc EXCEPT ![h] = "refused"]
  BY DEF Refuse, Guarded, Hold, GoTo
<1>2. x \in Holders /\ ~x.run /\ (~x.asked => x.disp = "none") /\ x.disp \in {"none", "done"}
  BY <1>1, FailStartFields DEF Owned
<1> HIDE DEF x
<1>3. holder'[h] = x /\ pc'[h] = "refused" /\ lease'[CallOf[h]] = lease[CallOf[h]]
  BY <1>1 DEF DelInv, DelTypes, budget
<1>4. DelTypes'
  BY <1>1, <1>2, StepTypes DEF DelInv, DelTypes, Stages
<1>5. StepOf(h)
  BY <1>1 DEF StepOf, DelInv, DelTypes
<1>6. Owned(h)'
  BY <1>1, <1>2, <1>3 DEF Owned, OneShot
<1>7. Placed(h)'
  BY <1>1, <1>2, <1>3 DEF Owned, Placed, OneShot, Single, InBatch
<1>8. Told(h)'
  BY <1>1, <1>2, <1>3 DEF Told, Owned, Placed, OneShot, Single, InBatch, Lives
<1> QED BY <1>1, <1>4, <1>5, <1>6, <1>7, <1>8, Stepping DEF Fine

LEMMA RefusalDisposed ==
  ASSUME Delegates, DelInv, NEW h \in Children, RefusedDisposed(h)
  PROVE  DelInv'
<1> USE ChildFacts
<1> DEFINE x == Settle(holder[h])
<1>1. /\ identity' = identity /\ kept' = kept /\ parked' = parked /\ closed' = closed
      /\ terminal' = terminal /\ boundary' = boundary /\ drain' = drain
      /\ pc[h] = "refused" /\ ReleaseOwn(h) /\ Return(h, "failed")
      /\ holder' = [holder EXCEPT ![h] = x]
  BY DEF RefusedDisposed, Hold
<1>2. PICK end \in {"live", "gone"} : child' = [child EXCEPT ![h] = end]
  BY DEF RefusedDisposed
<1>3. /\ pc' = [pc EXCEPT ![h] = "done"] /\ final' \in [Children -> Statuses]
      /\ final'[h] \in {final[h], "failed"} /\ pc'[h] = "done"
      /\ \A k \in Children \ {h} : pc'[k] = pc[k] /\ final'[k] = final[k]
  BY <1>1, Returned DEF Statuses
<1>4. /\ x \in Holders /\ ~x.run /\ x.asked /\ x.disp \in {"none", "done"}
      /\ holder[h].disp = "done" => x.disp = "done"
  <2>1. ~holder[h].run
    BY <1>1 DEF Owned
  <2>2. holder[h].disp \in {"none", "done"}
    BY <2>1 DEF Owned
  <2> QED BY <2>1, <2>2, SettleFields DEF Owned
<1> HIDE DEF x
<1>5. /\ holder'[h] = x /\ child'[h] = end
      /\ \A k \in Children \ {h} : holder'[k] = holder[k] /\ child'[k] = child[k]
  BY <1>1, <1>2 DEF DelInv, DelTypes
<1>6. DelTypes'
  <2>1. pc' \in [Children -> Stages]
    BY <1>3 DEF DelInv, DelTypes, Stages
  <2>2. holder' \in [Children -> Holders] /\ child' \in [Children -> {"none", "live", "gone"}]
    BY <1>1, <1>2, <1>4 DEF DelInv, DelTypes
  <2> QED BY <1>1, <1>3, <2>1, <2>2, StepTypes DEF DelInv, DelTypes
<1>7. StepOf(h)
  BY <1>1, <1>3, <1>5 DEF StepOf
<1>8. /\ ~InBatch(h) => lease'[CallOf[h]] = "released"
      /\ InBatch(h) => lease'[CallOf[h]] = lease[CallOf[h]]
  BY <1>1, OwnRelease
<1>9. OneShot(h) /\ h \in Scoped /\ h \notin parked /\ h \notin identity /\ h \notin kept
  BY <1>1 DEF Placed, Owned
<1>10. Owned(h)'
  BY <1>1, <1>3, <1>4, <1>5, <1>9 DEF Owned, OneShot
<1>11. Placed(h)'
  BY <1>1, <1>3, <1>4, <1>5, <1>8, <1>9 DEF Placed, OneShot, Single, InBatch
<1>12. Told(h)'
  BY <1>1, <1>3, <1>4, <1>5, <1>8, <1>9 DEF Told, OneShot, Single, InBatch, Lives
<1> QED BY <1>1, <1>6, <1>7, <1>10, <1>11, <1>12, Stepping DEF Fine

LEMMA Starts ==
  ASSUME Delegates, DelInv, NEW h \in Children, Started(h)
  PROVE  DelInv'
<1> USE ChildFacts
<1> DEFINE x == Attach(holder[h])
           s == IF h \in closed THEN "settling" ELSE "running"
<1>1. /\ final' = final /\ child' = child /\ identity' = identity \cup {h} /\ kept' = kept
      /\ parked' = parked /\ closed' = closed /\ terminal' = terminal
      /\ boundary' = boundary /\ drain' = drain /\ UNCHANGED budget
      /\ pc[h] = "starting" /\ OneShot(h) /\ child[h] = "live" /\ h \notin Scoped
      /\ holder' = [holder EXCEPT ![h] = x] /\ pc' = [pc EXCEPT ![h] = s]
  BY DEF Started, Guarded, Hold, GoTo
<1>2. /\ x \in Holders /\ x.run /\ ~x.pend /\ x.reg /\ (~x.asked => x.disp = "none")
      /\ x.asked => x.disp = "running"
  BY <1>1, AttachFields DEF Owned
<1>3. s \in {"running", "settling"} /\ s \in Stages
  BY DEF Stages
<1> HIDE DEF x, s
<1>4. holder'[h] = x /\ pc'[h] = s /\ lease'[CallOf[h]] = lease[CallOf[h]]
  BY <1>1, <1>3 DEF DelInv, DelTypes, budget
<1>5. DelTypes'
  <2>1. pc' \in [Children -> Stages] /\ holder' \in [Children -> Holders]
    BY <1>1, <1>2, <1>3 DEF DelInv, DelTypes
  <2> QED BY <1>1, <2>1, StepTypes DEF DelInv, DelTypes
<1>6. StepOf(h)
  BY <1>1 DEF StepOf, DelInv, DelTypes
<1>7. Owned(h)'
  BY <1>1, <1>2, <1>3, <1>4 DEF Owned, OneShot
<1>8. Placed(h)'
  BY <1>1, <1>2, <1>3, <1>4 DEF Placed, OneShot, Single, InBatch
<1>9. Told(h)'
  BY <1>1, <1>2, <1>3, <1>4 DEF Told, Owned, Placed, OneShot, Single, InBatch, Lives
<1> QED BY <1>1, <1>5, <1>6, <1>7, <1>8, <1>9, Stepping DEF Fine

LEMMA KeptStarts ==
  ASSUME Delegates, DelInv, NEW h \in Children, KeptStarted(h)
  PROVE  DelInv'
<1> USE ChildFacts
<1>1. /\ final' = final /\ child' = child /\ identity' = identity /\ kept' = kept \cup {h}
      /\ parked' = parked /\ closed' = closed /\ terminal' = terminal /\ holder' = holder
      /\ boundary' = boundary /\ drain' = drain /\ UNCHANGED budget
      /\ pc[h] = "starting" /\ ~OneShot(h) /\ child[h] = "live"
      /\ pc' = [pc EXCEPT ![h] = "kept"]
  BY DEF KeptStarted, GoTo
<1>2. pc'[h] = "kept" /\ lease'[CallOf[h]] = lease[CallOf[h]]
  BY <1>1 DEF DelInv, DelTypes, budget
<1>3. DelTypes'
  BY <1>1, StepTypes DEF DelInv, DelTypes, Stages
<1>4. StepOf(h)
  BY <1>1 DEF StepOf, DelInv, DelTypes
<1>5. Owned(h)'
  BY <1>1, <1>2, NewHolders DEF Owned, OneShot
<1>6. Placed(h)'
  BY <1>1, <1>2 DEF Placed, OneShot, Single, InBatch
<1>7. Told(h)'
  BY <1>1, <1>2, NewHolders DEF Told, Owned, Placed, OneShot, Single, InBatch, Lives
<1> QED BY <1>1, <1>3, <1>4, <1>5, <1>6, <1>7, Stepping DEF Fine

LEMMA RoundEnds ==
  ASSUME Delegates, DelInv, NEW h \in Children, FirstRoundEnds(h)
  PROVE  DelInv'
<1> USE ChildFacts
<1>1. /\ child' = child /\ identity' = identity /\ kept' = kept \ {h} /\ holder' = holder
      /\ parked' = parked /\ closed' = closed /\ terminal' = terminal
      /\ boundary' = boundary /\ drain' = drain
      /\ h \in kept /\ ReleaseOwn(h) /\ Return(h, "answer")
  BY DEF FirstRoundEnds
<1>2. /\ pc' = [pc EXCEPT ![h] = "done"] /\ final' \in [Children -> Statuses]
      /\ final'[h] \in {final[h], "answer"} /\ pc'[h] = "done"
      /\ \A k \in Children \ {h} : pc'[k] = pc[k] /\ final'[k] = final[k]
  BY <1>1, Returned DEF Statuses
<1>3. /\ pc[h] = "kept" /\ ~OneShot(h) /\ holder[h] = NoHolder /\ h \notin identity
      /\ h \notin parked /\ ~InBatch(h)
  BY <1>1, NewHolders DEF Placed, Owned, OneShot, InBatch
<1>4. lease'[CallOf[h]] = "released"
  BY <1>1, <1>3, OwnRelease
<1>5. DelTypes'
  <2>1. pc' \in [Children -> Stages]
    BY <1>2 DEF DelInv, DelTypes, Stages
  <2> QED BY <1>1, <1>2, <2>1, StepTypes DEF DelInv, DelTypes
<1>6. StepOf(h)
  BY <1>1, <1>2 DEF StepOf
<1>7. Owned(h)'
  BY <1>1, <1>2, <1>3, NewHolders DEF Owned, OneShot
<1>8. Placed(h)'
  BY <1>1, <1>2, <1>3, <1>4 DEF Placed, OneShot, Single, InBatch
<1>9. Told(h)'
  BY <1>1, <1>2, <1>3, <1>4, NewHolders DEF Told, OneShot, Single, InBatch, Lives
<1> QED BY <1>1, <1>5, <1>6, <1>7, <1>8, <1>9, Stepping DEF Fine

\* What settle() leaves of a holder that has a run.
LEMMA SettleRun ==
  ASSUME Delegates, DelInv, NEW h \in Children, holder[h].run,
         NEW x, x = Settle(holder[h])
  PROVE
         /\ x \in Holders /\ x.run /\ ~x.pend /\ x.asked /\ x.reg = holder[h].reg
         /\ x.disp \in {"running", "done", "failed"}
         /\ holder[h].asked => x = holder[h]
         /\ child[h] = "live" => x.reg /\ x.disp # "done"
         /\ child[h] = "gone" => x.disp = "done"
         /\ child[h] \in {"live", "gone"} /\ OneShot(h) /\ h \notin Scoped
         /\ holder[h].disp = "done" => x.disp = "done"
<1> USE ChildFacts
<1>1. CASE holder[h].asked
  <2>1. x = holder[h]
    BY <1>1, SettleFields
  <2> QED BY <1>1, <2>1 DEF Owned
<1>2. CASE ~holder[h].asked
  <2>1. ~holder[h].pend /\ holder[h].disp = "none" /\ child[h] = "live"
    BY <1>2 DEF Owned
  <2>2. x \in Holders /\ x.run /\ ~x.pend /\ x.asked /\ x.reg = holder[h].reg
        /\ x.disp = "running"
    BY <1>2, <2>1, SettleFields
  <2> QED BY <1>2, <2>1, <2>2 DEF Owned
<1> QED BY <1>1, <1>2

\* A child whose driver has its run, and settles it.
LEMMA SettlesOn ==
  ASSUME Delegates, DelInv, NEW h \in Children, NEW s \in {"settling", "grace"},
         s = "grace" => Single(CallOf[h]), pc[h] = "running",
         holder' = [holder EXCEPT ![h] = Settle(holder[h])], pc' = [pc EXCEPT ![h] = s],
         terminal' \subseteq Children,
         UNCHANGED <<budget, final, child, parked, identity, closed, boundary, kept, drain>>
  PROVE  DelInv'
<1> USE ChildFacts
<1> DEFINE x == Settle(holder[h])
<1>1. OneShot(h) /\ holder[h].run
  BY DEF Placed
<1>2. /\ x \in Holders /\ x.run /\ ~x.pend /\ x.asked
      /\ x.disp \in {"running", "done", "failed"}
      /\ child[h] = "live" => x.reg /\ x.disp # "done"
      /\ child[h] = "gone" => x.disp = "done"
      /\ child[h] \in {"live", "gone"} /\ h \notin Scoped
      /\ holder[h].disp = "done" => x.disp = "done"
  BY <1>1, SettleRun
<1>3. holder' = [holder EXCEPT ![h] = x]
  OBVIOUS
<1> HIDE DEF x
<1>4. /\ holder'[h] = x /\ pc'[h] = s /\ child'[h] = child[h]
      /\ lease'[CallOf[h]] = lease[CallOf[h]]
  BY <1>3 DEF DelInv, DelTypes, budget
<1>5. DelTypes'
  <2>1. pc' \in [Children -> Stages] /\ holder' \in [Children -> Holders]
    BY <1>2, <1>3 DEF DelInv, DelTypes, Stages
  <2> QED BY <2>1, StepTypes DEF DelInv, DelTypes
<1>6. StepOf(h)
  BY <1>3 DEF StepOf, DelInv, DelTypes
<1>7. Owned(h)'
  BY <1>1, <1>2, <1>4 DEF Owned, OneShot
<1>8. Placed(h)'
  BY <1>1, <1>2, <1>4 DEF Placed, OneShot, Single, InBatch
<1>9. Told(h)'
  BY <1>1, <1>2, <1>4 DEF Told, Owned, Placed, OneShot, Single, InBatch, Lives
<1> QED BY <1>5, <1>6, <1>7, <1>8, <1>9, Stepping DEF Fine

LEMMA ResultOrDeadline ==
  ASSUME Delegates, DelInv, NEW h \in Children, ResultArrives(h) \/ CutShort(h)
  PROVE  DelInv'
<1>1. CASE ResultArrives(h)
  <2>1. /\ holder' = [holder EXCEPT ![h] = Settle(holder[h])]
        /\ pc' = [pc EXCEPT ![h] = "settling"] /\ pc[h] = "running"
        /\ UNCHANGED <<budget, final, child, parked, identity, closed, boundary, kept, drain>>
    BY <1>1 DEF ResultArrives, Hold, GoTo
  <2>2. terminal' \subseteq Children
    BY <1>1 DEF ResultArrives, DelInv, DelTypes
  <2> QED BY <2>1, <2>2, SettlesOn
<1>2. CASE CutShort(h)
  <2>1. /\ holder' = [holder EXCEPT ![h] = Settle(holder[h])]
        /\ pc' = [pc EXCEPT ![h] = "grace"] /\ pc[h] = "running" /\ Single(CallOf[h])
        /\ UNCHANGED <<budget, final, child, parked, identity, closed, boundary, kept, drain>>
    BY <1>2 DEF CutShort, Hold, GoTo
  <2>2. terminal' \subseteq Children
    BY <1>2 DEF CutShort, DelInv, DelTypes
  <2> QED BY <2>1, <2>2, SettlesOn
<1> QED BY <1>1, <1>2

\* A child whose driver has returned, with what its settlement left: the
\* identity is forgotten once the disposal is done, and the slot given back
\* unless the disposal is still under way.
LEMMA Finishes ==
  ASSUME Delegates, DelInv, NEW h \in Children, NEW x \in Holders, NEW t \in Statuses,
         holder[h].run, pc[h] # "idle", x.run, ~x.pend, x.asked,
         x.disp \in {"running", "done", "failed"},
         child[h] = "live" => x.reg /\ x.disp # "done",
         child[h] = "gone" => x.disp = "done",
         holder[h].disp = "done" => x.disp = "done",
         holder' = [holder EXCEPT ![h] = x], Return(h, t),
         identity' = Forget(h, x),
         \/ UNCHANGED budget /\ x.disp = "running" /\ pc[h] # "done"
         \/ ReleaseOwn(h) /\ (Single(CallOf[h]) =>
                               x.disp \in {"done", "failed"} \/ t = "cleanup_deferred"),
         t = "cancel_requested" => x.disp = "done",
         UNCHANGED <<child, parked, terminal, closed, boundary, kept, drain>>
  PROVE  DelInv'
<1> USE ChildFacts
<1>1. OneShot(h) /\ h \notin Scoped /\ child[h] \in {"live", "gone"} /\ pc[h] # "kept"
  BY DEF Owned
<1>2. /\ pc' = [pc EXCEPT ![h] = "done"] /\ final' \in [Children -> Statuses]
      /\ final'[h] = (IF h \in closed THEN final[h] ELSE t) /\ pc'[h] = "done"
      /\ \A k \in Children \ {h} : pc'[k] = pc[k] /\ final'[k] = final[k]
  BY Returned
<1>3. /\ h \in identity' => x.disp # "done" /\ h \in identity
      /\ x.disp # "done" => (h \in identity' <=> h \in identity)
      /\ \A k \in Children \ {h} : k \in identity' <=> k \in identity
      /\ identity' \subseteq Children
  BY DEF Forget, DidSettle, DelInv, DelTypes
<1>4. holder'[h] = x /\ \A k \in Children \ {h} : holder'[k] = holder[k]
  BY DEF DelInv, DelTypes
<1>5. DelTypes'
  <2>1. pc' \in [Children -> Stages] /\ holder' \in [Children -> Holders]
    BY <1>2 DEF DelInv, DelTypes, Stages
  <2> QED BY <1>2, <1>3, <2>1, StepTypes DEF DelInv, DelTypes
<1>6. StepOf(h)
  BY <1>2, <1>3, <1>4 DEF StepOf
<1>7. /\ ~InBatch(h) => lease'[CallOf[h]] = "released" \/ lease'[CallOf[h]] = lease[CallOf[h]]
      /\ InBatch(h) => lease'[CallOf[h]] = lease[CallOf[h]]
      /\ ~InBatch(h) /\ lease'[CallOf[h]] # "released" => x.disp = "running"
  BY OwnRelease DEF budget
<1>8. h \in closed => InBatch(h)
  BY DEF Placed
<1>9. Owned(h)'
  BY <1>1, <1>2, <1>4 DEF Owned, OneShot
<1>10. Placed(h)'
  BY <1>1, <1>2, <1>3, <1>4, <1>7 DEF Placed, OneShot, Single, InBatch
<1>11. Told(h)'
  <2>1. final'[h] = "cancel_requested" => x.disp = "done"
    BY <1>2 DEF Told
  <2>2. ~InBatch(h) /\ lease'[CallOf[h]] = "held" => x.disp = "running"
    BY <1>7
  <2>3. Single(CallOf[h]) /\ lease'[CallOf[h]] = "released" /\ child[h] = "live" =>
          final'[h] = "cleanup_deferred" \/ x.disp = "failed"
    <3> SUFFICES ASSUME Single(CallOf[h]), lease'[CallOf[h]] = "released", child[h] = "live"
                 PROVE  final'[h] = "cleanup_deferred" \/ x.disp = "failed"
      OBVIOUS
    <3>1. ~InBatch(h) /\ final'[h] = t /\ x.disp # "done"
      BY <1>2, <1>8 DEF Single, InBatch
    <3>2. CASE ReleaseOwn(h) /\ (x.disp \in {"done", "failed"} \/ t = "cleanup_deferred")
      BY <3>1, <3>2
    <3>3. CASE UNCHANGED budget /\ pc[h] # "done"
      <4>1. lease[CallOf[h]] = "released"
        BY <3>3 DEF budget
      <4> QED BY <3>1, <3>3, <4>1 DEF Told
    <3> QED BY <3>2, <3>3
  <2>4. child[h] = "live" => h \in identity'
    BY <1>3 DEF Told
  <2>5. child[h] # "live" => h \notin identity'
    BY <1>1, <1>3
  <2> QED BY <1>2, <1>4, <2>1, <2>2, <2>3, <2>4, <2>5
          DEF Told, Lives, OneShot, Single, InBatch
<1> QED BY <1>5, <1>6, <1>9, <1>10, <1>11, Stepping DEF Fine

LEMMA ResultFails ==
  ASSUME Delegates, DelInv, NEW h \in Children, ResultRejects(h)
  PROVE  DelInv'
<1> USE ChildFacts
<1> DEFINE x == Settle(holder[h])
<1>1. /\ pc[h] = "running" /\ holder' = [holder EXCEPT ![h] = x] /\ Return(h, "failed")
      /\ UNCHANGED <<child, parked, terminal, closed, boundary, kept, drain>>
      /\ identity' = Forget(h, x)
      /\ IF Settled(x) THEN ReleaseOwn(h) ELSE UNCHANGED budget
  BY DEF ResultRejects, Hold, CleanedUp
<1>2. holder[h].run /\ "failed" \in Statuses
  BY <1>1 DEF Placed, Statuses
<1>3. /\ x \in Holders /\ x.run /\ ~x.pend /\ x.asked
      /\ x.disp \in {"running", "done", "failed"}
      /\ child[h] = "live" => x.reg /\ x.disp # "done"
      /\ child[h] = "gone" => x.disp = "done"
      /\ holder[h].disp = "done" => x.disp = "done"
  BY <1>2, SettleRun
<1> HIDE DEF x
<1>4. \/ UNCHANGED budget /\ x.disp = "running" /\ pc[h] # "done"
      \/ ReleaseOwn(h) /\ x.disp \in {"done", "failed"}
  BY <1>1, <1>3 DEF Settled
<1> QED BY <1>1, <1>2, <1>3, <1>4, Finishes

LEMMA SettlementEnds ==
  ASSUME Delegates, DelInv, NEW h \in Children, SettlementArrives(h)
  PROVE  DelInv'
<1> USE ChildFacts
<1> DEFINE x == holder[h]
           t == IF DidSettle(holder[h]) THEN "answer" ELSE "failed"
<1>1. /\ pc[h] = "settling" /\ Settled(x) /\ Return(h, t) /\ ReleaseOwn(h)
      /\ identity' = Forget(h, x)
      /\ UNCHANGED <<holder, child, parked, terminal, closed, boundary, kept, drain>>
  BY DEF SettlementArrives, CleanedUp
<1>2. x.run /\ x.disp \in {"done", "failed"} /\ x.asked /\ ~x.pend
  BY <1>1 DEF Placed, Owned, Settled
<1>3. t \in Statuses /\ t # "cancel_requested"
  BY DEF Statuses
<1>4. holder' = [holder EXCEPT ![h] = x]
  BY <1>1
<1>5. /\ child[h] = "live" => x.reg /\ x.disp # "done"
      /\ child[h] = "gone" => x.disp = "done"
  BY <1>2 DEF Owned
<1>6. x \in Holders /\ pc[h] # "idle" /\ x.disp \in {"running", "done", "failed"}
      /\ holder[h].run /\ (holder[h].disp = "done" => x.disp = "done")
  BY <1>1, <1>2
<1> HIDE DEF x, t
<1> QED BY <1>1, <1>2, <1>3, <1>4, <1>5, <1>6, Finishes

LEMMA GraceIsOver ==
  ASSUME Delegates, DelInv, NEW h \in Children, GraceEnds(h)
  PROVE  DelInv'
<1> USE ChildFacts
<1> DEFINE x == holder[h]
           t == CutStatus(h)
<1>1. /\ pc[h] = "grace" /\ Return(h, t) /\ ReleaseOwn(h)
      /\ identity' = Forget(h, x)
      /\ UNCHANGED <<holder, child, parked, terminal, closed, boundary, kept, drain>>
  BY DEF GraceEnds
<1>2. x.run /\ ~x.pend /\ x.asked /\ x.disp \in {"running", "done", "failed"}
  BY <1>1 DEF Placed, Owned
<1>3. t \in Statuses /\ (t = "cancel_requested" => x.disp = "done")
      /\ (x.disp = "done" \/ t = "cleanup_deferred")
  BY DEF Statuses, CutStatus, DidSettle
<1>4. holder' = [holder EXCEPT ![h] = x]
  BY <1>1
<1>5. /\ child[h] = "live" => x.reg /\ x.disp # "done"
      /\ child[h] = "gone" => x.disp = "done"
  BY <1>2 DEF Owned
<1>6. x \in Holders /\ pc[h] # "idle" /\ holder[h].run
      /\ (holder[h].disp = "done" => x.disp = "done")
  BY <1>1, <1>2
<1> HIDE DEF x, t
<1> QED BY <1>1, <1>2, <1>3, <1>4, <1>5, <1>6, Finishes

LEMMA Disposes ==
  ASSUME Delegates, DelInv, NEW h \in Children, NEW ok \in BOOLEAN, DisposeSettles(h, ok)
  PROVE  DelInv'
<1> USE ChildFacts
<1> DEFINE d == IF ok THEN "done" ELSE "failed"
           r == holder[h].reg /\ ~ok
           x == [holder[h] EXCEPT !.disp = d, !.reg = r]
           a == IF ok THEN "gone" ELSE child[h]
<1>1. /\ holder[h].disp = "running" /\ holder' = [holder EXCEPT ![h] = x]
      /\ child' = [child EXCEPT ![h] = a] /\ UNCHANGED <<flow, parked, kept, drain>>
      /\ IF pc[h] = "done" THEN CleanedUp(h, x) ELSE UNCHANGED <<budget, identity>>
  BY DEF DisposeSettles, Hold, KeepsHolder
<1>2. /\ holder[h].run /\ ~holder[h].pend /\ holder[h].asked /\ OneShot(h) /\ h \notin Scoped
      /\ child[h] = "live" /\ holder[h].reg
  BY <1>1 DEF Owned
<1>3. d \in {"done", "failed"} /\ r \in BOOLEAN /\ a \in {"live", "gone"}
      /\ (a = "live" => r /\ d = "failed") /\ (a = "gone" => d = "done")
  BY <1>2
<1> HIDE DEF d, r, a
<1>4. /\ x \in Holders /\ x.disp = d /\ x.reg = r /\ x.run /\ ~x.pend /\ x.asked
  <2>1. holder[h] \in Holders
    OBVIOUS
  <2>2. x \in Holders /\ x.disp = d /\ x.reg = r
        /\ x.run = holder[h].run /\ x.pend = holder[h].pend /\ x.asked = holder[h].asked
    BY <1>3, <2>1 DEF Holders
  <2> HIDE DEF x
  <2> QED BY <1>2, <2>2
<1> HIDE DEF x
<1>5. /\ holder'[h] = x /\ child'[h] = a
      /\ \A k \in Children \ {h} : holder'[k] = holder[k] /\ child'[k] = child[k]
      /\ pc' = pc /\ final' = final /\ closed' = closed /\ boundary' = boundary
      /\ terminal' = terminal /\ parked' = parked /\ kept' = kept /\ drain' = drain
  BY <1>1 DEF DelInv, DelTypes, flow
<1>6. UNCHANGED budget \/ ReleaseOwn(h)
  BY <1>1 DEF CleanedUp
<1>7. /\ identity' \subseteq identity /\ \A k \in Children \ {h} : k \in identity' <=> k \in identity
      /\ h \in identity /\ (a = "live" => h \in identity')
      /\ (a = "gone" /\ pc[h] = "done" => h \notin identity')
  BY <1>1, <1>2, <1>3, <1>4 DEF CleanedUp, Forget, DidSettle, Told, Lives
<1>8. /\ pc[h] = "done" /\ ~InBatch(h) => lease'[CallOf[h]] = "released"
      /\ InBatch(h) => lease'[CallOf[h]] = lease[CallOf[h]]
      /\ pc[h] # "done" => lease'[CallOf[h]] = lease[CallOf[h]]
  BY <1>1, <1>3, <1>4, OwnRelease DEF CleanedUp, Settled, budget
<1>9. DelTypes'
  <2>1. holder' \in [Children -> Holders] /\ child' \in [Children -> {"none", "live", "gone"}]
    BY <1>1, <1>3, <1>4 DEF DelInv, DelTypes
  <2> QED BY <1>5, <1>6, <1>7, <2>1, StepTypes DEF DelInv, DelTypes
<1>10. StepOf(h)
  BY <1>5, <1>7 DEF StepOf
<1>11. Owned(h)'
  BY <1>2, <1>3, <1>4, <1>5 DEF Owned, OneShot
<1>12. Placed(h)'
  BY <1>2, <1>3, <1>4, <1>5, <1>7, <1>8 DEF Placed, OneShot, Single, InBatch
<1>13. Told(h)'
  <2>1. Told(h) /\ final[h] # "cancel_requested" /\ pc' = pc
    BY <1>1, <1>5 DEF Told
  <2>2. ~InBatch(h) /\ lease'[CallOf[h]] = "released" => pc'[h] = "done"
    BY <1>8, <2>1 DEF Told
  <2>3. ~InBatch(h) /\ lease'[CallOf[h]] = "held" => pc'[h] # "done"
    BY <1>8, <2>1
  <2>4. a = "live" => x.disp = "failed"
    BY <1>3, <1>4
  <2> QED BY <1>3, <1>4, <1>5, <1>7, <2>1, <2>2, <2>3, <2>4
          DEF Told, OneShot, Single, InBatch, Lives
<1> QED BY <1>6, <1>9, <1>10, <1>11, <1>12, <1>13, Stepping DEF Fine

LEMMA ChildStep ==
  ASSUME Delegates, DelInv, NEW h \in Children, Drive(h) \/ Host(h)
  PROVE  DelInv'
<1>1. CASE Drive(h)
  BY <1>1, Refuses, Starts, KeptStarts, SettlementEnds, ResultOrDeadline, GraceIsOver DEF Drive
<1>2. CASE Host(h)
  BY <1>2, Materializes, StartFails, RefusalDisposed, RoundEnds, ResultOrDeadline,
     ResultFails, Disposes DEF Host
<1> QED BY <1>1, <1>2

---------------------------------------------------------------------------
(* The steps of calls and of the drain.                                    *)

\* A one-shot child whose holder is settled by its batch or by the drain.
LEMMA SettledChild ==
  ASSUME Delegates, DelInv, NEW h \in Children, OneShot(h),
         holder'[h] = Settle(holder[h]), pc'[h] = pc[h], child'[h] = child[h],
         h \in parked' <=> h \in parked, h \in identity' <=> h \in identity,
         h \in kept' <=> h \in kept, h \in closed' => h \in closed \/ InBatch(h),
         lease'[CallOf[h]] = lease[CallOf[h]],
         final'[h] = final[h] \/ (final'[h] = "answer" /\ InBatch(h) /\ pc[h] # "idle")
  PROVE  Fine(h)'
<1> USE ChildFacts
<1> DEFINE x == Settle(holder[h])
<1>1. /\ x.run = holder[h].run /\ x.pend = holder[h].pend /\ x.asked
      /\ holder[h].asked => x = holder[h]
      /\ ~holder[h].asked =>
           /\ x.reg = (holder[h].reg /\ (holder[h].pend \/ holder[h].run))
           /\ x.disp = IF holder[h].pend THEN "none" ELSE IF holder[h].run THEN "running" ELSE "done"
  BY SettleFields
<1>2. holder'[h] = x
  OBVIOUS
<1> HIDE DEF x
<1>3. Owned(h)'
  <2>1. CASE holder[h].asked
    BY <1>1, <1>2, <2>1 DEF Owned, OneShot
  <2>2. CASE ~holder[h].asked
    BY <1>1, <1>2, <2>2 DEF Owned, OneShot
  <2> QED BY <2>1, <2>2
<1>4. Placed(h)'
  BY <1>1, <1>2 DEF Placed, OneShot, InBatch, Single
<1>5. Told(h)'
  <2>1. holder[h].disp # "none" => x = holder[h]
    BY <1>1 DEF Owned
  <2> QED BY <1>1, <1>2, <2>1 DEF Told, OneShot, InBatch, Single, Lives
<1> QED BY <1>3, <1>4, <1>5 DEF Fine

\* The children of a call whose lease is not asked for yet are idle.
LEMMA IdleItems ==
  ASSUME Delegates, DelInv, NEW c \in Calls, lease[c] = "none", NEW h \in Items(c)
  PROVE  /\ h \in Children /\ CallOf[h] = c /\ pc[h] = "idle" /\ child[h] = "none"
         /\ final[h] = "none" /\ ~holder[h].run /\ h \notin parked \cup identity \cup kept
<1>1. h \in Children /\ CallOf[h] = c
  BY DEF Items
<1> QED BY <1>1, ChildFacts DEF Placed, Owned

\* The children of other calls rest.
LEMMA OtherItems ==
  ASSUME Delegates, DelInv, NEW c \in Calls, NEW H, H \subseteq Items(c),
         NEW h \in Children, h \notin Items(c),
         pc'[h] = pc[h], final'[h] = final[h], holder'[h] = holder[h], child' = child,
         parked' \ H = parked \ H, UNCHANGED <<identity, kept, closed>>,
         \A d \in Calls \ {c} : lease'[d] = lease[d]
  PROVE  Fine(h)'
<1>1. CallOf[h] \in Calls \ {c} /\ h \notin H
  BY DEF Items, Delegates
<1>2. Rests(h)
  BY <1>1 DEF Rests, LeaseRests
<1> QED BY <1>2, RestingChild DEF DelInv

\* A child that is about to start.
LEMMA BeginsChild ==
  ASSUME Delegates, DelInv, NEW c \in Calls, lease[c] = "none", NEW h \in Items(c),
         lease'[c] = "held", pc'[h] = "starting", final'[h] = final[h],
         holder'[h] = IF OneShot(h) THEN Reserved ELSE holder[h],
         UNCHANGED <<child, identity, kept, closed>>
  PROVE  Fine(h)'
<1> USE ChildFacts, IdleItems
<1>1. h \in Children /\ CallOf[h] = c /\ child[h] = "none" /\ pc[h] = "idle"
      /\ h \notin identity /\ h \notin kept /\ final[h] = "none"
  OBVIOUS
<1>2. /\ OneShot(h) => holder'[h] = Reserved
      /\ ~OneShot(h) => holder'[h] = NoHolder
  BY <1>1 DEF Owned
<1>3. Owned(h)'
  BY <1>1, <1>2, NewHolders DEF Owned, OneShot
<1>4. Placed(h)'
  BY <1>1, <1>2, NewHolders DEF Placed, OneShot, InBatch, Single
<1>5. Told(h)'
  BY <1>1, <1>2, NewHolders DEF Told, OneShot, InBatch, Single, Lives
<1> QED BY <1>3, <1>4, <1>5 DEF Fine

\* A child that never starts.
LEMMA NeverBegins ==
  ASSUME Delegates, DelInv, NEW c \in Calls, lease[c] = "none", NEW h \in Items(c),
         lease'[c] = "released" \/ (lease'[c] = "held" /\ Mode[c] = "batch"),
         pc'[h] = "done", final'[h] = "failed", holder'[h] = holder[h],
         UNCHANGED <<child, identity, kept, closed>>, h \notin parked'
  PROVE  Fine(h)'
<1> USE ChildFacts, IdleItems
<1>1. h \in Children /\ CallOf[h] = c /\ child[h] = "none" /\ pc[h] = "idle"
      /\ h \notin identity /\ h \notin kept /\ ~holder[h].run
  OBVIOUS
<1>2. Owned(h)'
  BY <1>1 DEF Owned, OneShot
<1>3. Placed(h)'
  BY <1>1 DEF Placed, OneShot, InBatch, Single
<1>4. Told(h)'
  BY <1>1 DEF Told, OneShot, InBatch, Single, Lives
<1> QED BY <1>2, <1>3, <1>4 DEF Fine

\* A call that is begun or refused moves nothing of the other calls.
LEMMA CallsRest ==
  ASSUME DelInv, NEW c \in Calls, \A d \in Calls \ {c} : lease'[d] = lease[d] /\ boundary'[d] = boundary[d],
         CallFine(c)'
  PROVE  \A d \in Calls : CallFine(d)'
BY DEF DelInv, CallFine

LEMMA Delegating ==
  ASSUME Delegates, DelInv, NEW c \in Calls, Delegate(c)
  PROVE  DelInv'
<1>1. /\ Mode[c] # "batch" /\ Acquire(c) /\ parked' = parked \cup Items(c)
      /\ UNCHANGED <<final, child, identity, terminal, closed, boundary, kept, drain>>
      /\ holder' = [h \in Children |->
                      IF h \in Items(c) /\ OneShot(h) THEN Reserved ELSE holder[h]]
      /\ pc' = [h \in Children |-> IF h \in Items(c) THEN "starting" ELSE pc[h]]
      /\ lease[c] = "none" /\ lease' = [lease EXCEPT ![c] = "held"]
  BY DEF Delegate, StartAll, Acquire
<1>2. Items(c) \subseteq Children
  BY DEF Items
<1>3. lease'[c] = "held" /\ \A d \in Calls \ {c} : lease'[d] = lease[d]
  BY <1>1 DEF DelInv, DelTypes
<1>4. DelTypes' /\ Counted'
  <2>1. lease' \in [Calls -> {"none", "held", "released"}] /\ Counted'
    BY <1>1, Acquiring DEF DelInv
  <2>2. /\ pc' \in [Children -> Stages] /\ holder' \in [Children -> Holders]
        /\ parked' \subseteq Children
    BY <1>1, <1>2, NewHolders DEF DelInv, DelTypes, Stages
  <2> QED BY <1>1, <2>1, <2>2 DEF DelInv, DelTypes
<1>5. ASSUME NEW h \in Children PROVE Fine(h)'
  <2>1. CASE h \in Items(c)
    BY <1>1, <1>3, <2>1, BeginsChild
  <2>2. CASE h \notin Items(c)
    <3>1. parked' \ Items(c) = parked \ Items(c)
      BY <1>1
    <3>2. pc'[h] = pc[h] /\ holder'[h] = holder[h]
      BY <1>1, <2>2
    <3> QED BY <1>1, <1>3, <2>2, <3>1, <3>2, OtherItems
  <2> QED BY <2>1, <2>2
<1>6. CallFine(c)'
  BY <1>1, <1>3 DEF DelInv, CallFine
<1> QED BY <1>1, <1>3, <1>4, <1>5, <1>6, CallsRest DEF DelInv

LEMMA NotStarting ==
  ASSUME Delegates, DelInv, NEW c \in Calls, NotStarted(c)
  PROVE  DelInv'
<1>1. /\ Mode[c] # "batch" /\ lease[c] = "none" /\ lease' = [lease EXCEPT ![c] = "released"]
      /\ pc' = [h \in Children |-> IF h \in Items(c) THEN "done" ELSE pc[h]]
      /\ final' = [h \in Children |-> IF h \in Items(c) THEN "failed" ELSE final[h]]
      /\ UNCHANGED <<running, holder, child, parked, identity, terminal, closed, boundary, kept,
                     drain>>
  BY DEF NotStarted, Tell
<1>2. lease'[c] = "released" /\ \A d \in Calls \ {c} : lease'[d] = lease[d]
  BY <1>1 DEF DelInv, DelTypes
<1>3. Counted'
  <2>1. \A h \in Children : lease'[CallOf[h]] = "held" <=> lease[CallOf[h]] = "held"
    BY <1>1, <1>2 DEF Delegates
  <2>2. Held(Children)' = Held(Children)
    BY <2>1 DEF Held
  <2> QED BY <1>1, <2>2 DEF Counted, DelInv
<1>4. DelTypes'
  <2>1. /\ pc' \in [Children -> Stages] /\ final' \in [Children -> Statuses]
        /\ lease' \in [Calls -> {"none", "held", "released"}]
    BY <1>1 DEF DelInv, DelTypes, Stages, Statuses
  <2> QED BY <1>1, <2>1 DEF DelInv, DelTypes
<1>5. ASSUME NEW h \in Children PROVE Fine(h)'
  <2>1. CASE h \in Items(c)
    BY <1>1, <1>2, <2>1, NeverBegins, IdleItems
  <2>2. CASE h \notin Items(c)
    BY <1>1, <1>2, <2>2, OtherItems, {} \subseteq Items(c)
  <2> QED BY <2>1, <2>2
<1>6. CallFine(c)'
  BY <1>1, <1>2 DEF DelInv, CallFine
<1> QED BY <1>1, <1>2, <1>3, <1>4, <1>5, <1>6, CallsRest DEF DelInv

LEMMA BatchBegins ==
  ASSUME Delegates, DelInv, NEW c \in Calls, NEW A \in SUBSET Items(c), DelegateBatch(c, A)
  PROVE  DelInv'
<1>1. /\ Mode[c] = "batch" /\ Acquire(c) /\ parked' = parked \cup A
      /\ UNCHANGED <<child, identity, terminal, closed, kept, drain>>
      /\ holder' = [h \in Children |-> IF h \in A /\ OneShot(h) THEN Reserved ELSE holder[h]]
      /\ pc' = [h \in Children |->
                  IF h \notin Items(c) THEN pc[h] ELSE IF h \in A THEN "starting" ELSE "done"]
      /\ final' = [h \in Children |-> IF h \in Items(c) \ A THEN "failed" ELSE final[h]]
      /\ boundary' = [boundary EXCEPT ![c] = "open"]
      /\ lease[c] = "none" /\ lease' = [lease EXCEPT ![c] = "held"]
  BY DEF DelegateBatch, StartAll, Acquire, Tell
<1>2. Items(c) \subseteq Children /\ A \subseteq Items(c)
  BY DEF Items
<1>3. /\ lease'[c] = "held" /\ boundary'[c] = "open"
      /\ \A d \in Calls \ {c} : lease'[d] = lease[d] /\ boundary'[d] = boundary[d]
  BY <1>1 DEF DelInv, DelTypes
<1>4. DelTypes' /\ Counted'
  <2>1. lease' \in [Calls -> {"none", "held", "released"}] /\ Counted'
    BY <1>1, Acquiring DEF DelInv
  <2>2. /\ pc' \in [Children -> Stages] /\ holder' \in [Children -> Holders]
        /\ final' \in [Children -> Statuses]
        /\ boundary' \in [Calls -> {"none", "open", "grace", "returned"}]
        /\ parked' \subseteq Children
    BY <1>1, <1>2, NewHolders DEF DelInv, DelTypes, Stages, Statuses
  <2> QED BY <1>1, <2>1, <2>2 DEF DelInv, DelTypes
<1>5. ASSUME NEW h \in Children PROVE Fine(h)'
  <2>1. CASE h \in A
    <3>1. /\ h \in Items(c) /\ pc'[h] = "starting" /\ final'[h] = final[h]
          /\ holder'[h] = IF OneShot(h) THEN Reserved ELSE holder[h]
      BY <1>1, <1>2, <2>1
    <3> QED BY <1>1, <1>3, <3>1, BeginsChild
  <2>2. CASE h \in Items(c) \ A
    <3>1. /\ pc'[h] = "done" /\ final'[h] = "failed" /\ holder'[h] = holder[h]
          /\ h \notin parked'
      BY <1>1, <2>2, IdleItems
    <3> QED BY <1>1, <1>3, <2>2, <3>1, NeverBegins
  <2>3. CASE h \notin Items(c)
    <3>1. parked' \ A = parked \ A
      BY <1>1
    <3>2. pc'[h] = pc[h] /\ holder'[h] = holder[h] /\ final'[h] = final[h]
      BY <1>1, <1>2, <2>3
    <3> QED BY <1>1, <1>2, <1>3, <2>3, <3>1, <3>2, OtherItems
  <2> QED BY <2>1, <2>2, <2>3
<1>6. CallFine(c)'
  BY <1>1, <1>3 DEF DelInv, CallFine
<1> QED BY <1>3, <1>4, <1>5, <1>6, CallsRest DEF DelInv

\* A child whose batch ends: its lease is released with it.
LEMMA BatchReleases ==
  ASSUME Delegates, DelInv, NEW c \in Calls, boundary[c] # "none", Release({c})
  PROVE  /\ lease'[c] = "released" /\ \A d \in Calls \ {c} : lease'[d] = lease[d]
         /\ lease' \in [Calls -> {"none", "held", "released"}] /\ Counted'
         /\ Mode[c] = "batch" /\ lease[c] # "none"
         /\ \A h \in Children : LeaseRests(h)
<1>1. Mode[c] = "batch" /\ lease[c] # "none"
  BY DEF DelInv, CallFine
<1>2. lease'[c] = "released" /\ \A d \in Calls \ {c} : lease'[d] = lease[d]
  BY DEF Release
<1>3. \A h \in Children : LeaseRests(h)
  BY <1>1, <1>2 DEF LeaseRests, InBatch, Delegates
<1> QED BY <1>1, <1>2, <1>3, Releasing DEF DelInv

LEMMA BatchReturns ==
  ASSUME Delegates, DelInv, NEW c \in Calls, BatchAll(c)
  PROVE  DelInv'
<1>1. /\ boundary[c] = "open" /\ boundary' = [boundary EXCEPT ![c] = "returned"] /\ Release({c})
      /\ UNCHANGED <<pc, final, holder, child, parked, identity, terminal, closed, kept, drain>>
  BY DEF BatchAll
<1>2. boundary'[c] = "returned" /\ \A d \in Calls \ {c} : boundary'[d] = boundary[d]
  BY <1>1 DEF DelInv, DelTypes
<1>3. DelTypes'
  <2>1. boundary' \in [Calls -> {"none", "open", "grace", "returned"}]
    BY <1>1 DEF DelInv, DelTypes
  <2> QED BY <1>1, <2>1, BatchReleases DEF DelInv, DelTypes
<1>4. ASSUME NEW h \in Children PROVE Fine(h)'
  <2>1. Rests(h)
    BY <1>1, BatchReleases DEF Rests
  <2> QED BY <2>1, RestingChild DEF DelInv
<1>5. CallFine(c)'
  BY <1>1, <1>2, BatchReleases DEF CallFine
<1>6. \A d \in Calls : CallFine(d)'
  BY <1>1, <1>2, <1>5, BatchReleases, CallsRest
<1> QED BY <1>1, <1>3, <1>4, <1>6, BatchReleases DEF DelInv

LEMMA BatchIsCut ==
  ASSUME Delegates, DelInv, NEW c \in Calls, BatchCut(c)
  PROVE  DelInv'
<1> DEFINE U == {h \in Items(c) : final[h] = "none" /\ h \notin terminal}
           T == {h \in Items(c) \cap terminal : final[h] = "none"}
<1>1. /\ boundary[c] = "open" /\ boundary' = [boundary EXCEPT ![c] = "grace"]
      /\ final' = [h \in Children |-> IF h \in T THEN "answer" ELSE final[h]]
      /\ closed' = closed \cup U
      /\ holder' = [h \in Children |-> IF h \in U THEN Settle(holder[h]) ELSE holder[h]]
      /\ UNCHANGED <<budget, pc, child, parked, identity, terminal, kept, drain>>
  BY DEF BatchCut, Tell
<1>2. /\ boundary'[c] = "grace" /\ \A d \in Calls \ {c} : boundary'[d] = boundary[d]
      /\ Mode[c] = "batch" /\ lease[c] # "none" /\ lease' = lease
  BY <1>1 DEF DelInv, DelTypes, CallFine, budget
<1>3. \A h \in Items(c) : /\ h \in Children /\ CallOf[h] = c /\ InBatch(h) /\ OneShot(h)
                          /\ pc[h] # "idle"
  <2> SUFFICES ASSUME NEW h \in Items(c)
               PROVE  /\ h \in Children /\ CallOf[h] = c /\ InBatch(h) /\ OneShot(h)
                      /\ pc[h] # "idle"
    OBVIOUS
  <2>1. h \in Children /\ CallOf[h] = c
    BY DEF Items
  <2> QED BY <1>2, <2>1, ChildFacts DEF Placed, InBatch, OneShot
<1>4. U \subseteq Items(c) /\ T \subseteq Items(c) /\ U \cap T = {}
  OBVIOUS
<1> HIDE DEF U, T
<1>5. DelTypes'
  <2>1. \A h \in Children : Settle(holder[h]) \in Holders
    BY ChildFacts, SettleFields
  <2>2. /\ final' \in [Children -> Statuses] /\ holder' \in [Children -> Holders]
        /\ boundary' \in [Calls -> {"none", "open", "grace", "returned"}]
    BY <1>1, <2>1 DEF DelInv, DelTypes, Statuses
  <2>3. closed' \subseteq Children
    BY <1>1, <1>3, <1>4 DEF DelInv, DelTypes
  <2> QED BY <1>1, <2>2, <2>3 DEF DelInv, DelTypes, budget
<1>6. ASSUME NEW h \in Children PROVE Fine(h)'
  <2>1. CASE h \in U
    <3>1. /\ holder'[h] = Settle(holder[h]) /\ final'[h] = final[h] /\ pc'[h] = pc[h]
          /\ child'[h] = child[h]
      BY <1>1, <1>4, <2>1
    <3>2. OneShot(h) /\ InBatch(h)
      BY <1>3, <1>4, <2>1
    <3> QED BY <1>1, <1>2, <3>1, <3>2, SettledChild
  <2>2. CASE h \in T
    <3>1. /\ holder'[h] = holder[h] /\ final'[h] = "answer" /\ h \notin U
      BY <1>1, <1>4, <2>2
    <3>2. h \in closed' <=> h \in closed
      BY <1>1, <3>1
    <3>3. InBatch(h) /\ pc[h] # "idle" /\ OneShot(h)
      BY <1>3, <1>4, <2>2
    <3>4. /\ pc' = pc /\ child' = child /\ parked' = parked /\ identity' = identity
          /\ kept' = kept
      BY <1>1
    <3>5. Owned(h)'
      BY <1>2, <3>1, <3>4, ChildFacts DEF Owned, OneShot
    <3>6. Placed(h)'
      BY <1>2, <3>1, <3>2, <3>3, <3>4, ChildFacts DEF Placed, OneShot, InBatch, Single
    <3>7. Told(h)'
      BY <1>2, <3>1, <3>3, <3>4, ChildFacts DEF Told, OneShot, InBatch, Single, Lives
    <3> QED BY <3>5, <3>6, <3>7 DEF Fine
  <2>3. CASE h \notin U \cup T
    <3>1. Rests(h)
      BY <1>1, <1>2, <2>3 DEF Rests, LeaseRests
    <3> QED BY <3>1, RestingChild DEF DelInv
  <2> QED BY <2>1, <2>2, <2>3
<1>7. CallFine(c)'
  BY <1>2 DEF CallFine
<1>8. \A d \in Calls : CallFine(d)'
  BY <1>2, <1>7, CallsRest
<1> QED BY <1>1, <1>5, <1>6, <1>8, Counting DEF DelInv

LEMMA BatchGraceIsOver ==
  ASSUME Delegates, DelInv, NEW c \in Calls, BatchGraceEnds(c)
  PROVE  DelInv'
<1> DEFINE G == {h \in Items(c) \cap closed : DidSettle(holder[h])}
           K == Items(c) \cap closed
<1>1. /\ boundary[c] = "grace" /\ boundary' = [boundary EXCEPT ![c] = "returned"] /\ Release({c})
      /\ final' = [h \in Children |-> IF h \in K THEN CutStatus(h) ELSE final[h]]
      /\ identity' = identity \ G
      /\ UNCHANGED <<pc, holder, child, parked, terminal, closed, kept, drain>>
  BY DEF BatchGraceEnds
<1>2. boundary'[c] = "returned" /\ \A d \in Calls \ {c} : boundary'[d] = boundary[d]
  BY <1>1 DEF DelInv, DelTypes
<1>3. DelTypes'
  <2>1. \A h \in Children : CutStatus(h) \in Statuses
    BY DEF CutStatus, Statuses
  <2>2. /\ boundary' \in [Calls -> {"none", "open", "grace", "returned"}]
        /\ final' \in [Children -> Statuses]
    BY <1>1, <2>1 DEF DelInv, DelTypes
  <2> QED BY <1>1, <2>2, BatchReleases DEF DelInv, DelTypes
<1>4. ASSUME NEW h \in Children PROVE Fine(h)'
  <2>1. CASE h \in K
    <3>1. /\ CallOf[h] = c /\ InBatch(h) /\ pc[h] # "idle" /\ ~Single(CallOf[h])
      BY <1>1, <2>1, BatchReleases, ChildFacts DEF Items, InBatch, Placed, Single
    <3>2. /\ final'[h] = "cancel_requested" => holder[h].disp = "done"
          /\ h \in identity' => h \in identity
          /\ h \in identity /\ holder[h].disp # "done" => h \in identity'
      BY <1>1, <2>1 DEF CutStatus, DidSettle, Statuses
    <3>3. /\ pc' = pc /\ child' = child /\ parked' = parked /\ holder' = holder
          /\ kept' = kept /\ closed' = closed /\ lease'[CallOf[h]] # "none"
      BY <1>1, <3>1, BatchReleases
    <3>4. Owned(h)'
      BY <3>3, ChildFacts DEF Owned, OneShot
    <3>5. Placed(h)'
      BY <3>1, <3>2, <3>3, ChildFacts DEF Placed, OneShot, InBatch, Single
    <3>6. Told(h)'
      BY <3>1, <3>2, <3>3, ChildFacts DEF Told, Owned, OneShot, InBatch, Single, Lives
    <3> QED BY <3>4, <3>5, <3>6 DEF Fine
  <2>2. CASE h \notin K
    <3>1. h \notin G
      BY <2>2
    <3>2. Rests(h)
      BY <1>1, <2>2, <3>1, BatchReleases DEF Rests
    <3> QED BY <3>2, RestingChild DEF DelInv
  <2> QED BY <2>1, <2>2
<1>5. CallFine(c)'
  BY <1>1, <1>2, BatchReleases DEF CallFine
<1>6. \A d \in Calls : CallFine(d)'
  BY <1>1, <1>2, <1>5, BatchReleases, CallsRest
<1> QED BY <1>1, <1>3, <1>4, <1>6, BatchReleases DEF DelInv

LEMMA DrainBegins ==
  ASSUME Delegates, DelInv, DrainBegin
  PROVE  DelInv'
<1> DEFINE O == {h \in Children : holder[h].reg}
<1>1. /\ holder' = [h \in Children |-> IF h \in O THEN Settle(holder[h]) ELSE holder[h]]
      /\ drain' = [state |-> "waiting", owned |-> O, unresolved |-> {}]
      /\ UNCHANGED <<budget, flow, child, parked, identity, kept>>
  BY DEF DrainBegin
<1>2. O \subseteq Children /\ \A h \in O : OneShot(h)
  <2>1. ASSUME NEW h \in O PROVE OneShot(h)
    BY ChildFacts, NewHolders DEF Owned
  <2> QED BY <2>1
<1> HIDE DEF O
<1>3. /\ lease' = lease /\ pc' = pc /\ final' = final /\ terminal' = terminal
      /\ closed' = closed /\ boundary' = boundary
  BY <1>1 DEF flow, budget
<1>4. DelTypes'
  <2>1. \A h \in Children : Settle(holder[h]) \in Holders
    BY ChildFacts, SettleFields
  <2>2. /\ holder' \in [Children -> Holders]
        /\ drain' \in [state : {"none", "waiting", "done"}, owned : SUBSET Children,
                       unresolved : SUBSET Children]
    BY <1>1, <1>2, <2>1 DEF DelInv, DelTypes
  <2> QED BY <1>1, <1>3, <2>2 DEF DelInv, DelTypes
<1>5. ASSUME NEW h \in Children PROVE Fine(h)'
  <2>1. CASE h \in O
    <3>1. holder'[h] = Settle(holder[h]) /\ OneShot(h)
      BY <1>1, <1>2, <2>1
    <3> QED BY <1>1, <1>3, <3>1, SettledChild
  <2>2. CASE h \notin O
    <3>1. Rests(h)
      BY <1>1, <1>3, <2>2 DEF Rests, LeaseRests
    <3> QED BY <3>1, RestingChild DEF DelInv
  <2> QED BY <2>1, <2>2
<1>6. \A d \in Calls : CallFine(d)'
  BY <1>3 DEF DelInv, CallFine
<1> QED BY <1>1, <1>4, <1>5, <1>6, Counting DEF DelInv

LEMMA DrainIsOver ==
  ASSUME Delegates, DelInv, DrainEnds
  PROVE  DelInv'
<1> DEFINE C == {CallOf[h] : h \in kept}
<1>1. /\ Release(C) /\ kept' = {}
      /\ pc' = [h \in Children |-> IF h \in kept THEN "done" ELSE pc[h]]
      /\ UNCHANGED <<final, holder, child, parked, identity, terminal, closed, boundary>>
  BY DEF DrainEnds
<1>2. drain' \in [state : {"none", "waiting", "done"}, owned : SUBSET Children,
                  unresolved : SUBSET Children]
  <2> DEFINE R == {h \in drain.owned : holder[h].reg}
  <2>1. /\ drain \in [state : {"none", "waiting", "done"}, owned : SUBSET Children,
                      unresolved : SUBSET Children]
        /\ drain.owned \subseteq Children
    BY DEF DelInv, DelTypes
  <2>2. R \subseteq Children
    BY <2>1
  <2>3. \/ drain' = [drain EXCEPT !.state = "done"]
        \/ drain' = [drain EXCEPT !.state = "done", !.unresolved = R]
    BY DEF DrainEnds
  <2> HIDE DEF R
  <2> QED BY <2>1, <2>2, <2>3
<1>3. kept \subseteq Children /\ \A h \in kept : pc[h] = "kept" /\ ~OneShot(h) /\ ~InBatch(h)
  <2>1. kept \subseteq Children
    BY DEF DelInv, DelTypes
  <2> QED BY <2>1, ChildFacts DEF Placed, OneShot, InBatch
<1>4. \A h \in Children : CallOf[h] \in C <=> h \in kept
  BY <1>3, OnlyChild
<1>5. \A d \in Calls : lease'[d] = IF d \in C THEN "released" ELSE lease[d]
  BY <1>1 DEF Release
<1>6. \A d \in C : Mode[d] # "batch"
  BY <1>3 DEF InBatch
<1> HIDE DEF C
<1>7. /\ lease' \in [Calls -> {"none", "held", "released"}] /\ Counted'
  BY <1>1, Releasing DEF DelInv
<1>8. DelTypes'
  <2>1. pc' \in [Children -> Stages]
    BY <1>1 DEF DelInv, DelTypes, Stages
  <2> QED BY <1>1, <1>2, <1>7, <2>1 DEF DelInv, DelTypes
<1>9. ASSUME NEW h \in Children PROVE Fine(h)'
  <2>1. CASE h \in kept
    <3>1. /\ holder[h] = NoHolder /\ ~OneShot(h) /\ ~InBatch(h) /\ pc[h] = "kept"
          /\ h \notin identity /\ h \notin parked
      BY <1>3, <2>1, ChildFacts, NewHolders DEF Owned, Placed
    <3>2. /\ pc'[h] = "done" /\ lease'[CallOf[h]] = "released"
      BY <1>1, <1>4, <1>5, <2>1, ChildFacts
    <3>3. Owned(h)'
      BY <1>1, <3>1, <3>2, ChildFacts, NewHolders DEF Owned, OneShot
    <3>4. Placed(h)'
      BY <1>1, <3>1, <3>2, ChildFacts DEF Placed, OneShot, InBatch, Single
    <3>5. Told(h)'
      BY <1>1, <3>1, <3>2, ChildFacts, NewHolders DEF Told, OneShot, InBatch, Single, Lives
    <3> QED BY <3>3, <3>4, <3>5 DEF Fine
  <2>2. CASE h \notin kept
    <3>1. lease'[CallOf[h]] = lease[CallOf[h]]
      BY <1>4, <1>5, <2>2, ChildFacts
    <3>2. Rests(h)
      BY <1>1, <2>2, <3>1 DEF Rests, LeaseRests
    <3> QED BY <3>2, RestingChild DEF DelInv
  <2> QED BY <2>1, <2>2
<1>10. \A d \in Calls : CallFine(d)'
  <2> SUFFICES ASSUME NEW d \in Calls PROVE CallFine(d)'
    OBVIOUS
  <2>1. Mode[d] = "batch" => lease'[d] = lease[d]
    BY <1>5, <1>6
  <2> QED BY <1>1, <2>1 DEF DelInv, CallFine
<1> QED BY <1>7, <1>8, <1>9, <1>10 DEF DelInv

---------------------------------------------------------------------------
LEMMA InitDel == Delegates /\ Init => DelInv
<1> SUFFICES ASSUME Delegates, Init PROVE DelInv
  OBVIOUS
<1>1. DelTypes
  BY NewHolders DEF Init, DelTypes, Stages, Statuses
<1>2. Counted
  <2>1. Held(Children) = {}
    BY DEF Init, Held, Delegates
  <2> QED BY <2>1, FS_EmptySet DEF Counted, Init, Delegates
<1>3. ASSUME NEW h \in Children PROVE Fine(h)
  <2>1. /\ lease[CallOf[h]] = "none" /\ pc[h] = "idle" /\ final[h] = "none"
        /\ holder[h] = NoHolder /\ child[h] = "none" /\ h \notin parked /\ h \notin kept
        /\ h \notin identity /\ h \notin closed
    BY DEF Init, Delegates
  <2>2. Owned(h)
    BY <2>1, NewHolders DEF Owned
  <2>3. Placed(h)
    BY <2>1 DEF Placed
  <2>4. Told(h)
    BY <2>1, NewHolders DEF Told, Lives
  <2> QED BY <2>2, <2>3, <2>4 DEF Fine
<1>4. ASSUME NEW c \in Calls PROVE CallFine(c)
  BY DEF Init, CallFine
<1> QED BY <1>1, <1>2, <1>3, <1>4 DEF DelInv

LEMMA NextDel == Delegates /\ DelInv /\ [Next]_vars => DelInv'
<1> SUFFICES ASSUME Delegates, DelInv, [Next]_vars PROVE DelInv'
  OBVIOUS
<1>1. CASE UNCHANGED vars
  <2>1. ASSUME NEW h \in Children PROVE Fine(h)'
    <3>1. Rests(h)
      BY <1>1 DEF vars, Rests, LeaseRests
    <3> QED BY <3>1, RestingChild DEF DelInv
  <2>2. DelTypes' /\ Counted' /\ \A c \in Calls : CallFine(c)'
    BY <1>1 DEF vars, DelInv, DelTypes, Counted, Held, CallFine
  <2> QED BY <2>1, <2>2 DEF DelInv
<1>2. ASSUME NEW c \in Calls,
             \/ Delegate(c) \/ NotStarted(c) \/ Boundary(c)
             \/ \E S \in SUBSET Items(c) : DelegateBatch(c, S)
      PROVE  DelInv'
  BY <1>2, Delegating, NotStarting, BatchBegins, BatchReturns, BatchIsCut, BatchGraceIsOver
     DEF Boundary
<1>3. ASSUME NEW h \in Children, Drive(h) \/ Host(h)
      PROVE  DelInv'
  BY <1>3, ChildStep
<1> QED BY <1>1, <1>2, <1>3, DrainBegins, DrainIsOver DEF Next

LEMMA DelKept ==
  ASSUME Delegates
  PROVE  Spec => []DelInv
BY InitDel, NextDel, PTL DEF Spec

LEMMA DelSays ==
  ASSUME Delegates
  PROVE  DelInv => TypeOK /\ Registered /\ StatusTells /\ IdentityKept /\ SlotsReturned
<1>1. DelInv => TypeOK
  <2> SUFFICES ASSUME DelInv PROVE TypeOK
    OBVIOUS
  <2>1. /\ parked \subseteq {h \in Children : pc[h] = "starting"}
        /\ identity \subseteq {h \in Children : holder[h].run}
        /\ kept \subseteq {h \in Children : pc[h] = "kept"}
    BY ChildFacts DEF DelInv, DelTypes, Placed
  <2> QED BY <2>1 DEF DelInv, DelTypes, Counted, Held, TypeOK
<1>2. DelInv => Registered
  <2> SUFFICES ASSUME DelInv, NEW h \in Children, Lives(h) PROVE holder[h].reg \/ h \in Scoped
    BY DEF Registered
  <2> QED BY ChildFacts DEF Lives, Placed, Owned
<1>3. DelInv => StatusTells
  <2> SUFFICES ASSUME DelInv, NEW h \in Children \ Scoped, Lives(h)
               PROVE  /\ final[h] # "cancel_requested"
                      /\ Single(CallOf[h]) /\ lease[CallOf[h]] = "released" =>
                           final[h] = "cleanup_deferred" \/ holder[h].disp = "failed"
    BY DEF StatusTells
  <2> QED BY ChildFacts DEF Lives, Placed, Owned, Told
<1>4. DelInv => IdentityKept
  <2> SUFFICES ASSUME DelInv, NEW h \in Children
               PROVE  /\ Lives(h) /\ holder[h].run => h \in identity
                      /\ child[h] # "live" /\ pc[h] = "done" => h \notin identity \cup parked
    BY DEF IdentityKept
  <2> QED BY ChildFacts DEF Lives, Placed, Told
<1>5. DelInv => SlotsReturned
  <2> SUFFICES ASSUME DelInv, NEW c \in Calls, lease[c] = "held",
                      boundary[c] \in {"none", "returned"}, \A h \in Items(c) : pc[h] = "done"
               PROVE  \E h \in Items(c) : holder[h].disp = "running"
    BY DEF SlotsReturned
  <2>1. Mode[c] # "batch"
    BY DEF DelInv, CallFine
  <2>2. PICK h \in Children : Items(c) = {h}
    BY <2>1 DEF Delegates
  <2>3. h \in Items(c) /\ CallOf[h] = c /\ pc[h] = "done" /\ ~InBatch(h)
    BY <2>1, <2>2 DEF Items, InBatch
  <2> QED BY <2>3, ChildFacts DEF Told
<1> QED BY <1>1, <1>2, <1>3, <1>4, <1>5

\* A one-shot child that lives has an owner, a slot is free again only when
\* its child is gone or the caller knows, an identity lasts as long as its
\* child, and every slot comes back.
THEOREM Accounted ==
  Delegates => (Spec => [](TypeOK /\ Registered /\ StatusTells /\ IdentityKept /\ SlotsReturned))
<1> SUFFICES ASSUME Delegates
             PROVE  Spec => [](TypeOK /\ Registered /\ StatusTells /\ IdentityKept /\ SlotsReturned)
  OBVIOUS
<1> QED BY DelKept, DelSays, PTL
=============================================================================
