----------------------- MODULE FishPolicyProofs ------------------------
(***************************************************************************)
(* At the end of every dispatch each agent has what its present preset     *)
(* asks for, for any agents and presets: the proof.                        *)
(*                                                                         *)
(* Settled speaks of an empty call stack; its invariant says what each     *)
(* frame of the stack still owes.  Accounted: the registrations in force   *)
(* are those in the hand of the frame that works for the agent, or, where  *)
(* none does, those its policy has noted.  Left: what an agent or a plugin *)
(* that goes away still has is named by the frame that will take it away.  *)
(* Served: an agent of a mounted policy is right, or some frame will see   *)
(* to it: an event or a round it is still ahead of, an install that is     *)
(* under way for its present preset.                                       *)
(***************************************************************************)
EXTENDS FishPolicy, FiniteSetTheorems, SequenceTheorems, TLAPS

NoDup(s) == \A i, j \in 1..Len(s) : s[i] = s[j] => i = j

\* What the proofs need of the constants.
Configured ==
  /\ IsFiniteSet(Agents) /\ "none" \notin Presets
  /\ Stubborn \in [Agents -> {"bash", "prompt", "no"}]
  /\ MaxEvents \in Nat /\ MaxMeddles \in Nat

\* What each policy may register, and the frames of the call stack.
Of(p) == IF p = "fish" THEN {"bash", "prompt", "pfish"} ELSE {"terminals"}
Lefts == {<<"fish", "deny">>, <<"deny">>, <<>>}
EventFrames == [op : {"change", "created", "disposed"}, a : Agents \cup {"none"}, left : Lefts]
RoundFrames == [op : {"round"}, p : P, left : Seq(Agents), catchUp : BOOLEAN]
TeardownFrames == [op : {"teardown"}, p : P, left : Seq(Agents)]
WorkFrames == [op : {"install", "uninstall"}, p : P, a : Agents, key : Presets,
               drops : Seq(Regs), adds : Seq(Regs),
               then : {"probe", "commit", "abandon", "done"}, made : Seq(Regs)]
Frames == EventFrames \cup RoundFrames \cup TeardownFrames \cup WorkFrames

\* The frames by what they are for.
Idx == 1..Len(stack)
Rd(i, p) == stack[i].op = "round" /\ stack[i].p = p
IsWork(i) == stack[i].op \in {"install", "uninstall"}
Wk(i, p, a) == IsWork(i) /\ stack[i].p = p /\ stack[i].a = a
In(i, p, a) == stack[i].op = "install" /\ stack[i].p = p /\ stack[i].a = a
Bottom(op) == stack # <<>> /\ stack[1].op = op
Dying(a) == Bottom("disposed") /\ stack[1].a = a

Typed ==
  /\ preset \in [Agents -> Presets] /\ listed \subseteq Agents /\ known \in BOOLEAN
  /\ mounted \subseteq P /\ regs \in [Agents -> [Regs -> Int]]
  /\ own \in [P -> [Agents -> [key : Presets \cup {"none"}, regs : Seq(Regs)]]]
  /\ live \in [P -> SUBSET Agents] /\ installing \in [P -> SUBSET Agents]
  /\ removed \in [P -> SUBSET Agents]
  /\ reconciling \in [P -> BOOLEAN] /\ again \in [P -> BOOLEAN]
  /\ events \in 0..MaxEvents /\ meddles \in 0..MaxMeddles
  /\ missed \subseteq Agents /\ stack \in Seq(Frames)

\* Which frame stands on which: the host's events at the bottom, an install on its
\* round or on the creation of its agent, an uninstall on what ends its agent or
\* its plugin.
PlacedAt(i) ==
  /\ stack[i].op \in {"created", "disposed", "teardown"} => i = 1
  /\ stack[i].op \in {"created", "disposed"} => stack[i].a \in Agents
  /\ stack[i].op = "created" => stack[i].a \in listed
  /\ stack[i].op = "teardown" => stack[i].p \notin mounted
  /\ stack[i].op = "round" => stack[i].p \in mounted /\ ToSet(stack[i].left) \subseteq listed
  /\ stack[i].op = "install" =>
       /\ stack[i].p \in mounted /\ stack[i].a \in listed /\ stack[i].a \notin removed[stack[i].p]
       /\ i > 1
       /\ \/ Rd(i - 1, stack[i].p)
          \/ i = 2 /\ stack[1].op = "created" /\ stack[1].a = stack[i].a
  /\ stack[i].op = "uninstall" =>
       /\ i = 2
       /\ \/ stack[1].op = "disposed" /\ stack[1].a = stack[i].a /\ stack[i].a \in removed[stack[i].p]
          \/ stack[1].op = "teardown" /\ stack[1].p = stack[i].p
       /\ own[stack[i].p][stack[i].a] = Nothing
Placed == \A i \in Idx : PlacedAt(i)

\* One round of a policy, one piece of work for an agent.
Unique == \A i, j \in Idx :
  /\ \A p \in P : Rd(i, p) /\ Rd(j, p) => i = j
  /\ \A p \in P, a \in Agents : Wk(i, p, a) /\ Wk(j, p, a) => i = j

\* The guards are the frames.
Matched == \A p \in P :
  /\ reconciling[p] <=> \E i \in Idx : Rd(i, p)
  /\ again[p] => reconciling[p]
  /\ \A a \in Agents : a \in installing[p] <=> \E i \in Idx : In(i, p, a)

\* What a preset asks for.
Wants(k) == IF Bash[k] = "persistent" THEN <<"pfish", "bash", "prompt">> ELSE <<"bash", "prompt">>
Sees(k) == Bash[k] # "none" /\ Fish[k]
Swap(k, a) == Sees(k) /\ Stubborn[a] \notin {"bash", "prompt"}

\* A frame at work: what it has made and has still to add is what some preset
\* wants; its own preset's unless that was switched meanwhile, and then it is not
\* the preset it was begun for, or the agent is missed.
ToolsFit(f) ==
  /\ ToSet(f.drops) \subseteq Of(f.p) /\ NoDup(f.drops)
  /\ f.op = "uninstall" <=> f.then = "done"
  /\ f.then = "probe" => f.p = "fish"
  /\ f.then = "commit" => f.drops = <<>> /\ IF f.p = "deny" THEN f.made \o f.adds = <<"terminals">>
                                            ELSE \E k \in Presets : f.made \o f.adds = Wants(k)
  /\ f.then # "commit" => f.made = <<>> /\ f.adds = <<>>
DenyFits(f) == f.p = "deny" =>
  /\ f.then = "commit" /\ f.made # <<>> => known
  /\ f.then = "abandon" => ~known
FishFits(f) == f.p = "fish" /\ f.op = "install" =>
  \/ f.key # preset[f.a] \/ f.a \in missed
  \/ /\ f.key = preset[f.a]
     /\ f.then = "commit" => /\ f.made \o f.adds = Wants(f.key) /\ Sees(f.key)
                             /\ Stubborn[f.a] \notin ToSet(f.made)
     /\ f.then = "abandon" => ~Swap(f.key, f.a)
WorkAt(i) == ToolsFit(stack[i]) /\ DenyFits(stack[i]) /\ FishFits(stack[i])
Working == \A i \in Idx : IsWork(i) => WorkAt(i)

\* What a frame at work has in its hand is in force, once.
Hand(f) == ToSet(f.drops) \cup ToSet(f.made)
Free(p, a) == \A i \in Idx : ~Wk(i, p, a)
Accounted ==
  /\ \A i \in Idx : IsWork(i) => \A r \in Of(stack[i].p) :
       regs[stack[i].a][r] = IF r \in Hand(stack[i]) THEN 1 ELSE 0
  /\ \A p \in P, a \in Agents : Free(p, a) => \A r \in Of(p) :
       regs[a][r] = IF r \in ToSet(own[p][a].regs) THEN 1 ELSE 0

\* What goes away is named by the frame at the bottom.
Leaving(p, a) ==
  /\ p \notin mounted \/ a \notin listed \/ Dying(a) =>
       \/ own[p][a] = Nothing
       \/ Dying(a) /\ p \in mounted /\ p \in ToSet(stack[1].left)
       \/ Bottom("teardown") /\ stack[1].p = p /\ a \in ToSet(stack[1].left)
  /\ Dying(a) /\ p \in mounted => p \in ToSet(stack[1].left) \/ a \in removed[p]
  /\ p = "deny" /\ p \in mounted /\ a \in listed /\ a \in removed[p] => Dying(a)
  /\ a \in removed[p] => own[p][a] = Nothing
  /\ p \in mounted /\ (own[p][a] # Nothing \/ a \in installing[p]) => a \in live[p]
Left == \A p \in P, a \in Agents : Leaving(p, a)

\* What a policy has noted for an agent is whole.
Consistent(o, a) == o.key \in Presets /\ Swap(o.key, a) /\ ToSet(o.regs) = ToSet(Wants(o.key))
OwnAt(p, a) ==
  /\ NoDup(own[p][a].regs) /\ ToSet(own[p][a].regs) \subseteq Of(p)
  /\ p = "fish" /\ own[p][a] # Nothing =>
       /\ \E k \in Presets : ToSet(own[p][a].regs) = ToSet(Wants(k))
       /\ Consistent(own[p][a], a) \/ own[p][a].key # preset[a] \/ a \in missed
  /\ p = "deny" /\ own[p][a] # Nothing => known /\ ToSet(own[p][a].regs) = {"terminals"}
Owning == \A p \in P, a \in Agents : OwnAt(p, a)

\* The install that agent/created asks for is for the present preset, or the agent
\* is missed.
Told(i, p, a) == i # 2 \/ p = "deny" \/ a \in missed \/ stack[i].key = preset[a]
Creating == Bottom("created") =>
  \A i \in Idx, p \in P : In(i, p, stack[1].a) => Told(i, p, stack[1].a)

\* An agent has what it must have, or a frame will see to it, or it is one the
\* policy "fish" does not look at.
Excused(p, a) == p = "fish" /\ (a \in missed \/ a \in removed[p])
Right(p, a) ==
  IF p = "deny" THEN IF known THEN own[p][a] # Nothing ELSE own[p][a] = Nothing
  ELSE IF Swap(preset[a], a) THEN own[p][a].key = preset[a] ELSE own[p][a] = Nothing

DueAt(i, p, a) ==
  \/ /\ stack[i].op = "change" /\ p \in ToSet(stack[i].left)
     /\ \A j \in 1..(i - 1) : Rd(j, p) => ~stack[j].catchUp
  \/ Rd(i, p) /\ (a \in ToSet(stack[i].left) \/ (~stack[i].catchUp /\ again[p]))
  \/ stack[i].op = "created" /\ stack[i].a = a /\ p \in ToSet(stack[i].left)
ServedAt(p, a) ==
  \/ Excused(p, a)
  \/ Dying(a)
  \/ \E i \in Idx : DueAt(i, p, a)
  \/ \E i \in Idx : In(i, p, a) /\ (p = "deny" \/ stack[i].key = preset[a])
  \/ a \notin installing[p] /\ Right(p, a)
Served == \A p \in mounted, a \in listed : ServedAt(p, a)

Inv ==
  /\ Typed /\ Placed /\ Unique /\ Matched /\ Working /\ Accounted
  /\ Left /\ Owning /\ Creating /\ Served

LEMMA Tails ==
  ASSUME NEW R, NEW s \in Seq(R), s # <<>>
  PROVE  /\ Head(s) \in R /\ Tail(s) \in Seq(R)
         /\ ToSet(s) = {Head(s)} \cup ToSet(Tail(s))
         /\ NoDup(s) => NoDup(Tail(s)) /\ Head(s) \notin ToSet(Tail(s))
<1>1. /\ Len(s) \in Nat /\ Len(s) > 0 /\ Head(s) = s[1] /\ Head(s) \in R /\ Tail(s) \in Seq(R)
      /\ Len(Tail(s)) = Len(s) - 1 /\ \A i \in 1..(Len(s) - 1) : Tail(s)[i] = s[i + 1]
  OBVIOUS
<1>2. DOMAIN s = 1..Len(s) /\ DOMAIN Tail(s) = 1..(Len(s) - 1)
  BY <1>1
<1>3. ToSet(s) = {Head(s)} \cup ToSet(Tail(s))
  <2>1. \A x \in ToSet(s) : x \in {Head(s)} \cup ToSet(Tail(s))
    <3>1. SUFFICES ASSUME NEW i \in 1..Len(s), i # 1 PROVE s[i] \in ToSet(Tail(s))
      BY <1>1, <1>2 DEF ToSet
    <3>2. i - 1 \in 1..(Len(s) - 1) /\ Tail(s)[i - 1] = s[i]
      BY <1>1, <3>1
    <3>. QED BY <1>2, <3>2 DEF ToSet
  <2>2. ToSet(Tail(s)) \subseteq ToSet(s)
    BY <1>1, <1>2 DEF ToSet
  <2>3. Head(s) \in ToSet(s)
    BY <1>1, <1>2 DEF ToSet
  <2>. QED BY <2>1, <2>2, <2>3
<1>4. ASSUME NoDup(s) PROVE NoDup(Tail(s)) /\ Head(s) \notin ToSet(Tail(s))
  BY <1>1, <1>2, <1>4 DEF NoDup, ToSet
<1>. QED BY <1>1, <1>3, <1>4

LEMMA Empty == ToSet(<<>>) = {} /\ NoDup(<<>>)
BY DEF ToSet, NoDup

LEMMA Moves ==
  ASSUME NEW F, NEW s \in Seq(F), s # <<>>, NEW f \in F, NEW g \in F
  PROVE  /\ Len(s) \in Nat \ {0} /\ Last(s) = s[Len(s)] /\ Last(s) \in F
         /\ Front(s) \in Seq(F) /\ Len(Front(s)) = Len(s) - 1
         /\ \A i \in 1..(Len(s) - 1) : Front(s)[i] = s[i]
         /\ Append(Front(s), f) \in Seq(F) /\ Len(Append(Front(s), f)) = Len(s)
         /\ \A i \in 1..(Len(s) - 1) : Append(Front(s), f)[i] = s[i]
         /\ Append(Front(s), f)[Len(s)] = f
         /\ Front(s) \o <<f, g>> \in Seq(F) /\ Len(Front(s) \o <<f, g>>) = Len(s) + 1
         /\ \A i \in 1..(Len(s) - 1) : (Front(s) \o <<f, g>>)[i] = s[i]
         /\ (Front(s) \o <<f, g>>)[Len(s)] = f
         /\ (Front(s) \o <<f, g>>)[Len(s) + 1] = g
<1>1. Len(s) \in Nat \ {0} /\ Last(s) = s[Len(s)] /\ Last(s) \in F
  BY DEF Last
<1>2. /\ Front(s) \in Seq(F) /\ Len(Front(s)) = Len(s) - 1
      /\ \A i \in 1..(Len(s) - 1) : Front(s)[i] = s[i]
  <2>1. PICK m \in Int, n \in Int : m = 1 /\ n = Len(s) - 1
    BY <1>1
  <2>2. \A i \in m..n : s[i] \in F
    BY <1>1, <2>1
  <2>3. /\ SubSeq(s, m, n) \in Seq(F)
        /\ Len(SubSeq(s, m, n)) = IF m <= n THEN n - m + 1 ELSE 0
        /\ \A i \in 1..(n - m + 1) : SubSeq(s, m, n)[i] = s[m + i - 1]
    BY <2>2, SubSeqProperties
  <2>4. SubSeq(s, m, n) = Front(s)
    BY <2>1 DEF Front
  <2>. QED BY <1>1, <2>1, <2>3, <2>4
<1>3. /\ Append(Front(s), f) \in Seq(F) /\ Len(Append(Front(s), f)) = Len(s)
      /\ \A i \in 1..(Len(s) - 1) : Append(Front(s), f)[i] = s[i]
      /\ Append(Front(s), f)[Len(s)] = f
  BY <1>1, <1>2
<1>4. <<f, g>> \in Seq(F) /\ Len(<<f, g>>) = 2 /\ <<f, g>>[1] = f /\ <<f, g>>[2] = g
  OBVIOUS
<1>5. /\ Front(s) \o <<f, g>> \in Seq(F) /\ Len(Front(s) \o <<f, g>>) = Len(s) + 1
      /\ \A i \in 1..(Len(s) - 1) : (Front(s) \o <<f, g>>)[i] = s[i]
      /\ (Front(s) \o <<f, g>>)[Len(s)] = f
      /\ (Front(s) \o <<f, g>>)[Len(s) + 1] = g
  BY <1>1, <1>2, <1>4
<1>. QED BY <1>1, <1>2, <1>3, <1>5

LEMMA Reversed ==
  ASSUME NEW R, NEW s \in Seq(R)
  PROVE  Reverse(s) \in Seq(R) /\ ToSet(Reverse(s)) = ToSet(s) /\ (NoDup(s) => NoDup(Reverse(s)))
<1>1. /\ Reverse(s) \in Seq(R) /\ Len(Reverse(s)) = Len(s) /\ Len(s) \in Nat
      /\ \A i \in 1..Len(s) : Reverse(s)[i] = s[Len(s) - i + 1]
  BY DEF Reverse
<1>2. DOMAIN s = 1..Len(s) /\ DOMAIN Reverse(s) = 1..Len(s)
  BY <1>1
<1>3. \A i \in 1..Len(s) : Len(s) - i + 1 \in 1..Len(s) /\ Reverse(s)[Len(s) - i + 1] = s[i]
  BY <1>1
<1>4. ToSet(Reverse(s)) = ToSet(s)
  <2>1. ASSUME NEW i \in 1..Len(s) PROVE s[i] \in ToSet(Reverse(s)) /\ Reverse(s)[i] \in ToSet(s)
    BY <1>1, <1>2, <1>3 DEF ToSet
  <2>. QED BY <1>2, <2>1 DEF ToSet
<1>5. ASSUME NoDup(s), NEW i \in 1..Len(s), NEW j \in 1..Len(s), Reverse(s)[i] = Reverse(s)[j] PROVE i = j
  <2>1. Len(s) - i + 1 \in 1..Len(s) /\ Len(s) - j + 1 \in 1..Len(s)
    BY <1>1
  <2>2. s[Len(s) - i + 1] = s[Len(s) - j + 1]
    BY <1>1, <1>5
  <2>3. Len(s) - i + 1 = Len(s) - j + 1
    BY <1>5, <2>1, <2>2 DEF NoDup
  <2>. QED BY <1>1, <2>3
<1>. QED BY <1>1, <1>4, <1>5 DEF NoDup

LEMMA Appended ==
  ASSUME NEW R, NEW s \in Seq(R), NEW x \in R
  PROVE  /\ Append(s, x) \in Seq(R) /\ Append(s, x) # <<>> /\ ToSet(Append(s, x)) = ToSet(s) \cup {x}
         /\ NoDup(s) /\ x \notin ToSet(s) => NoDup(Append(s, x))
<1>1. /\ Append(s, x) \in Seq(R) /\ Len(Append(s, x)) = Len(s) + 1 /\ Len(s) \in Nat
      /\ \A i \in 1..Len(s) : Append(s, x)[i] = s[i]
      /\ Append(s, x)[Len(s) + 1] = x
      /\ DOMAIN s = 1..Len(s) /\ DOMAIN Append(s, x) = 1..(Len(s) + 1)
  OBVIOUS
<1>2. ToSet(Append(s, x)) = ToSet(s) \cup {x}
  <2>1. \A i \in 1..(Len(s) + 1) : i \in 1..Len(s) \/ i = Len(s) + 1
    BY <1>1
  <2>. QED BY <1>1, <2>1 DEF ToSet
<1>3. ASSUME NoDup(s), x \notin ToSet(s) PROVE NoDup(Append(s, x))
  BY <1>1, <1>3 DEF NoDup, ToSet
<1>. QED BY <1>1, <1>2, <1>3

\* Moving the head of what is to be added to what was made.
LEMMA Shifted ==
  ASSUME NEW R, NEW m \in Seq(R), NEW w \in Seq(R), w # <<>>
  PROVE  /\ Append(m, Head(w)) \o Tail(w) = m \o w
         /\ NoDup(m \o w) => NoDup(m) /\ Head(w) \notin ToSet(m)
<1>1. /\ Len(m) \in Nat /\ Len(w) \in Nat /\ Len(w) > 0 /\ Head(w) = w[1] /\ Head(w) \in R
      /\ Tail(w) \in Seq(R) /\ Len(Tail(w)) = Len(w) - 1
      /\ \A i \in 1..(Len(w) - 1) : Tail(w)[i] = w[i + 1]
      /\ DOMAIN m = 1..Len(m)
  OBVIOUS
<1>2. /\ Append(m, Head(w)) \in Seq(R) /\ Len(Append(m, Head(w))) = Len(m) + 1
      /\ \A i \in 1..Len(m) : Append(m, Head(w))[i] = m[i]
      /\ Append(m, Head(w))[Len(m) + 1] = w[1]
  BY <1>1
<1>3. /\ m \o w \in Seq(R) /\ Len(m \o w) = Len(m) + Len(w)
      /\ \A i \in 1..(Len(m) + Len(w)) : (m \o w)[i] = IF i <= Len(m) THEN m[i] ELSE w[i - Len(m)]
  OBVIOUS
<1>4. DEFINE u == Append(m, Head(w)) \o Tail(w)
<1>5. /\ u \in Seq(R) /\ Len(u) = Len(m) + Len(w)
      /\ \A i \in 1..(Len(m) + Len(w)) :
           u[i] = IF i <= Len(m) + 1 THEN Append(m, Head(w))[i] ELSE Tail(w)[i - Len(m) - 1]
  BY <1>1, <1>2
<1>6. ASSUME NEW i \in 1..(Len(m) + Len(w)) PROVE u[i] = (m \o w)[i]
  <2>1. CASE i <= Len(m)
    BY <1>1, <1>2, <1>3, <1>5, <2>1
  <2>2. CASE i = Len(m) + 1
    BY <1>1, <1>2, <1>3, <1>5, <2>2
  <2>3. CASE i > Len(m) + 1
    <3>1. i - Len(m) - 1 \in 1..(Len(w) - 1) /\ ~(i <= Len(m) + 1) /\ ~(i <= Len(m))
      BY <1>1, <2>3
    <3>2. Tail(w)[i - Len(m) - 1] = w[i - Len(m)]
      BY <1>1, <3>1
    <3>. QED BY <1>3, <1>5, <3>1, <3>2
  <2>. QED BY <1>1, <2>1, <2>2, <2>3
<1>7. u = m \o w
  BY <1>3, <1>5, <1>6
<1>8. ASSUME NoDup(m \o w) PROVE NoDup(m) /\ Head(w) \notin ToSet(m)
  <2>1. NoDup(m)
    BY <1>1, <1>3, <1>8 DEF NoDup
  <2>2. ASSUME NEW i \in 1..Len(m), m[i] = w[1] PROVE FALSE
    <3>1. (m \o w)[i] = m[i] /\ (m \o w)[Len(m) + 1] = w[1]
      BY <1>1, <1>3
    <3>2. i \in 1..Len(m \o w) /\ Len(m) + 1 \in 1..Len(m \o w) /\ i # Len(m) + 1
      BY <1>1, <1>3
    <3>. QED BY <1>8, <2>2, <3>1, <3>2 DEF NoDup
  <2>. QED BY <1>1, <2>1, <2>2 DEF ToSet
<1>. QED BY <1>7, <1>8

LEMMA RollsBack ==
  ASSUME NEW R, "pfish" \in R, NEW m \in Seq(R)
  PROVE  RolledBack(m) \in Seq(R) /\ ToSet(RolledBack(m)) = ToSet(m) /\ (NoDup(m) => NoDup(RolledBack(m)))
<1>1. CASE m # <<>> /\ Head(m) = "pfish"
  <2>1. /\ Tail(m) \in Seq(R) /\ ToSet(m) = {"pfish"} \cup ToSet(Tail(m))
        /\ NoDup(m) => NoDup(Tail(m)) /\ "pfish" \notin ToSet(Tail(m))
    BY <1>1, Tails
  <2>2. /\ Reverse(Tail(m)) \in Seq(R) /\ ToSet(Reverse(Tail(m))) = ToSet(Tail(m))
        /\ NoDup(Tail(m)) => NoDup(Reverse(Tail(m)))
    BY <2>1, Reversed
  <2>3. RolledBack(m) = Append(Reverse(Tail(m)), "pfish")
    BY <1>1 DEF RolledBack
  <2>. QED BY <2>1, <2>2, <2>3, Appended
<1>2. CASE ~(m # <<>> /\ Head(m) = "pfish")
  BY <1>2, Reversed DEF RolledBack
<1>. QED BY <1>1, <1>2

LEMMA Listing ==
  ASSUME NEW S, IsFiniteSet(S)
  PROVE  SetToSeq(S) \in Seq(S) /\ ToSet(SetToSeq(S)) = S
<1>1. Cardinality(S) \in Nat /\ \E f : f \in Bijection(1..Cardinality(S), S)
  BY FS_CardinalityType DEF ExistsBijection
<1>2. PICK f : f \in Bijection(1..Cardinality(S), S)
  BY <1>1
<1>3. f \in [1..Cardinality(S) -> S] /\ IsInjective(f)
  BY <1>2 DEF Bijection, Injection, IsInjective
<1>4. SetToSeq(S) \in [1..Cardinality(S) -> S] /\ IsInjective(SetToSeq(S))
  BY <1>3 DEF SetToSeq
<1>5. SetToSeq(S) \in Injection(1..Cardinality(S), S)
  BY <1>4 DEF Injection
<1>6. IsFiniteSet(1..Cardinality(S)) /\ Cardinality(1..Cardinality(S)) = Cardinality(S)
  BY <1>1, FS_Interval
<1>7. SetToSeq(S) \in Surjection(1..Cardinality(S), S)
  BY <1>5, <1>6, FS_Injection
<1>8. \A x \in S : \E i \in 1..Cardinality(S) : SetToSeq(S)[i] = x
  BY <1>7 DEF Surjection
<1>9. SetToSeq(S) \in Seq(S) /\ DOMAIN SetToSeq(S) = 1..Cardinality(S)
  BY <1>1, <1>4
<1>. QED BY <1>4, <1>8, <1>9 DEF ToSet

LEMMA TwoPolicies == P = {"fish", "deny"}
<1>1. DOMAIN Policies = {1, 2} /\ Policies[1] = "fish" /\ Policies[2] = "deny"
  BY DEF Policies
<1>. QED BY <1>1 DEF P, ToSet

LEMMA Handed ==
  ASSUME NEW l \in Lefts
  PROVE  /\ l # <<>> => /\ Head(l) \in P /\ Tail(l) \in Lefts
                        /\ ToSet(l) = {Head(l)} \cup ToSet(Tail(l)) /\ Head(l) \notin ToSet(Tail(l))
         /\ ToSet(<<>>) = {}
<1>0. ToSet(<<>>) = {}
  BY DEF ToSet
<1>1. CASE l = <<"fish", "deny">>
  <2>1. Head(l) = "fish" /\ Tail(l) = <<"deny">>
    BY <1>1
  <2>2. ToSet(l) = {"fish", "deny"} /\ ToSet(<<"deny">>) = {"deny"}
    BY <1>1 DEF ToSet
  <2>. QED BY <1>0, <2>1, <2>2, TwoPolicies DEF Lefts
<1>2. CASE l = <<"deny">>
  <2>1. Head(l) = "deny" /\ Tail(l) = <<>>
    BY <1>2
  <2>2. ToSet(l) = {"deny"}
    BY <1>2 DEF ToSet
  <2>. QED BY <1>0, <2>1, <2>2, TwoPolicies DEF Lefts
<1>. QED BY <1>0, <1>1, <1>2 DEF Lefts

LEMMA ChangeFrame == Change \in EventFrames /\ Change.op = "change" /\ ToSet(Change.left) = P
  BY DEF Change, Notify, EventFrames, Lefts, Policies, P

\* The frames below are left alone.
Keeps(n) == \A i \in 1..(n - 1) : stack'[i] = stack[i]

---------------------------------------------------------------------------
(* The call stack, one step.                                               *)

LEMMA Kinds ==
  ASSUME NEW f \in Frames
  PROVE  /\ f.op \in {"change", "created", "disposed"} <=> f \in EventFrames
         /\ f.op = "round" <=> f \in RoundFrames
         /\ f.op = "teardown" <=> f \in TeardownFrames
         /\ f.op \in {"install", "uninstall"} <=> f \in WorkFrames
BY DEF Frames, EventFrames, RoundFrames, TeardownFrames, WorkFrames

LEMMA Running ==
  ASSUME Inv, stack # <<>>
  PROVE  /\ Len(stack) \in Nat \ {0} /\ Top = stack[Len(stack)] /\ Top \in Frames
         /\ \A f \in Frames : stack' = Append(Below, f) =>
              /\ stack' \in Seq(Frames) /\ Len(stack') = Len(stack) /\ stack' # <<>>
              /\ Keeps(Len(stack)) /\ stack'[Len(stack)] = f
         /\ \A f, h \in Frames : stack' = Below \o <<f, h>> =>
              /\ stack' \in Seq(Frames) /\ Len(stack') = Len(stack) + 1 /\ stack' # <<>>
              /\ Keeps(Len(stack)) /\ stack'[Len(stack)] = f /\ stack'[Len(stack) + 1] = h
         /\ stack' = Below =>
              /\ stack' \in Seq(Frames) /\ Len(stack') = Len(stack) - 1 /\ Keeps(Len(stack))
<1>1. stack \in Seq(Frames)
  BY DEF Inv, Typed
<1>2. Change \in Frames
  BY ChangeFrame DEF Frames
<1>3. ASSUME NEW f \in Frames, NEW g \in Frames
      PROVE
         /\ Len(stack) \in Nat \ {0} /\ Last(stack) = stack[Len(stack)] /\ Last(stack) \in Frames
         /\ Front(stack) \in Seq(Frames) /\ Len(Front(stack)) = Len(stack) - 1
         /\ \A i \in 1..(Len(stack) - 1) : Front(stack)[i] = stack[i]
         /\ Append(Front(stack), f) \in Seq(Frames) /\ Len(Append(Front(stack), f)) = Len(stack)
         /\ \A i \in 1..(Len(stack) - 1) : Append(Front(stack), f)[i] = stack[i]
         /\ Append(Front(stack), f)[Len(stack)] = f
         /\ Front(stack) \o <<f, g>> \in Seq(Frames) /\ Len(Front(stack) \o <<f, g>>) = Len(stack) + 1
         /\ \A i \in 1..(Len(stack) - 1) : (Front(stack) \o <<f, g>>)[i] = stack[i]
         /\ (Front(stack) \o <<f, g>>)[Len(stack)] = f
         /\ (Front(stack) \o <<f, g>>)[Len(stack) + 1] = g
  BY <1>1, Moves
<1>4. /\ Len(stack) \in Nat \ {0} /\ Top = stack[Len(stack)] /\ Top \in Frames
  BY <1>2, <1>3 DEF Top
<1>5. ASSUME stack' = Below
      PROVE  stack' \in Seq(Frames) /\ Len(stack') = Len(stack) - 1 /\ Keeps(Len(stack))
  BY <1>2, <1>3, <1>5 DEF Below, Keeps
<1>6. ASSUME NEW f \in Frames, stack' = Append(Below, f)
      PROVE  /\ stack' \in Seq(Frames) /\ Len(stack') = Len(stack) /\ stack' # <<>>
             /\ Keeps(Len(stack)) /\ stack'[Len(stack)] = f
  <2>1. /\ stack' \in Seq(Frames) /\ Len(stack') = Len(stack)
        /\ Keeps(Len(stack)) /\ stack'[Len(stack)] = f
    BY <1>3, <1>6 DEF Below, Keeps
  <2>. QED BY <1>4, <2>1
<1>7. ASSUME NEW f \in Frames, NEW h \in Frames, stack' = Below \o <<f, h>>
      PROVE  /\ stack' \in Seq(Frames) /\ Len(stack') = Len(stack) + 1 /\ stack' # <<>>
             /\ Keeps(Len(stack)) /\ stack'[Len(stack)] = f /\ stack'[Len(stack) + 1] = h
  <2>1. /\ stack' \in Seq(Frames) /\ Len(stack') = Len(stack) + 1
        /\ Keeps(Len(stack)) /\ stack'[Len(stack)] = f /\ stack'[Len(stack) + 1] = h
    BY <1>3, <1>7 DEF Below, Keeps
  <2>. QED BY <1>4, <2>1
<1>. QED BY <1>4, <1>5, <1>6, <1>7

\* A frame and what it is when it goes on.
Kin(f, g) ==
  /\ f \in Frames /\ g \in Frames /\ g.op = f.op
  /\ f \in EventFrames => g.a = f.a
  /\ f \in RoundFrames => g.p = f.p /\ g.catchUp = f.catchUp /\ ToSet(g.left) \subseteq ToSet(f.left)
  /\ f \in TeardownFrames => g.p = f.p
  /\ f \in WorkFrames => g.p = f.p /\ g.a = f.a /\ g.key = f.key

LEMMA Kindred ==
  ASSUME NEW n \in Nat \ {0}, NEW f, NEW g, Kin(f, g),
         stack[n] = f, Keeps(n), stack'[n] = g
  PROVE  /\ \A i \in 1..n, p \in P :
              /\ Rd(i, p)' <=> Rd(i, p)
              /\ Rd(i, p) => stack'[i].catchUp = stack[i].catchUp
              /\ \A a \in Agents : /\ Wk(i, p, a)' <=> Wk(i, p, a)
                                   /\ In(i, p, a)' <=> In(i, p, a)
                                   /\ Wk(i, p, a) => stack'[i].key = stack[i].key
         /\ stack'[1].op = stack[1].op
         /\ stack[1].op \in {"created", "disposed"} => stack'[1].a = stack[1].a
         /\ stack[1].op = "teardown" => stack'[1].p = stack[1].p
<1>1. \A i \in 1..n : i \in 1..(n - 1) \/ i = n
  OBVIOUS
<1>2. ASSUME NEW i \in 1..(n - 1), NEW p \in P
      PROVE  /\ Rd(i, p)' <=> Rd(i, p)
             /\ Rd(i, p) => stack'[i].catchUp = stack[i].catchUp
             /\ \A a \in Agents : /\ Wk(i, p, a)' <=> Wk(i, p, a)
                                  /\ In(i, p, a)' <=> In(i, p, a)
                                  /\ Wk(i, p, a) => stack'[i].key = stack[i].key
  BY DEF Rd, Wk, IsWork, In, Keeps
<1>3. ASSUME NEW p \in P
      PROVE  /\ Rd(n, p)' <=> Rd(n, p)
             /\ Rd(n, p) => stack'[n].catchUp = stack[n].catchUp
             /\ \A a \in Agents : /\ Wk(n, p, a)' <=> Wk(n, p, a)
                                  /\ In(n, p, a)' <=> In(n, p, a)
                                  /\ Wk(n, p, a) => stack'[n].key = stack[n].key
  BY Kinds DEF Rd, Wk, IsWork, In, Kin
<1>4. /\ stack'[1].op = stack[1].op
      /\ stack[1].op \in {"created", "disposed"} => stack'[1].a = stack[1].a
      /\ stack[1].op = "teardown" => stack'[1].p = stack[1].p
  <2>1. CASE n = 1
    BY <2>1, Kinds DEF Kin
  <2>2. CASE n # 1
    BY <2>2 DEF Keeps
  <2>. QED BY <2>1, <2>2
<1>. QED BY <1>1, <1>2, <1>3, <1>4

LEMMA Fitted ==
  ASSUME NEW i, NEW g, stack'[i] = g, ToolsFit(g), DenyFits(g), FishFits(g),
         UNCHANGED <<preset, known, missed>>
  PROVE  WorkAt(i)'
<1>1. ToolsFit(stack[i])'
  BY DEF ToolsFit
<1>2. DenyFits(stack[i])'
  BY DEF DenyFits
<1>3. FishFits(stack[i])'
  BY DEF FishFits
<1>. QED BY <1>1, <1>2, <1>3 DEF WorkAt

LEMMA Fits ==
  ASSUME NEW i, stack'[i] = stack[i], WorkAt(i), UNCHANGED <<preset, known, missed>>
  PROVE  WorkAt(i)'
<1>1. PICK g : g = stack[i]
  OBVIOUS
<1>. QED BY <1>1, Fitted DEF WorkAt
LEMMA FitsOn ==
  ASSUME NEW i, stack'[i] = stack[i], WorkAt(i), UNCHANGED <<preset, known>>,
         stack[i].p = "fish" /\ stack[i].a \in missed => stack[i].a \in missed'
  PROVE  WorkAt(i)'
<1>1. PICK f : f = stack[i] /\ stack'[i] = f
  OBVIOUS
<1>2. ToolsFit(f) /\ DenyFits(f) /\ FishFits(f)
  BY <1>1 DEF WorkAt
<1>3. ToolsFit(stack[i])'
  BY <1>1, <1>2 DEF ToolsFit
<1>4. DenyFits(stack[i])'
  BY <1>1, <1>2 DEF DenyFits
<1>5. FishFits(stack[i])'
  BY <1>1, <1>2 DEF FishFits
<1>. QED BY <1>3, <1>4, <1>5 DEF WorkAt


LEMMA Joins ==
  ASSUME NEW R, NEW s \in Seq(R)
  PROVE  <<>> \o s = s /\ s \o <<>> = s
OBVIOUS

\* The frames that work on registrations are the same.
SameWorks ==
  /\ \A i \in Idx : IsWork(i) => i \in Idx' /\ stack'[i] = stack[i]
  /\ \A i \in Idx' : IsWork(i)' => i \in Idx /\ stack'[i] = stack[i]

LEMMA Aside ==
  ASSUME Inv, SameWorks, UNCHANGED <<regs, own, preset, known, missed>>
  PROVE  /\ Working' /\ Accounted'
         /\ \A p \in P, a \in Agents :
              /\ \A i \in Idx' : In(i, p, a)' => i \in Idx /\ In(i, p, a) /\ stack'[i] = stack[i]
              /\ \A i \in Idx : In(i, p, a) => i \in Idx' /\ In(i, p, a)' /\ stack'[i] = stack[i]
              /\ \A i, j \in Idx' : Wk(i, p, a)' /\ Wk(j, p, a)' => i = j
<1>1. Working'
  <2> SUFFICES ASSUME NEW i \in Idx', IsWork(i)' PROVE WorkAt(i)'
    BY DEF Working
  <2>1. i \in Idx /\ stack'[i] = stack[i] /\ IsWork(i)
    BY DEF SameWorks, IsWork
  <2>2. WorkAt(i)
    BY <2>1 DEF Inv, Working
  <2>. QED BY <2>1, <2>2, Fits
<1>2. ASSUME NEW p \in P, NEW a \in Agents
      PROVE  /\ \A i \in Idx' : In(i, p, a)' => i \in Idx /\ In(i, p, a) /\ stack'[i] = stack[i]
             /\ \A i \in Idx : In(i, p, a) => i \in Idx' /\ In(i, p, a)' /\ stack'[i] = stack[i]
             /\ \A i \in Idx' : Wk(i, p, a)' => i \in Idx /\ Wk(i, p, a)
             /\ \A i \in Idx : Wk(i, p, a) => i \in Idx' /\ Wk(i, p, a)'
  BY DEF SameWorks, IsWork, In, Wk
<1>3. Accounted'
  <2>1. \A i \in Idx' : IsWork(i)' => \A r \in Of(stack'[i].p) :
       regs'[stack'[i].a][r] = IF r \in Hand(stack'[i]) THEN 1 ELSE 0
    <3> SUFFICES ASSUME NEW i \in Idx', IsWork(i)' PROVE \A r \in Of(stack'[i].p) :
       regs'[stack'[i].a][r] = IF r \in Hand(stack'[i]) THEN 1 ELSE 0
      OBVIOUS
    <3>1. i \in Idx /\ stack'[i] = stack[i] /\ IsWork(i)
      BY DEF SameWorks, IsWork
    <3>. QED BY <3>1 DEF Inv, Accounted
  <2>2. \A p \in P, a \in Agents : Free(p, a)' => Free(p, a)
    BY <1>2 DEF Free
  <2>. QED BY <2>1, <2>2 DEF Inv, Accounted
<1>. QED BY <1>1, <1>2, <1>3 DEF Inv, Unique

LEMMA Retooled ==
  ASSUME Configured, Inv, NEW n \in Nat \ {0}, NEW f \in WorkFrames, NEW g \in WorkFrames,
         NEW m \in {n, n + 1},
         Len(stack) = n, stack[n] = f,
         g.op = f.op, g.p = f.p, g.a = f.a, g.key = f.key,
         stack # <<>>, stack' # <<>>,
         Len(stack') = m, Keeps(n), stack'[n] = g, m = n + 1 => stack'[n + 1] = Change,
         UNCHANGED <<host, own, live, guards>>
  PROVE  Placed' /\ Unique' /\ Matched' /\ Left' /\ Owning' /\ Creating' /\ Served'
<1>0. /\ Idx = 1..n /\ Idx' = 1..m
      /\ \A i \in 1..m : i \in 1..(n - 1) \/ i = n \/ (i = n + 1 /\ m = n + 1)
      /\ UNCHANGED <<preset, listed, known, mounted, events, meddles, missed, own, live,
                     installing, removed, reconciling, again>>
  BY DEF Idx, host, outer, guards
<1>1. /\ stack'[1].op = stack[1].op
      /\ stack[1].op \in {"created", "disposed"} => stack'[1].a = stack[1].a /\ stack'[1].left = stack[1].left
      /\ stack[1].op = "teardown" => stack'[1].p = stack[1].p /\ stack'[1].left = stack[1].left
  <2>1. CASE n = 1
    BY <2>1 DEF WorkFrames
  <2>2. CASE n # 1
    BY <2>2 DEF Keeps
  <2>. QED BY <2>1, <2>2
<1>2. \A i \in 1..m, p \in P : Rd(i, p)' <=> i \in 1..n /\ Rd(i, p)
  <2>1. ASSUME NEW i \in 1..(n - 1), NEW p \in P PROVE Rd(i, p)' <=> Rd(i, p)
    BY <2>1 DEF Rd, Keeps
  <2>2. ASSUME NEW p \in P PROVE ~Rd(n, p)' /\ ~Rd(n, p)
    BY <2>2 DEF Rd, WorkFrames
  <2>3. ASSUME NEW p \in P, m = n + 1 PROVE ~Rd(n + 1, p)'
    BY <2>3, ChangeFrame DEF Rd
  <2>. QED BY <1>0, <2>1, <2>2, <2>3
<1>3. \A i \in 1..m, p \in P, a \in Agents :
        /\ Wk(i, p, a)' <=> i \in 1..n /\ Wk(i, p, a)
        /\ In(i, p, a)' <=> i \in 1..n /\ In(i, p, a)
  <2>1. ASSUME NEW i \in 1..(n - 1), NEW p \in P, NEW a \in Agents
        PROVE  (Wk(i, p, a)' <=> Wk(i, p, a)) /\ (In(i, p, a)' <=> In(i, p, a))
    BY <2>1 DEF Wk, IsWork, In, Keeps
  <2>2. ASSUME NEW p \in P, NEW a \in Agents
        PROVE  (Wk(n, p, a)' <=> Wk(n, p, a)) /\ (In(n, p, a)' <=> In(n, p, a))
    BY <2>2 DEF Wk, IsWork, In
  <2>3. ASSUME NEW p \in P, NEW a \in Agents, m = n + 1
        PROVE  ~Wk(n + 1, p, a)' /\ ~In(n + 1, p, a)'
    BY <2>3, ChangeFrame DEF Wk, IsWork, In
  <2>. QED BY <1>0, <2>1, <2>2, <2>3
<1>4. Placed'
  <2> SUFFICES ASSUME NEW i \in 1..m PROVE PlacedAt(i)'
    BY <1>0 DEF Placed
  <2>1. CASE i \in 1..(n - 1)
    <3>1. PlacedAt(i)
      BY <1>0, <2>1 DEF Inv, Placed
    <3>. QED BY <1>0, <1>1, <1>2, <2>1, <3>1 DEF PlacedAt, Rd, Keeps
  <2>2. CASE i = n
    <3>1. PlacedAt(n)
      BY <1>0 DEF Inv, Placed
    <3>2. g.op \in {"install", "uninstall"} /\ f.op = g.op
      BY DEF WorkFrames
    <3>3. n > 1 => stack'[n - 1] = stack[n - 1]
      BY DEF Keeps
    <3>. QED BY <1>0, <1>1, <2>2, <3>1, <3>2, <3>3 DEF PlacedAt, Rd
  <2>3. CASE i = n + 1 /\ m = n + 1
    BY <2>3, ChangeFrame DEF PlacedAt
  <2>. QED BY <1>0, <2>1, <2>2, <2>3
<1>5. Unique'
  BY <1>0, <1>2, <1>3 DEF Inv, Unique
<1>6. Matched'
  BY <1>0, <1>2, <1>3 DEF Inv, Matched
<1>7. Left'
  BY <1>0, <1>1 DEF Inv, Left, Leaving, Dying, Bottom
<1>8. Owning'
  BY <1>0 DEF Inv, Owning, OwnAt
<1>9. Creating'
  <2> SUFFICES ASSUME stack'[1].op = "created", NEW i \in 1..m, NEW p \in P, In(i, p, stack[1].a)'
               PROVE  Told(i, p, stack[1].a)'
    BY <1>0, <1>1 DEF Creating, Bottom
  <2>1. stack[1].a \in Agents
    BY <1>0, <1>1 DEF Inv, Placed, PlacedAt
  <2>2. i \in 1..n /\ In(i, p, stack[1].a)
    BY <1>1, <1>3, <2>1
  <2>3. Told(i, p, stack[1].a)
    BY <1>0, <1>1, <2>2 DEF Inv, Creating, Bottom
  <2>4. stack'[i].key = stack[i].key
    BY <1>0, <2>2 DEF Keeps
  <2>. QED BY <1>0, <1>1, <2>3, <2>4 DEF Told
<1>10. Served'
  <2> SUFFICES ASSUME NEW p \in mounted, NEW a \in listed PROVE ServedAt(p, a)'
    BY <1>0 DEF Served
  <2>0. p \in P /\ a \in Agents /\ ServedAt(p, a)
    BY DEF Inv, Typed, Served
  <2>1. CASE Dying(a)
    BY <1>1, <2>1 DEF ServedAt, Dying, Bottom
  <2>2. CASE \E i \in Idx : DueAt(i, p, a)
    <3>1. PICK i \in 1..n : DueAt(i, p, a)
      BY <1>0, <2>2
    <3>2. i # n
      BY <3>1 DEF DueAt, Rd, WorkFrames
    <3>3. DueAt(i, p, a)'
      BY <1>0, <3>1, <3>2 DEF DueAt, Rd, Keeps
    <3>. QED BY <1>0, <3>3 DEF ServedAt
  <2>3. CASE \E i \in Idx : In(i, p, a) /\ (p = "deny" \/ stack[i].key = preset[a])
    <3>1. PICK i \in 1..n : In(i, p, a) /\ (p = "deny" \/ stack[i].key = preset[a])
      BY <1>0, <2>3
    <3>2. In(i, p, a)' /\ (p = "deny" \/ stack'[i].key = preset[a])
      BY <1>0, <1>3, <2>0, <3>1 DEF Keeps
    <3>. QED BY <1>0, <3>2 DEF ServedAt
  <2>4. CASE a \notin installing[p] /\ Right(p, a)
    BY <1>0, <2>4 DEF ServedAt, Right
  <2>5. CASE Excused(p, a)
    BY <1>0, <2>5 DEF ServedAt, Excused
  <2>. QED BY <2>0, <2>1, <2>2, <2>3, <2>4, <2>5 DEF ServedAt
<1>. QED BY <1>4, <1>5, <1>6, <1>7, <1>8, <1>9, <1>10
---------------------------------------------------------------------------
(* The frame on top works on registrations.                                *)

LEMMA Reworked ==
  ASSUME Configured, Inv, NEW n \in Nat \ {0}, NEW f \in WorkFrames, NEW g \in WorkFrames,
         NEW m \in {n, n + 1},
         Len(stack) = n, stack[n] = f,
         g.op = f.op, g.p = f.p, g.a = f.a, g.key = f.key,
         stack # <<>>, stack' # <<>>, stack' \in Seq(Frames),
         Len(stack') = m, Keeps(n), stack'[n] = g, m = n + 1 => stack'[n + 1] = Change,
         UNCHANGED <<host, own, live, guards>>,
         ToolsFit(g), DenyFits(g), FishFits(g), regs' \in [Agents -> [Regs -> Int]],
         \A r \in Of(f.p) : regs'[f.a][r] = IF r \in Hand(g) THEN 1 ELSE 0,
         \A a \in Agents, r \in Regs : a # f.a \/ r \notin Of(f.p) => regs'[a][r] = regs[a][r]
  PROVE  Inv'
<1>1. Placed' /\ Unique' /\ Matched' /\ Left' /\ Owning' /\ Creating' /\ Served'
  BY Retooled
<1>2. /\ Idx = 1..n /\ Idx' = 1..m
      /\ \A i \in 1..m : i \in 1..(n - 1) \/ i = n \/ (i = n + 1 /\ m = n + 1)
      /\ UNCHANGED <<preset, listed, known, mounted, events, meddles, missed, own, live,
                     installing, removed, reconciling, again>>
  BY DEF Idx, host, outer, guards
<1>3. Typed'
  BY <1>2 DEF Inv, Typed
<1>4. ASSUME NEW i \in Idx', IsWork(i)', i # n
      PROVE  i \in Idx /\ i \in 1..(n - 1) /\ IsWork(i) /\ stack'[i] = stack[i]
  <2>1. i # n + 1
    BY <1>2, <1>4, ChangeFrame DEF IsWork
  <2>. QED BY <1>2, <1>4, <2>1 DEF IsWork, Keeps
<1>5. Working'
  <2>0. WorkAt(n)'
    BY <1>2, Fitted
  <2> SUFFICES ASSUME NEW i \in Idx', IsWork(i)', i # n PROVE WorkAt(i)'
    BY <2>0 DEF Working
  <2>1. stack'[i] = stack[i] /\ UNCHANGED <<preset, known, missed>>
    BY <1>2, <1>4
  <2>2. WorkAt(i)
    BY <1>4 DEF Inv, Working
  <2>. QED BY <2>1, <2>2, Fits
<1>6. IsWork(n) /\ n \in Idx /\ n \in Idx' /\ IsWork(n)' /\ f.p \in P /\ f.a \in Agents
  BY <1>2 DEF IsWork, WorkFrames
<1>7. Of("fish") \cap Of("deny") = {} /\ Of("fish") \subseteq Regs /\ Of("deny") \subseteq Regs
  BY DEF Of, Regs
<1>8. Accounted'
  <2>1. ASSUME NEW i \in Idx', IsWork(i)', NEW r \in Of(stack'[i].p)
        PROVE  regs'[stack'[i].a][r] = IF r \in Hand(stack'[i]) THEN 1 ELSE 0
    <3>1. CASE i = n
      BY <2>1, <3>1
    <3>2. CASE i # n
      <4>1. i \in Idx /\ IsWork(i) /\ stack'[i] = stack[i]
        BY <1>4, <2>1, <3>2
      <4>2. regs[stack[i].a][r] = IF r \in Hand(stack[i]) THEN 1 ELSE 0
        BY <2>1, <4>1 DEF Inv, Accounted
      <4>3. stack[i].p \in P /\ stack[i].a \in Agents
        BY <4>1, Kinds DEF Inv, Typed, IsWork, Idx, WorkFrames
      <4>4. stack[i].a # f.a \/ stack[i].p # f.p
        BY <1>6, <3>2, <4>1, <4>3 DEF Inv, Unique, Wk
      <4>5. r \in Regs /\ (stack[i].p # f.p => r \notin Of(f.p))
        BY <1>6, <1>7, <2>1, <4>1, <4>3, TwoPolicies
      <4>6. regs'[stack[i].a][r] = regs[stack[i].a][r]
        BY <4>3, <4>4, <4>5
      <4>. QED BY <4>1, <4>2, <4>6
    <3>. QED BY <3>1, <3>2
  <2>2. ASSUME NEW p \in P, NEW a \in Agents, Free(p, a)', NEW r \in Of(p)
        PROVE  regs'[a][r] = IF r \in ToSet(own'[p][a].regs) THEN 1 ELSE 0
    <3>1. Free(p, a)
      <4> SUFFICES ASSUME NEW i \in Idx, Wk(i, p, a) PROVE Wk(i, p, a)' /\ i \in Idx'
        BY <2>2 DEF Free
      <4>1. CASE i = n
        BY <1>2, <4>1 DEF Wk, IsWork
      <4>2. CASE i # n
        BY <1>2, <4>2 DEF Wk, IsWork, Keeps
      <4>. QED BY <4>1, <4>2
    <3>2. p # f.p \/ a # f.a
      BY <1>6, <3>1 DEF Free, Wk
    <3>3. r \in Regs /\ (p # f.p => r \notin Of(f.p))
      BY <1>6, <1>7, <2>2, TwoPolicies
    <3>4. regs'[a][r] = regs[a][r]
      BY <3>2, <3>3
    <3>. QED BY <1>2, <2>2, <3>1, <3>4 DEF Inv, Accounted
  <2>. QED BY <2>1, <2>2 DEF Accounted
<1>. QED BY <1>1, <1>3, <1>5, <1>8 DEF Inv

LEMMA AtWork ==
  ASSUME Inv, Works
  PROVE  /\ stack # <<>> /\ Len(stack) \in Nat \ {0} /\ Top = stack[Len(stack)]
         /\ Top \in WorkFrames /\ ToolsFit(Top) /\ DenyFits(Top) /\ FishFits(Top)
         /\ PlacedAt(Len(stack)) /\ Len(stack) \in Idx
         /\ IsWork(Len(stack)) /\ Wk(Len(stack), Top.p, Top.a)
         /\ \A r \in Of(Top.p) : regs[Top.a][r] = IF r \in Hand(Top) THEN 1 ELSE 0
<1>1. stack # <<>> /\ Top.op \in {"install", "uninstall"}
  BY DEF Works, Is
<1>2. Len(stack) \in Nat \ {0} /\ Top = stack[Len(stack)] /\ Top \in Frames
  BY <1>1, Running
<1>3. Top \in WorkFrames /\ Len(stack) \in Idx /\ IsWork(Len(stack))
  BY <1>1, <1>2, Kinds DEF Idx, IsWork
<1>4. WorkAt(Len(stack)) /\ PlacedAt(Len(stack))
  BY <1>3 DEF Inv, Working, Placed
<1>. QED BY <1>1, <1>2, <1>3, <1>4 DEF Inv, Accounted, Wk, WorkAt

LEMMA Probed ==
  ASSUME Configured, Inv, Probe
  PROVE  Inv'
<1> DEFINE n == Len(stack)
           f == Top
           g == IF SeesBash(f.a) /\ SeesFish(f.a)
                THEN [f EXCEPT !.adds = Wanted(f.a), !.then = "commit"] ELSE [f EXCEPT !.then = "abandon"]
<1>1. Works /\ f.drops = <<>> /\ f.adds = <<>> /\ f.then = "probe"
  BY DEF Probe, Comes
<1>2. /\ stack # <<>> /\ n \in Nat \ {0} /\ f = stack[n] /\ f \in WorkFrames
      /\ ToolsFit(f) /\ DenyFits(f) /\ FishFits(f) /\ n \in Idx
      /\ \A r \in Of(f.p) : regs[f.a][r] = IF r \in Hand(f) THEN 1 ELSE 0
  BY <1>1, AtWork
<1>3. f.p = "fish" /\ f.op = "install" /\ f.made = <<>> /\ Hand(f) = {} /\ f.a \in Agents
  BY <1>1, <1>2 DEF ToolsFit, WorkFrames, Hand, ToSet
<1>4. preset[f.a] \in Presets /\ regs \in [Agents -> [Regs -> Int]]
  BY <1>3 DEF Inv, Typed
<1>5. regs[f.a]["bash"] = 0 /\ regs[f.a]["pfish"] = 0
  BY <1>2, <1>3 DEF Of
<1>6. (SeesBash(f.a) /\ SeesFish(f.a)) <=> Sees(preset[f.a])
  BY <1>5 DEF SeesBash, SeesFish, Sees
<1>7. Wanted(f.a) = Wants(preset[f.a]) /\ Wanted(f.a) \in Seq(Regs)
  <2>1. <<"pfish", "bash", "prompt">> \in Seq(Regs) /\ <<"bash", "prompt">> \in Seq(Regs)
    BY DEF Regs
  <2>. QED BY <2>1 DEF Wanted, Wants
<1>8. g \in WorkFrames /\ g \in Frames /\ f \in Frames
  BY <1>2, <1>7 DEF WorkFrames, Frames
<1>9. stack' = Append(Below, g)
  BY DEF Probe
<1>10. /\ stack' \in Seq(Frames) /\ Len(stack') = n /\ stack' # <<>>
       /\ Keeps(n) /\ stack'[n] = g
  BY <1>2, <1>8, <1>9, Running
<1>11. UNCHANGED <<host, regs, own, live, guards>>
  BY DEF Probe
<1>12. UNCHANGED <<preset, known, missed>>
  BY <1>11 DEF host, outer
<1>13. ToolsFit(g) /\ DenyFits(g) /\ FishFits(g)
  <2>1. g.op = f.op /\ g.p = f.p /\ g.a = f.a /\ g.key = f.key /\ g.drops = <<>> /\ g.made = <<>>
    BY <1>1, <1>2, <1>3 DEF WorkFrames
  <2>2. ToSet(<<>>) = {} /\ NoDup(<<>>)
    BY DEF ToSet, NoDup
  <2>3. CASE Sees(preset[f.a])
    <3>1. g.then = "commit" /\ g.adds = Wants(preset[f.a])
      BY <1>2, <1>6, <1>7, <2>3 DEF WorkFrames
    <3>2. g.made \o g.adds = Wants(preset[f.a])
      BY <1>7, <2>1, <3>1, Joins
    <3>3. ToSet(g.made) = {} /\ ToSet(g.drops) = {} /\ NoDup(g.drops)
      BY <2>1, <2>2
    <3>4. f.key = preset[f.a] \/ f.a \in missed \/ f.key # preset[f.a]
      BY <1>2, <1>3 DEF FishFits
    <3>. HIDE DEF g
    <3>. QED BY <1>3, <1>4, <2>1, <2>3, <3>1, <3>2, <3>3, <3>4 DEF ToolsFit, DenyFits, FishFits, Sees
  <2>4. CASE ~Sees(preset[f.a])
    <3>1. g.then = "abandon" /\ g.adds = <<>>
      BY <1>1, <1>2, <1>6, <2>4 DEF WorkFrames
    <3>3. ToSet(g.made) = {} /\ ToSet(g.drops) = {} /\ NoDup(g.drops)
      BY <2>1, <2>2
    <3>4. f.key = preset[f.a] \/ f.a \in missed \/ f.key # preset[f.a]
      BY <1>2, <1>3 DEF FishFits
    <3>. HIDE DEF g
    <3>. QED BY <1>3, <1>4, <2>1, <2>4, <3>1, <3>3, <3>4 DEF ToolsFit, DenyFits, FishFits, Swap, Sees
  <2>. QED BY <2>3, <2>4
<1>14. \A r \in Of(f.p) : regs'[f.a][r] = IF r \in Hand(g) THEN 1 ELSE 0
  <2>1. Hand(g) = {}
    BY <1>1, <1>2, <1>3 DEF Hand, WorkFrames, ToSet
  <2>. QED BY <1>2, <1>3, <1>11, <2>1
<1>15. g.op = f.op /\ g.p = f.p /\ g.a = f.a /\ g.key = f.key
  BY <1>2 DEF WorkFrames
<1>. HIDE DEF n, f, g
<1>16. \A a \in Agents, r \in Regs : a # f.a \/ r \notin Of(f.p) => regs'[a][r] = regs[a][r]
  BY <1>11
<1>17. /\ n \in {n, n + 1} /\ Len(stack) = n /\ stack[n] = f /\ f \in WorkFrames /\ g \in WorkFrames
       /\ n \in Nat \ {0} /\ stack # <<>> /\ n # n + 1 /\ regs' \in [Agents -> [Regs -> Int]]
  BY <1>2, <1>4, <1>8, <1>11 DEF n
<1>18. UNCHANGED <<host, own, live, guards>>
  BY <1>11
<1>19. Inv'
  BY <1>10, <1>13, <1>14, <1>15, <1>16, <1>17, <1>18, Reworked
<1>. QED BY <1>19

LEMMA Joined ==
  ASSUME NEW R, NEW m \in Seq(R), NEW w \in Seq(R)
  PROVE  ToSet(m \o w) = ToSet(m) \cup ToSet(w)
<1>1. /\ DOMAIN m = 1..Len(m) /\ DOMAIN w = 1..Len(w) /\ DOMAIN (m \o w) = 1..(Len(m) + Len(w))
      /\ Len(m) \in Nat /\ Len(w) \in Nat
      /\ \A i \in 1..(Len(m) + Len(w)) : (m \o w)[i] = IF i <= Len(m) THEN m[i] ELSE w[i - Len(m)]
  OBVIOUS
<1>2. ASSUME NEW i \in 1..(Len(m) + Len(w)) PROVE (m \o w)[i] \in ToSet(m) \cup ToSet(w)
  <2>1. CASE i <= Len(m)
    BY <1>1, <2>1 DEF ToSet
  <2>2. CASE ~(i <= Len(m))
    <3>1. i - Len(m) \in 1..Len(w)
      BY <1>1, <2>2
    <3>. QED BY <1>1, <2>2, <3>1 DEF ToSet
  <2>. QED BY <2>1, <2>2
<1>3. ASSUME NEW i \in 1..Len(m) PROVE m[i] \in ToSet(m \o w)
  <2>1. i \in 1..(Len(m) + Len(w)) /\ (m \o w)[i] = m[i]
    BY <1>1
  <2>. QED BY <1>1, <2>1 DEF ToSet
<1>4. ASSUME NEW i \in 1..Len(w) PROVE w[i] \in ToSet(m \o w)
  <2>1. i + Len(m) \in 1..(Len(m) + Len(w)) /\ (m \o w)[i + Len(m)] = w[i]
    BY <1>1
  <2>. QED BY <1>1, <2>1 DEF ToSet
<1>5. \A x \in ToSet(m \o w) : x \in ToSet(m) \cup ToSet(w)
  BY <1>1, <1>2 DEF ToSet
<1>6. \A x \in ToSet(m) \cup ToSet(w) : x \in ToSet(m \o w)
  BY <1>1, <1>3, <1>4 DEF ToSet
<1>. QED BY <1>5, <1>6

LEMMA Wanting ==
  /\ \A k : NoDup(Wants(k)) /\ ToSet(Wants(k)) \subseteq Of("fish")
  /\ NoDup(<<"terminals">>) /\ ToSet(<<"terminals">>) = Of("deny")
<1>1. NoDup(<<"terminals">>) /\ ToSet(<<"terminals">>) = Of("deny")
  BY DEF NoDup, ToSet, Of
<1>2. NoDup(<<"bash", "prompt">>) /\ ToSet(<<"bash", "prompt">>) \subseteq Of("fish")
  BY DEF NoDup, ToSet, Of
<1>3. NoDup(<<"pfish", "bash", "prompt">>) /\ ToSet(<<"pfish", "bash", "prompt">>) \subseteq Of("fish")
  BY DEF NoDup, ToSet, Of
<1>. QED BY <1>1, <1>2, <1>3 DEF Wants

\* A frame that still adds: what it has made and what it adds differ.
LEMMA Adding ==
  ASSUME NEW f \in WorkFrames, ToolsFit(f), f.adds # <<>>
  PROVE  /\ f.then = "commit" /\ f.drops = <<>> /\ f.op = "install" /\ Hand(f) = ToSet(f.made)
         /\ Head(f.adds) \in Of(f.p) /\ Head(f.adds) \notin ToSet(f.made) /\ Head(f.adds) \in Regs
         /\ Tail(f.adds) \in Seq(Regs)
         /\ ToSet(f.made) \subseteq Of(f.p) /\ NoDup(f.made)
         /\ Append(f.made, Head(f.adds)) \o Tail(f.adds) = f.made \o f.adds
<1>1. f.adds \in Seq(Regs) /\ f.made \in Seq(Regs) /\ f.p \in P
  BY DEF WorkFrames
<1>2. f.then = "commit" /\ f.drops = <<>>
  BY DEF ToolsFit
<1>3. f.op = "install" /\ Hand(f) = ToSet(f.made)
  BY <1>2 DEF ToolsFit, WorkFrames, Hand, ToSet
<1>4. NoDup(f.made \o f.adds) /\ ToSet(f.made \o f.adds) \subseteq Of(f.p)
  <2>1. CASE f.p = "deny"
    BY <1>2, <2>1, Wanting DEF ToolsFit
  <2>2. CASE f.p # "deny"
    <3>1. f.p = "fish"
      BY <1>1, <2>2, TwoPolicies
    <3>2. PICK k \in Presets : f.made \o f.adds = Wants(k)
      BY <1>2, <2>2 DEF ToolsFit
    <3>. QED BY <3>1, <3>2, Wanting
  <2>. QED BY <2>1, <2>2
<1>5. /\ Head(f.adds) \in Regs /\ Tail(f.adds) \in Seq(Regs)
      /\ ToSet(f.adds) = {Head(f.adds)} \cup ToSet(Tail(f.adds))
  BY <1>1, Tails
<1>6. ToSet(f.made \o f.adds) = ToSet(f.made) \cup ToSet(f.adds)
  BY <1>1, Joined
<1>7. /\ Append(f.made, Head(f.adds)) \o Tail(f.adds) = f.made \o f.adds
      /\ NoDup(f.made) /\ Head(f.adds) \notin ToSet(f.made)
  BY <1>1, <1>4, Shifted
<1>. QED BY <1>2, <1>3, <1>4, <1>5, <1>6, <1>7

LEMMA Added ==
  ASSUME Configured, Inv, Add
  PROVE  Inv'
<1> DEFINE n == Len(stack)
           f == Top
           r == Head(f.adds)
           g == [f EXCEPT !.adds = Tail(@), !.made = Append(@, r)]
<1>1. Works /\ f.adds # <<>> /\ ~Refused(f.a, r)
  BY DEF Add
<1>2. /\ stack # <<>> /\ n \in Nat \ {0} /\ f = stack[n] /\ f \in WorkFrames
      /\ ToolsFit(f) /\ DenyFits(f) /\ FishFits(f)
      /\ \A s \in Of(f.p) : regs[f.a][s] = IF s \in Hand(f) THEN 1 ELSE 0
  BY <1>1, AtWork
<1>3. /\ f.then = "commit" /\ f.drops = <<>> /\ f.op = "install" /\ Hand(f) = ToSet(f.made)
      /\ r \in Of(f.p) /\ r \notin ToSet(f.made) /\ r \in Regs /\ Tail(f.adds) \in Seq(Regs)
      /\ ToSet(f.made) \subseteq Of(f.p) /\ NoDup(f.made)
      /\ Append(f.made, r) \o Tail(f.adds) = f.made \o f.adds
  BY <1>1, <1>2, Adding
<1>4. f.a \in Agents /\ f.p \in P /\ f.made \in Seq(Regs) /\ regs \in [Agents -> [Regs -> Int]]
  BY <1>2 DEF WorkFrames, Inv, Typed
<1>5. Append(f.made, r) \in Seq(Regs) /\ Append(f.made, r) # <<>> /\ ToSet(Append(f.made, r)) = ToSet(f.made) \cup {r}
  BY <1>3, <1>4, Appended
<1>6. /\ g \in WorkFrames /\ g \in Frames /\ f \in Frames
      /\ g.op = f.op /\ g.p = f.p /\ g.a = f.a /\ g.key = f.key /\ g.then = f.then /\ g.drops = f.drops
      /\ g.adds = Tail(f.adds) /\ g.made = Append(f.made, r)
  BY <1>2, <1>3, <1>5 DEF WorkFrames, Frames
<1>7. Change \in Frames /\ stack' = Below \o <<g, Change>>
  BY ChangeFrame DEF Frames, Add
<1>. HIDE DEF g, r
<1>8. /\ stack' \in Seq(Frames) /\ Len(stack') = n + 1 /\ stack' # <<>>
      /\ Keeps(n) /\ stack'[n] = g /\ stack'[n + 1] = Change
  BY <1>2, <1>6, <1>7, Running
<1>9. UNCHANGED <<host, own, live, guards>> /\ UNCHANGED <<preset, known, missed>>
  BY DEF Add, host, outer
<1>10. regs' = [regs EXCEPT ![f.a][r] = @ + 1]
  BY DEF Add, r
<1>11. regs' \in [Agents -> [Regs -> Int]]
  BY <1>3, <1>4, <1>10
<1>12. \A a \in Agents, s \in Regs : a # f.a \/ s # r => regs'[a][s] = regs[a][s]
  BY <1>3, <1>4, <1>10
<1>13. regs'[f.a][r] = 1
  BY <1>2, <1>3, <1>4, <1>10
<1>14. Hand(g) = ToSet(f.made) \cup {r}
  BY <1>3, <1>5, <1>6 DEF Hand, ToSet
<1>15. f.p = "deny" => known
  BY <1>1, <1>3 DEF Of, Refused, r
<1>16. Stubborn[f.a] # r
  BY <1>1 DEF Refused, r
<1>. HIDE DEF f, n
<1>17. ToolsFit(g)
  BY <1>2, <1>3, <1>6 DEF ToolsFit
<1>18. ASSUME NEW s \in Of(f.p) PROVE regs'[f.a][s] = IF s \in Hand(g) THEN 1 ELSE 0
  <2>1. s \in Regs
    BY DEF Of, Regs
  <2>. QED BY <1>2, <1>3, <1>4, <1>12, <1>13, <1>14, <2>1
<1>19. DenyFits(g) /\ FishFits(g)
  <2>1. DenyFits(g)
    BY <1>3, <1>6, <1>15 DEF DenyFits
  <2>2. FishFits(g)
    BY <1>2, <1>3, <1>5, <1>6, <1>16 DEF FishFits
  <2>. QED BY <2>1, <2>2
<1>20. \A a \in Agents, s \in Regs : a # f.a \/ s \notin Of(f.p) => regs'[a][s] = regs[a][s]
  BY <1>3, <1>12
<1>21. \A s \in Of(f.p) : regs'[f.a][s] = IF s \in Hand(g) THEN 1 ELSE 0
  BY <1>18
<1>22. /\ n + 1 \in {n, n + 1} /\ Len(stack) = n /\ stack[n] = f /\ f \in WorkFrames /\ g \in WorkFrames
       /\ n \in Nat \ {0} /\ stack # <<>>
       /\ g.op = f.op /\ g.p = f.p /\ g.a = f.a /\ g.key = f.key
  BY <1>2, <1>6 DEF n
<1>23. Inv'
  BY <1>8, <1>9, <1>11, <1>17, <1>19, <1>20, <1>21, <1>22, Reworked
<1>. QED BY <1>23

LEMMA Refusing ==
  ASSUME Configured, Inv, AddRefused
  PROVE  Inv'
<1> DEFINE n == Len(stack)
           f == Top
           g == [f EXCEPT !.drops = RolledBack(f.made), !.adds = <<>>, !.then = "abandon", !.made = <<>>]
<1>1. Works /\ f.adds # <<>> /\ Refused(f.a, Head(f.adds))
  BY DEF AddRefused
<1>2. /\ stack # <<>> /\ n \in Nat \ {0} /\ f = stack[n] /\ f \in WorkFrames
      /\ ToolsFit(f) /\ DenyFits(f) /\ FishFits(f)
      /\ \A s \in Of(f.p) : regs[f.a][s] = IF s \in Hand(f) THEN 1 ELSE 0
  BY <1>1, AtWork
<1>3. /\ f.then = "commit" /\ f.drops = <<>> /\ f.op = "install" /\ Hand(f) = ToSet(f.made)
      /\ Head(f.adds) \in Of(f.p)
      /\ ToSet(f.made) \subseteq Of(f.p) /\ NoDup(f.made)
  BY <1>1, <1>2, Adding
<1>4. f.a \in Agents /\ f.p \in P /\ f.made \in Seq(Regs) /\ regs \in [Agents -> [Regs -> Int]]
  BY <1>2 DEF WorkFrames, Inv, Typed
<1>5. /\ RolledBack(f.made) \in Seq(Regs) /\ ToSet(RolledBack(f.made)) = ToSet(f.made)
      /\ NoDup(RolledBack(f.made))
  BY <1>3, <1>4, RollsBack DEF Regs
<1>6. /\ g \in WorkFrames /\ g \in Frames /\ f \in Frames
      /\ g.op = f.op /\ g.p = f.p /\ g.a = f.a /\ g.key = f.key /\ g.then = "abandon"
      /\ g.drops = RolledBack(f.made) /\ g.adds = <<>> /\ g.made = <<>>
  <2>1. <<>> \in Seq(Regs)
    OBVIOUS
  <2>2. g \in WorkFrames
    BY <1>2, <1>5, <2>1 DEF WorkFrames
  <2>. QED BY <1>2, <2>2 DEF WorkFrames, Frames
<1>7. stack' = Append(Below, g)
  BY DEF AddRefused
<1>. HIDE DEF g
<1>8. /\ stack' \in Seq(Frames) /\ Len(stack') = n /\ stack' # <<>>
      /\ Keeps(n) /\ stack'[n] = g
  BY <1>2, <1>6, <1>7, Running
<1>9. UNCHANGED <<host, own, live, guards>> /\ UNCHANGED regs
  BY DEF AddRefused
<1>10. Hand(g) = ToSet(f.made)
  BY <1>5, <1>6, Empty DEF Hand
<1>11. f.p = "deny" => ~known
  <2>1. Stubborn[f.a] # "terminals"
    BY <1>4 DEF Configured
  <2>. QED BY <1>1, <1>3, <2>1 DEF Of, Refused
<1>12. f.p = "fish" => Stubborn[f.a] \in {"bash", "prompt"}
  BY <1>1, <1>3, <1>4 DEF Of, Refused, Configured
<1>. HIDE DEF f, n
<1>13. ToolsFit(g)
  BY <1>2, <1>3, <1>5, <1>6 DEF ToolsFit
<1>14. DenyFits(g)
  BY <1>6, <1>11 DEF DenyFits
<1>15. FishFits(g)
  BY <1>2, <1>6, <1>12 DEF FishFits, Swap
<1>16. /\ \A a \in Agents, s \in Regs : a # f.a \/ s \notin Of(f.p) => regs'[a][s] = regs[a][s]
       /\ \A s \in Of(f.p) : regs'[f.a][s] = IF s \in Hand(g) THEN 1 ELSE 0
       /\ regs' \in [Agents -> [Regs -> Int]]
  BY <1>2, <1>3, <1>4, <1>9, <1>10
<1>17. /\ n \in {n, n + 1} /\ Len(stack) = n /\ stack[n] = f /\ f \in WorkFrames /\ g \in WorkFrames
       /\ n \in Nat \ {0} /\ stack # <<>> /\ n # n + 1
       /\ g.op = f.op /\ g.p = f.p /\ g.a = f.a /\ g.key = f.key
  BY <1>2, <1>6 DEF n
<1>18. Inv'
  BY <1>8, <1>9, <1>13, <1>14, <1>15, <1>16, <1>17, Reworked
<1>. QED BY <1>18

LEMMA Dropped ==
  ASSUME Configured, Inv, Drop
  PROVE  Inv'
<1> DEFINE n == Len(stack)
           f == Top
           r == Head(f.drops)
           g == [f EXCEPT !.drops = Tail(@)]
<1>1. Works /\ f.drops # <<>>
  BY DEF Drop
<1>2. /\ stack # <<>> /\ n \in Nat \ {0} /\ f = stack[n] /\ f \in WorkFrames
      /\ ToolsFit(f) /\ DenyFits(f) /\ FishFits(f)
      /\ \A s \in Of(f.p) : regs[f.a][s] = IF s \in Hand(f) THEN 1 ELSE 0
  BY <1>1, AtWork
<1>3. f.a \in Agents /\ f.p \in P /\ f.drops \in Seq(Regs) /\ regs \in [Agents -> [Regs -> Int]]
  BY <1>2 DEF WorkFrames, Inv, Typed
<1>4. /\ f.then # "commit" /\ f.made = <<>> /\ f.adds = <<>> /\ Hand(f) = ToSet(f.drops)
      /\ ToSet(f.drops) \subseteq Of(f.p) /\ NoDup(f.drops)
  BY <1>1, <1>2, Empty DEF ToolsFit, Hand
<1>5. /\ r \in Regs /\ Tail(f.drops) \in Seq(Regs) /\ ToSet(f.drops) = {r} \cup ToSet(Tail(f.drops))
      /\ NoDup(Tail(f.drops)) /\ r \notin ToSet(Tail(f.drops)) /\ r \in Of(f.p)
  BY <1>1, <1>3, <1>4, Tails
<1>6. /\ g \in WorkFrames /\ g \in Frames /\ f \in Frames
      /\ g.op = f.op /\ g.p = f.p /\ g.a = f.a /\ g.key = f.key /\ g.then = f.then
      /\ g.drops = Tail(f.drops) /\ g.adds = f.adds /\ g.made = f.made
  BY <1>2, <1>5 DEF WorkFrames, Frames
<1>7. Change \in Frames /\ stack' = Below \o <<g, Change>>
  BY ChangeFrame DEF Frames, Drop
<1>. HIDE DEF g, r
<1>8. /\ stack' \in Seq(Frames) /\ Len(stack') = n + 1 /\ stack' # <<>>
      /\ Keeps(n) /\ stack'[n] = g /\ stack'[n + 1] = Change
  BY <1>2, <1>6, <1>7, Running
<1>9. UNCHANGED <<host, own, live, guards>>
  BY DEF Drop
<1>10. regs' = [regs EXCEPT ![f.a][r] = @ - 1]
  BY DEF Drop, r
<1>11. regs' \in [Agents -> [Regs -> Int]]
  BY <1>3, <1>5, <1>10
<1>12. \A a \in Agents, s \in Regs : a # f.a \/ s # r => regs'[a][s] = regs[a][s]
  BY <1>3, <1>5, <1>10
<1>13. regs'[f.a][r] = 0
  BY <1>2, <1>3, <1>4, <1>5, <1>10
<1>14. Hand(g) = ToSet(Tail(f.drops))
  BY <1>4, <1>6, Empty DEF Hand
<1>. HIDE DEF f, n
<1>15. ASSUME NEW s \in Of(f.p) PROVE regs'[f.a][s] = IF s \in Hand(g) THEN 1 ELSE 0
  <2>1. s \in Regs
    BY DEF Of, Regs
  <2>. QED BY <1>2, <1>3, <1>4, <1>5, <1>12, <1>13, <1>14, <2>1
<1>16. ToolsFit(g) /\ DenyFits(g) /\ FishFits(g)
  <2>1. ToolsFit(g)
    BY <1>2, <1>4, <1>5, <1>6 DEF ToolsFit
  <2>2. DenyFits(g)
    BY <1>2, <1>6 DEF DenyFits
  <2>3. FishFits(g)
    BY <1>2, <1>4, <1>6 DEF FishFits
  <2>. QED BY <2>1, <2>2, <2>3
<1>17. \A a \in Agents, s \in Regs : a # f.a \/ s \notin Of(f.p) => regs'[a][s] = regs[a][s]
  BY <1>5, <1>12
<1>18. n + 1 \in {n, n + 1} /\ Len(stack) = n
  BY DEF n
<1>19. Inv'
  BY <1>2, <1>6, <1>8, <1>9, <1>11, <1>15, <1>16, <1>17, <1>18, Reworked
<1>. QED BY <1>19

---------------------------------------------------------------------------
(* The frame on top is an event or a round.                                *)

LEMMA Atop ==
  ASSUME Inv, stack # <<>>
  PROVE  /\ Len(stack) \in Nat \ {0} /\ Top = stack[Len(stack)] /\ Top \in Frames
         /\ Len(stack) \in Idx /\ PlacedAt(Len(stack)) /\ Idx = 1..Len(stack)
<1>1. Len(stack) \in Nat \ {0} /\ Top = stack[Len(stack)] /\ Top \in Frames
  BY Running
<1>2. Len(stack) \in Idx /\ Idx = 1..Len(stack)
  BY <1>1 DEF Idx
<1>. QED BY <1>1, <1>2 DEF Inv, Placed

\* What stays when it goes on, whatever it calls.
LEMMA Turned ==
  ASSUME Inv, NEW n \in Nat \ {0}, NEW f \in EventFrames \cup RoundFrames, NEW g, Kin(f, g),
         Len(stack) = n, stack[n] = f, Keeps(n), stack'[n] = g,
         UNCHANGED <<outer, own, removed>>,
         \A p \in P : live[p] \subseteq live'[p] /\ (again[p] => again'[p])
  PROVE  /\ \A i \in 1..n : PlacedAt(i)'
         /\ \A i \in 1..n : /\ IsWork(i)' <=> IsWork(i)
                            /\ IsWork(i) => i # n /\ stack'[i] = stack[i]
         /\ \A i \in 1..n, p \in P, a \in Agents : DueAt(i, p, a) /\ i # n => DueAt(i, p, a)'
         /\ \A i \in 1..n, p \in P, a \in Agents :
              In(i, p, a)' /\ Bottom("created") /\ stack'[1].a = a =>
                i # 2 \/ p = "deny" \/ a \in missed \/ stack'[i].key = preset[a]
         /\ stack'[1].op = stack[1].op
         /\ stack[1].op \in {"created", "disposed"} => stack'[1].a = stack[1].a
<1>0. /\ UNCHANGED <<preset, listed, known, mounted, events, meddles, own, removed>>
      /\ \A i \in 1..n : i \in 1..(n - 1) \/ i = n
      /\ Idx = 1..n /\ stack # <<>>
  BY DEF outer, Idx
<1>1. /\ \A i \in 1..n, p \in P :
              /\ Rd(i, p)' <=> Rd(i, p)
              /\ Rd(i, p) => stack'[i].catchUp = stack[i].catchUp
              /\ \A a \in Agents : /\ Wk(i, p, a)' <=> Wk(i, p, a)
                                   /\ In(i, p, a)' <=> In(i, p, a)
                                   /\ Wk(i, p, a) => stack'[i].key = stack[i].key
      /\ stack'[1].op = stack[1].op
      /\ stack[1].op \in {"created", "disposed"} => stack'[1].a = stack[1].a
      /\ stack[1].op = "teardown" => stack'[1].p = stack[1].p
  BY Kindred
<1>2. f.op \notin {"install", "uninstall", "teardown"} /\ f \in Frames /\ g.op = f.op
  BY Kinds DEF Frames, EventFrames, RoundFrames, Kin
<1>3. ASSUME NEW i \in 1..n PROVE PlacedAt(i)'
  <2>0. PlacedAt(i) /\ stack[i] \in Frames
    BY <1>0 DEF Inv, Placed, Typed
  <2>1. CASE i \in 1..(n - 1)
    <3>1. stack'[i] = stack[i]
      BY <2>1 DEF Keeps
    <3>2. i > 1 => i - 1 \in 1..n
      BY <2>1
    <3>3. stack[i].op \in {"install", "uninstall"} => stack[i].p \in P
      BY <2>0, Kinds DEF WorkFrames
    <3>. QED BY <1>0, <1>1, <2>0, <3>1, <3>2, <3>3 DEF PlacedAt
  <2>2. CASE i = n
    <3>1. stack'[n].op = stack[n].op /\ stack'[n].op \notin {"install", "uninstall", "teardown"}
      BY <1>2
    <3>2. CASE f \in EventFrames
      BY <1>0, <1>2, <2>0, <2>2, <3>1, <3>2, Kinds DEF PlacedAt, Kin, EventFrames
    <3>3. CASE f \in RoundFrames
      BY <1>0, <1>2, <2>0, <2>2, <3>1, <3>3, Kinds DEF PlacedAt, Kin, RoundFrames
    <3>. QED BY <3>2, <3>3
  <2>. QED BY <1>0, <2>1, <2>2
<1>4. ASSUME NEW i \in 1..n
      PROVE  /\ IsWork(i)' <=> IsWork(i)
             /\ IsWork(i) => i # n /\ stack'[i] = stack[i]
  BY <1>0, <1>2 DEF IsWork, Keeps
<1>5. ASSUME NEW i \in 1..n, NEW p \in P, NEW a \in Agents, DueAt(i, p, a), i # n
      PROVE  DueAt(i, p, a)'
  <2>1. i \in 1..(n - 1) /\ stack'[i] = stack[i] /\ \A j \in 1..(i - 1) : j \in 1..n
    BY <1>0, <1>5 DEF Keeps
  <2>. QED BY <1>1, <1>5, <2>1 DEF DueAt
<1>6. ASSUME NEW i \in 1..n, NEW p \in P, NEW a \in Agents, In(i, p, a)', Bottom("created"), stack'[1].a = a
      PROVE  i # 2 \/ p = "deny" \/ a \in missed \/ stack'[i].key = preset[a]
  <2>1. In(i, p, a) /\ stack[1].a = a /\ Wk(i, p, a)
    BY <1>1, <1>6 DEF Bottom, In, Wk, IsWork
  <2>. QED BY <1>0, <1>1, <1>6, <2>1 DEF Inv, Creating, Told
<1>. QED BY <1>1, <1>3, <1>4, <1>5, <1>6

\* It goes on without a call.
LEMMA Passed ==
  ASSUME Inv, NEW n \in Nat \ {0}, NEW f \in EventFrames \cup RoundFrames, NEW g, Kin(f, g),
         Len(stack) = n, stack[n] = f, Keeps(n), stack'[n] = g, stack # <<>>, stack' # <<>>,
         Len(stack') = n, stack' \in Seq(Frames),
         UNCHANGED <<host, own, regs, installing, removed, reconciling>>,
         live' \in [P -> SUBSET Agents], again' \in [P -> BOOLEAN],
         \A p \in P : live[p] \subseteq live'[p] /\ (again[p] => again'[p]) /\ (again'[p] => reconciling[p]),
         f.op = "disposed" => ToSet(f.left) \cap mounted \subseteq ToSet(g.left)
  PROVE  /\ Typed' /\ Placed' /\ Unique' /\ Matched' /\ Working' /\ Accounted'
         /\ Left' /\ Owning' /\ Creating'
<1>0. /\ UNCHANGED <<preset, listed, known, mounted, events, meddles, missed>>
      /\ Idx = 1..n /\ Idx' = 1..n
  BY DEF host, outer, Idx
<1>1. /\ \A i \in 1..n : PlacedAt(i)'
      /\ \A i \in 1..n : /\ IsWork(i)' <=> IsWork(i)
                         /\ IsWork(i) => i # n /\ stack'[i] = stack[i]
      /\ \A i \in 1..n, p \in P, a \in Agents :
              In(i, p, a)' /\ Bottom("created") /\ stack'[1].a = a =>
                i # 2 \/ p = "deny" \/ a \in missed \/ stack'[i].key = preset[a]
      /\ stack'[1].op = stack[1].op
      /\ stack[1].op \in {"created", "disposed"} => stack'[1].a = stack[1].a
  BY <1>0, Turned DEF host
<1>2. Typed'
  BY <1>0 DEF Inv, Typed
<1>3. Placed'
  BY <1>0, <1>1 DEF Placed
<1>4. SameWorks
  BY <1>0, <1>1 DEF SameWorks
<1>5. Working' /\ Accounted'
  BY <1>0, <1>4, Aside
<1>6. \A i \in 1..n, p \in P :
        /\ Rd(i, p)' <=> Rd(i, p)
        /\ \A a \in Agents : (Wk(i, p, a)' <=> Wk(i, p, a)) /\ (In(i, p, a)' <=> In(i, p, a))
  BY Kindred
<1>7. Unique' /\ Matched'
  <2>1. Unique'
    BY <1>0, <1>6 DEF Inv, Unique
  <2>2. Matched'
    BY <1>0, <1>6 DEF Inv, Matched
  <2>. QED BY <2>1, <2>2
<1>8. Left'
  <2> SUFFICES ASSUME NEW p \in P, NEW a \in Agents PROVE Leaving(p, a)'
    BY DEF Left
  <2>1. Leaving(p, a)
    BY DEF Inv, Left
  <2>2. (Dying(a)' <=> Dying(a)) /\ (Bottom("teardown")' <=> Bottom("teardown"))
    BY <1>1 DEF Dying, Bottom
  <2>3. Dying(a) /\ p \in mounted /\ p \in ToSet(stack[1].left) => p \in ToSet(stack'[1].left)
    <3>1. CASE n = 1
      BY <3>1 DEF Dying, Bottom
    <3>2. CASE n # 1
      <4>1. stack'[1] = stack[1]
        BY <3>2 DEF Keeps
      <4>. QED BY <4>1
    <3>. QED BY <3>1, <3>2
  <2>4. Bottom("teardown") => stack'[1] = stack[1]
    <3>1. CASE n = 1
      <4>1. f.op # "teardown"
        BY DEF EventFrames, RoundFrames
      <4>. QED BY <3>1, <4>1 DEF Bottom
    <3>2. CASE n # 1
      BY <3>2 DEF Keeps
    <3>. QED BY <3>1, <3>2
  <2>. QED BY <1>0, <2>1, <2>2, <2>3, <2>4 DEF Leaving
<1>9. Owning'
  BY <1>0 DEF Inv, Owning, OwnAt
<1>10. Creating'
  <2> SUFFICES ASSUME Bottom("created")', NEW i \in 1..n, NEW p \in P, In(i, p, stack[1].a)'
               PROVE  Told(i, p, stack[1].a)'
    BY <1>0 DEF Creating
  <2>1. stack'[1].a \in Agents
    <3>1. PlacedAt(1)'
      BY <1>1
    <3>. QED BY <3>1 DEF PlacedAt, Bottom
  <2>2. Bottom("created")
    BY <1>1 DEF Bottom
  <2>3. PICK a \in Agents : a = stack'[1].a
    BY <2>1
  <2>4. In(i, p, a)'
    BY <2>3 DEF In
  <2>. QED BY <1>0, <1>1, <2>2, <2>3, <2>4 DEF Told
<1>. QED BY <1>2, <1>3, <1>5, <1>7, <1>8, <1>9, <1>10

LEMMA StillServed ==
  ASSUME Inv, NEW n \in Nat \ {0}, NEW f \in EventFrames \cup RoundFrames, NEW g, Kin(f, g),
         Len(stack) = n, stack[n] = f, Keeps(n), stack'[n] = g, NEW m \in {n, n + 1}, Len(stack') = m,
         stack # <<>>, stack' # <<>>,
         UNCHANGED <<outer, own, removed>>,
         \A p \in P : live[p] \subseteq live'[p] /\ (again[p] => again'[p]),
         NEW q \in mounted, NEW b \in listed,
         b \in installing'[q] => b \in installing[q], q = "fish" /\ b \in missed => b \in missed',
         DueAt(n, q, b) => ServedAt(q, b)'
  PROVE  ServedAt(q, b)'
<1>0. /\ UNCHANGED <<preset, listed, known, mounted, own, removed>>
      /\ Idx = 1..n /\ Idx' = 1..m /\ \A i \in 1..n : i \in 1..m
      /\ q \in P /\ b \in Agents
  BY DEF outer, Idx, Inv, Typed
<1>1. /\ \A i \in 1..n, p \in P, a \in Agents : DueAt(i, p, a) /\ i # n => DueAt(i, p, a)'
      /\ stack'[1].op = stack[1].op
      /\ stack[1].op \in {"created", "disposed"} => stack'[1].a = stack[1].a
  BY Turned
<1>2. \A i \in 1..n : /\ In(i, q, b)' <=> In(i, q, b)
                      /\ In(i, q, b) => stack'[i].key = stack[i].key
  <2>1. \A i \in 1..n, p \in P :
           \A a \in Agents : /\ In(i, p, a)' <=> In(i, p, a)
                             /\ Wk(i, p, a) => stack'[i].key = stack[i].key
    BY Kindred
  <2>. QED BY <1>0, <2>1 DEF In, Wk, IsWork
<1>3. ServedAt(q, b)
  BY DEF Inv, Served
<1>4. CASE Dying(b)
  BY <1>1, <1>4 DEF ServedAt, Dying, Bottom
<1>5. CASE \E i \in Idx : DueAt(i, q, b)
  <2>1. PICK i \in 1..n : DueAt(i, q, b)
    BY <1>0, <1>5
  <2>2. CASE i = n
    BY <2>1, <2>2
  <2>3. CASE i # n
    BY <1>0, <1>1, <2>1, <2>3 DEF ServedAt
  <2>. QED BY <2>2, <2>3
<1>6. CASE \E i \in Idx : In(i, q, b) /\ (q = "deny" \/ stack[i].key = preset[b])
  <2>1. PICK i \in 1..n : In(i, q, b) /\ (q = "deny" \/ stack[i].key = preset[b])
    BY <1>0, <1>6
  <2>2. i \in Idx' /\ In(i, q, b)' /\ (q = "deny" \/ stack'[i].key = preset'[b])
    BY <1>0, <1>2, <2>1
  <2>. QED BY <2>2 DEF ServedAt
<1>7. CASE b \notin installing[q] /\ Right(q, b)
  BY <1>0, <1>7 DEF ServedAt, Right
<1>8. CASE Excused(q, b)
  BY <1>0, <1>8 DEF ServedAt, Excused
<1>. QED BY <1>3, <1>4, <1>5, <1>6, <1>7, <1>8 DEF ServedAt

\* An event with one listener less to tell.
LEMMA Tells ==
  ASSUME NEW f \in EventFrames, f.left # <<>>
  PROVE  /\ [f EXCEPT !.left = Tail(@)] \in EventFrames
         /\ Kin(f, [f EXCEPT !.left = Tail(@)])
         /\ [f EXCEPT !.left = Tail(@)].left = Tail(f.left)
         /\ Head(f.left) \in P /\ Tail(f.left) \in Lefts
         /\ ToSet(f.left) = {Head(f.left)} \cup ToSet(Tail(f.left))
         /\ f \notin RoundFrames
<1>1. f.left \in Lefts
  BY DEF EventFrames
<1>2. /\ Head(f.left) \in P /\ Tail(f.left) \in Lefts
      /\ ToSet(f.left) = {Head(f.left)} \cup ToSet(Tail(f.left))
  BY <1>1, Handed
<1>3. [f EXCEPT !.left = Tail(@)] \in EventFrames
  BY <1>2 DEF EventFrames
<1>4. f \notin RoundFrames /\ f \notin TeardownFrames /\ f \notin WorkFrames
  BY DEF EventFrames, RoundFrames, TeardownFrames, WorkFrames
<1>. QED BY <1>2, <1>3, <1>4 DEF Kin, EventFrames, Frames

LEMMA Skipped ==
  ASSUME Configured, Inv, Is("change") \/ Is("created") \/ Is("disposed"),
         Top.left # <<>>, Head(Top.left) \notin mounted, stack' = Append(Below, Heard),
         UNCHANGED <<host, regs, own, live, guards>>
  PROVE  Inv'
<1>0. PICK f : f = Top
  OBVIOUS
<1>1. PICK n : n = Len(stack)
  OBVIOUS
<1>2. PICK g : g = [f EXCEPT !.left = Tail(@)]
  OBVIOUS
<1>3. stack # <<>> /\ n \in Nat \ {0} /\ f = stack[n] /\ f \in Frames
  BY <1>0, <1>1, Atop DEF Is
<1>4. f \in EventFrames
  BY <1>0, <1>3, Kinds DEF Is
<1>5. /\ g \in EventFrames /\ Kin(f, g) /\ g.left = Tail(f.left)
      /\ ToSet(f.left) = {Head(f.left)} \cup ToSet(g.left) /\ f \notin RoundFrames
  BY <1>0, <1>2, <1>4, Tells
<1>6. stack' \in Seq(Frames) /\ Len(stack') = n /\ stack' # <<>> /\ Keeps(n) /\ stack'[n] = g
  BY <1>0, <1>1, <1>2, <1>3, <1>5, Running DEF Heard, Frames
<1>7. /\ UNCHANGED <<installing, removed, reconciling, again, mounted, listed>>
      /\ live \in [P -> SUBSET Agents] /\ again \in [P -> BOOLEAN]
      /\ \A p \in P : again[p] => reconciling[p]
  BY DEF guards, host, outer, Inv, Typed, Matched
<1>8. /\ Typed' /\ Placed' /\ Unique' /\ Matched' /\ Working' /\ Accounted'
      /\ Left' /\ Owning' /\ Creating'
  BY <1>0, <1>1, <1>3, <1>4, <1>5, <1>6, <1>7, Passed
<1>9. Served'
  <2> SUFFICES ASSUME NEW q \in mounted, NEW b \in listed PROVE ServedAt(q, b)'
    BY <1>7 DEF Served
  <2>1. ASSUME DueAt(n, q, b) PROVE ServedAt(q, b)'
    <3>1. q \in ToSet(g.left)
      BY <1>0, <1>3, <1>4, <1>5, <2>1 DEF DueAt, Rd, EventFrames
    <3>2. \A j \in 1..(n - 1) : stack'[j] = stack[j]
      BY <1>6 DEF Keeps
    <3>3. DueAt(n, q, b)'
      <4>1. g.op = f.op /\ g.a = f.a /\ f.op # "round"
        BY <1>4, <1>5 DEF Kin, EventFrames
      <4>2. stack[n].op = stack'[n].op /\ stack[n].a = stack'[n].a /\ stack[n].op # "round" /\ stack'[n].left = g.left
        BY <1>3, <1>6, <4>1
      <4>3. CASE stack[n].op = "change"
        <5>1. \A j \in 1..(n - 1) : Rd(j, q) => ~stack[j].catchUp
          BY <2>1, <4>3 DEF DueAt, Rd
        <5>2. \A j \in 1..(n - 1) : Rd(j, q)' => ~stack'[j].catchUp
          BY <3>2, <5>1 DEF Rd
        <5>. QED BY <3>1, <4>2, <4>3, <5>2 DEF DueAt
      <4>4. CASE stack[n].op # "change"
        BY <2>1, <3>1, <4>2, <4>4 DEF DueAt, Rd
      <4>. QED BY <4>3, <4>4
    <3>. QED BY <1>3, <1>6, <3>3 DEF ServedAt, Idx
  <2>2. /\ UNCHANGED <<outer, own, removed>> /\ (q = "fish" /\ b \in missed => b \in missed')
        /\ \A p \in P : live[p] \subseteq live'[p] /\ (again[p] => again'[p])
    BY DEF host, guards
  <2>. QED BY <1>1, <1>3, <1>4, <1>5, <1>6, <1>7, <2>1, <2>2, StillServed
<1>. QED BY <1>8, <1>9 DEF Inv

---------------------------------------------------------------------------
(* The frame on top returns.                                               *)

LEMMA Shrunk ==
  ASSUME Inv, NEW n \in Nat \ {0}, Len(stack) = n, Len(stack') = n - 1, Keeps(n), stack # <<>>,
         stack' \in Seq(Frames)
  PROVE  /\ Idx = 1..n /\ Idx' = 1..(n - 1) /\ \A i \in Idx' : i \in Idx /\ i # n /\ stack'[i] = stack[i]
         /\ \A i \in Idx : i = n \/ i \in Idx'
         /\ \A i \in Idx', p \in P :
              /\ Rd(i, p)' <=> Rd(i, p)
              /\ \A a \in Agents : (Wk(i, p, a)' <=> Wk(i, p, a)) /\ (In(i, p, a)' <=> In(i, p, a))
         /\ \A i \in Idx' : IsWork(i)' <=> IsWork(i)
         /\ n = 1 => stack' = <<>>
         /\ n > 1 => stack' # <<>> /\ stack'[1] = stack[1] /\ 1 \in Idx'
<1>1. Idx = 1..n /\ Idx' = 1..(n - 1)
  BY DEF Idx
<1>2. \A i \in 1..(n - 1) : i \in 1..n /\ i # n /\ stack'[i] = stack[i]
  BY DEF Keeps
<1>3. \A i \in 1..(n - 1), p \in P :
        /\ Rd(i, p)' <=> Rd(i, p)
        /\ \A a \in Agents : (Wk(i, p, a)' <=> Wk(i, p, a)) /\ (In(i, p, a)' <=> In(i, p, a))
  BY <1>2 DEF Rd, Wk, In, IsWork
<1>4. \A i \in 1..(n - 1) : IsWork(i)' <=> IsWork(i)
  BY <1>2 DEF IsWork
<1>5. n = 1 => stack' = <<>>
  OBVIOUS
<1>6. n > 1 => 1 \in 1..(n - 1)
  OBVIOUS
<1>7. n > 1 => stack' # <<>>
  OBVIOUS
<1>. QED BY <1>1, <1>2, <1>3, <1>4, <1>5, <1>6, <1>7

LEMMA Pops ==
  ASSUME Inv, stack # <<>>, stack' = Below
  PROVE  /\ Len(stack) \in Nat \ {0} /\ Len(stack') = Len(stack) - 1 /\ Keeps(Len(stack))
         /\ stack' \in Seq(Frames) /\ Top = stack[Len(stack)] /\ Top \in Frames
         /\ Len(stack) \in Idx /\ PlacedAt(Len(stack))
BY Running, Atop

\* What was never more than a place in the call stack leaves nothing behind.
LEMMA Returned ==
  ASSUME Inv, NEW n \in Nat \ {0}, NEW f \in EventFrames \cup RoundFrames \cup TeardownFrames,
         Len(stack) = n, stack[n] = f, Len(stack') = n - 1, Keeps(n), stack # <<>>,
         stack' \in Seq(Frames),
         UNCHANGED <<preset, known, mounted, events, meddles, missed, own, regs, installing, removed>>,
         UNCHANGED listed \/ n = 1,
         f \notin RoundFrames => UNCHANGED <<reconciling, again>>,
         f \in RoundFrames => /\ reconciling' = [reconciling EXCEPT ![f.p] = FALSE]
                              /\ again' = [again EXCEPT ![f.p] = FALSE],
         listed' \subseteq listed, live' \in [P -> SUBSET Agents]
  PROVE  Typed' /\ Placed' /\ Unique' /\ Matched' /\ Working' /\ Accounted' /\ Owning' /\ Creating'
<1>1. /\ Idx = 1..n /\ Idx' = 1..(n - 1) /\ \A i \in Idx' : i \in Idx /\ i # n /\ stack'[i] = stack[i]
      /\ \A i \in Idx : i = n \/ i \in Idx'
      /\ \A i \in Idx', p \in P :
              /\ Rd(i, p)' <=> Rd(i, p)
              /\ \A a \in Agents : (Wk(i, p, a)' <=> Wk(i, p, a)) /\ (In(i, p, a)' <=> In(i, p, a))
      /\ \A i \in Idx' : IsWork(i)' <=> IsWork(i)
      /\ n > 1 => stack' # <<>> /\ stack'[1] = stack[1] /\ 1 \in Idx'
  BY Shrunk
<1>2. f \in Frames /\ f.op \notin {"install", "uninstall"} /\ (f \in RoundFrames => f.p \in P)
  BY DEF Frames, EventFrames, RoundFrames, TeardownFrames
<1>3. ~IsWork(n) /\ \A p \in P, a \in Agents : ~In(n, p, a)
  BY <1>2 DEF IsWork, In
<1>4. Typed'
  <2>1. listed' \subseteq Agents /\ reconciling' \in [P -> BOOLEAN] /\ again' \in [P -> BOOLEAN]
    BY <1>2 DEF Inv, Typed
  <2>. QED BY <2>1 DEF Inv, Typed
<1>5. Placed'
  <2> SUFFICES ASSUME NEW i \in Idx' PROVE PlacedAt(i)'
    BY DEF Placed
  <2>1. PlacedAt(i) /\ UNCHANGED listed
    BY <1>1 DEF Inv, Placed
  <2>2. stack'[i] = stack[i] /\ stack'[1] = stack[1] /\ (i > 1 => i - 1 \in Idx')
    BY <1>1
  <2>3. stack[i].op = "install" => (Rd(i - 1, stack[i].p)' <=> Rd(i - 1, stack[i].p)) \/ i = 1
    BY <1>1, <2>2 DEF Rd
  <2>. QED BY <2>1, <2>2, <2>3 DEF PlacedAt, Rd
<1>6. Unique'
  BY <1>1 DEF Inv, Unique
<1>7. Matched'
  <2> SUFFICES ASSUME NEW p \in P
               PROVE  /\ reconciling'[p] <=> \E i \in Idx' : Rd(i, p)'
                      /\ again'[p] => reconciling'[p]
                      /\ \A a \in Agents : a \in installing'[p] <=> \E i \in Idx' : In(i, p, a)'
    BY DEF Matched
  <2>0. /\ reconciling[p] <=> \E i \in Idx : Rd(i, p)
        /\ again[p] => reconciling[p]
        /\ \A a \in Agents : a \in installing[p] <=> \E i \in Idx : In(i, p, a)
    BY DEF Inv, Matched
  <2>1. \A a \in Agents : a \in installing'[p] <=> \E i \in Idx' : In(i, p, a)'
    BY <1>1, <1>3, <2>0
  <2>2. CASE f \in RoundFrames /\ p = f.p
    <3>1. Rd(n, p) /\ n \in Idx
      BY <1>1, <2>2 DEF Rd, RoundFrames
    <3>2. ~\E i \in Idx' : Rd(i, p)'
      BY <1>1, <3>1 DEF Inv, Unique
    <3>3. ~reconciling'[p] /\ ~again'[p]
      BY <1>2, <2>2 DEF Inv, Typed
    <3>. QED BY <2>1, <3>2, <3>3
  <2>3. CASE ~(f \in RoundFrames /\ p = f.p)
    <3>1. ~Rd(n, p)
      BY <1>2, <2>3, Kinds DEF Rd
    <3>2. reconciling'[p] = reconciling[p] /\ again'[p] = again[p]
      BY <1>2, <2>3 DEF Inv, Typed
    <3>. QED BY <1>1, <2>0, <2>1, <3>1, <3>2
  <2>. QED BY <2>2, <2>3
<1>8. Working' /\ Accounted'
  <2>1. SameWorks
    BY <1>1, <1>3 DEF SameWorks
  <2>. QED BY <2>1, Aside
<1>9. Owning'
  BY DEF Inv, Owning, OwnAt
<1>10. Creating'
  <2> SUFFICES ASSUME Bottom("created")', NEW i \in Idx', NEW p \in P, In(i, p, stack[1].a)'
               PROVE  Told(i, p, stack[1].a)'
    BY DEF Creating
  <2>1. n > 1 /\ stack'[1] = stack[1] /\ Bottom("created") /\ stack'[i] = stack[i] /\ i \in Idx
    BY <1>1 DEF Bottom
  <2>2. In(i, p, stack[1].a)
    BY <2>1 DEF In
  <2>. QED BY <2>1, <2>2 DEF Inv, Creating, Told
<1>. QED BY <1>4, <1>5, <1>6, <1>7, <1>8, <1>9, <1>10

LEMMA Rested ==
  ASSUME Inv, NEW n \in Nat \ {0}, NEW f \in EventFrames \cup RoundFrames \cup TeardownFrames,
         Len(stack) = n, stack[n] = f, Len(stack') = n - 1, Keeps(n), stack # <<>>,
         stack' \in Seq(Frames),
         UNCHANGED <<preset, known, mounted, missed, own, installing, removed>>,
         f \notin RoundFrames => UNCHANGED again,
         f \in RoundFrames => again' = [again EXCEPT ![f.p] = FALSE],
         NEW q \in mounted, NEW b \in listed, ~DueAt(n, q, b), n = 1 => ~Dying(b)
  PROVE  ServedAt(q, b)'
<1>1. /\ Idx = 1..n /\ Idx' = 1..(n - 1) /\ \A i \in Idx' : i \in Idx /\ i # n /\ stack'[i] = stack[i]
      /\ \A i \in Idx : i = n \/ i \in Idx'
      /\ \A i \in Idx', p \in P :
              /\ Rd(i, p)' <=> Rd(i, p)
              /\ \A a \in Agents : (Wk(i, p, a)' <=> Wk(i, p, a)) /\ (In(i, p, a)' <=> In(i, p, a))
      /\ n > 1 => stack' # <<>> /\ stack'[1] = stack[1] /\ 1 \in Idx'
  BY Shrunk
<1>2. f \in Frames /\ f.op \notin {"install", "uninstall"}
  BY DEF Frames, EventFrames, RoundFrames, TeardownFrames
<1>3. q \in P /\ b \in Agents /\ ServedAt(q, b)
  BY DEF Inv, Typed, Served
<1>4. CASE Dying(b)
  BY <1>1, <1>4 DEF ServedAt, Dying, Bottom
<1>5. CASE \E i \in Idx : DueAt(i, q, b)
  <2>1. PICK i \in Idx : DueAt(i, q, b)
    BY <1>5
  <2>2. i # n /\ i \in Idx' /\ stack'[i] = stack[i] /\ (Rd(i, q)' <=> Rd(i, q))
    BY <1>1, <1>3, <2>1
  <2>3. \A j \in 1..(i - 1) : j \in Idx' /\ stack'[j] = stack[j] /\ (Rd(j, q)' <=> Rd(j, q))
    BY <1>1, <1>3, <2>2
  <2>4. Rd(i, q) => again'[q] = again[q]
    <3>1. CASE f \in RoundFrames
      <4>1. Rd(i, q) => f.p # q
        BY <1>1, <1>3, <2>2, <3>1 DEF Inv, Unique, Rd, RoundFrames
      <4>. QED BY <3>1, <4>1, <1>3 DEF Inv, Typed
    <3>2. CASE f \notin RoundFrames
      BY <3>2
    <3>. QED BY <3>1, <3>2
  <2>5. DueAt(i, q, b)'
    BY <2>1, <2>2, <2>3, <2>4 DEF DueAt
  <2>. QED BY <2>2, <2>5 DEF ServedAt
<1>6. CASE \E i \in Idx : In(i, q, b) /\ (q = "deny" \/ stack[i].key = preset[b])
  <2>1. PICK i \in Idx : In(i, q, b) /\ (q = "deny" \/ stack[i].key = preset[b])
    BY <1>6
  <2>2. i # n
    BY <1>2, <2>1 DEF In
  <2>3. i \in Idx' /\ In(i, q, b)' /\ (q = "deny" \/ stack'[i].key = preset'[b])
    BY <1>1, <1>3, <2>1, <2>2
  <2>. QED BY <2>3 DEF ServedAt
<1>7. CASE b \notin installing[q] /\ Right(q, b)
  BY <1>7 DEF ServedAt, Right
<1>8. CASE Excused(q, b)
  BY <1>8 DEF ServedAt, Excused
<1>. QED BY <1>3, <1>4, <1>5, <1>6, <1>7, <1>8 DEF ServedAt

LEMMA Ended ==
  ASSUME Configured, Inv, Is("change") \/ Is("created") \/ Is("disposed"),
         Top.left = <<>>, stack' = Below,
         listed' = IF Is("disposed") THEN listed \ {Top.a} ELSE listed,
         UNCHANGED <<preset, known, mounted, events, meddles, missed, regs, own, live, guards>>
  PROVE  Inv'
<1>0. PICK f : f = Top
  OBVIOUS
<1>1. PICK n : n = Len(stack)
  OBVIOUS
<1>2. stack # <<>>
  BY DEF Is
<1>3. /\ n \in Nat \ {0} /\ Len(stack') = n - 1 /\ Keeps(n) /\ f = stack[n] /\ f \in Frames
      /\ stack' \in Seq(Frames) /\ n \in Idx /\ PlacedAt(n)
  BY <1>0, <1>1, <1>2, Pops
<1>4. f \in EventFrames
  BY <1>0, <1>3, Kinds DEF Is
<1>5. f \notin RoundFrames /\ f.op \notin {"round", "teardown"}
  BY <1>4 DEF EventFrames, RoundFrames
<1>6. UNCHANGED <<installing, removed, reconciling, again, mounted, own, live>> /\ live \in [P -> SUBSET Agents]
  BY DEF guards, Inv, Typed
<1>7. f.op = "disposed" => n = 1 /\ Dying(f.a) /\ f.a \in Agents /\ listed' = listed \ {f.a}
  BY <1>0, <1>2, <1>3 DEF PlacedAt, Dying, Bottom, Is
<1>8. f.op # "disposed" => UNCHANGED listed
  BY <1>0 DEF Is
<1>9. /\ Typed' /\ Placed' /\ Unique' /\ Matched' /\ Working' /\ Accounted' /\ Owning' /\ Creating'
  BY <1>1, <1>2, <1>3, <1>4, <1>5, <1>6, <1>7, <1>8, Returned
<1>10. f.op # "disposed" /\ n = 1 => \A a : ~Dying(a)
  BY <1>3 DEF Dying, Bottom
<1>11. n = 1 => ~Bottom("teardown")
  BY <1>3, <1>5 DEF Bottom
<1>12. /\ n = 1 => stack' = <<>>
       /\ n > 1 => stack' # <<>> /\ stack'[1] = stack[1]
  BY <1>1, <1>2, <1>3, Shrunk
<1>13. Left'
  <2> SUFFICES ASSUME NEW p \in P, NEW a \in Agents PROVE Leaving(p, a)'
    BY DEF Left
  <2>1. Leaving(p, a)
    BY DEF Inv, Left
  <2>2. CASE n > 1
    <3>1. (Dying(a)' <=> Dying(a)) /\ (Bottom("teardown")' <=> Bottom("teardown")) /\ UNCHANGED listed
      BY <1>2, <1>7, <1>8, <1>12, <2>2 DEF Dying, Bottom
    <3>. QED BY <1>6, <1>12, <2>1, <2>2, <3>1 DEF Leaving
  <2>3. CASE n = 1
    <3>1. ~Dying(a)' /\ ~Bottom("teardown")'
      BY <1>12, <2>3 DEF Dying, Bottom
    <3>2. CASE f.op # "disposed"
      BY <1>6, <1>8, <1>10, <1>11, <2>1, <2>3, <3>1, <3>2 DEF Leaving
    <3>3. CASE f.op = "disposed"
      <4>1. stack[1] = f /\ ToSet(f.left) = {} /\ (Dying(a) <=> a = f.a)
        BY <1>0, <1>2, <1>3, <2>3, <3>3, Empty DEF Dying, Bottom
      <4>. QED BY <1>6, <1>7, <1>11, <2>1, <2>3, <3>1, <3>3, <4>1 DEF Leaving
    <3>. QED BY <3>2, <3>3
  <2>. QED BY <1>3, <2>2, <2>3
<1>14. Served'
  <2> SUFFICES ASSUME NEW q \in mounted, NEW b \in listed' PROVE ServedAt(q, b)'
    BY <1>6 DEF Served
  <2>1. ~DueAt(n, q, b)
    BY <1>0, <1>3, <1>5, Empty DEF DueAt, Rd
  <2>2. b \in listed
    BY <1>0, <1>7, <1>8
  <2>3. n = 1 => ~Dying(b)
    BY <1>3, <1>7, <1>10 DEF Dying
  <2>. QED BY <1>1, <1>2, <1>3, <1>4, <1>5, <1>6, <2>1, <2>2, <2>3, Rested
<1>. QED BY <1>9, <1>13, <1>14 DEF Inv

LEMMA TornDown ==
  ASSUME Configured, Inv, TeardownEnds
  PROVE  Inv'
<1>0. PICK f : f = Top
  OBVIOUS
<1>1. PICK n : n = Len(stack)
  OBVIOUS
<1>2. stack # <<>> /\ f.op = "teardown" /\ f.left = <<>> /\ stack' = Below
  BY <1>0 DEF TeardownEnds, Is
<1>3. /\ n \in Nat \ {0} /\ Len(stack') = n - 1 /\ Keeps(n) /\ f = stack[n] /\ f \in Frames
      /\ stack' \in Seq(Frames) /\ n \in Idx /\ PlacedAt(n)
  BY <1>0, <1>1, <1>2, Pops
<1>4. f \in TeardownFrames /\ f \notin RoundFrames /\ f.p \in P /\ n = 1 /\ f.p \notin mounted
  BY <1>2, <1>3, Kinds DEF TeardownFrames, PlacedAt
<1>5. /\ UNCHANGED <<preset, listed, known, mounted, events, meddles, missed, regs, own, installing, removed,
                     reconciling, again>>
      /\ live' = [live EXCEPT ![f.p] = {}]
  BY <1>0 DEF TeardownEnds, host, outer, guards
<1>6. live \in [P -> SUBSET Agents] /\ live' \in [P -> SUBSET Agents]
  BY <1>4, <1>5 DEF Inv, Typed
<1>7. /\ Typed' /\ Placed' /\ Unique' /\ Matched' /\ Working' /\ Accounted' /\ Owning' /\ Creating'
  BY <1>1, <1>2, <1>3, <1>4, <1>5, <1>6, Returned
<1>8. stack' = <<>> /\ \A a : ~Dying(a) /\ ~Dying(a)' /\ ~Bottom("teardown")'
  <2>1. stack' = <<>>
    BY <1>1, <1>2, <1>3, <1>4, Shrunk
  <2>. QED BY <1>2, <1>3, <1>4, <2>1 DEF Dying, Bottom
<1>9. Left'
  <2> SUFFICES ASSUME NEW p \in P, NEW a \in Agents PROVE Leaving(p, a)'
    BY DEF Left
  <2>1. Leaving(p, a) /\ stack[1] = f /\ ToSet(f.left) = {}
    BY <1>2, <1>3, <1>4, Empty DEF Inv, Left
  <2>2. p \in mounted => live'[p] = live[p]
    BY <1>4, <1>5, <1>6
  <2>. QED BY <1>5, <1>8, <2>1, <2>2 DEF Leaving
<1>10. Served'
  <2> SUFFICES ASSUME NEW q \in mounted, NEW b \in listed PROVE ServedAt(q, b)'
    BY <1>5 DEF Served
  <2>1. ~DueAt(n, q, b)
    BY <1>2, <1>3 DEF DueAt, Rd
  <2>. QED BY <1>1, <1>2, <1>3, <1>4, <1>5, <1>8, <2>1, Rested
<1>. QED BY <1>7, <1>9, <1>10 DEF Inv

---------------------------------------------------------------------------
(* Rounds.                                                                 *)

LEMMA NewRound ==
  ASSUME Configured, Inv, NEW p \in P, NEW c \in BOOLEAN
  PROVE  /\ Round(p, c) \in RoundFrames /\ Round(p, c) \in Frames /\ ToSet(Round(p, c).left) = listed
         /\ Round(p, c).op = "round" /\ Round(p, c).p = p /\ Round(p, c).catchUp = c
<1>1. IsFiniteSet(listed) /\ listed \subseteq Agents
  BY FS_Subset DEF Configured, Inv, Typed
<1>2. SetToSeq(listed) \in Seq(listed) /\ ToSet(SetToSeq(listed)) = listed
  BY <1>1, Listing
<1>3. SetToSeq(listed) \in Seq(Agents)
  BY <1>1, <1>2
<1>. QED BY <1>2, <1>3 DEF Round, RoundFrames, Frames

LEMMA RoundEnded ==
  ASSUME Configured, Inv, RoundEnds, ~More(Top.p)
  PROVE  Inv'
<1>0. PICK f : f = Top
  OBVIOUS
<1>1. PICK n : n = Len(stack)
  OBVIOUS
<1>2. stack # <<>> /\ f.op = "round" /\ f.left = <<>> /\ stack' = Below
  BY <1>0 DEF RoundEnds, Is
<1>3. /\ n \in Nat \ {0} /\ Len(stack') = n - 1 /\ Keeps(n) /\ f = stack[n] /\ f \in Frames
      /\ stack' \in Seq(Frames) /\ n \in Idx
  BY <1>0, <1>1, <1>2, Pops
<1>4. f \in RoundFrames /\ f.p \in P
  BY <1>2, <1>3, Kinds DEF RoundFrames
<1>5. /\ UNCHANGED <<preset, listed, known, mounted, events, meddles, missed, regs, own, live, installing, removed>>
      /\ again' = [again EXCEPT ![f.p] = FALSE] /\ reconciling' = [reconciling EXCEPT ![f.p] = FALSE]
      /\ again[f.p] => f.catchUp
  BY <1>0 DEF RoundEnds, host, outer, More
<1>6. live \in [P -> SUBSET Agents]
  BY DEF Inv, Typed
<1>7. /\ Typed' /\ Placed' /\ Unique' /\ Matched' /\ Working' /\ Accounted' /\ Owning' /\ Creating'
  BY <1>1, <1>2, <1>3, <1>4, <1>5, <1>6, Returned
<1>8. /\ n = 1 => stack' = <<>>
      /\ n > 1 => stack' # <<>> /\ stack'[1] = stack[1]
  BY <1>1, <1>2, <1>3, Shrunk
<1>9. \A a : /\ Dying(a)' <=> Dying(a)
             /\ Bottom("teardown")' <=> Bottom("teardown")
             /\ Dying(a) => n > 1
  BY <1>2, <1>3, <1>8 DEF Dying, Bottom
<1>10. Left'
  <2> SUFFICES ASSUME NEW p \in P, NEW a \in Agents PROVE Leaving(p, a)'
    BY DEF Left
  <2>1. Leaving(p, a)
    BY DEF Inv, Left
  <2>2. Dying(a) \/ Bottom("teardown") => stack'[1] = stack[1]
    BY <1>2, <1>3, <1>8 DEF Dying, Bottom
  <2>. QED BY <1>5, <1>9, <2>1, <2>2 DEF Leaving
<1>11. Served'
  <2> SUFFICES ASSUME NEW q \in mounted, NEW b \in listed PROVE ServedAt(q, b)'
    BY <1>5 DEF Served
  <2>1. ~DueAt(n, q, b)
    BY <1>2, <1>3, <1>5, Empty DEF DueAt, Rd
  <2>2. n = 1 => ~Dying(b)
    BY <1>3, <1>9
  <2>3. f \notin RoundFrames => UNCHANGED again
    BY <1>4
  <2>. QED BY <1>1, <1>2, <1>3, <1>4, <1>5, <2>1, <2>2, <2>3, Rested
<1>. QED BY <1>7, <1>10, <1>11 DEF Inv

LEMMA CaughtUp ==
  ASSUME Configured, Inv, RoundEnds, More(Top.p)
  PROVE  Inv'
<1>0. PICK f : f = Top
  OBVIOUS
<1>1. PICK n : n = Len(stack)
  OBVIOUS
<1>2. stack # <<>> /\ f.op = "round"
  BY <1>0 DEF RoundEnds, Is
<1>3. n \in Nat \ {0} /\ f = stack[n] /\ f \in Frames /\ n \in Idx /\ PlacedAt(n)
  BY <1>0, <1>1, <1>2, Atop
<1>4. f \in RoundFrames /\ f.p \in P /\ f.p \in mounted
  BY <1>2, <1>3, Kinds DEF RoundFrames, PlacedAt
<1>5. PICK g : g = Round(f.p, TRUE)
  OBVIOUS
<1>6. g \in RoundFrames /\ g \in Frames /\ ToSet(g.left) = listed /\ g.op = "round" /\ g.p = f.p
  BY <1>4, <1>5, NewRound
<1>7. /\ UNCHANGED <<preset, listed, known, mounted, events, meddles, missed, regs, own, live, installing, removed>>
      /\ again' = [again EXCEPT ![f.p] = FALSE] /\ UNCHANGED reconciling
      /\ stack' = Append(Below, g)
  <2>1. reconciling' = [reconciling EXCEPT ![f.p] = TRUE]
    BY <1>0 DEF RoundEnds, More
  <2>2. reconciling[f.p] = TRUE /\ reconciling \in [P -> BOOLEAN]
    BY <1>2, <1>3, <1>4 DEF Inv, Matched, Rd, Typed
  <2>. QED BY <1>0, <1>5, <2>1, <2>2 DEF RoundEnds, host, outer, More
<1>8. /\ stack' \in Seq(Frames) /\ Len(stack') = n /\ stack' # <<>> /\ Keeps(n) /\ stack'[n] = g
  BY <1>1, <1>2, <1>6, <1>7, Running
<1>9. Idx = 1..n /\ Idx' = 1..n /\ \A i \in 1..n : i \in 1..(n - 1) \/ i = n
  BY <1>1, <1>3, <1>8 DEF Idx
<1>10. \A i \in 1..n, p \in P :
        /\ Rd(i, p)' <=> Rd(i, p)
        /\ \A a \in Agents : (Wk(i, p, a)' <=> Wk(i, p, a)) /\ (In(i, p, a)' <=> In(i, p, a))
  <2>1. ASSUME NEW i \in 1..(n - 1), NEW p \in P
        PROVE  /\ Rd(i, p)' <=> Rd(i, p)
               /\ \A a \in Agents : (Wk(i, p, a)' <=> Wk(i, p, a)) /\ (In(i, p, a)' <=> In(i, p, a))
    BY <1>8 DEF Rd, Wk, In, IsWork, Keeps
  <2>2. ASSUME NEW p \in P
        PROVE  /\ Rd(n, p)' <=> Rd(n, p)
               /\ \A a \in Agents : (Wk(n, p, a)' <=> Wk(n, p, a)) /\ (In(n, p, a)' <=> In(n, p, a))
    BY <1>2, <1>3, <1>6, <1>8 DEF Rd, Wk, In, IsWork
  <2>. QED BY <1>9, <2>1, <2>2
<1>11. /\ stack'[1].op = stack[1].op
       /\ stack[1].op # "round" => stack'[1] = stack[1]
  <2>1. CASE n = 1
    BY <1>2, <1>3, <1>6, <1>8, <2>1
  <2>2. CASE n # 1
    BY <1>3, <1>8, <2>2 DEF Keeps
  <2>. QED BY <2>1, <2>2
<1>12. \A a : /\ Dying(a)' <=> Dying(a)
              /\ Bottom("teardown")' <=> Bottom("teardown")
              /\ Bottom("created")' <=> Bottom("created")
              /\ Dying(a) \/ Bottom("teardown") \/ Bottom("created") => stack'[1] = stack[1]
  BY <1>2, <1>8, <1>11 DEF Dying, Bottom
<1>13. Typed'
  <2>1. again' \in [P -> BOOLEAN]
    BY <1>7 DEF Inv, Typed
  <2>. QED BY <1>7, <1>8, <2>1 DEF Inv, Typed
<1>14. Placed'
  <2> SUFFICES ASSUME NEW i \in 1..n PROVE PlacedAt(i)'
    BY <1>9 DEF Placed
  <2>1. CASE i \in 1..(n - 1)
    <3>1. PlacedAt(i) /\ stack'[i] = stack[i] /\ stack[i] \in Frames
      BY <1>8, <1>9, <2>1 DEF Inv, Placed, Keeps, Typed
    <3>2. i > 1 => i - 1 \in 1..n
      BY <1>3, <2>1
    <3>3. stack[i].op \in {"install", "uninstall"} => stack[i].p \in P
      BY <3>1, Kinds DEF WorkFrames
    <3>4. stack[1].op # "round" => stack'[1] = stack[1]
      BY <1>11
    <3>. QED BY <1>7, <1>10, <1>11, <3>1, <3>2, <3>3, <3>4 DEF PlacedAt
  <2>2. CASE i = n
    BY <1>4, <1>6, <1>7, <1>8, <2>2 DEF PlacedAt
  <2>. QED BY <1>9, <2>1, <2>2
<1>15. Unique'
  BY <1>9, <1>10 DEF Inv, Unique
<1>16. Matched'
  <2>1. \A p \in P : again'[p] => again[p]
    BY <1>4, <1>7 DEF Inv, Typed
  <2>. QED BY <1>7, <1>9, <1>10, <2>1 DEF Inv, Matched
<1>17. Working' /\ Accounted'
  <2>1. SameWorks
    BY <1>2, <1>3, <1>6, <1>8, <1>9 DEF SameWorks, IsWork, Keeps
  <2>. QED BY <1>7, <2>1, Aside
<1>18. Left'
  BY <1>7, <1>12 DEF Inv, Left, Leaving
<1>19. Owning'
  BY <1>7 DEF Inv, Owning, OwnAt
<1>20. Creating'
  <2> SUFFICES ASSUME Bottom("created")', NEW i \in 1..n, NEW p \in P, In(i, p, stack[1].a)'
               PROVE  Told(i, p, stack[1].a)'
    BY <1>7, <1>9 DEF Creating
  <2>1. Bottom("created") /\ stack'[1] = stack[1]
    BY <1>12
  <2>2. i # n
    BY <1>6, <1>8, <2>1 DEF In
  <2>3. stack'[i] = stack[i] /\ In(i, p, stack[1].a)
    BY <1>8, <1>9, <2>1, <2>2 DEF Keeps, In
  <2>. QED BY <1>7, <1>9, <2>1, <2>3 DEF Inv, Creating, Told
<1>21. Served'
  <2> SUFFICES ASSUME NEW q \in mounted, NEW b \in listed PROVE ServedAt(q, b)'
    BY <1>7 DEF Served
  <2>0. q \in P /\ b \in Agents /\ ServedAt(q, b)
    BY DEF Inv, Typed, Served
  <2>1. CASE q = f.p
    <3>1. DueAt(n, q, b)'
      BY <1>6, <1>8, <2>1 DEF DueAt, Rd
    <3>. QED BY <1>3, <1>9, <3>1 DEF ServedAt
  <2>2. CASE q # f.p
    <3>1. CASE Dying(b)
      BY <1>12, <3>1 DEF ServedAt
    <3>2. CASE \E i \in Idx : DueAt(i, q, b)
      <4>1. PICK i \in 1..n : DueAt(i, q, b)
        BY <1>9, <3>2
      <4>2. i # n
        BY <1>2, <1>3, <2>2, <4>1 DEF DueAt, Rd
      <4>3. stack'[i] = stack[i] /\ \A j \in 1..(i - 1) : stack'[j] = stack[j]
        BY <1>8, <1>9, <4>2 DEF Keeps
      <4>4. again'[q] = again[q]
        BY <1>7, <2>0, <2>2 DEF Inv, Typed
      <4>5. DueAt(i, q, b)'
        BY <4>1, <4>3, <4>4 DEF DueAt, Rd
      <4>. QED BY <1>9, <4>5 DEF ServedAt
    <3>3. CASE \E i \in Idx : In(i, q, b) /\ (q = "deny" \/ stack[i].key = preset[b])
      <4>1. PICK i \in 1..n : In(i, q, b) /\ (q = "deny" \/ stack[i].key = preset[b])
        BY <1>9, <3>3
      <4>2. i # n
        BY <1>2, <1>3, <4>1 DEF In
      <4>3. i \in Idx' /\ In(i, q, b)' /\ (q = "deny" \/ stack'[i].key = preset'[b])
        BY <1>7, <1>8, <1>9, <1>10, <2>0, <4>1, <4>2 DEF Keeps
      <4>. QED BY <4>3 DEF ServedAt
    <3>4. CASE b \notin installing[q] /\ Right(q, b)
      BY <1>7, <3>4 DEF ServedAt, Right
    <3>5. CASE Excused(q, b)
      BY <1>7, <3>5 DEF ServedAt, Excused
    <3>. QED BY <2>0, <3>1, <3>2, <3>3, <3>4, <3>5 DEF ServedAt
  <2>. QED BY <2>1, <2>2
<1>. QED BY <1>13, <1>14, <1>15, <1>16, <1>17, <1>18, <1>19, <1>20, <1>21 DEF Inv

LEMMA Coalesced ==
  ASSUME Configured, Inv, OnChange, reconciling[Head(Top.left)]
  PROVE  Inv'
<1>0. PICK f : f = Top
  OBVIOUS
<1>1. PICK n : n = Len(stack)
  OBVIOUS
<1>2. PICK g : g = [f EXCEPT !.left = Tail(@)]
  OBVIOUS
<1>p. PICK p : p = Head(f.left)
  OBVIOUS
<1>3. /\ stack # <<>> /\ n \in Nat \ {0} /\ f = stack[n] /\ f \in Frames
      /\ f.op = "change" /\ f.left # <<>> /\ p \in mounted
  BY <1>0, <1>1, <1>p, Atop DEF OnChange, Is
<1>4. f \in EventFrames
  BY <1>3, Kinds
<1>5. /\ g \in EventFrames /\ Kin(f, g) /\ g.left = Tail(f.left)
      /\ ToSet(f.left) = {p} \cup ToSet(g.left) /\ f \notin RoundFrames /\ p \in P
  BY <1>2, <1>3, <1>4, <1>p, Tells
<1>6. stack' = Append(Below, g) /\ again' = [again EXCEPT ![p] = TRUE] /\ reconciling[p]
  BY <1>0, <1>2, <1>p DEF OnChange, Heard
<1>7. stack' \in Seq(Frames) /\ Len(stack') = n /\ stack' # <<>> /\ Keeps(n) /\ stack'[n] = g
  BY <1>1, <1>3, <1>5, <1>6, Running DEF Frames
<1>8. UNCHANGED <<host, own, regs, live, installing, removed, reconciling, mounted, listed>>
  BY <1>0, <1>p, <1>6 DEF OnChange, host, outer
<1>9. /\ live \in [P -> SUBSET Agents] /\ again' \in [P -> BOOLEAN] /\ again'[p]
      /\ \A q \in P : (again[q] => again'[q]) /\ (again'[q] => reconciling[q])
  BY <1>5, <1>6 DEF Inv, Typed, Matched
<1>10. /\ Typed' /\ Placed' /\ Unique' /\ Matched' /\ Working' /\ Accounted'
       /\ Left' /\ Owning' /\ Creating'
  BY <1>1, <1>3, <1>4, <1>5, <1>7, <1>8, <1>9, Passed
<1>11. g.op = "change" /\ stack'[n].left = g.left /\ stack'[n].op = "change" /\ stack[n].op = "change"
  BY <1>3, <1>4, <1>5, <1>7 DEF Kin
<1>12. Idx = 1..n /\ Idx' = 1..n
  BY <1>1, <1>7 DEF Idx
<1>13. Served'
  <2> SUFFICES ASSUME NEW q \in mounted, NEW b \in listed PROVE ServedAt(q, b)'
    BY <1>8 DEF Served
  <2>1. ASSUME DueAt(n, q, b) PROVE ServedAt(q, b)'
    <3>1. q \in ToSet(f.left) /\ \A j \in 1..(n - 1) : Rd(j, q) => ~stack[j].catchUp
      BY <1>3, <2>1 DEF DueAt, Rd
    <3>2. \A j \in 1..(n - 1) : stack'[j] = stack[j] /\ (Rd(j, q)' <=> Rd(j, q))
      BY <1>7 DEF Keeps, Rd
    <3>3. CASE q = p
      <4>1. PICK j \in Idx : Rd(j, p)
        BY <1>5, <1>6 DEF Inv, Matched
      <4>2. j \in 1..(n - 1)
        BY <1>3, <1>12, <4>1 DEF Rd
      <4>3. DueAt(j, q, b)'
        BY <1>9, <3>1, <3>2, <3>3, <4>1, <4>2 DEF DueAt
      <4>. QED BY <1>12, <4>1, <4>3 DEF ServedAt
    <3>4. CASE q # p
      <4>1. DueAt(n, q, b)'
        BY <1>5, <1>11, <3>1, <3>2, <3>4 DEF DueAt
      <4>. QED BY <1>3, <1>12, <4>1 DEF ServedAt
    <3>. QED BY <3>3, <3>4
  <2>2. /\ UNCHANGED <<outer, own, removed>> /\ (q = "fish" /\ b \in missed => b \in missed')
        /\ \A r \in P : live[r] \subseteq live'[r]
    BY <1>8 DEF host
  <2>. QED BY <1>1, <1>3, <1>4, <1>5, <1>7, <1>8, <1>9, <2>1, <2>2, StillServed
<1>. QED BY <1>10, <1>13 DEF Inv

LEMMA Roused ==
  ASSUME Configured, Inv, OnChange, ~reconciling[Head(Top.left)]
  PROVE  Inv'
<1>0. PICK f : f = Top
  OBVIOUS
<1>1. PICK n : n = Len(stack)
  OBVIOUS
<1>2. PICK g : g = [f EXCEPT !.left = Tail(@)]
  OBVIOUS
<1>p. PICK p : p = Head(f.left)
  OBVIOUS
<1>h. PICK h : h = Round(p, FALSE)
  OBVIOUS
<1>3. /\ stack # <<>> /\ n \in Nat \ {0} /\ f = stack[n] /\ f \in Frames
      /\ f.op = "change" /\ f.left # <<>> /\ p \in mounted
  BY <1>0, <1>1, <1>p, Atop DEF OnChange, Is
<1>4. f \in EventFrames
  BY <1>3, Kinds
<1>5. /\ g \in EventFrames /\ Kin(f, g) /\ g.left = Tail(f.left)
      /\ ToSet(f.left) = {p} \cup ToSet(g.left) /\ f \notin RoundFrames /\ p \in P
  BY <1>2, <1>3, <1>4, <1>p, Tells
<1>6. /\ h \in RoundFrames /\ h \in Frames /\ ToSet(h.left) = listed /\ h.op = "round" /\ h.p = p
      /\ ~h.catchUp
  BY <1>5, <1>h, NewRound
<1>7. stack' = Below \o <<g, h>> /\ reconciling' = [reconciling EXCEPT ![p] = TRUE] /\ ~reconciling[p]
  BY <1>0, <1>2, <1>p, <1>h DEF OnChange, Heard
<1>8. /\ stack' \in Seq(Frames) /\ Len(stack') = n + 1 /\ stack' # <<>> /\ Keeps(n)
      /\ stack'[n] = g /\ stack'[n + 1] = h
  BY <1>1, <1>3, <1>5, <1>6, <1>7, Running DEF Frames
<1>9. UNCHANGED <<host, outer, preset, mounted, listed, known, events, meddles, missed, own, regs, live, installing, removed, again>>
  BY <1>0, <1>p, <1>7 DEF OnChange, host, outer
<1>10. /\ Idx = 1..n /\ Idx' = 1..(n + 1) /\ \A i \in Idx' : i \in 1..n \/ i = n + 1
       /\ \A i \in 1..n : i \in Idx'
  BY <1>1, <1>3, <1>8 DEF Idx
<1>11. /\ \A i \in 1..n : PlacedAt(i)'
       /\ \A i \in 1..n : /\ IsWork(i)' <=> IsWork(i)
                          /\ IsWork(i) => i # n /\ stack'[i] = stack[i]
       /\ \A i \in 1..n, q \in P, a \in Agents :
              In(i, q, a)' /\ Bottom("created") /\ stack'[1].a = a =>
                i # 2 \/ q = "deny" \/ a \in missed \/ stack'[i].key = preset[a]
       /\ stack'[1].op = stack[1].op
       /\ stack[1].op \in {"created", "disposed"} => stack'[1].a = stack[1].a
  BY <1>1, <1>3, <1>4, <1>5, <1>8, <1>9, Turned
<1>12. \A i \in 1..n, q \in P :
         /\ Rd(i, q)' <=> Rd(i, q)
         /\ \A a \in Agents : (Wk(i, q, a)' <=> Wk(i, q, a)) /\ (In(i, q, a)' <=> In(i, q, a))
  BY <1>3, <1>5, <1>8, Kindred
<1>13. /\ \A q \in P : Rd(n + 1, q)' <=> q = p
       /\ ~IsWork(n + 1)' /\ \A q \in P, a \in Agents : ~Wk(n + 1, q, a)' /\ ~In(n + 1, q, a)'
  BY <1>6, <1>8 DEF Rd, Wk, In, IsWork
<1>14. ~\E i \in 1..n : Rd(i, p)
  BY <1>5, <1>7, <1>10 DEF Inv, Matched
<1>15. Typed'
  <2>1. reconciling' \in [P -> BOOLEAN]
    BY <1>5, <1>7 DEF Inv, Typed
  <2>. QED BY <1>8, <1>9, <2>1 DEF Inv, Typed
<1>16. Placed'
  <2>1. PlacedAt(n + 1)'
    BY <1>3, <1>6, <1>8, <1>9 DEF PlacedAt
  <2>. QED BY <1>10, <1>11, <2>1 DEF Placed
<1>17. Unique'
  BY <1>10, <1>12, <1>13, <1>14 DEF Inv, Unique
<1>18. Matched'
  <2> SUFFICES ASSUME NEW q \in P
               PROVE  /\ reconciling'[q] <=> \E i \in Idx' : Rd(i, q)'
                      /\ again'[q] => reconciling'[q]
                      /\ \A a \in Agents : a \in installing'[q] <=> \E i \in Idx' : In(i, q, a)'
    BY DEF Matched
  <2>0. /\ reconciling[q] <=> \E i \in Idx : Rd(i, q)
        /\ again[q] => reconciling[q]
        /\ \A a \in Agents : a \in installing[q] <=> \E i \in Idx : In(i, q, a)
    BY DEF Inv, Matched
  <2>1. reconciling'[q] <=> (reconciling[q] \/ q = p)
    BY <1>5, <1>7 DEF Inv, Typed
  <2>2. reconciling'[q] <=> \E i \in Idx' : Rd(i, q)'
    <3>1. n + 1 \in Idx'
      BY <1>3, <1>10
    <3>. QED BY <1>10, <1>12, <1>13, <2>0, <2>1, <3>1
  <2>3. \A a \in Agents : a \in installing'[q] <=> \E i \in Idx' : In(i, q, a)'
    BY <1>9, <1>10, <1>12, <1>13, <2>0
  <2>. QED BY <1>9, <2>0, <2>1, <2>2, <2>3
<1>19. Working' /\ Accounted'
  <2>1. SameWorks
    BY <1>10, <1>11, <1>13 DEF SameWorks
  <2>. QED BY <1>9, <2>1, Aside
<1>20. \A a : /\ Dying(a)' <=> Dying(a)
              /\ Bottom("teardown")' <=> Bottom("teardown")
              /\ Bottom("created")' <=> Bottom("created")
              /\ Dying(a) \/ Bottom("teardown") => stack'[1] = stack[1]
  <2>1. CASE n = 1
    BY <1>3, <1>8, <1>11, <2>1 DEF Dying, Bottom
  <2>2. CASE n # 1
    <3>1. stack'[1] = stack[1]
      BY <1>3, <1>8, <2>2 DEF Keeps
    <3>. QED BY <1>3, <1>8, <3>1 DEF Dying, Bottom
  <2>. QED BY <2>1, <2>2
<1>21. Left'
  BY <1>9, <1>20 DEF Inv, Left, Leaving
<1>22. Owning'
  BY <1>9 DEF Inv, Owning, OwnAt
<1>23. Creating'
  <2> SUFFICES ASSUME Bottom("created")', NEW i \in Idx', NEW q \in P, In(i, q, stack[1].a)'
               PROVE  Told(i, q, stack[1].a)'
    BY <1>9 DEF Creating
  <2>1. PICK a \in Agents : a = stack'[1].a
    <3>1. 1 \in 1..n
      BY <1>3
    <3>2. PlacedAt(1)'
      BY <1>11, <3>1
    <3>. QED BY <3>2 DEF PlacedAt, Bottom
  <2>2. In(i, q, a)'
    BY <2>1 DEF In
  <2>3. i \in 1..n /\ Bottom("created")
    BY <1>10, <1>13, <1>20, <2>2
  <2>. QED BY <1>9, <1>11, <2>1, <2>2, <2>3 DEF Told
<1>24. Served'
  <2> SUFFICES ASSUME NEW q \in mounted, NEW b \in listed PROVE ServedAt(q, b)'
    BY <1>9 DEF Served
  <2>0. n + 1 \in Idx' /\ n \in Idx' /\ \A j \in 1..(n - 1) : j \in 1..n
    BY <1>3, <1>10
  <2>1. CASE q = p
    <3>1. DueAt(n + 1, q, b)'
      BY <1>6, <1>8, <2>1 DEF DueAt, Rd
    <3>. QED BY <2>0, <3>1 DEF ServedAt
  <2>2. CASE q # p
    <3>1. ASSUME DueAt(n, q, b) PROVE ServedAt(q, b)'
      <4>1. q \in ToSet(f.left) /\ \A j \in 1..(n - 1) : Rd(j, q) => ~stack[j].catchUp
        BY <1>3, <3>1 DEF DueAt, Rd
      <4>2. \A j \in 1..(n - 1) : stack'[j] = stack[j] /\ (Rd(j, q)' <=> Rd(j, q))
        BY <1>8 DEF Keeps, Rd
      <4>3. stack'[n].op = "change" /\ q \in ToSet(stack'[n].left)
        BY <1>3, <1>4, <1>5, <1>8, <2>2, <4>1 DEF Kin
      <4>4. DueAt(n, q, b)'
        BY <4>1, <4>2, <4>3 DEF DueAt
      <4>. QED BY <2>0, <4>4 DEF ServedAt
    <3>2. n + 1 \in {n, n + 1} /\ \A r \in P : live[r] \subseteq live'[r] /\ (again[r] => again'[r])
      BY <1>9
    <3>3. b \in installing'[q] => b \in installing[q]
      BY <1>9
    <3>. QED BY <1>1, <1>3, <1>4, <1>5, <1>8, <1>9, <3>1, <3>2, <3>3, StillServed
  <2>. QED BY <2>1, <2>2
<1>. QED BY <1>15, <1>16, <1>17, <1>18, <1>19, <1>21, <1>22, <1>23, <1>24 DEF Inv

---------------------------------------------------------------------------
(* Calls of install.                                                       *)

\* The frame f comes to the agent a of a round of p, or to the listener p of a's
\* agent/created, and is g when it goes on.
Comes2(f, g, p, a) ==
  \/ /\ f \in RoundFrames /\ f.op = "round" /\ f.p = p
     /\ \A b : b \in ToSet(f.left) <=> (b = a \/ b \in ToSet(g.left))
  \/ /\ f \in EventFrames /\ f.op = "created" /\ f.a = a
     /\ \A q : q \in ToSet(f.left) <=> (q = p \/ q \in ToSet(g.left))

LEMMA OthersDue ==
  ASSUME Inv, NEW n \in Nat \ {0}, NEW f \in EventFrames \cup RoundFrames, NEW g, Kin(f, g),
         NEW p \in P, NEW a \in Agents, Comes2(f, g, p, a),
         Len(stack) = n, stack[n] = f, Keeps(n), stack'[n] = g, UNCHANGED again,
         NEW q \in P, NEW b \in Agents, q # p \/ b # a, DueAt(n, q, b)
  PROVE  DueAt(n, q, b)'
<1>1. CASE f \in RoundFrames /\ f.op = "round" /\ f.p = p
           /\ \A x : x \in ToSet(f.left) <=> (x = a \/ x \in ToSet(g.left))
  <2>1. Rd(n, q) /\ (b \in ToSet(f.left) \/ (~f.catchUp /\ again[q]))
    BY <1>1 DEF DueAt
  <2>2. q = p /\ Rd(n, q)' /\ g.catchUp = f.catchUp
    BY <1>1, <2>1 DEF Rd, Kin
  <2>. QED BY <1>1, <2>1, <2>2 DEF DueAt
<1>2. CASE f \in EventFrames /\ f.op = "created" /\ f.a = a
           /\ \A x : x \in ToSet(f.left) <=> (x = p \/ x \in ToSet(g.left))
  <2>1. b = a /\ q \in ToSet(f.left) /\ g.op = "created" /\ g.a = a
    BY <1>2 DEF DueAt, Rd, Kin
  <2>. QED BY <1>2, <2>1 DEF DueAt
<1>. QED BY <1>1, <1>2 DEF Comes2

LEMMA RightOwn ==
  ASSUME Inv, NEW p \in P, NEW a \in Agents, own[p][a] # Nothing, p = "deny" \/ own[p][a].key = preset[a]
  PROVE  Right(p, a) \/ Excused(p, a)
<1>1. OwnAt(p, a)
  BY DEF Inv, Owning
<1>2. CASE p = "deny"
  BY <1>1, <1>2 DEF OwnAt, Right
<1>3. CASE p = "fish"
  BY <1>1, <1>3 DEF OwnAt, Right, Consistent, Excused
<1>. QED BY <1>2, <1>3, TwoPolicies

LEMMA InstallSkipped ==
  ASSUME Configured, Inv, NEW n \in Nat \ {0}, NEW f \in EventFrames \cup RoundFrames, NEW g, Kin(f, g),
         NEW p \in mounted, NEW a \in listed, Comes2(f, g, p, a), Skips(p, a),
         Len(stack) = n, stack[n] = f, Keeps(n), stack'[n] = g, stack # <<>>, stack' # <<>>,
         Len(stack') = n, stack' \in Seq(Frames), PlacedAt(n),
         UNCHANGED <<host, regs, own, guards>>, live' = [live EXCEPT ![p] = @ \cup {a}]
  PROVE  Inv'
<1>0. /\ UNCHANGED <<outer, missed, known, mounted, listed, preset, own, installing, removed, reconciling, again>>
      /\ p \in P /\ a \in Agents
      /\ live' \in [P -> SUBSET Agents] /\ \A q \in P : live[q] \subseteq live'[q]
      /\ again \in [P -> BOOLEAN] /\ \A q \in P : again[q] => reconciling[q]
      /\ Idx = 1..n /\ Idx' = 1..n
  BY DEF host, outer, guards, Inv, Typed, Matched, Idx
<1>1. f.op # "disposed" /\ f.op # "install"
  BY DEF Comes2
<1>2. /\ Typed' /\ Placed' /\ Unique' /\ Matched' /\ Working' /\ Accounted'
      /\ Left' /\ Owning' /\ Creating'
  BY <1>0, <1>1, Passed
<1>3. /\ stack'[1].op = stack[1].op
      /\ stack[1].op \in {"created", "disposed"} => stack'[1].a = stack[1].a
  BY Kindred
<1>4. ServedAt(p, a)'
  <2>1. CASE a \in installing[p]
    <3>1. PICK i \in 1..n : In(i, p, a)
      BY <1>0, <2>1 DEF Inv, Matched
    <3>2. i # n /\ i \in 1..(n - 1)
      BY <1>1, <3>1 DEF In
    <3>3. PlacedAt(i) /\ stack[i].op = "install" /\ stack[i].p = p /\ stack[i].a = a
      BY <1>0, <3>1 DEF Inv, Placed, In
    <3>4. ~Rd(i - 1, p)
      <4>1. SUFFICES ASSUME Rd(i - 1, p) PROVE FALSE
        OBVIOUS
      <4>2. i > 1 /\ n # 1 /\ i - 1 \in 1..n /\ n \in 1..n
        BY <3>2, <3>3 DEF PlacedAt
      <4>3. f.op # "created"
        BY <4>2 DEF PlacedAt
      <4>4. Rd(n, p)
        BY <4>3 DEF Comes2, Rd
      <4>5. i - 1 = n
        BY <1>0, <4>1, <4>2, <4>4 DEF Inv, Unique
      <4>. QED BY <3>2, <4>5
    <3>5. i = 2 /\ stack[1].op = "created" /\ stack[1].a = a
      BY <3>3, <3>4 DEF PlacedAt
    <3>6. Told(i, p, a)
      BY <1>0, <3>1, <3>5 DEF Inv, Creating, Bottom
    <3>7. In(i, p, a)' /\ stack'[i].key = stack[i].key
      BY <1>0, <3>1, <3>2 DEF In, Keeps
    <3>8. p = "deny" \/ a \in missed \/ stack[i].key = preset[a]
      BY <3>5, <3>6 DEF Told
    <3>. QED BY <1>0, <3>7, <3>8, TwoPolicies DEF ServedAt, Excused
  <2>2. CASE a \in removed[p]
    <3>1. p = "deny" => Dying(a)
      BY <1>0, <2>2 DEF Inv, Left, Leaving
    <3>. QED BY <1>0, <1>3, <2>2, <3>1, TwoPolicies DEF ServedAt, Dying, Bottom, Excused
  <2>3. CASE a \notin installing[p] /\ a \notin removed[p]
    <3>1. own[p][a] # Nothing /\ (p = "deny" \/ own[p][a].key = preset[a])
      BY <2>3 DEF Skips
    <3>2. Right(p, a) \/ Excused(p, a)
      BY <1>0, <3>1, RightOwn
    <3>3. Right(p, a)' \/ Excused(p, a)'
      BY <1>0, <3>2 DEF Right, Excused
    <3>. QED BY <1>0, <2>3, <3>3 DEF ServedAt
  <2>. QED BY <2>1, <2>2, <2>3
<1>5. Served'
  <2> SUFFICES ASSUME NEW q \in mounted, NEW b \in listed, q # p \/ b # a PROVE ServedAt(q, b)'
    BY <1>0, <1>4 DEF Served
  <2>0. q \in P /\ b \in Agents
    BY DEF Inv, Typed
  <2>1. ASSUME DueAt(n, q, b) PROVE ServedAt(q, b)'
    <3>1. DueAt(n, q, b)'
      BY <1>0, <2>0, <2>1, OthersDue
    <3>. QED BY <1>0, <3>1 DEF ServedAt
  <2>2. /\ n \in {n, n + 1} /\ (b \in installing'[q] => b \in installing[q])
        /\ \A r \in P : live[r] \subseteq live'[r] /\ (again[r] => again'[r])
        /\ UNCHANGED <<outer, own, removed>> /\ (q = "fish" /\ b \in missed => b \in missed')
    BY <1>0
  <2>. QED BY <2>1, <2>2, StillServed
<1>. QED BY <1>2, <1>5 DEF Inv

Installs(p, a) ==
  IF p = "deny" THEN Work("install", p, a, <<>>, <<"terminals">>, "commit")
  ELSE Work("install", p, a, own[p][a].regs, <<>>, "probe")

LEMMA Installing ==
  ASSUME Inv, NEW p \in mounted, NEW a \in listed, ~Skips(p, a), Free(p, a), NEW h, h = Installs(p, a)
  PROVE  /\ h \in WorkFrames /\ h \in Frames /\ h.op = "install" /\ h.p = p /\ h.a = a /\ h.key = preset[a]
         /\ ToolsFit(h) /\ DenyFits(h) /\ FishFits(h) /\ (p = "fish" => h.then = "probe")
         /\ \A r \in Of(p) : regs[a][r] = IF r \in Hand(h) THEN 1 ELSE 0
<1>1. /\ p \in P /\ a \in Agents /\ preset[a] \in Presets /\ own[p][a].regs \in Seq(Regs)
      /\ OwnAt(p, a)
  BY DEF Inv, Typed, Owning
<1>2. \A r \in Of(p) : regs[a][r] = IF r \in ToSet(own[p][a].regs) THEN 1 ELSE 0
  BY <1>1 DEF Inv, Accounted
<1>3. CASE p = "deny"
  <2>1. own[p][a] = Nothing
    BY <1>3 DEF Skips
  <2>2. /\ h.op = "install" /\ h.p = p /\ h.a = a /\ h.key = preset[a] /\ h.drops = <<>>
        /\ h.adds = <<"terminals">> /\ h.then = "commit" /\ h.made = <<>>
    BY <1>3 DEF Installs, Work
  <2>3. <<"terminals">> \in Seq(Regs) /\ <<>> \in Seq(Regs)
    BY DEF Regs
  <2>4. h \in WorkFrames /\ h \in Frames
    BY <1>1, <1>3, <2>3 DEF Installs, Work, WorkFrames, Frames
  <2>5. h.made \o h.adds = <<"terminals">>
    BY <2>2, <2>3, Joins
  <2>6. ToolsFit(h) /\ DenyFits(h) /\ FishFits(h)
    BY <1>3, <2>2, <2>5, Empty DEF ToolsFit, DenyFits, FishFits
  <2>7. Hand(h) = {} /\ ToSet(own[p][a].regs) = {}
    BY <2>1, <2>2, Empty DEF Hand, Nothing
  <2>. QED BY <1>2, <1>3, <2>2, <2>4, <2>6, <2>7
<1>4. CASE p = "fish"
  <2>2. /\ h.op = "install" /\ h.p = p /\ h.a = a /\ h.key = preset[a] /\ h.drops = own[p][a].regs
        /\ h.adds = <<>> /\ h.then = "probe" /\ h.made = <<>>
    BY <1>4 DEF Installs, Work
  <2>3. <<>> \in Seq(Regs)
    OBVIOUS
  <2>4. h \in WorkFrames /\ h \in Frames
    BY <1>1, <1>4, <2>3 DEF Installs, Work, WorkFrames, Frames
  <2>6. ToolsFit(h) /\ DenyFits(h) /\ FishFits(h)
    BY <1>1, <1>4, <2>2 DEF OwnAt, ToolsFit, DenyFits, FishFits
  <2>7. Hand(h) = ToSet(own[p][a].regs)
    BY <2>2, Empty DEF Hand
  <2>. QED BY <1>2, <2>2, <2>4, <2>6, <2>7
<1>. QED BY <1>1, <1>3, <1>4, TwoPolicies

LEMMA InstallCalled ==
  ASSUME Configured, Inv, NEW n \in Nat \ {0}, NEW f \in EventFrames \cup RoundFrames, NEW g, Kin(f, g),
         NEW p \in mounted, NEW a \in listed, Comes2(f, g, p, a), ~Skips(p, a), NEW h, h = Installs(p, a),
         Len(stack) = n, stack[n] = f, Keeps(n), stack'[n] = g, stack # <<>>, stack' # <<>>,
         Len(stack') = n + 1, stack'[n + 1] = h, stack' \in Seq(Frames), PlacedAt(n),
         UNCHANGED <<outer, regs, own, removed, reconciling, again>>,
         live' = [live EXCEPT ![p] = @ \cup {a}],
         installing' = [installing EXCEPT ![p] = @ \cup {a}],
         missed' = IF p = "fish" THEN missed \ {a} ELSE missed
  PROVE  Inv'
<1>0. /\ UNCHANGED <<mounted, listed, preset, known, events, meddles>>
      /\ p \in P /\ a \in Agents /\ a \notin installing[p] /\ a \notin removed[p]
      /\ own[p][a] # Nothing => p = "fish" /\ own[p][a].key # preset[a]
      /\ missed' \subseteq Agents /\ missed \subseteq missed' \cup {a} /\ (p # "fish" => missed' = missed)
      /\ live' \in [P -> SUBSET Agents] /\ \A q \in P : live[q] \subseteq live'[q] /\ (again[q] => again'[q])
      /\ installing' \in [P -> SUBSET Agents] /\ a \in live'[p]
      /\ \A q \in P, b \in Agents : b \in installing'[q] <=> (b \in installing[q] \/ (q = p /\ b = a))
      /\ again \in [P -> BOOLEAN] /\ \A q \in P : again[q] => reconciling[q]
      /\ Idx = 1..n /\ Idx' = 1..(n + 1) /\ \A i \in Idx' : i \in 1..n \/ i = n + 1
      /\ \A i \in 1..n : i \in Idx'
      /\ n \in 1..n /\ n + 1 \in Idx' /\ n \in Idx' /\ 1 \in 1..n
  BY TwoPolicies DEF outer, Inv, Typed, Matched, Idx, Skips
<1>1. f.op \notin {"disposed", "install", "uninstall", "teardown"}
  BY DEF Comes2
<1>2. /\ \A i \in 1..n : PlacedAt(i)'
      /\ \A i \in 1..n : /\ IsWork(i)' <=> IsWork(i)
                         /\ IsWork(i) => i # n /\ stack'[i] = stack[i]
      /\ \A i \in 1..n, q \in P, b \in Agents :
              In(i, q, b)' /\ Bottom("created") /\ stack'[1].a = b =>
                i # 2 \/ q = "deny" \/ b \in missed \/ stack'[i].key = preset[b]
      /\ stack'[1].op = stack[1].op
      /\ stack[1].op \in {"created", "disposed"} => stack'[1].a = stack[1].a
  BY <1>0, Turned
<1>3. \A i \in 1..n, q \in P :
        /\ Rd(i, q)' <=> Rd(i, q)
        /\ \A b \in Agents : (Wk(i, q, b)' <=> Wk(i, q, b)) /\ (In(i, q, b)' <=> In(i, q, b))
  BY Kindred
<1>4. Free(p, a)
  <2> SUFFICES ASSUME NEW i \in 1..n, Wk(i, p, a) PROVE FALSE
    BY <1>0 DEF Free
  <2>1. ~In(i, p, a)
    BY <1>0 DEF Inv, Matched
  <2>2. stack[i].op = "uninstall" /\ stack[i].p = p /\ stack[i].a = a /\ PlacedAt(i)
    BY <1>0, <2>1 DEF Wk, In, IsWork, Inv, Placed
  <2>3. PlacedAt(1)
    BY <1>0 DEF Inv, Placed
  <2>. QED BY <1>0, <2>2, <2>3 DEF PlacedAt
<1>5. /\ h \in WorkFrames /\ h \in Frames /\ h.op = "install" /\ h.p = p /\ h.a = a /\ h.key = preset[a]
      /\ ToolsFit(h) /\ DenyFits(h) /\ FishFits(h)
      /\ p = "fish" => h.then = "probe"
      /\ \A r \in Of(p) : regs[a][r] = IF r \in Hand(h) THEN 1 ELSE 0
  BY <1>4, Installing
<1>6. /\ \A q \in P : ~Rd(n + 1, q)'
      /\ IsWork(n + 1)'
      /\ \A q \in P, b \in Agents : /\ Wk(n + 1, q, b)' <=> (q = p /\ b = a)
                                    /\ In(n + 1, q, b)' <=> (q = p /\ b = a)
  BY <1>5 DEF Rd, Wk, In, IsWork
<1>7. Typed'
  BY <1>0 DEF Inv, Typed
<1>8. Placed'
  <2>1. PlacedAt(n + 1)'
    <3>1. stack'[n + 1] = h /\ n + 1 > 1
      OBVIOUS
    <3>2. CASE f.op = "round" /\ f.p = p
      <4>1. Rd(n, p)' /\ (n + 1) - 1 = n
        BY <1>0, <1>3, <3>2 DEF Rd
      <4>. QED BY <1>0, <1>5, <3>1, <4>1 DEF PlacedAt
    <3>3. CASE f.op = "created" /\ f.a = a
      <4>1. n = 1
        BY <3>3 DEF PlacedAt
      <4>2. n + 1 = 2 /\ stack'[1].op = "created" /\ stack'[1].a = a
        BY <1>2, <3>3, <4>1
      <4>. QED BY <1>0, <1>5, <3>1, <4>2 DEF PlacedAt
    <3>. QED BY <3>2, <3>3 DEF Comes2
  <2>. QED BY <1>0, <1>2, <2>1 DEF Placed
<1>9. Unique'
  <2>1. \A i \in 1..n : ~Wk(i, p, a)
    BY <1>0, <1>4 DEF Free
  <2>. QED BY <1>0, <1>3, <1>6, <2>1 DEF Inv, Unique
<1>10. Matched'
  <2> SUFFICES ASSUME NEW q \in P
               PROVE  /\ reconciling'[q] <=> \E i \in Idx' : Rd(i, q)'
                      /\ again'[q] => reconciling'[q]
                      /\ \A b \in Agents : b \in installing'[q] <=> \E i \in Idx' : In(i, q, b)'
    BY DEF Matched
  <2>0. /\ reconciling[q] <=> \E i \in Idx : Rd(i, q)
        /\ again[q] => reconciling[q]
        /\ \A b \in Agents : b \in installing[q] <=> \E i \in Idx : In(i, q, b)
    BY DEF Inv, Matched
  <2>1. reconciling'[q] <=> \E i \in Idx' : Rd(i, q)'
    BY <1>0, <1>3, <1>6, <2>0
  <2>2. ASSUME NEW b \in Agents PROVE b \in installing'[q] <=> \E i \in Idx' : In(i, q, b)'
    <3>1. (\E i \in Idx' : In(i, q, b)') <=> (\E i \in 1..n : In(i, q, b)) \/ (q = p /\ b = a)
      BY <1>0, <1>3, <1>6
    <3>. QED BY <1>0, <2>0, <3>1
  <2>. QED BY <2>0, <2>1, <2>2
<1>11. Working'
  <2> SUFFICES ASSUME NEW i \in Idx', IsWork(i)' PROVE WorkAt(i)'
    BY DEF Working
  <2>1. CASE i = n + 1
    <3>1. stack'[n + 1] = h /\ UNCHANGED <<preset, known>>
      BY <1>0
    <3>2. ToolsFit(stack[n + 1])'
      BY <1>5, <3>1 DEF ToolsFit
    <3>3. DenyFits(stack[n + 1])'
      BY <1>5, <3>1 DEF DenyFits
    <3>4. FishFits(stack[n + 1])'
      BY <1>5, <3>1 DEF FishFits
    <3>. QED BY <2>1, <3>2, <3>3, <3>4 DEF WorkAt
  <2>2. CASE i \in 1..n
    <3>1. stack'[i] = stack[i] /\ WorkAt(i)
      BY <1>0, <1>2, <2>2 DEF Inv, Working
    <3>2. IsWork(i) /\ stack[i] \in WorkFrames
      BY <1>0, <1>2, <2>2, Kinds DEF Inv, Typed, IsWork
    <3>3. ~(stack[i].p = "fish" /\ stack[i].a = a /\ p = "fish")
      BY <1>0, <1>4, <2>2, <3>2 DEF Free, Wk
    <3>4. stack[i].p = "fish" /\ stack[i].a \in missed => stack[i].a \in missed'
      BY <1>0, <3>3
    <3>. QED BY <1>0, <3>1, <3>4, FitsOn
  <2>. QED BY <1>0, <2>1, <2>2
<1>12. Accounted'
  <2>1. ASSUME NEW i \in Idx', IsWork(i)', NEW r \in Of(stack'[i].p)
        PROVE  regs'[stack'[i].a][r] = IF r \in Hand(stack'[i]) THEN 1 ELSE 0
    <3>1. CASE i = n + 1
      BY <1>5, <2>1, <3>1
    <3>2. CASE i \in 1..n
      <4>1. stack'[i] = stack[i] /\ IsWork(i) /\ i \in Idx
        BY <1>0, <1>2, <2>1, <3>2
      <4>. QED BY <2>1, <4>1 DEF Inv, Accounted
    <3>. QED BY <1>0, <3>1, <3>2
  <2>2. ASSUME NEW q \in P, NEW b \in Agents, Free(q, b)' PROVE Free(q, b)
    BY <1>0, <1>3, <2>2 DEF Free
  <2>. QED BY <2>1, <2>2 DEF Inv, Accounted
<1>13. \A b : /\ Dying(b)' <=> Dying(b)
              /\ Bottom("teardown")' <=> Bottom("teardown")
              /\ Bottom("created")' <=> Bottom("created")
              /\ Dying(b) \/ Bottom("teardown") => stack'[1] = stack[1]
  <2>1. CASE n = 1
    BY <1>1, <1>2, <2>1 DEF Dying, Bottom
  <2>2. CASE n # 1
    <3>1. stack'[1] = stack[1]
      BY <2>2 DEF Keeps
    <3>. QED BY <3>1 DEF Dying, Bottom
  <2>. QED BY <2>1, <2>2
<1>14. Left'
  <2> SUFFICES ASSUME NEW q \in P, NEW b \in Agents PROVE Leaving(q, b)'
    BY DEF Left
  <2>1. Leaving(q, b)
    BY DEF Inv, Left
  <2>2. q \in mounted /\ b \in installing'[q] => b \in live'[q]
    BY <1>0, <2>1 DEF Leaving
  <2>3. b \in live[q] => b \in live'[q]
    BY <1>0
  <2>. QED BY <1>0, <1>13, <2>1, <2>2, <2>3 DEF Leaving
<1>15. Owning'
  <2> SUFFICES ASSUME NEW q \in P, NEW b \in Agents PROVE OwnAt(q, b)'
    BY DEF Owning
  <2>1. OwnAt(q, b) /\ own'[q][b] = own[q][b] /\ preset'[b] = preset[b] /\ known' = known
    BY <1>0 DEF Inv, Owning
  <2>2. q = "fish" /\ own[q][b] # Nothing /\ b \in missed => b \in missed' \/ own[q][b].key # preset[b]
    BY <1>0
  <2>. QED BY <2>1, <2>2 DEF OwnAt, Consistent
<1>16. Creating'
  <2> SUFFICES ASSUME Bottom("created")', NEW i \in Idx', NEW q \in P, In(i, q, stack[1].a)'
               PROVE  Told(i, q, stack[1].a)'
    BY <1>0 DEF Creating
  <2>1. PICK b \in Agents : b = stack'[1].a
    <3>1. PlacedAt(1)'
      BY <1>0, <1>2
    <3>. QED BY <3>1 DEF PlacedAt, Bottom
  <2>2. In(i, q, b)'
    BY <2>1 DEF In
  <2>3. CASE i = n + 1
    BY <1>0, <1>5, <1>6, <2>1, <2>2, <2>3 DEF Told
  <2>4. CASE i \in 1..n
    <3>1. i # 2 \/ q = "deny" \/ b \in missed \/ stack'[i].key = preset[b]
      BY <1>2, <1>13, <2>1, <2>2, <2>4
    <3>2. In(i, q, b) /\ Wk(i, q, b)
      BY <1>3, <2>2, <2>4 DEF In, Wk, IsWork
    <3>3. q # p \/ b # a
      BY <1>0, <1>4, <2>4, <3>2 DEF Free
    <3>4. q = "deny" \/ b \notin missed \/ b \in missed'
      BY <1>0, <3>3, TwoPolicies
    <3>. QED BY <1>0, <2>1, <3>1, <3>4 DEF Told
  <2>. QED BY <1>0, <2>3, <2>4
<1>17. Served'
  <2> SUFFICES ASSUME NEW q \in mounted, NEW b \in listed PROVE ServedAt(q, b)'
    BY <1>0 DEF Served
  <2>0. q \in P /\ b \in Agents
    BY DEF Inv, Typed
  <2>1. CASE q = p /\ b = a
    <3>1. In(n + 1, q, b)' /\ stack'[n + 1].key = preset'[b]
      BY <1>0, <1>5, <1>6, <2>1
    <3>. QED BY <1>0, <3>1 DEF ServedAt
  <2>2. CASE q # p \/ b # a
    <3>1. ASSUME DueAt(n, q, b) PROVE ServedAt(q, b)'
      <4>1. DueAt(n, q, b)'
        BY <1>0, <2>0, <2>2, <3>1, OthersDue
      <4>. QED BY <1>0, <4>1 DEF ServedAt
    <3>2. /\ n + 1 \in {n, n + 1} /\ (b \in installing'[q] => b \in installing[q])
          /\ \A r \in P : live[r] \subseteq live'[r] /\ (again[r] => again'[r])
          /\ UNCHANGED <<outer, own, removed>> /\ (q = "fish" /\ b \in missed => b \in missed')
      BY <1>0, <2>0, <2>2 DEF outer
    <3>. QED BY <3>1, <3>2, StillServed
  <2>. QED BY <2>1, <2>2
<1>. QED BY <1>7, <1>8, <1>9, <1>10, <1>11, <1>12, <1>14, <1>15, <1>16, <1>17 DEF Inv

LEMMA InRound ==
  ASSUME Configured, Inv, RoundInstalls
  PROVE  Inv'
<1>0. PICK f : f = Top
  OBVIOUS
<1>1. PICK n : n = Len(stack)
  OBVIOUS
<1>2. PICK g : g = [f EXCEPT !.left = Tail(@)]
  OBVIOUS
<1>a. PICK a : a = Head(f.left)
  OBVIOUS
<1>3. /\ stack # <<>> /\ n \in Nat \ {0} /\ f = stack[n] /\ f \in Frames /\ PlacedAt(n)
      /\ f.op = "round" /\ f.left # <<>>
  BY <1>0, <1>1, Atop DEF RoundInstalls, Is
<1>4. f \in RoundFrames /\ f.p \in mounted /\ ToSet(f.left) \subseteq listed
  BY <1>3, Kinds DEF PlacedAt
<1>5. f.left \in Seq(Agents) /\ f.p \in P
  BY <1>4 DEF RoundFrames
<1>6. a \in Agents /\ Tail(f.left) \in Seq(Agents) /\ ToSet(f.left) = {a} \cup ToSet(Tail(f.left))
  BY <1>3, <1>5, <1>a, Tails
<1>7. /\ g \in RoundFrames /\ g \in Frames /\ g.left = Tail(f.left)
      /\ f \notin EventFrames /\ f \notin TeardownFrames /\ f \notin WorkFrames
  BY <1>2, <1>3, <1>4, <1>6, Kinds DEF RoundFrames, Frames
<1>8. Kin(f, g)
  BY <1>2, <1>3, <1>4, <1>6, <1>7 DEF Kin, RoundFrames
<1>9. Comes2(f, g, f.p, a) /\ a \in listed
  BY <1>3, <1>4, <1>6, <1>7 DEF Comes2
<1>10. /\ live' = [live EXCEPT ![f.p] = @ \cup {a}] /\ CallInstall(f.p, a, g)
       /\ UNCHANGED <<outer, regs, own, removed, reconciling, again>>
  BY <1>0, <1>2, <1>a DEF RoundInstalls
<1>11. CASE Skips(f.p, a)
  <2>1. stack' = Append(Below, g) /\ UNCHANGED <<host, guards>>
    BY <1>10, <1>11 DEF CallInstall, guards, host
  <2>2. stack' \in Seq(Frames) /\ Len(stack') = n /\ stack' # <<>> /\ Keeps(n) /\ stack'[n] = g
    BY <1>1, <1>3, <1>7, <2>1, Running
  <2>. QED BY <1>1, <1>3, <1>4, <1>8, <1>9, <1>10, <1>11, <2>1, <2>2, InstallSkipped
<1>12. CASE ~Skips(f.p, a)
  <2>0. PICK h : h = Installs(f.p, a)
    OBVIOUS
  <2>1. /\ stack' = Below \o <<g, h>>
       /\ installing' = [installing EXCEPT ![f.p] = @ \cup {a}]
       /\ missed' = IF f.p = "fish" THEN missed \ {a} ELSE missed
    BY <1>10, <1>12, <2>0 DEF CallInstall, Installs
  <2>2. h \in Frames
    <3>1. own[f.p][a].regs \in Seq(Regs) /\ preset[a] \in Presets
      BY <1>5, <1>6 DEF Inv, Typed
    <3>. QED BY <1>5, <1>6, <2>0, <3>1 DEF Installs, Work, WorkFrames, Frames, Regs
  <2>3. /\ stack' \in Seq(Frames) /\ Len(stack') = n + 1 /\ stack' # <<>> /\ Keeps(n)
        /\ stack'[n] = g /\ stack'[n + 1] = h
    BY <1>1, <1>3, <1>7, <2>1, <2>2, Running
  <2>. QED BY <1>1, <1>3, <1>4, <1>8, <1>9, <1>10, <1>12, <2>0, <2>1, <2>3, InstallCalled
<1>. QED BY <1>11, <1>12

LEMMA AtCreation ==
  ASSUME Configured, Inv, OnCreated
  PROVE  Inv'
<1>0. PICK f : f = Top
  OBVIOUS
<1>1. PICK n : n = Len(stack)
  OBVIOUS
<1>2. PICK g : g = [f EXCEPT !.left = Tail(@)]
  OBVIOUS
<1>p. PICK p : p = Head(f.left)
  OBVIOUS
<1>3. /\ stack # <<>> /\ n \in Nat \ {0} /\ f = stack[n] /\ f \in Frames /\ PlacedAt(n)
      /\ f.op = "created" /\ f.left # <<>> /\ p \in mounted
  BY <1>0, <1>1, <1>p, Atop DEF OnCreated, Is
<1>4. f \in EventFrames /\ f.a \in listed /\ f.a \in Agents
  BY <1>3, Kinds DEF PlacedAt
<1>5. /\ g \in EventFrames /\ g \in Frames /\ Kin(f, g) /\ g.left = Tail(f.left)
      /\ ToSet(f.left) = {p} \cup ToSet(g.left) /\ p \in P
  BY <1>2, <1>3, <1>4, <1>p, Tells DEF Frames
<1>9. Comes2(f, g, p, f.a)
  BY <1>3, <1>4, <1>5 DEF Comes2
<1>10. /\ live' = [live EXCEPT ![p] = @ \cup {f.a}] /\ CallInstall(p, f.a, g)
       /\ UNCHANGED <<outer, regs, own, removed, reconciling, again>>
  BY <1>0, <1>2, <1>p DEF OnCreated, Heard
<1>11. CASE Skips(p, f.a)
  <2>1. stack' = Append(Below, g) /\ UNCHANGED <<host, guards>>
    BY <1>10, <1>11 DEF CallInstall, guards, host
  <2>2. stack' \in Seq(Frames) /\ Len(stack') = n /\ stack' # <<>> /\ Keeps(n) /\ stack'[n] = g
    BY <1>1, <1>3, <1>5, <2>1, Running
  <2>. QED BY <1>1, <1>3, <1>4, <1>5, <1>9, <1>10, <1>11, <2>1, <2>2, InstallSkipped
<1>12. CASE ~Skips(p, f.a)
  <2>0. PICK h : h = Installs(p, f.a)
    OBVIOUS
  <2>1. /\ stack' = Below \o <<g, h>>
       /\ installing' = [installing EXCEPT ![p] = @ \cup {f.a}]
       /\ missed' = IF p = "fish" THEN missed \ {f.a} ELSE missed
    BY <1>10, <1>12, <2>0 DEF CallInstall, Installs
  <2>2. h \in Frames
    <3>1. own[p][f.a].regs \in Seq(Regs) /\ preset[f.a] \in Presets
      BY <1>4, <1>5 DEF Inv, Typed
    <3>. QED BY <1>4, <1>5, <2>0, <3>1 DEF Installs, Work, WorkFrames, Frames, Regs
  <2>3. /\ stack' \in Seq(Frames) /\ Len(stack') = n + 1 /\ stack' # <<>> /\ Keeps(n)
        /\ stack'[n] = g /\ stack'[n + 1] = h
    BY <1>1, <1>3, <1>5, <2>1, <2>2, Running
  <2>. QED BY <1>1, <1>3, <1>4, <1>5, <1>9, <1>10, <1>12, <2>0, <2>1, <2>3, InstallCalled
<1>. QED BY <1>11, <1>12

---------------------------------------------------------------------------
(* Calls of uninstall.                                                     *)

Forgotten(p, a) ==
  /\ own' \in [P -> [Agents -> [key : Presets \cup {"none"}, regs : Seq(Regs)]]]
  /\ \A q \in P, b \in Agents : own'[q][b] = IF q = p /\ b = a THEN Nothing ELSE own[q][b]

LEMMA Forgets ==
  ASSUME Inv, NEW p \in P, NEW a \in Agents, own' = [own EXCEPT ![p][a] = Nothing]
  PROVE  Forgotten(p, a)
<1>1. own \in [P -> [Agents -> [key : Presets \cup {"none"}, regs : Seq(Regs)]]]
  BY DEF Inv, Typed
<1>2. Nothing \in [key : Presets \cup {"none"}, regs : Seq(Regs)]
  BY DEF Nothing
<1>. QED BY <1>1, <1>2 DEF Forgotten

LEMMA UninstallCalled ==
  ASSUME Inv, NEW f \in EventFrames \cup TeardownFrames, NEW g \in Frames, NEW p \in P, NEW a \in Agents,
         NEW h, h = Work("uninstall", p, a, own[p][a].regs, <<>>, "done"),
         Len(stack) = 1, stack[1] = f, stack # <<>>, stack' # <<>>,
         f.op \in {"disposed", "teardown"}, g.op = f.op, f.op = "disposed" => g.a = f.a /\ g.a = a,
         f.op = "teardown" => g.p = f.p /\ g.p = p,
         Len(stack') = 2, stack'[1] = g, stack'[2] = h, stack' \in Seq(Frames),
         UNCHANGED <<host, regs, installing, reconciling, again>>,
         live' \in [P -> SUBSET Agents], removed' \in [P -> SUBSET Agents],
         f.op = "disposed" => a \in removed'[p],
         Forgotten(p, a)
  PROVE  /\ Typed' /\ Placed' /\ Unique' /\ Matched' /\ Working' /\ Accounted' /\ Owning' /\ Creating'
         /\ \A q \in P, b \in Agents : b \notin installing[q]
<1>0. /\ UNCHANGED <<preset, listed, known, mounted, events, meddles, missed>>
      /\ Idx = {1} /\ Idx' = {1, 2} /\ PlacedAt(1)
  <2>1. Idx = {1} /\ Idx' = {1, 2}
    BY DEF Idx
  <2>. QED BY <2>1 DEF host, outer, Inv, Placed
<1>1. /\ own[p][a].regs \in Seq(Regs) /\ preset[a] \in Presets /\ OwnAt(p, a)
      /\ own \in [P -> [Agents -> [key : Presets \cup {"none"}, regs : Seq(Regs)]]]
  BY DEF Inv, Typed, Owning
<1>2. /\ h.op = "uninstall" /\ h.p = p /\ h.a = a /\ h.drops = own[p][a].regs
      /\ h.adds = <<>> /\ h.then = "done" /\ h.made = <<>>
  BY DEF Work
<1>4. \A q \in P, b \in Agents : own'[q][b] = IF q = p /\ b = a THEN Nothing ELSE own[q][b]
  BY DEF Forgotten
<1>5. \A q \in P, b \in Agents : /\ ~Wk(1, q, b) /\ ~In(1, q, b) /\ ~Wk(1, q, b)' /\ ~In(1, q, b)'
                                 /\ ~Rd(1, q) /\ ~Rd(1, q)' /\ ~Rd(2, q)' /\ ~In(2, q, b)'
                                 /\ Wk(2, q, b)' <=> (q = p /\ b = a)
  BY <1>2 DEF Wk, In, Rd, IsWork
<1>6. /\ \A q \in P : ~reconciling[q] /\ ~again[q] /\ \A b \in Agents : b \notin installing[q]
      /\ \A q \in P, b \in Agents : Free(q, b)
  <2>1. ASSUME NEW q \in P PROVE ~reconciling[q] /\ ~again[q] /\ \A b \in Agents : b \notin installing[q]
    BY <1>0, <1>5 DEF Inv, Matched
  <2>2. \A q \in P, b \in Agents : Free(q, b)
    BY <1>0, <1>5 DEF Free
  <2>. QED BY <2>1, <2>2
<1>7. Typed'
  BY <1>0 DEF Inv, Typed, Forgotten
<1>8. Placed'
  <2>1. PlacedAt(1)'
    <3>1. g.op \in {"disposed", "teardown"}
      OBVIOUS
    <3>. QED BY <1>0, <3>1 DEF PlacedAt
  <2>2. PlacedAt(2)'
    <3>1. own'[p][a] = Nothing
      BY <1>4
    <3>. QED BY <1>2, <3>1 DEF PlacedAt
  <2>. QED BY <1>0, <2>1, <2>2 DEF Placed
<1>9. Unique'
  BY <1>0, <1>5 DEF Unique
<1>10. Matched'
  <2> SUFFICES ASSUME NEW q \in P
               PROVE  /\ reconciling'[q] <=> \E i \in Idx' : Rd(i, q)'
                      /\ again'[q] => reconciling'[q]
                      /\ \A b \in Agents : b \in installing'[q] <=> \E i \in Idx' : In(i, q, b)'
    BY DEF Matched
  <2>. QED BY <1>0, <1>5, <1>6
<1>11. Working'
  <2>1. ToolsFit(h) /\ DenyFits(h) /\ FishFits(h)
    BY <1>1, <1>2 DEF OwnAt, ToolsFit, DenyFits, FishFits
  <2>2. WorkAt(2)'
    BY <1>0, <2>1, Fitted
  <2>3. ~IsWork(1)'
    BY DEF IsWork
  <2>. QED BY <1>0, <2>2, <2>3 DEF Working
<1>12. Accounted'
  <2>1. \A r \in Of(p) : regs[a][r] = IF r \in ToSet(own[p][a].regs) THEN 1 ELSE 0
    BY <1>6 DEF Inv, Accounted
  <2>2. Hand(h) = ToSet(own[p][a].regs)
    BY <1>2, Empty DEF Hand
  <2>3. ASSUME NEW i \in Idx', IsWork(i)', NEW r \in Of(stack'[i].p)
        PROVE  regs'[stack'[i].a][r] = IF r \in Hand(stack'[i]) THEN 1 ELSE 0
    <3>1. i = 2
      BY <1>0, <2>3 DEF IsWork
    <3>. QED BY <1>2, <2>1, <2>2, <2>3, <3>1
  <2>4. ASSUME NEW q \in P, NEW b \in Agents, Free(q, b)', NEW r \in Of(q)
        PROVE  regs'[b][r] = IF r \in ToSet(own'[q][b].regs) THEN 1 ELSE 0
    <3>1. ~(q = p /\ b = a)
      BY <1>0, <1>5, <2>4 DEF Free
    <3>2. own'[q][b] = own[q][b]
      BY <1>4, <3>1
    <3>. QED BY <1>6, <2>4, <3>2 DEF Inv, Accounted
  <2>. QED BY <2>3, <2>4 DEF Accounted
<1>13. Owning'
  <2> SUFFICES ASSUME NEW q \in P, NEW b \in Agents PROVE OwnAt(q, b)'
    BY DEF Owning
  <2>1. CASE q = p /\ b = a
    <3>1. own'[q][b] = Nothing /\ own'[q][b].regs = <<>>
      BY <1>4, <2>1 DEF Nothing
    <3>. QED BY <3>1, Empty DEF OwnAt
  <2>2. CASE ~(q = p /\ b = a)
    <3>1. own'[q][b] = own[q][b] /\ OwnAt(q, b)
      BY <1>4, <2>2 DEF Inv, Owning
    <3>. QED BY <1>0, <3>1 DEF OwnAt
  <2>. QED BY <2>1, <2>2
<1>14. Creating'
  BY DEF Creating, Bottom
<1>. QED BY <1>4, <1>6, <1>7, <1>8, <1>9, <1>10, <1>11, <1>12, <1>13, <1>14

\* What a policy is served with when no frame but a teardown's or a disposal's is
\* in the call stack.
LEMMA ByOwn ==
  ASSUME Inv, Len(stack) = 1, stack # <<>>, stack[1].op \in {"disposed", "teardown"},
         NEW q \in mounted, NEW b \in listed, ~Dying(b), \A x \in Agents : x \notin installing[q]
  PROVE  (Right(q, b) \/ Excused(q, b)) /\ q \in P /\ b \in Agents
<1>1. Idx = {1} /\ q \in P /\ b \in Agents
  BY DEF Idx, Inv, Typed
<1>2. ~\E i \in Idx : DueAt(i, q, b)
  BY <1>1 DEF DueAt, Rd
<1>3. ~\E i \in Idx : In(i, q, b)
  BY <1>1 DEF In
<1>. QED BY <1>1, <1>2, <1>3 DEF Inv, Served, ServedAt

LEMMA AtDisposal ==
  ASSUME Configured, Inv, OnDisposed
  PROVE  Inv'
<1>0. PICK f : f = Top
  OBVIOUS
<1>2. PICK g : g = [f EXCEPT !.left = Tail(@)]
  OBVIOUS
<1>p. PICK p : p = Head(f.left)
  OBVIOUS
<1>a. PICK a : a = f.a
  OBVIOUS
<1>3. /\ stack # <<>> /\ f = stack[Len(stack)] /\ f \in Frames /\ PlacedAt(Len(stack))
      /\ f.op = "disposed" /\ f.left # <<>> /\ p \in mounted
  BY <1>0, <1>p, Atop DEF OnDisposed, Is
<1>4. f \in EventFrames /\ f.a = a /\ a \in Agents /\ Len(stack) = 1 /\ stack[1] = f
  BY <1>3, <1>a, Kinds DEF PlacedAt
<1>5. /\ g \in EventFrames /\ g \in Frames /\ Kin(f, g) /\ g.left = Tail(f.left)
      /\ ToSet(f.left) = {p} \cup ToSet(g.left) /\ p \in P
  BY <1>2, <1>3, <1>4, <1>p, Tells DEF Frames
<1>6. PICK h : h = Work("uninstall", p, a, own[p][a].regs, <<>>, "done")
  OBVIOUS
<1>7. /\ own' = [own EXCEPT ![p][a] = Nothing] /\ stack' = Below \o <<g, h>>
      /\ live' = [live EXCEPT ![p] = @ \ {a}] /\ removed' = [removed EXCEPT ![p] = @ \cup {a}]
      /\ UNCHANGED <<host, regs, installing, reconciling, again>>
  BY <1>0, <1>2, <1>6, <1>p, <1>a DEF OnDisposed, CallUninstall, Heard
<1>8. h \in Frames
  <2>1. own[p][a].regs \in Seq(Regs) /\ preset[a] \in Presets
    BY <1>4, <1>5 DEF Inv, Typed
  <2>. QED BY <1>4, <1>5, <1>6, <2>1 DEF Work, WorkFrames, Frames
<1>9. /\ stack' \in Seq(Frames) /\ Len(stack') = 2 /\ stack' # <<>> /\ stack'[1] = g /\ stack'[2] = h
  <2>1. /\ stack' \in Seq(Frames) /\ Len(stack') = Len(stack) + 1 /\ stack' # <<>>
        /\ stack'[Len(stack)] = g /\ stack'[Len(stack) + 1] = h
    BY <1>3, <1>5, <1>7, <1>8, Running
  <2>2. Len(stack) + 1 = 2
    BY <1>4
  <2>. QED BY <1>4, <2>1, <2>2
<1>10. /\ live' \in [P -> SUBSET Agents] /\ removed' \in [P -> SUBSET Agents] /\ a \in removed'[p]
       /\ \A q \in P, b \in Agents : /\ b \in removed'[q] <=> (b \in removed[q] \/ (q = p /\ b = a))
                                     /\ b \in live'[q] <=> (b \in live[q] /\ ~(q = p /\ b = a))
  BY <1>4, <1>5, <1>7 DEF Inv, Typed
<1>11. g.op = f.op /\ g.a = a
  BY <1>4, <1>5 DEF Kin
<1>12. /\ Typed' /\ Placed' /\ Unique' /\ Matched' /\ Working' /\ Accounted' /\ Owning' /\ Creating'
       /\ \A q \in P, b \in Agents : /\ b \notin installing[q]
                                     /\ own'[q][b] = IF q = p /\ b = a THEN Nothing ELSE own[q][b]
  <2>1. /\ f.op \in {"disposed", "teardown"} /\ (f.op = "disposed" => g.a = f.a /\ g.a = a)
        /\ (f.op = "teardown" => g.p = f.p /\ g.p = p) /\ f \in EventFrames \cup TeardownFrames
        /\ (f.op = "disposed" => a \in removed'[p])
    BY <1>3, <1>4, <1>10, <1>11
  <2>2. p \in P /\ a \in Agents /\ g \in Frames
    BY <1>4, <1>5
  <2>3. /\ Len(stack) = 1 /\ stack[1] = f /\ stack # <<>> /\ stack' # <<>> /\ Len(stack') = 2
        /\ stack'[1] = g /\ stack'[2] = h /\ stack' \in Seq(Frames) /\ g.op = f.op
        /\ UNCHANGED <<host, regs, installing, reconciling, again>>
        /\ live' \in [P -> SUBSET Agents] /\ removed' \in [P -> SUBSET Agents]
        /\ Forgotten(p, a)
        /\ h = Work("uninstall", p, a, own[p][a].regs, <<>>, "done")
    BY <1>3, <1>4, <1>6, <1>7, <1>9, <1>10, <1>11, <2>2, Forgets
  <2>4. /\ Typed' /\ Placed' /\ Unique' /\ Matched' /\ Working' /\ Accounted' /\ Owning' /\ Creating'
        /\ \A q \in P, b \in Agents : b \notin installing[q]
    BY <2>1, <2>2, <2>3, UninstallCalled
  <2>. QED BY <2>3, <2>4 DEF Forgotten
<1>13. \A b : (Dying(b) <=> b = a) /\ (Dying(b)' <=> b = a)
  BY <1>3, <1>4, <1>9, <1>11 DEF Dying, Bottom
<1>14. UNCHANGED <<mounted, listed, preset, known, missed, installing>>
  BY <1>7 DEF host, outer
<1>15. Left'
  <2> SUFFICES ASSUME NEW q \in P, NEW b \in Agents PROVE Leaving(q, b)'
    BY DEF Left
  <2>1. Leaving(q, b)
    BY DEF Inv, Left
  <2>2. ~Bottom("teardown") /\ stack[1].left = f.left /\ stack'[1].left = g.left
    BY <1>3, <1>4, <1>9 DEF Bottom
  <2>3. CASE q = p /\ b = a
    <3>1. own'[q][b] = Nothing /\ b \in removed'[q] /\ b \notin installing[q]
      BY <1>10, <1>12, <2>3
    <3>. QED BY <1>13, <1>14, <2>3, <3>1 DEF Leaving
  <2>4. CASE ~(q = p /\ b = a)
    <3>1. own'[q][b] = own[q][b] /\ (b \in removed'[q] <=> b \in removed[q]) /\ (b \in live'[q] <=> b \in live[q])
      BY <1>10, <1>12, <2>4
    <3>2. Dying(b) => (q \in ToSet(stack[1].left) <=> q \in ToSet(stack'[1].left))
      BY <1>5, <1>13, <2>2, <2>4
    <3>. QED BY <1>13, <1>14, <2>1, <2>2, <3>1, <3>2 DEF Leaving
  <2>. QED BY <2>3, <2>4 DEF Forgotten
<1>16. Served'
  <2> SUFFICES ASSUME NEW q \in mounted, NEW b \in listed, b # a PROVE ServedAt(q, b)'
    BY <1>13, <1>14 DEF Served, ServedAt
  <2>0. q \in P
    BY DEF Inv, Typed
  <2>1. (Right(q, b) \/ Excused(q, b)) /\ q \in P /\ b \in Agents
    BY <1>3, <1>4, <1>12, <1>13, <2>0, ByOwn
  <2>2. own'[q][b] = own[q][b] /\ b \notin installing'[q]
    BY <1>12, <1>14, <2>1
  <2>3. Right(q, b)' \/ Excused(q, b)'
    BY <1>10, <1>14, <2>1, <2>2 DEF Right, Excused
  <2>. QED BY <2>2, <2>3 DEF ServedAt
<1>. QED BY <1>12, <1>15, <1>16 DEF Inv

LEMMA AtTeardown ==
  ASSUME Configured, Inv, TeardownAgent
  PROVE  Inv'
<1>0. PICK f : f = Top
  OBVIOUS
<1>2. PICK g : g = [f EXCEPT !.left = Tail(@)]
  OBVIOUS
<1>a. PICK a : a = Head(f.left)
  OBVIOUS
<1>p. PICK p : p = f.p
  OBVIOUS
<1>3. /\ stack # <<>> /\ f = stack[Len(stack)] /\ f \in Frames /\ PlacedAt(Len(stack))
      /\ f.op = "teardown" /\ f.left # <<>>
  BY <1>0, Atop DEF TeardownAgent, Is
<1>4. f \in TeardownFrames /\ f.p = p /\ Len(stack) = 1 /\ stack[1] = f /\ p \notin mounted
  BY <1>3, <1>p, Kinds DEF PlacedAt
<1>5. f.left \in Seq(Agents) /\ p \in P
  BY <1>4 DEF TeardownFrames
<1>6. a \in Agents /\ Tail(f.left) \in Seq(Agents) /\ ToSet(f.left) = {a} \cup ToSet(Tail(f.left))
  BY <1>3, <1>5, <1>a, Tails
<1>7. g \in Frames /\ g.left = Tail(f.left) /\ g.op = f.op /\ g.p = p
  BY <1>2, <1>4, <1>6 DEF TeardownFrames, Frames
<1>8. PICK h : h = Work("uninstall", p, a, own[p][a].regs, <<>>, "done")
  OBVIOUS
<1>9. /\ own' = [own EXCEPT ![p][a] = Nothing] /\ stack' = Below \o <<g, h>>
      /\ removed' = IF p = "fish" THEN [removed EXCEPT !["fish"] = @ \cup {a}] ELSE removed
      /\ UNCHANGED <<host, regs, live, installing, reconciling, again>>
  BY <1>0, <1>2, <1>8, <1>a, <1>p DEF TeardownAgent, CallUninstall
<1>10. h \in Frames
  <2>1. own[p][a].regs \in Seq(Regs) /\ preset[a] \in Presets
    BY <1>5, <1>6 DEF Inv, Typed
  <2>. QED BY <1>5, <1>6, <1>8, <2>1 DEF Work, WorkFrames, Frames
<1>11. /\ stack' \in Seq(Frames) /\ Len(stack') = 2 /\ stack' # <<>> /\ stack'[1] = g /\ stack'[2] = h
  <2>1. /\ stack' \in Seq(Frames) /\ Len(stack') = Len(stack) + 1 /\ stack' # <<>>
        /\ stack'[Len(stack)] = g /\ stack'[Len(stack) + 1] = h
    BY <1>3, <1>7, <1>9, <1>10, Running
  <2>2. Len(stack) + 1 = 2
    BY <1>4
  <2>. QED BY <1>4, <2>1, <2>2
<1>12. /\ live' \in [P -> SUBSET Agents] /\ removed' \in [P -> SUBSET Agents]
       /\ \A q \in P : q # p => removed'[q] = removed[q]
       /\ \A b \in Agents : b \in removed'[p] => b \in removed[p] \/ b = a
  BY <1>5, <1>6, <1>9 DEF Inv, Typed
<1>13. /\ Typed' /\ Placed' /\ Unique' /\ Matched' /\ Working' /\ Accounted' /\ Owning' /\ Creating'
       /\ \A q \in P, b \in Agents : /\ b \notin installing[q]
                                     /\ own'[q][b] = IF q = p /\ b = a THEN Nothing ELSE own[q][b]
  <2>1. /\ f.op \in {"disposed", "teardown"} /\ (f.op = "disposed" => g.a = f.a /\ g.a = a)
        /\ (f.op = "teardown" => g.p = f.p /\ g.p = p) /\ f \in EventFrames \cup TeardownFrames
        /\ (f.op = "disposed" => a \in removed'[p])
    BY <1>3, <1>4, <1>7
  <2>2. p \in P /\ a \in Agents /\ g \in Frames /\ live' \in [P -> SUBSET Agents]
    BY <1>5, <1>6, <1>7, <1>12
  <2>3. /\ Len(stack) = 1 /\ stack[1] = f /\ stack # <<>> /\ stack' # <<>> /\ Len(stack') = 2
        /\ stack'[1] = g /\ stack'[2] = h /\ stack' \in Seq(Frames) /\ g.op = f.op
        /\ UNCHANGED <<host, regs, installing, reconciling, again>>
        /\ live' \in [P -> SUBSET Agents] /\ removed' \in [P -> SUBSET Agents]
        /\ Forgotten(p, a)
        /\ h = Work("uninstall", p, a, own[p][a].regs, <<>>, "done")
    BY <1>3, <1>4, <1>7, <1>8, <1>9, <1>11, <1>12, <2>2, Forgets
  <2>4. /\ Typed' /\ Placed' /\ Unique' /\ Matched' /\ Working' /\ Accounted' /\ Owning' /\ Creating'
        /\ \A q \in P, b \in Agents : b \notin installing[q]
    BY <2>1, <2>2, <2>3, UninstallCalled
  <2>. QED BY <2>3, <2>4 DEF Forgotten
<1>14. \A b : ~Dying(b) /\ ~Dying(b)'
  BY <1>3, <1>4, <1>7, <1>11 DEF Dying, Bottom
<1>15. UNCHANGED <<mounted, listed, preset, known, missed, installing, live>>
  BY <1>9 DEF host, outer
<1>16. Left'
  <2> SUFFICES ASSUME NEW q \in P, NEW b \in Agents PROVE Leaving(q, b)'
    BY DEF Left
  <2>1. Leaving(q, b)
    BY DEF Inv, Left
  <2>2. /\ Bottom("teardown") /\ Bottom("teardown")' /\ stack[1].left = f.left /\ stack'[1].left = g.left
        /\ stack[1].p = p /\ stack'[1].p = p
    BY <1>3, <1>4, <1>7, <1>11 DEF Bottom
  <2>3. CASE q = p
    <3>1. b = a \/ own'[q][b] = own[q][b]
      BY <1>13
    <3>2. b = a => own'[q][b] = Nothing
      BY <1>13, <2>3
    <3>. QED BY <1>4, <1>6, <1>7, <1>12, <1>14, <1>15, <2>1, <2>2, <2>3, <3>1, <3>2 DEF Leaving
  <2>4. CASE q # p
    <3>1. own'[q][b] = own[q][b] /\ removed'[q] = removed[q]
      BY <1>12, <1>13, <2>4
    <3>. QED BY <1>14, <1>15, <2>1, <2>2, <2>4, <3>1 DEF Leaving
  <2>. QED BY <2>3, <2>4 DEF Forgotten
<1>17. Served'
  <2> SUFFICES ASSUME NEW q \in mounted, NEW b \in listed PROVE ServedAt(q, b)'
    BY <1>15 DEF Served
  <2>0. q \in P
    BY DEF Inv, Typed
  <2>1. (Right(q, b) \/ Excused(q, b)) /\ q \in P /\ b \in Agents
    BY <1>3, <1>4, <1>13, <1>14, <2>0, ByOwn
  <2>2. own'[q][b] = own[q][b] /\ b \notin installing'[q]
    BY <1>4, <1>13, <1>15, <2>1
  <2>3. Right(q, b)' \/ Excused(q, b)'
    BY <1>4, <1>12, <1>15, <2>1, <2>2 DEF Right, Excused
  <2>. QED BY <2>2, <2>3 DEF ServedAt
<1>. QED BY <1>13, <1>16, <1>17 DEF Inv

---------------------------------------------------------------------------
(* The last word of an install or an uninstall.                            *)

\* What a policy has for an agent when the work frame f of the two is done: what
\* is in force is what is owned.
Settles(f, o) ==
  /\ own' = [own EXCEPT ![f.p][f.a] = o]
  /\ o \in [key : Presets \cup {"none"}, regs : Seq(Regs)]
  /\ ToSet(o.regs) = Hand(f) /\ NoDup(o.regs) /\ ToSet(o.regs) \subseteq Of(f.p)

Owned(f, o) ==
  /\ own' \in [P -> [Agents -> [key : Presets \cup {"none"}, regs : Seq(Regs)]]]
  /\ \A q \in P, b \in Agents : own'[q][b] = IF q = f.p /\ b = f.a THEN o ELSE own[q][b]

LEMMA Owns ==
  ASSUME Inv, NEW f \in WorkFrames, NEW o, Settles(f, o)
  PROVE  Owned(f, o)
<1>1. own \in [P -> [Agents -> [key : Presets \cup {"none"}, regs : Seq(Regs)]]]
  BY DEF Inv, Typed
<1>2. f.p \in P /\ f.a \in Agents
  BY DEF WorkFrames
<1>. QED BY <1>1, <1>2 DEF Settles, Owned

LEMMA WorkDone ==
  ASSUME Configured, Inv, NEW n \in Nat \ {0}, NEW f \in WorkFrames, NEW o, Settles(f, o),
         Len(stack) = n, stack[n] = f, Len(stack') = n - 1, Keeps(n), stack # <<>>, stack' \in Seq(Frames),
         UNCHANGED <<host, regs, live, removed, reconciling, again>>,
         installing' = [installing EXCEPT ![f.p] = @ \ {f.a}]
  PROVE  /\ Typed' /\ Placed' /\ Unique' /\ Matched' /\ Working' /\ Accounted' /\ Creating'
         /\ n > 1 /\ stack' # <<>> /\ stack'[1] = stack[1] /\ PlacedAt(n)
         /\ \A q \in P, b \in Agents : b \in installing'[q] <=> b \in installing[q] /\ ~(q = f.p /\ b = f.a)
         /\ f.p \in P /\ f.a \in Agents /\ Wk(n, f.p, f.a)
         /\ \A q \in P, b \in Agents : q # f.p \/ b # f.a => own'[q][b] = own[q][b]
         /\ own'[f.p][f.a] = o
<1>0. /\ UNCHANGED <<preset, listed, known, mounted, events, meddles, missed>>
      /\ f.p \in P /\ f.a \in Agents /\ f.op \in {"install", "uninstall"}
  BY DEF host, outer, WorkFrames
<1>1. /\ Idx = 1..n /\ Idx' = 1..(n - 1) /\ \A i \in Idx' : i \in Idx /\ i # n /\ stack'[i] = stack[i]
      /\ \A i \in Idx : i = n \/ i \in Idx'
      /\ \A i \in Idx', q \in P :
              /\ Rd(i, q)' <=> Rd(i, q)
              /\ \A a \in Agents : (Wk(i, q, a)' <=> Wk(i, q, a)) /\ (In(i, q, a)' <=> In(i, q, a))
      /\ \A i \in Idx' : IsWork(i)' <=> IsWork(i)
      /\ n > 1 => stack' # <<>> /\ stack'[1] = stack[1] /\ 1 \in Idx'
      /\ n \in Idx
  BY Shrunk
<1>2. Owned(f, o) /\ PlacedAt(n) /\ Wk(n, f.p, f.a) /\ IsWork(n)
  BY <1>0, <1>1, Owns DEF Inv, Placed, Wk, IsWork
<1>3. n > 1
  BY <1>0, <1>2 DEF PlacedAt
<1>4. \A q \in P, b \in Agents : b \in installing'[q] <=> b \in installing[q] /\ ~(q = f.p /\ b = f.a)
  BY <1>0 DEF Inv, Typed
<1>5. /\ \A q \in P, b \in Agents : own'[q][b] = IF q = f.p /\ b = f.a THEN o ELSE own[q][b]
      /\ own' \in [P -> [Agents -> [key : Presets \cup {"none"}, regs : Seq(Regs)]]]
  BY <1>2 DEF Owned
<1>6. \A i \in Idx' : ~Wk(i, f.p, f.a) /\ ~Rd(n, f.p)
  <2>1. \A i \in Idx' : ~Wk(i, f.p, f.a)
    BY <1>0, <1>1, <1>2 DEF Inv, Unique
  <2>2. ~Rd(n, f.p)
    BY <1>0 DEF Rd
  <2>. QED BY <2>1, <2>2
<1>7. Typed'
  <2>1. installing' \in [P -> SUBSET Agents]
    BY <1>0 DEF Inv, Typed
  <2>. QED BY <1>0, <1>5, <2>1 DEF Inv, Typed
<1>8. Placed'
  <2> SUFFICES ASSUME NEW i \in Idx' PROVE PlacedAt(i)'
    BY DEF Placed
  <2>1. PlacedAt(i) /\ stack'[i] = stack[i] /\ stack'[1] = stack[1] /\ (i > 1 => i - 1 \in Idx') /\ stack[i] \in Frames
    BY <1>1, <1>3 DEF Inv, Placed, Typed
  <2>2. stack[i].op \in {"install", "uninstall"} => stack[i].p \in P /\ stack[i].a \in Agents
    BY <2>1, Kinds DEF WorkFrames
  <2>3. stack[i].op = "uninstall" => own'[stack[i].p][stack[i].a] = own[stack[i].p][stack[i].a]
    <3>1. stack[i].op = "uninstall" => ~(stack[i].p = f.p /\ stack[i].a = f.a)
      BY <1>6 DEF Wk, IsWork
    <3>. QED BY <1>5, <2>2, <3>1
  <2>4. stack[i].op = "install" => i = 1 \/ (Rd(i - 1, stack[i].p)' <=> Rd(i - 1, stack[i].p))
    BY <1>1, <2>1, <2>2 DEF Rd
  <2>. QED BY <1>0, <2>1, <2>3, <2>4 DEF PlacedAt
<1>9. Unique'
  BY <1>1 DEF Inv, Unique
<1>10. Matched'
  <2> SUFFICES ASSUME NEW q \in P
               PROVE  /\ reconciling'[q] <=> \E i \in Idx' : Rd(i, q)'
                      /\ again'[q] => reconciling'[q]
                      /\ \A b \in Agents : b \in installing'[q] <=> \E i \in Idx' : In(i, q, b)'
    BY DEF Matched
  <2>0. /\ reconciling[q] <=> \E i \in Idx : Rd(i, q)
        /\ again[q] => reconciling[q]
        /\ \A a \in Agents : a \in installing[q] <=> \E i \in Idx : In(i, q, a)
    BY DEF Inv, Matched
  <2>1. ~Rd(n, q)
    BY <1>0 DEF Rd
  <2>2. ASSUME NEW b \in Agents PROVE b \in installing'[q] <=> \E i \in Idx' : In(i, q, b)'
    <3>1. CASE q = f.p /\ b = f.a
      <4>1. ~\E i \in Idx' : In(i, q, b)'
        BY <1>1, <1>6, <3>1 DEF In, Wk, IsWork
      <4>. QED BY <1>4, <3>1, <4>1
    <3>2. CASE ~(q = f.p /\ b = f.a)
      <4>1. ~In(n, q, b)
        BY <3>2 DEF In
      <4>. QED BY <1>1, <1>4, <2>0, <3>2, <4>1
    <3>. QED BY <3>1, <3>2
  <2>. QED BY <1>1, <2>0, <2>1, <2>2
<1>11. Working'
  <2> SUFFICES ASSUME NEW i \in Idx', IsWork(i)' PROVE WorkAt(i)'
    BY DEF Working
  <2>1. stack'[i] = stack[i] /\ WorkAt(i)
    BY <1>1 DEF Inv, Working
  <2>. QED BY <1>0, <2>1, Fits
<1>12. Accounted'
  <2>1. ASSUME NEW i \in Idx', IsWork(i)', NEW r \in Of(stack'[i].p)
        PROVE  regs'[stack'[i].a][r] = IF r \in Hand(stack'[i]) THEN 1 ELSE 0
    <3>1. stack'[i] = stack[i] /\ IsWork(i) /\ i \in Idx
      BY <1>1, <2>1
    <3>. QED BY <2>1, <3>1 DEF Inv, Accounted
  <2>2. ASSUME NEW q \in P, NEW b \in Agents, Free(q, b)', NEW r \in Of(q)
        PROVE  regs'[b][r] = IF r \in ToSet(own'[q][b].regs) THEN 1 ELSE 0
    <3>1. CASE q = f.p /\ b = f.a
      <4>1. regs[b][r] = IF r \in Hand(f) THEN 1 ELSE 0
        BY <1>1, <1>2, <2>2, <3>1 DEF Inv, Accounted
      <4>2. ToSet(own'[q][b].regs) = Hand(f)
        BY <1>5, <3>1 DEF Settles
      <4>. QED BY <4>1, <4>2
    <3>2. CASE ~(q = f.p /\ b = f.a)
      <4>1. Free(q, b)
        <5> SUFFICES ASSUME NEW i \in Idx, Wk(i, q, b) PROVE FALSE
          BY DEF Free
        <5>1. i # n
          BY <3>2 DEF Wk
        <5>. QED BY <1>1, <2>2, <5>1 DEF Free
      <4>2. own'[q][b] = own[q][b]
        BY <1>5, <3>2
      <4>. QED BY <2>2, <4>1, <4>2 DEF Inv, Accounted
    <3>. QED BY <3>1, <3>2
  <2>. QED BY <2>1, <2>2 DEF Accounted
<1>13. Creating'
  <2> SUFFICES ASSUME Bottom("created")', NEW i \in Idx', NEW q \in P, In(i, q, stack[1].a)'
               PROVE  Told(i, q, stack[1].a)'
    BY <1>0 DEF Creating
  <2>1. stack'[1] = stack[1] /\ Bottom("created") /\ stack'[i] = stack[i] /\ i \in Idx
    BY <1>1, <1>3 DEF Bottom
  <2>2. In(i, q, stack[1].a)
    BY <2>1 DEF In
  <2>3. Told(i, q, stack[1].a)
    BY <2>1, <2>2 DEF Inv, Creating
  <2>. QED BY <1>0, <2>1, <2>3 DEF Told
<1>. QED BY <1>0, <1>1, <1>2, <1>3, <1>4, <1>5, <1>7, <1>8, <1>9, <1>10, <1>11, <1>12, <1>13

\* Whom the frame that is done did not serve is served as before.
LEMMA StaysServed ==
  ASSUME Inv, NEW n \in Nat \ {0}, NEW f \in WorkFrames, n > 1,
         Len(stack) = n, stack[n] = f, Len(stack') = n - 1, Keeps(n), stack # <<>>, stack' \in Seq(Frames),
         UNCHANGED <<preset, listed, known, mounted, removed, again, missed>>,
         NEW q \in mounted, NEW b \in listed, b \in installing'[q] => b \in installing[q],
         In(n, q, b) => q = "fish" /\ f.key # preset[b], b \notin installing[q] => own'[q][b] = own[q][b]
  PROVE  ServedAt(q, b)'
<1>1. /\ Idx = 1..n /\ Idx' = 1..(n - 1) /\ \A i \in Idx' : i \in Idx /\ i # n /\ stack'[i] = stack[i]
      /\ \A i \in Idx : i = n \/ i \in Idx'
      /\ \A i \in Idx', p \in P :
              /\ Rd(i, p)' <=> Rd(i, p)
              /\ \A a \in Agents : (Wk(i, p, a)' <=> Wk(i, p, a)) /\ (In(i, p, a)' <=> In(i, p, a))
      /\ stack' # <<>> /\ stack'[1] = stack[1] /\ 1 \in Idx'
  BY Shrunk
<1>2. f.op \in {"install", "uninstall"}
  BY DEF WorkFrames
<1>3. q \in P /\ b \in Agents /\ ServedAt(q, b)
  BY DEF Inv, Typed, Served
<1>4. CASE Dying(b)
  BY <1>1, <1>4 DEF ServedAt, Dying, Bottom
<1>5. CASE \E i \in Idx : DueAt(i, q, b)
  <2>1. PICK i \in Idx : DueAt(i, q, b)
    BY <1>5
  <2>2. i # n
    BY <1>2, <2>1 DEF DueAt, Rd
  <2>3. i \in Idx' /\ stack'[i] = stack[i] /\ (Rd(i, q)' <=> Rd(i, q))
    BY <1>1, <1>3, <2>2
  <2>4. \A j \in 1..(i - 1) : j \in Idx' /\ stack'[j] = stack[j] /\ (Rd(j, q)' <=> Rd(j, q))
    BY <1>1, <1>3, <2>3
  <2>5. DueAt(i, q, b)'
    BY <2>1, <2>3, <2>4 DEF DueAt
  <2>. QED BY <2>3, <2>5 DEF ServedAt
<1>6. CASE \E i \in Idx : In(i, q, b) /\ (q = "deny" \/ stack[i].key = preset[b])
  <2>1. PICK i \in Idx : In(i, q, b) /\ (q = "deny" \/ stack[i].key = preset[b])
    BY <1>6
  <2>2. i # n
    BY <2>1
  <2>3. i \in Idx' /\ In(i, q, b)' /\ (q = "deny" \/ stack'[i].key = preset'[b])
    BY <1>1, <1>3, <2>1, <2>2
  <2>. QED BY <2>3 DEF ServedAt
<1>7. CASE b \notin installing[q] /\ Right(q, b)
  BY <1>7 DEF ServedAt, Right
<1>8. CASE Excused(q, b)
  BY <1>8 DEF ServedAt, Excused
<1>. QED BY <1>3, <1>4, <1>5, <1>6, <1>7, <1>8 DEF ServedAt

LEMMA Undone ==
  ASSUME Configured, Inv, Uninstalled
  PROVE  Inv'
<1>0. PICK f : f = Top
  OBVIOUS
<1>1. PICK n : n = Len(stack)
  OBVIOUS
<1>2. /\ stack # <<>> /\ n \in Nat \ {0} /\ f = stack[n] /\ f \in WorkFrames /\ ToolsFit(f) /\ PlacedAt(n)
      /\ n \in Idx /\ Wk(n, f.p, f.a)
  BY <1>0, <1>1, AtWork DEF Uninstalled, Comes
<1>3. f.then = "done" /\ f.drops = <<>> /\ stack' = Below
  BY <1>0 DEF Uninstalled, Comes
<1>4. /\ UNCHANGED <<preset, listed, known, mounted, events, meddles, missed>>
      /\ UNCHANGED <<regs, own, live, installing, removed, reconciling, again, host>>
  BY DEF Uninstalled, host, outer, guards
<1>5. f.op = "uninstall" /\ f.made = <<>> /\ f.p \in P /\ f.a \in Agents
  BY <1>2, <1>3 DEF ToolsFit, WorkFrames
<1>6. own[f.p][f.a] = Nothing /\ n = 2
  BY <1>2, <1>5 DEF PlacedAt
<1>7. Settles(f, Nothing)
  <2>1. own' = [own EXCEPT ![f.p][f.a] = Nothing]
    BY <1>4, <1>5, <1>6 DEF Inv, Typed
  <2>2. Hand(f) = {}
    BY <1>3, <1>5, Empty DEF Hand
  <2>3. Nothing \in [key : Presets \cup {"none"}, regs : Seq(Regs)] /\ Nothing.regs = <<>>
    BY DEF Nothing
  <2>. QED BY <2>1, <2>2, <2>3, Empty DEF Settles
<1>8. f.a \notin installing[f.p]
  <2> SUFFICES ASSUME NEW i \in Idx, In(i, f.p, f.a) PROVE FALSE
    BY <1>5 DEF Inv, Matched
  <2>1. Wk(i, f.p, f.a)
    BY DEF In, Wk, IsWork
  <2>2. i = n
    BY <1>2, <1>5, <2>1 DEF Inv, Unique
  <2>. QED BY <1>2, <1>5, <2>2 DEF In
<1>9. installing' = [installing EXCEPT ![f.p] = @ \ {f.a}]
  BY <1>4, <1>5, <1>8 DEF Inv, Typed
<1>10. Len(stack') = n - 1 /\ Keeps(n) /\ stack' \in Seq(Frames)
  BY <1>1, <1>2, <1>3, Pops
<1>11. /\ Typed' /\ Placed' /\ Unique' /\ Matched' /\ Working' /\ Accounted' /\ Creating'
       /\ n > 1 /\ stack' # <<>> /\ stack'[1] = stack[1]
  BY <1>1, <1>2, <1>4, <1>7, <1>9, <1>10, WorkDone
<1>12. Left'
  <2>1. \A a : (Dying(a)' <=> Dying(a)) /\ (Bottom("teardown")' <=> Bottom("teardown"))
    BY <1>2, <1>11 DEF Dying, Bottom
  <2>. QED BY <1>4, <1>11, <2>1 DEF Inv, Left, Leaving
<1>13. Owning'
  BY <1>4 DEF Inv, Owning, OwnAt
<1>14. Served'
  <2> SUFFICES ASSUME NEW q \in mounted, NEW b \in listed PROVE ServedAt(q, b)'
    BY <1>4 DEF Served
  <2>1. ~In(n, q, b)
    BY <1>2, <1>5 DEF In
  <2>. QED BY <1>1, <1>2, <1>4, <1>10, <1>11, <2>1, StaysServed
<1>. QED BY <1>11, <1>12, <1>13, <1>14 DEF Inv

\* What an install sets when it has made everything it wanted, or gives up.
Outcome(f) ==
  IF f.then = "commit" THEN [key |-> f.key, regs |-> Reverse(f.made)] ELSE Nothing

LEMMA Outcomes ==
  ASSUME Configured, NEW f \in WorkFrames, ToolsFit(f), DenyFits(f), FishFits(f), f.drops = <<>>, f.adds = <<>>,
         f.then \in {"commit", "abandon"}
  PROVE  /\ Outcome(f) \in [key : Presets \cup {"none"}, regs : Seq(Regs)]
         /\ ToSet(Outcome(f).regs) = Hand(f) /\ NoDup(Outcome(f).regs) /\ ToSet(Outcome(f).regs) \subseteq Of(f.p)
         /\ f.op = "install" /\ f.p \in {"fish", "deny"} /\ f.a \in Agents
         /\ f.p = "fish" /\ Outcome(f) # Nothing =>
              /\ \E k \in Presets : ToSet(Outcome(f).regs) = ToSet(Wants(k))
              /\ Consistent(Outcome(f), f.a) \/ Outcome(f).key # preset[f.a] \/ f.a \in missed
         /\ f.p = "deny" /\ Outcome(f) # Nothing => known /\ ToSet(Outcome(f).regs) = {"terminals"}
         /\ f.p = "deny" \/ (f.key = preset[f.a] /\ f.a \notin missed) =>
              IF f.p = "deny" THEN IF known THEN Outcome(f) # Nothing ELSE Outcome(f) = Nothing
              ELSE IF Swap(preset[f.a], f.a) THEN Outcome(f).key = preset[f.a] ELSE Outcome(f) = Nothing
<1>1. /\ f.p \in P /\ f.a \in Agents /\ f.key \in Presets /\ f.made \in Seq(Regs)
      /\ f.op \in {"install", "uninstall"}
  BY DEF WorkFrames
<1>2. f.op = "install" /\ f.p \in {"fish", "deny"} /\ "none" \notin Presets
  BY <1>1, TwoPolicies DEF ToolsFit, Configured
<1>3. CASE f.then = "abandon"
  <2>1. Outcome(f) = Nothing /\ f.made = <<>>
    BY <1>3 DEF Outcome, ToolsFit
  <2>2. Nothing \in [key : Presets \cup {"none"}, regs : Seq(Regs)] /\ Nothing.regs = <<>>
    BY DEF Nothing
  <2>3. Hand(f) = {}
    BY <2>1, Empty DEF Hand
  <2>4. f.p = "deny" \/ (f.key = preset[f.a] /\ f.a \notin missed) => IF f.p = "deny" THEN ~known ELSE ~Swap(preset[f.a], f.a)
    BY <1>2, <1>3 DEF DenyFits, FishFits
  <2>. QED BY <1>1, <1>2, <2>1, <2>2, <2>3, <2>4, Empty
<1>4. CASE f.then = "commit"
  <2>1. Outcome(f) = [key |-> f.key, regs |-> Reverse(f.made)]
    BY <1>4 DEF Outcome
  <2>2. /\ f.made \o f.adds = f.made
        /\ Reverse(f.made) \in Seq(Regs) /\ ToSet(Reverse(f.made)) = ToSet(f.made)
        /\ NoDup(f.made) => NoDup(Reverse(f.made))
    BY <1>1, Joins, Reversed
  <2>3. Outcome(f).key = f.key /\ Outcome(f).regs = Reverse(f.made) /\ Outcome(f) # Nothing
    BY <1>1, <1>2, <2>1 DEF Nothing
  <2>4. Hand(f) = ToSet(f.made)
    BY Empty DEF Hand
  <2>5. IF f.p = "deny" THEN f.made = <<"terminals">> ELSE \E k \in Presets : f.made = Wants(k)
    BY <1>4, <2>2 DEF ToolsFit
  <2>6. NoDup(f.made) /\ ToSet(f.made) \subseteq Of(f.p)
    <3>1. CASE f.p = "deny"
      BY <2>5, <3>1, Wanting
    <3>2. CASE f.p = "fish"
      <4>1. PICK k \in Presets : f.made = Wants(k)
        BY <2>5, <3>2
      <4>. QED BY <3>2, <4>1, Wanting
    <3>. QED BY <1>2, <3>1, <3>2
  <2>7. /\ Outcome(f) \in [key : Presets \cup {"none"}, regs : Seq(Regs)]
        /\ ToSet(Outcome(f).regs) = Hand(f) /\ NoDup(Outcome(f).regs) /\ ToSet(Outcome(f).regs) \subseteq Of(f.p)
    BY <1>1, <2>1, <2>2, <2>3, <2>4, <2>6
  <2>8. CASE f.p = "deny"
    <3>1. f.made # <<>> /\ ToSet(f.made) = {"terminals"}
      <4>1. f.made = <<"terminals">> /\ <<"terminals">> # <<>>
        BY <2>5, <2>8
      <4>2. Of("deny") = {"terminals"}
        BY DEF Of
      <4>. QED BY <4>1, <4>2, Wanting
    <3>2. known
      BY <1>4, <2>8, <3>1 DEF DenyFits
    <3>. QED BY <1>1, <1>2, <2>2, <2>3, <2>7, <2>8, <3>1, <3>2
  <2>9. CASE f.p = "fish"
    <3>0. \E k \in Presets : ToSet(Outcome(f).regs) = ToSet(Wants(k))
      BY <2>2, <2>3, <2>5, <2>9
    <3>1. CASE f.key # preset[f.a] \/ f.a \in missed
      BY <1>1, <1>2, <2>3, <2>7, <2>9, <3>0, <3>1
    <3>2. CASE f.key = preset[f.a] /\ f.a \notin missed
      <4>1. f.made = Wants(f.key) /\ Sees(f.key) /\ Stubborn[f.a] \notin ToSet(f.made)
        BY <1>2, <1>4, <2>2, <2>9, <3>2 DEF FishFits
      <4>2. {"bash", "prompt"} \subseteq ToSet(Wants(f.key))
        <5>1. ToSet(<<"bash", "prompt">>) = {"bash", "prompt"}
          BY DEF ToSet
        <5>2. ToSet(<<"pfish", "bash", "prompt">>) = {"pfish", "bash", "prompt"}
          BY DEF ToSet
        <5>. QED BY <5>1, <5>2 DEF Wants
      <4>3. Swap(f.key, f.a)
        BY <4>1, <4>2 DEF Swap
      <4>4. Consistent(Outcome(f), f.a)
        BY <1>1, <2>2, <2>3, <4>1, <4>3 DEF Consistent
      <4>. QED BY <1>1, <1>2, <2>3, <2>7, <2>9, <3>0, <3>2, <4>3, <4>4
    <3>. QED BY <3>1, <3>2
  <2>. QED BY <1>2, <2>8, <2>9
<1>. QED BY <1>3, <1>4

LEMMA Concluded ==
  ASSUME Configured, Inv, Installed
  PROVE  Inv'
<1>0. PICK f : f = Top
  OBVIOUS
<1>1. PICK n : n = Len(stack)
  OBVIOUS
<1>2. /\ stack # <<>> /\ n \in Nat \ {0} /\ f = stack[n] /\ f \in WorkFrames
      /\ ToolsFit(f) /\ DenyFits(f) /\ FishFits(f) /\ PlacedAt(n)
      /\ n \in Idx /\ Wk(n, f.p, f.a)
  BY <1>0, <1>1, AtWork DEF Installed, Comes
<1>3. f.then \in {"commit", "abandon"} /\ f.drops = <<>> /\ f.adds = <<>> /\ stack' = Below
  BY <1>0 DEF Installed, Comes
<1>4. PICK o : o = Outcome(f)
  OBVIOUS
<1>5. /\ UNCHANGED <<preset, listed, known, mounted, events, meddles, missed>>
      /\ UNCHANGED <<regs, live, removed, reconciling, again, host>>
      /\ installing' = [installing EXCEPT ![f.p] = @ \ {f.a}]
      /\ own' = [own EXCEPT ![f.p][f.a] = o]
  BY <1>0, <1>4 DEF Installed, host, outer, Outcome
<1>6. /\ o \in [key : Presets \cup {"none"}, regs : Seq(Regs)]
      /\ ToSet(o.regs) = Hand(f) /\ NoDup(o.regs) /\ ToSet(o.regs) \subseteq Of(f.p)
      /\ f.op = "install" /\ f.p \in {"fish", "deny"} /\ f.a \in Agents
      /\ f.p = "fish" /\ o # Nothing =>
              /\ \E k \in Presets : ToSet(o.regs) = ToSet(Wants(k))
              /\ Consistent(o, f.a) \/ o.key # preset[f.a] \/ f.a \in missed
      /\ f.p = "deny" /\ o # Nothing => known /\ ToSet(o.regs) = {"terminals"}
      /\ f.p = "deny" \/ (f.key = preset[f.a] /\ f.a \notin missed) =>
              IF f.p = "deny" THEN IF known THEN o # Nothing ELSE o = Nothing
              ELSE IF Swap(preset[f.a], f.a) THEN o.key = preset[f.a] ELSE o = Nothing
  BY <1>2, <1>3, <1>4, Outcomes
<1>7. Settles(f, o)
  BY <1>5, <1>6 DEF Settles
<1>10. Len(stack') = n - 1 /\ Keeps(n) /\ stack' \in Seq(Frames)
  BY <1>1, <1>2, <1>3, Pops
<1>11. /\ Typed' /\ Placed' /\ Unique' /\ Matched' /\ Working' /\ Accounted' /\ Creating'
       /\ n > 1 /\ stack' # <<>> /\ stack'[1] = stack[1]
       /\ \A q \in P, b \in Agents : b \in installing'[q] <=> b \in installing[q] /\ ~(q = f.p /\ b = f.a)
       /\ f.p \in P /\ f.a \in Agents
       /\ \A q \in P, b \in Agents : q # f.p \/ b # f.a => own'[q][b] = own[q][b]
       /\ own'[f.p][f.a] = o
  <2>1. UNCHANGED <<host, regs, live, removed, reconciling, again>>
    BY <1>5
  <2>2. installing' = [installing EXCEPT ![f.p] = @ \ {f.a}]
    BY <1>5
  <2>3. f \in WorkFrames /\ n \in Nat \ {0} /\ Len(stack) = n /\ stack[n] = f /\ stack # <<>>
    BY <1>1, <1>2
  <2>4. /\ Typed' /\ Placed' /\ Unique' /\ Matched' /\ Working' /\ Accounted' /\ Creating'
        /\ n > 1 /\ stack' # <<>> /\ stack'[1] = stack[1]
    BY <1>7, <1>10, <2>1, <2>2, <2>3, WorkDone
  <2>5. \A q \in P, b \in Agents : b \in installing'[q] <=> b \in installing[q] /\ ~(q = f.p /\ b = f.a)
    BY <1>7, <1>10, <2>1, <2>2, <2>3, WorkDone
  <2>6. f.p \in P /\ f.a \in Agents
    BY <2>3 DEF WorkFrames
  <2>7. /\ \A q \in P, b \in Agents : q # f.p \/ b # f.a => own'[q][b] = own[q][b]
        /\ own'[f.p][f.a] = o
    BY <1>7, <2>3, <2>6, Owns DEF Owned
  <2>. QED BY <2>4, <2>5, <2>6, <2>7
<1>12. f.p \in mounted /\ f.a \in listed /\ f.a \notin removed[f.p] /\ In(n, f.p, f.a)
  BY <1>2, <1>6 DEF PlacedAt, In
<1>13. f.a \in installing[f.p]
  BY <1>2, <1>11, <1>12 DEF Inv, Matched
<1>14. Left'
  <2> SUFFICES ASSUME NEW p \in P, NEW a \in Agents PROVE Leaving(p, a)'
    BY DEF Left
  <2>1. Leaving(p, a)
    BY DEF Inv, Left
  <2>2. (Dying(a)' <=> Dying(a)) /\ (Bottom("teardown")' <=> Bottom("teardown"))
    BY <1>2, <1>11 DEF Dying, Bottom
  <2>3. CASE p = f.p /\ a = f.a
    BY <1>5, <1>11, <1>12, <1>13, <2>1, <2>2, <2>3 DEF Leaving
  <2>4. CASE p # f.p \/ a # f.a
    <3>1. own'[p][a] = own[p][a] /\ (a \in installing'[p] <=> a \in installing[p])
      BY <1>11, <2>4
    <3>. QED BY <1>5, <1>11, <2>1, <2>2, <3>1 DEF Leaving
  <2>. QED BY <2>3, <2>4
<1>15. Owning'
  <2> SUFFICES ASSUME NEW p \in P, NEW a \in Agents PROVE OwnAt(p, a)'
    BY DEF Owning
  <2>1. CASE p = f.p /\ a = f.a
    <3>1. own'[p][a] = o
      BY <1>11, <2>1
    <3>. QED BY <1>5, <1>6, <2>1, <3>1 DEF OwnAt, Consistent, Swap
  <2>2. CASE p # f.p \/ a # f.a
    <3>1. own'[p][a] = own[p][a] /\ OwnAt(p, a)
      BY <1>11, <2>2 DEF Inv, Owning
    <3>. QED BY <1>5, <3>1 DEF OwnAt, Consistent
  <2>. QED BY <2>1, <2>2
<1>16. Served'
  <2> SUFFICES ASSUME NEW q \in mounted, NEW b \in listed PROVE ServedAt(q, b)'
    BY <1>5 DEF Served
  <2>0. q \in P /\ b \in Agents
    BY DEF Inv, Typed
  <2>1. CASE q = f.p /\ b = f.a /\ (q = "deny" \/ (f.key = preset[b] /\ b \notin missed))
    <3>1. own'[q][b] = o /\ b \notin installing'[q]
      BY <1>11, <2>0, <2>1
    <3>2. Right(q, b)'
      BY <1>5, <1>6, <2>1, <3>1 DEF Right, Swap
    <3>. QED BY <3>1, <3>2 DEF ServedAt
  <2>2. CASE ~(q = f.p /\ b = f.a /\ (q = "deny" \/ f.key = preset[b]))
    <3>1. In(n, q, b) => q = "fish" /\ f.key # preset[b]
      BY <1>2, <2>0, <2>2, TwoPolicies DEF In
    <3>2. b \notin installing[q] => own'[q][b] = own[q][b]
      BY <1>11, <1>13, <2>0
    <3>3. b \in installing'[q] => b \in installing[q]
      BY <1>11, <2>0
    <3>. QED BY <1>1, <1>2, <1>5, <1>10, <1>11, <3>1, <3>2, <3>3, StaysServed
  <2>3. CASE q = "fish" /\ b \in missed
    BY <1>5, <2>3 DEF ServedAt, Excused
  <2>. QED BY <2>0, <2>1, <2>2, <2>3, TwoPolicies
<1>. QED BY <1>11, <1>14, <1>15, <1>16 DEF Inv

---------------------------------------------------------------------------
(* Another plugin's reaction, and the host's events.                       *)

LEMMA Meddled ==
  ASSUME Configured, Inv, Meddle
  PROVE  Inv'
<1>0. PICK n : n = Len(stack)
  OBVIOUS
<1>1. /\ stack # <<>> /\ n \in Nat \ {0} /\ Idx = 1..n /\ stack \in Seq(Frames) /\ DOMAIN stack = 1..n
  <2>1. stack # <<>>
    BY DEF Meddle, Is
  <2>. QED BY <1>0, <2>1, Atop DEF Inv, Typed
<1>2. Change \in Frames /\ Change.op = "change" /\ ToSet(Change.left) = P
  BY ChangeFrame DEF Frames
<1>3. /\ Idx' = 1..(n + 1) /\ \A i \in 1..n : stack'[i] = stack[i]
      /\ stack'[n + 1] = Change /\ stack' \in Seq(Frames) /\ stack' # <<>> /\ stack'[1] = stack[1]
      /\ \A i \in Idx' : i \in 1..n \/ i = n + 1
      /\ n + 1 \in Idx' /\ \A i \in 1..n : i \in Idx'
  <2>1. stack' = Append(stack, Change)
    BY DEF Meddle
  <2>2. /\ Len(stack') = n + 1 /\ \A i \in 1..n : stack'[i] = stack[i]
        /\ stack'[n + 1] = Change /\ stack' \in Seq(Frames)
    BY <1>0, <1>1, <1>2, <2>1
  <2>3. stack' # <<>> /\ 1 \in 1..n
    BY <1>1, <2>2
  <2>. QED BY <1>1, <2>2, <2>3 DEF Idx
<1>4. /\ UNCHANGED <<listed, known, mounted, events, regs, own, live, installing, removed, reconciling, again>>
      /\ meddles' \in 0..MaxMeddles
  <2>1. meddles \in 0..MaxMeddles /\ MaxMeddles \in Nat
    BY DEF Inv, Typed, Configured
  <2>2. meddles < MaxMeddles /\ meddles' = meddles + 1
    BY DEF Meddle
  <2>3. meddles' \in 0..MaxMeddles
    BY <2>1, <2>2
  <2>4. UNCHANGED <<listed, known, mounted, events, regs, own, live, installing, removed, reconciling, again>>
    BY DEF Meddle, guards
  <2>. QED BY <2>3, <2>4
<1>5. PICK a \in listed, new \in Presets :
        /\ preset' = [preset EXCEPT ![a] = new]
        /\ missed' = IF PassedBy(a) \/ BegunFor(a, new) THEN missed \cup {a} ELSE missed
  BY DEF Meddle
<1>6. /\ preset' \in [Agents -> Presets] /\ preset'[a] = new /\ a \in Agents
      /\ \A b \in Agents : b # a => preset'[b] = preset[b]
      /\ missed \subseteq missed' /\ missed' \subseteq Agents
      /\ PassedBy(a) \/ BegunFor(a, new) => a \in missed'
  BY <1>5 DEF Inv, Typed
<1>7. ~IsWork(n + 1)' /\ \A p : ~Rd(n + 1, p)' /\ \A b : ~Wk(n + 1, p, b)' /\ ~In(n + 1, p, b)'
  BY <1>2, <1>3 DEF IsWork, Rd, Wk, In
<1>8. \A i \in 1..n : /\ IsWork(i)' <=> IsWork(i)
                      /\ \A p \in P : /\ Rd(i, p)' <=> Rd(i, p)
                                      /\ \A b \in Agents : (Wk(i, p, b)' <=> Wk(i, p, b)) /\ (In(i, p, b)' <=> In(i, p, b))
  BY <1>3 DEF IsWork, Rd, Wk, In
<1>9. \A b : (Dying(b)' <=> Dying(b)) /\ \A op : Bottom(op)' <=> Bottom(op)
  BY <1>1, <1>3 DEF Dying, Bottom
<1>10. Typed'
  BY <1>3, <1>4, <1>6 DEF Inv, Typed
<1>11. Placed'
  <2> SUFFICES ASSUME NEW i \in Idx' PROVE PlacedAt(i)'
    BY DEF Placed
  <2>1. CASE i = n + 1
    BY <1>2, <1>3, <2>1 DEF PlacedAt
  <2>2. CASE i \in 1..n
    <3>1. PlacedAt(i) /\ stack'[i] = stack[i] /\ stack[i] \in Frames /\ (i > 1 => i - 1 \in 1..n)
      BY <1>1, <1>3, <2>2 DEF Inv, Placed
    <3>2. stack[i].op \in {"install", "uninstall"} => stack[i].p \in P
      BY <3>1, Kinds DEF WorkFrames
    <3>. QED BY <1>3, <1>4, <1>8, <3>1, <3>2 DEF PlacedAt
  <2>. QED BY <1>3, <2>1, <2>2
<1>12. Unique'
  <2> SUFFICES ASSUME NEW i \in Idx', NEW j \in Idx'
               PROVE  /\ \A p \in P : Rd(i, p)' /\ Rd(j, p)' => i = j
                      /\ \A p \in P, b \in Agents : Wk(i, p, b)' /\ Wk(j, p, b)' => i = j
    BY DEF Unique
  <2>1. CASE i = n + 1 \/ j = n + 1
    BY <1>7, <2>1
  <2>2. CASE i \in 1..n /\ j \in 1..n
    BY <1>1, <1>8, <2>2 DEF Inv, Unique
  <2>. QED BY <1>3, <2>1, <2>2
<1>13. Matched'
  <2> SUFFICES ASSUME NEW q \in P
               PROVE  /\ reconciling'[q] <=> \E i \in Idx' : Rd(i, q)'
                      /\ again'[q] => reconciling'[q]
                      /\ \A b \in Agents : b \in installing'[q] <=> \E i \in Idx' : In(i, q, b)'
    BY DEF Matched
  <2>0. /\ reconciling[q] <=> \E i \in 1..n : Rd(i, q)
        /\ again[q] => reconciling[q]
        /\ \A b \in Agents : b \in installing[q] <=> \E i \in 1..n : In(i, q, b)
    BY <1>1 DEF Inv, Matched
  <2>1. (\E i \in 1..n : Rd(i, q)) <=> \E i \in Idx' : Rd(i, q)'
    BY <1>3, <1>7, <1>8
  <2>2. ASSUME NEW b \in Agents PROVE (\E i \in 1..n : In(i, q, b)) <=> \E i \in Idx' : In(i, q, b)'
    BY <1>3, <1>7, <1>8
  <2>. QED BY <1>4, <2>0, <2>1, <2>2
<1>14. Working'
  <2> SUFFICES ASSUME NEW i \in Idx', IsWork(i)' PROVE WorkAt(i)'
    BY DEF Working
  <2>1. i \in 1..n
    BY <1>3, <1>7
  <2>2. PICK f : f = stack[i]
    OBVIOUS
  <2>3. /\ ToolsFit(f) /\ DenyFits(f) /\ FishFits(f) /\ stack'[i] = f
        /\ f \in Frames /\ f.op \in {"install", "uninstall"}
    BY <1>1, <1>3, <1>8, <2>1, <2>2 DEF Inv, Working, WorkAt, IsWork
  <2>4. f.a \in Agents
    BY <2>3, Kinds DEF WorkFrames
  <2>5. FishFits(f)'
    <3>1. CASE f.a # a
      BY <1>6, <2>3, <2>4, <3>1 DEF FishFits
    <3>2. CASE f.a = a /\ f.op = "install" /\ f.p = "fish" /\ f.key = new
      <4>1. f \in ToSet(stack)
        BY <1>1, <2>1, <2>2 DEF ToSet
      <4>2. a \in missed'
        BY <1>6, <3>2, <4>1 DEF BegunFor
      <4>. QED BY <3>2, <4>2 DEF FishFits
    <3>3. CASE f.a = a /\ f.key # new
      BY <1>6, <3>3 DEF FishFits
    <3>4. CASE ~(f.op = "install" /\ f.p = "fish")
      BY <3>4 DEF FishFits
    <3>. QED BY <3>1, <3>2, <3>3, <3>4
  <2>6. DenyFits(f)'
    BY <1>4, <2>3 DEF DenyFits
  <2>7. ToolsFit(stack[i])'
    BY <2>3 DEF ToolsFit
  <2>8. DenyFits(stack[i])'
    BY <2>3, <2>6 DEF DenyFits
  <2>9. FishFits(stack[i])'
    BY <2>3, <2>5 DEF FishFits
  <2>. QED BY <2>7, <2>8, <2>9 DEF WorkAt
<1>15. Accounted'
  <2>1. ASSUME NEW i \in Idx', IsWork(i)', NEW r \in Of(stack'[i].p)
        PROVE  regs'[stack'[i].a][r] = IF r \in Hand(stack'[i]) THEN 1 ELSE 0
    <3>1. i \in 1..n /\ stack'[i] = stack[i] /\ IsWork(i)
      BY <1>3, <1>7, <1>8, <2>1
    <3>. QED BY <1>1, <1>4, <2>1, <3>1 DEF Inv, Accounted
  <2>2. ASSUME NEW q \in P, NEW b \in Agents, Free(q, b)' PROVE Free(q, b)
    BY <1>1, <1>3, <1>8, <2>2 DEF Free
  <2>. QED BY <1>4, <2>1, <2>2 DEF Inv, Accounted
<1>16. Left'
  BY <1>3, <1>4, <1>9 DEF Inv, Left, Leaving
<1>17. Owning'
  <2> SUFFICES ASSUME NEW p \in P, NEW b \in Agents PROVE OwnAt(p, b)'
    BY DEF Owning
  <2>1. OwnAt(p, b)
    BY DEF Inv, Owning
  <2>2. own'[p][b] = own[p][b] /\ known' = known /\ (b \in missed => b \in missed')
    BY <1>4, <1>6
  <2>3. p = "fish" => own[p][b].key # preset'[b] \/ b \in missed' \/ (b # a /\ preset'[b] = preset[b])
    BY <1>6 DEF BegunFor
  <2>. QED BY <2>1, <2>2, <2>3 DEF OwnAt, Consistent
<1>18. Creating'
  <2> SUFFICES ASSUME Bottom("created")', NEW i \in Idx', NEW p \in P, In(i, p, stack[1].a)'
               PROVE  Told(i, p, stack[1].a)'
    BY DEF Creating
  <2>1. Bottom("created") /\ PlacedAt(1)
    BY <1>1, <1>3, <1>9 DEF Inv, Placed
  <2>2. PICK b \in Agents : b = stack[1].a
    BY <2>1 DEF PlacedAt, Bottom
  <2>3. In(i, p, b)'
    BY <1>3, <2>2 DEF In
  <2>4. i \in 1..n /\ In(i, p, b) /\ stack'[i] = stack[i]
    BY <1>3, <1>7, <1>8, <2>3
  <2>5. In(i, p, stack[1].a)
    BY <2>2, <2>4
  <2>6. Told(i, p, b)
    BY <1>1, <2>1, <2>2, <2>4, <2>5 DEF Inv, Creating
  <2>7. CASE b # a
    <3>1. preset'[b] = preset[b] /\ (b \in missed => b \in missed')
      BY <1>6, <2>2, <2>7
    <3>. QED BY <1>3, <2>2, <2>4, <2>6, <3>1 DEF Told
  <2>8. CASE b = a /\ i = 2 /\ p = "fish"
    <3>1. a \in missed'
      BY <1>1, <1>6, <2>1, <2>2, <2>4, <2>8 DEF PassedBy, In, Bottom
    <3>. QED BY <1>3, <2>2, <2>8, <3>1 DEF Told
  <2>9. CASE i # 2 \/ p = "deny"
    BY <2>9 DEF Told
  <2>. QED BY <2>7, <2>8, <2>9, TwoPolicies
<1>19. Served'
  <2> SUFFICES ASSUME NEW q \in mounted', NEW b \in listed' PROVE ServedAt(q, b)'
    BY DEF Served
  <2>1. q \in P /\ b \in Agents /\ ServedAt(q, b)
    BY <1>4 DEF Inv, Typed, Served
  <2>2. CASE q = "deny" \/ b # a
    <3>1. /\ q = "deny" \/ preset'[b] = preset[b]
          /\ b \in missed => b \in missed'
      BY <1>6, <2>1, <2>2
    <3>2. CASE Excused(q, b)
      BY <1>4, <3>1, <3>2 DEF ServedAt, Excused
    <3>3. CASE Dying(b)
      BY <1>9, <3>3 DEF ServedAt
    <3>4. CASE \E i \in Idx : DueAt(i, q, b)
      <4>1. PICK i \in 1..n : DueAt(i, q, b)
        BY <1>1, <3>4
      <4>2. /\ stack'[i] = stack[i] /\ (Rd(i, q)' <=> Rd(i, q)) /\ i \in Idx'
            /\ \A j \in 1..(i - 1) : stack'[j] = stack[j] /\ (Rd(j, q)' <=> Rd(j, q))
        BY <1>1, <1>3, <1>8, <2>1
      <4>3. DueAt(i, q, b)'
        BY <1>4, <4>1, <4>2 DEF DueAt
      <4>. QED BY <4>2, <4>3 DEF ServedAt
    <3>5. CASE \E i \in Idx : In(i, q, b) /\ (q = "deny" \/ stack[i].key = preset[b])
      <4>1. PICK i \in 1..n : In(i, q, b) /\ (q = "deny" \/ stack[i].key = preset[b])
        BY <1>1, <3>5
      <4>2. i \in Idx' /\ In(i, q, b)' /\ (q = "deny" \/ stack'[i].key = preset'[b])
        BY <1>3, <1>8, <2>1, <3>1, <4>1
      <4>. QED BY <4>2 DEF ServedAt
    <3>6. CASE b \notin installing[q] /\ Right(q, b)
      BY <1>4, <3>1, <3>6 DEF ServedAt, Right
    <3>. QED BY <2>1, <3>2, <3>3, <3>4, <3>5, <3>6 DEF ServedAt
  <2>3. CASE q = "fish" /\ b = a
    <3>1. CASE \A j \in 1..n : Rd(j, q) => ~stack[j].catchUp
      <4>1. \A j \in 1..((n + 1) - 1) : j \in 1..n
        BY <1>1
      <4>2. \A j \in 1..((n + 1) - 1) : Rd(j, q)' => ~stack'[j].catchUp
        BY <1>3, <1>8, <2>1, <3>1, <4>1
      <4>3. DueAt(n + 1, q, b)'
        BY <1>2, <1>3, <2>1, <4>2 DEF DueAt
      <4>. QED BY <1>3, <4>3 DEF ServedAt
    <3>2. ASSUME NEW j \in 1..n, Rd(j, q), stack[j].catchUp PROVE ServedAt(q, b)'
      <4>1. CASE a \in ToSet(stack[j].left)
        <5>1. DueAt(j, q, b)'
          BY <1>3, <1>8, <2>1, <2>3, <3>2, <4>1 DEF DueAt
        <5>. QED BY <1>3, <5>1 DEF ServedAt
      <4>2. CASE a \notin ToSet(stack[j].left)
        <5>1. PassedBy(a)
          BY <1>1, <2>3, <3>2, <4>2 DEF PassedBy, Rd
        <5>2. a \in missed'
          BY <1>6, <5>1
        <5>. QED BY <2>3, <5>2 DEF ServedAt, Excused
      <4>. QED BY <4>1, <4>2
    <3>. QED BY <3>1, <3>2
  <2>. QED BY <2>1, <2>2, <2>3, TwoPolicies
<1>. QED BY <1>10, <1>11, <1>12, <1>13, <1>14, <1>15, <1>16, <1>17, <1>18, <1>19 DEF Inv

LEMMA AtRest ==
  ASSUME Configured, Inv, stack = <<>>
  PROVE  /\ \A p \in P, a \in Agents :
              /\ a \notin installing[p] /\ Leaving(p, a) /\ OwnAt(p, a)
              /\ p \notin mounted \/ a \notin listed => own[p][a] = Nothing
              /\ p = "fish" /\ own[p][a] # Nothing => Consistent(own[p][a], a) \/ a \in missed
              /\ \A r \in Of(p) : regs[a][r] = IF r \in ToSet(own[p][a].regs) THEN 1 ELSE 0
         /\ \A p \in mounted, a \in listed : Excused(p, a) \/ Right(p, a)
         /\ \A p \in P : ~reconciling[p] /\ ~again[p]
         /\ \A a : ~Dying(a)
<1>1. Idx = {} /\ \A a : ~Dying(a) /\ \A op : ~Bottom(op)
  BY DEF Idx, Dying, Bottom
<1>2. \A p \in P : ~reconciling[p] /\ ~again[p] /\ \A a \in Agents : a \notin installing[p]
  BY <1>1 DEF Inv, Matched
<1>3. \A p \in P, a \in Agents : Leaving(p, a) /\ OwnAt(p, a)
  BY DEF Inv, Left, Owning
<1>4. \A p \in P, a \in Agents : p \notin mounted \/ a \notin listed => own[p][a] = Nothing
  BY <1>1, <1>3 DEF Leaving
<1>5. \A p \in mounted, a \in listed : p \in P /\ a \in Agents
  BY DEF Inv, Typed
<1>6. \A p \in mounted, a \in listed : Excused(p, a) \/ Right(p, a)
  BY <1>1 DEF Inv, Served, ServedAt
<1>7. ASSUME NEW a \in Agents, own["fish"][a] # Nothing PROVE Consistent(own["fish"][a], a) \/ a \in missed
  <2>1. "fish" \in P
    BY TwoPolicies
  <2>2. (Excused("fish", a) \/ Right("fish", a)) /\ OwnAt("fish", a) /\ Leaving("fish", a)
    BY <1>3, <1>4, <1>6, <1>7, <2>1
  <2>3. a \in missed \/ own["fish"][a].key = preset[a]
    BY <1>7, <2>2 DEF Right, Excused, Leaving
  <2>. QED BY <1>7, <2>2, <2>3 DEF OwnAt
<1>8. ASSUME NEW p \in P, NEW a \in Agents, NEW r \in Of(p)
      PROVE  regs[a][r] = IF r \in ToSet(own[p][a].regs) THEN 1 ELSE 0
  <2>1. Free(p, a)
    BY <1>1 DEF Free
  <2>. QED BY <2>1 DEF Inv, Accounted
<1>. QED BY <1>1, <1>2, <1>3, <1>4, <1>6, <1>7, <1>8

\* The first call of a dispatch.
LEMMA Begun ==
  ASSUME Configured, Inv, stack = <<>>, Event,
         NEW h \in EventFrames \cup RoundFrames \cup TeardownFrames, stack' = <<h>>,
         preset' \in [Agents -> Presets], listed' \subseteq Agents, mounted' \subseteq P,
         known' \in BOOLEAN, known => known', removed' \in [P -> SUBSET Agents],
         h \notin RoundFrames => UNCHANGED reconciling,
         h \in RoundFrames => reconciling' = [reconciling EXCEPT ![h.p] = TRUE],
         h.op = "created" => h.a \in listed', h.op = "disposed" => h.a \in Agents,
         h.op = "teardown" => h.p \notin mounted',
         h.op = "round" => h.p \in mounted' /\ ToSet(h.left) \subseteq listed'
  PROVE  /\ Typed' /\ Placed' /\ Unique' /\ Matched' /\ Working' /\ Accounted' /\ Owning' /\ Creating'
         /\ Idx' = {1} /\ stack'[1] = h /\ stack' # <<>>
         /\ UNCHANGED <<regs, own, live, installing, again, missed>>
         /\ h.op # "teardown" => ~Bottom("teardown")'
<1>1. /\ UNCHANGED <<regs, own, live, installing, again, missed>> /\ meddles' = 0
      /\ events < MaxEvents /\ events' = events + 1
  BY DEF Event
<1>2. /\ \A p \in P, a \in Agents :
              /\ a \notin installing[p] /\ OwnAt(p, a)
              /\ p = "fish" /\ own[p][a] # Nothing => Consistent(own[p][a], a) \/ a \in missed
              /\ \A r \in Of(p) : regs[a][r] = IF r \in ToSet(own[p][a].regs) THEN 1 ELSE 0
      /\ \A p \in P : ~reconciling[p] /\ ~again[p]
  BY AtRest
<1>3. h \in Frames /\ h.op \notin {"install", "uninstall"}
  BY DEF Frames, EventFrames, RoundFrames, TeardownFrames
<1>4. stack' \in Seq(Frames) /\ Len(stack') = 1 /\ stack'[1] = h /\ stack' # <<>> /\ Idx' = {1}
  BY <1>3 DEF Idx
<1>5. ~IsWork(1)' /\ \A p, a : ~Wk(1, p, a)' /\ ~In(1, p, a)'
  BY <1>3, <1>4 DEF IsWork, Wk, In
<1>6. Typed'
  <2>1. reconciling' \in [P -> BOOLEAN]
    BY DEF Inv, Typed, RoundFrames
  <2>2. meddles' \in 0..MaxMeddles /\ events' \in 0..MaxEvents
    BY <1>1 DEF Configured, Inv, Typed
  <2>. QED BY <1>1, <1>4, <2>1, <2>2 DEF Inv, Typed
<1>7. Placed'
  BY <1>3, <1>4, Kinds DEF Placed, PlacedAt
<1>8. Unique'
  BY <1>4 DEF Unique
<1>9. Matched'
  <2> SUFFICES ASSUME NEW q \in P
               PROVE  /\ reconciling'[q] <=> Rd(1, q)'
                      /\ again'[q] => reconciling'[q]
                      /\ \A b \in Agents : b \in installing'[q] <=> In(1, q, b)'
    BY <1>4 DEF Matched
  <2>1. reconciling'[q] <=> Rd(1, q)'
    <3>1. Rd(1, q)' <=> h \in RoundFrames /\ h.p = q
      BY <1>3, <1>4, Kinds DEF Rd
    <3>2. h \in RoundFrames => h.p \in P
      BY DEF RoundFrames
    <3>. QED BY <1>2, <3>1, <3>2 DEF Inv, Typed
  <2>. QED BY <1>1, <1>2, <1>5, <2>1
<1>10. Working'
  BY <1>4, <1>5 DEF Working
<1>11. Accounted'
  BY <1>1, <1>2, <1>4, <1>5 DEF Accounted
<1>12. Owning'
  <2> SUFFICES ASSUME NEW p \in P, NEW a \in Agents PROVE OwnAt(p, a)'
    BY DEF Owning
  <2>1. /\ own'[p][a] = own[p][a] /\ missed' = missed /\ OwnAt(p, a)
        /\ p = "fish" /\ own[p][a] # Nothing => Consistent(own[p][a], a) \/ a \in missed
    BY <1>1, <1>2
  <2>. QED BY <2>1 DEF OwnAt, Consistent
<1>13. Creating'
  BY <1>4, <1>5 DEF Creating, In
<1>. QED BY <1>1, <1>4, <1>6, <1>7, <1>8, <1>9, <1>10, <1>11, <1>12, <1>13 DEF Bottom

\* An agent that was served at rest still is.
LEMMA RestServed ==
  ASSUME Configured, Inv, stack = <<>>, UNCHANGED <<own, installing, missed>>,
         NEW q \in mounted, NEW b \in listed, preset'[b] = preset[b], known' = known,
         removed'[q] = removed[q]
  PROVE  ServedAt(q, b)'
<1>1. q \in P /\ b \in Agents
  BY DEF Inv, Typed
<1>2. b \notin installing[q] /\ (Excused(q, b) \/ Right(q, b))
  BY <1>1, AtRest
<1>. QED BY <1>2 DEF ServedAt, Right, Excused

LEMMA Mounts ==
  ASSUME Configured, Inv, NEW p \in P, Mount(p)
  PROVE  Inv'
<1>1. PICK h : h = Round(p, FALSE)
  OBVIOUS
<1>2. /\ h \in RoundFrames /\ ToSet(h.left) = listed /\ h.op = "round" /\ h.p = p /\ h.catchUp = FALSE
  BY <1>1, NewRound
<1>3. /\ stack = <<>> /\ Event /\ p \notin mounted /\ mounted' = mounted \cup {p}
      /\ removed' = [removed EXCEPT ![p] = {}] \/ (p = "fish" /\ UNCHANGED removed)
      /\ reconciling' = [reconciling EXCEPT ![p] = TRUE] /\ stack' = <<h>>
      /\ UNCHANGED <<preset, listed, known, missed>>
  <2>1. removed' = [removed EXCEPT ![p] = {}] \/ (p = "fish" /\ UNCHANGED removed)
    BY DEF Mount
  <2>2. /\ Event /\ p \notin mounted /\ mounted' = mounted \cup {p}
        /\ reconciling' = [reconciling EXCEPT ![p] = TRUE] /\ stack' = <<h>>
        /\ UNCHANGED <<preset, listed, known>>
    BY <1>1 DEF Mount
  <2>3. stack = <<>> /\ UNCHANGED missed
    BY <2>2 DEF Event
  <2>. QED BY <2>1, <2>2, <2>3
<1>4. /\ removed' \in [P -> SUBSET Agents] /\ removed'[p] \subseteq removed[p]
      /\ p = "deny" => removed'[p] = {}
      /\ \A q \in P : q # p => removed'[q] = removed[q]
  <2>1. removed \in [P -> SUBSET Agents]
    BY DEF Inv, Typed
  <2>2. CASE removed' = [removed EXCEPT ![p] = {}]
    BY <2>1, <2>2
  <2>3. CASE p = "fish" /\ UNCHANGED removed
    BY <2>1, <2>3
  <2>. QED BY <1>3, <2>2, <2>3
<1>5. /\ Typed' /\ Placed' /\ Unique' /\ Matched' /\ Working' /\ Accounted' /\ Owning' /\ Creating'
      /\ Idx' = {1} /\ stack'[1] = h /\ stack' # <<>>
      /\ UNCHANGED <<regs, own, live, installing, again, missed>>
      /\ ~Bottom("teardown")'
  <2>1. /\ preset' \in [Agents -> Presets] /\ listed' \subseteq Agents /\ mounted' \subseteq P
        /\ known' \in BOOLEAN /\ (known => known')
        /\ h.p \in mounted' /\ ToSet(h.left) \subseteq listed'
    BY <1>2, <1>3 DEF Inv, Typed
  <2>2. /\ h.op \notin {"created", "disposed", "teardown"}
        /\ reconciling' = [reconciling EXCEPT ![h.p] = TRUE]
        /\ removed' \in [P -> SUBSET Agents]
    BY <1>2, <1>3, <1>4
  <2>. QED BY <1>2, <1>3, <2>1, <2>2, Begun
<1>6. \A a : ~Dying(a)'
  BY <1>2, <1>5 DEF Dying, Bottom
<1>7. Left'
  <2> SUFFICES ASSUME NEW q \in P, NEW a \in Agents PROVE Leaving(q, a)'
    BY DEF Left
  <2>1. /\ Leaving(q, a) /\ ~Dying(a) /\ a \notin installing[q]
        /\ (q \notin mounted \/ a \notin listed => own[q][a] = Nothing)
    BY <1>3, AtRest
  <2>2. CASE q = p
    BY <1>3, <1>4, <1>5, <1>6, <2>1, <2>2 DEF Leaving
  <2>3. CASE q # p
    BY <1>3, <1>4, <1>5, <1>6, <2>1, <2>3 DEF Leaving
  <2>. QED BY <2>2, <2>3
<1>8. Served'
  <2> SUFFICES ASSUME NEW q \in mounted', NEW b \in listed PROVE ServedAt(q, b)'
    BY <1>3 DEF Served
  <2>1. CASE q = p
    BY <1>2, <1>5, <2>1 DEF ServedAt, DueAt, Rd
  <2>2. CASE q # p
    <3>1. q \in mounted /\ q \in P
      BY <1>3, <2>2 DEF Inv, Typed
    <3>. QED BY <1>3, <1>4, <1>5, <2>2, <3>1, RestServed
  <2>. QED BY <2>1, <2>2
<1>. QED BY <1>5, <1>7, <1>8 DEF Inv

LEMMA Unmounts ==
  ASSUME Configured, Inv, NEW p \in P, Unmount(p)
  PROVE  Inv'
<1>1. PICK h : h = Teardown(p)
  OBVIOUS
<1>2. h \in TeardownFrames /\ ToSet(h.left) = live[p] /\ h.op = "teardown" /\ h.p = p /\ h \notin RoundFrames
  <2>1. live[p] \subseteq Agents
    BY DEF Inv, Typed
  <2>2. IsFiniteSet(live[p])
    BY <2>1, FS_Subset DEF Configured
  <2>3. SetToSeq(live[p]) \in Seq(live[p]) /\ ToSet(SetToSeq(live[p])) = live[p]
    BY <2>2, Listing
  <2>4. SetToSeq(live[p]) \in Seq(Agents)
    BY <2>1, <2>3
  <2>. QED BY <1>1, <2>3, <2>4 DEF Teardown, TeardownFrames, RoundFrames
<1>3. /\ stack = <<>> /\ Event /\ p \in mounted /\ mounted' = mounted \ {p}
      /\ stack' = <<h>>
      /\ UNCHANGED <<preset, listed, known, reconciling, removed>>
  BY <1>1 DEF Unmount, Event
<1>4. /\ Typed' /\ Placed' /\ Unique' /\ Matched' /\ Working' /\ Accounted' /\ Owning' /\ Creating'
      /\ Idx' = {1} /\ stack'[1] = h /\ stack' # <<>>
      /\ UNCHANGED <<regs, own, live, installing, again, missed>>
  <2>1. /\ preset' \in [Agents -> Presets] /\ listed' \subseteq Agents /\ mounted' \subseteq P
        /\ known' \in BOOLEAN /\ (known => known') /\ removed' \in [P -> SUBSET Agents] /\ h.p \notin mounted'
    BY <1>2, <1>3 DEF Inv, Typed
  <2>. QED BY <1>2, <1>3, <2>1, Begun
<1>5. (\A a : ~Dying(a)') /\ Bottom("teardown")'
  BY <1>2, <1>4 DEF Dying, Bottom
<1>6. Left'
  <2> SUFFICES ASSUME NEW q \in P, NEW a \in Agents PROVE Leaving(q, a)'
    BY DEF Left
  <2>1. /\ Leaving(q, a) /\ ~Dying(a) /\ a \notin installing[q]
        /\ (q \notin mounted \/ a \notin listed => own[q][a] = Nothing)
    BY <1>3, AtRest
  <2>2. q = p /\ own[q][a] # Nothing => a \in ToSet(h.left)
    BY <1>2, <1>3, <2>1 DEF Leaving
  <2>. QED BY <1>2, <1>3, <1>4, <1>5, <2>1, <2>2 DEF Leaving
<1>7. Served'
  <2> SUFFICES ASSUME NEW q \in mounted, NEW b \in listed PROVE ServedAt(q, b)'
    BY <1>3 DEF Served
  <2>. QED BY <1>3, <1>4, RestServed
<1>. QED BY <1>4, <1>6, <1>7 DEF Inv

\* The first call is an event.
LEMMA Notified ==
  ASSUME NEW op \in {"change", "created", "disposed"}, NEW a \in Agents \cup {"none"}
  PROVE  /\ Notify(op, a) \in EventFrames /\ Notify(op, a) \notin RoundFrames
         /\ Notify(op, a).op = op /\ Notify(op, a).a = a /\ ToSet(Notify(op, a).left) = P
BY DEF Notify, EventFrames, RoundFrames, Lefts, Policies, P

LEMMA Publishes ==
  ASSUME Configured, Inv, NEW a \in Agents, Publish(a)
  PROVE  Inv'
<1>1. PICK h : h = Notify("created", a)
  OBVIOUS
<1>2. h \in EventFrames /\ h \notin RoundFrames /\ h.op = "created" /\ h.a = a /\ ToSet(h.left) = P
  BY <1>1, Notified
<1>3. /\ stack = <<>> /\ Event /\ a \notin listed /\ listed' = listed \cup {a}
      /\ stack' = <<h>> /\ \A p \in P : a \notin removed[p]
      /\ UNCHANGED <<preset, mounted, known, reconciling, removed>>
  BY <1>1 DEF Publish, Event
<1>4. /\ Typed' /\ Placed' /\ Unique' /\ Matched' /\ Working' /\ Accounted' /\ Owning' /\ Creating'
      /\ Idx' = {1} /\ stack'[1] = h /\ stack' # <<>>
      /\ UNCHANGED <<regs, own, live, installing, again, missed>>
      /\ ~Bottom("teardown")'
  <2>1. /\ preset' \in [Agents -> Presets] /\ listed' \subseteq Agents /\ mounted' \subseteq P
        /\ known' \in BOOLEAN /\ (known => known') /\ removed' \in [P -> SUBSET Agents] /\ a \in listed'
    BY <1>3 DEF Inv, Typed
  <2>. QED BY <1>2, <1>3, <2>1, Begun
<1>5. \A b : ~Dying(b)'
  BY <1>2, <1>4 DEF Dying, Bottom
<1>6. Left'
  <2> SUFFICES ASSUME NEW q \in P, NEW b \in Agents PROVE Leaving(q, b)'
    BY DEF Left
  <2>1. /\ Leaving(q, b) /\ ~Dying(b) /\ b \notin installing[q]
        /\ (q \notin mounted \/ b \notin listed => own[q][b] = Nothing)
    BY <1>3, AtRest
  <2>2. CASE b = a
    BY <1>3, <1>4, <1>5, <2>1, <2>2 DEF Leaving
  <2>3. CASE b # a
    BY <1>3, <1>4, <1>5, <2>1, <2>3 DEF Leaving
  <2>. QED BY <2>2, <2>3
<1>7. Served'
  <2> SUFFICES ASSUME NEW q \in mounted, NEW b \in listed' PROVE ServedAt(q, b)'
    BY <1>3 DEF Served
  <2>1. CASE b = a
    <3>1. q \in P
      BY DEF Inv, Typed
    <3>. QED BY <1>2, <1>4, <2>1, <3>1 DEF ServedAt, DueAt
  <2>2. CASE b # a
    BY <1>3, <1>4, <2>2, RestServed
  <2>. QED BY <2>1, <2>2
<1>. QED BY <1>4, <1>6, <1>7 DEF Inv

LEMMA Disposes ==
  ASSUME Configured, Inv, NEW a \in Agents, Dispose(a)
  PROVE  Inv'
<1>1. PICK h : h = Notify("disposed", a)
  OBVIOUS
<1>2. h \in EventFrames /\ h \notin RoundFrames /\ h.op = "disposed" /\ h.a = a /\ ToSet(h.left) = P
  BY <1>1, Notified
<1>3. /\ stack = <<>> /\ Event /\ a \in listed /\ listed' \in {listed, listed \ {a}}
      /\ stack' = <<h>>
      /\ UNCHANGED <<preset, mounted, known, reconciling, removed>>
  BY <1>1 DEF Dispose, Event
<1>4. /\ Typed' /\ Placed' /\ Unique' /\ Matched' /\ Working' /\ Accounted' /\ Owning' /\ Creating'
      /\ Idx' = {1} /\ stack'[1] = h /\ stack' # <<>>
      /\ UNCHANGED <<regs, own, live, installing, again, missed>>
      /\ ~Bottom("teardown")'
  <2>1. /\ preset' \in [Agents -> Presets] /\ listed' \subseteq Agents /\ mounted' \subseteq P
        /\ known' \in BOOLEAN /\ (known => known') /\ removed' \in [P -> SUBSET Agents]
    BY <1>3 DEF Inv, Typed
  <2>. QED BY <1>2, <1>3, <2>1, Begun
<1>5. \A b : Dying(b)' <=> b = a
  BY <1>2, <1>4 DEF Dying, Bottom
<1>6. Left'
  <2> SUFFICES ASSUME NEW q \in P, NEW b \in Agents PROVE Leaving(q, b)'
    BY DEF Left
  <2>1. /\ Leaving(q, b) /\ ~Dying(b) /\ b \notin installing[q]
        /\ (q \notin mounted \/ b \notin listed => own[q][b] = Nothing)
    BY <1>3, AtRest
  <2>2. CASE b = a
    BY <1>2, <1>3, <1>4, <1>5, <2>1, <2>2 DEF Leaving
  <2>3. CASE b # a
    BY <1>3, <1>4, <1>5, <2>1, <2>3 DEF Leaving
  <2>. QED BY <2>2, <2>3
<1>7. Served'
  <2> SUFFICES ASSUME NEW q \in mounted, NEW b \in listed' PROVE ServedAt(q, b)'
    BY <1>3 DEF Served
  <2>1. CASE b = a
    BY <1>5, <2>1 DEF ServedAt
  <2>2. CASE b # a
    BY <1>3, <1>4, <2>2, RestServed
  <2>. QED BY <2>1, <2>2
<1>. QED BY <1>4, <1>6, <1>7 DEF Inv

\* A change of the catalog is everybody's business.
LEMMA Changes ==
  ASSUME Configured, Inv, Event, stack' = <<Change>>, preset' \in [Agents -> Presets],
         known' \in BOOLEAN, known => known', UNCHANGED <<listed, mounted, reconciling, removed>>
  PROVE  Inv'
<1>1. PICK h : h = Change
  OBVIOUS
<1>2. h \in EventFrames /\ h \notin RoundFrames /\ h.op = "change" /\ ToSet(h.left) = P /\ stack' = <<h>>
  BY <1>1, ChangeFrame DEF EventFrames, RoundFrames
<1>3. stack = <<>>
  BY DEF Event
<1>4. /\ Typed' /\ Placed' /\ Unique' /\ Matched' /\ Working' /\ Accounted' /\ Owning' /\ Creating'
      /\ Idx' = {1} /\ stack'[1] = h /\ stack' # <<>>
      /\ UNCHANGED <<regs, own, live, installing, again, missed>>
      /\ ~Bottom("teardown")'
  <2>1. listed' \subseteq Agents /\ mounted' \subseteq P /\ removed' \in [P -> SUBSET Agents]
    BY DEF Inv, Typed
  <2>. QED BY <1>2, <1>3, <2>1, Begun
<1>5. \A b : ~Dying(b)'
  BY <1>2, <1>4 DEF Dying, Bottom
<1>6. Left'
  <2> SUFFICES ASSUME NEW q \in P, NEW b \in Agents PROVE Leaving(q, b)'
    BY DEF Left
  <2>1. /\ Leaving(q, b) /\ ~Dying(b) /\ b \notin installing[q]
        /\ (q \notin mounted \/ b \notin listed => own[q][b] = Nothing)
    BY <1>3, AtRest
  <2>. QED BY <1>4, <1>5, <2>1 DEF Leaving
<1>7. Served'
  <2> SUFFICES ASSUME NEW q \in mounted, NEW b \in listed PROVE ServedAt(q, b)'
    BY DEF Served
  <2>1. q \in P /\ \A j \in 1..(1 - 1) : FALSE
    BY DEF Inv, Typed
  <2>. QED BY <1>2, <1>4, <2>1 DEF ServedAt, DueAt
<1>. QED BY <1>4, <1>6, <1>7 DEF Inv

LEMMA Switches ==
  ASSUME Configured, Inv, NEW a \in Agents, SwitchPreset(a)
  PROVE  Inv'
<1>1. PICK new \in Presets : preset' = [preset EXCEPT ![a] = new]
  BY DEF SwitchPreset
<1>2. preset' \in [Agents -> Presets] /\ known' \in BOOLEAN /\ (known => known')
  BY <1>1 DEF SwitchPreset, Inv, Typed
<1>3. Event /\ stack' = <<Change>> /\ UNCHANGED <<listed, mounted, reconciling, removed>>
  BY DEF SwitchPreset
<1>. QED BY <1>2, <1>3, Changes

LEMMA Registers ==
  ASSUME Configured, Inv, RegisterTerminals
  PROVE  Inv'
<1>1. preset' \in [Agents -> Presets] /\ known' \in BOOLEAN /\ (known => known')
  BY DEF RegisterTerminals, Inv, Typed
<1>2. Event /\ stack' = <<Change>> /\ UNCHANGED <<listed, mounted, reconciling, removed>>
  BY DEF RegisterTerminals
<1>. QED BY <1>1, <1>2, Changes

---------------------------------------------------------------------------
(* The theorems.                                                           *)

LEMMA Initial ==
  ASSUME Configured, Init
  PROVE  Inv
<1>1. Idx = {} /\ \A op : ~Bottom(op)
  BY DEF Init, Idx, Bottom
<1>2. Typed
  <2>1. Nothing \in [key : Presets \cup {"none"}, regs : Seq(Regs)]
    BY DEF Nothing
  <2>2. own \in [P -> [Agents -> [key : Presets \cup {"none"}, regs : Seq(Regs)]]]
    BY <2>1 DEF Init
  <2>3. stack \in Seq(Frames)
    BY DEF Init
  <2>4. events \in 0..MaxEvents /\ meddles \in 0..MaxMeddles
    BY DEF Init, Configured
  <2>5. regs \in [Agents -> [Regs -> Int]]
    BY DEF Init
  <2>. QED BY <2>2, <2>3, <2>4, <2>5 DEF Init, Typed
<1>3. Placed /\ Unique /\ Working /\ Creating
  BY <1>1 DEF Placed, Unique, Working, Creating
<1>4. Matched
  BY <1>1 DEF Init, Matched
<1>5. \A p \in P, a \in Agents : own[p][a] = Nothing /\ Nothing.regs = <<>>
  BY DEF Init, Nothing
<1>6. Accounted
  <2>1. \A p \in P : Of(p) \subseteq Regs
    BY DEF Of, Regs
  <2>2. \A a \in Agents, r \in Regs : regs[a][r] = 0
    BY DEF Init
  <2>. QED BY <1>1, <1>5, <2>1, <2>2, Empty DEF Accounted
<1>7. Left
  BY <1>1, <1>5 DEF Init, Left, Leaving, Dying
<1>8. Owning
  BY <1>5, Empty DEF Owning, OwnAt
<1>9. Served
  BY DEF Init, Served
<1>. QED BY <1>2, <1>3, <1>4, <1>6, <1>7, <1>8, <1>9 DEF Inv

LEMMA Steps ==
  ASSUME Configured, Inv, [Next]_vars
  PROVE  Inv'
<1>1. CASE UNCHANGED vars
  <2>1. /\ UNCHANGED <<preset, listed, known, mounted, regs, own, live, installing, removed>>
        /\ UNCHANGED <<reconciling, again, stack, events, meddles, missed>>
    BY <1>1 DEF vars
  <2>2. Typed' /\ Placed' /\ Unique' /\ Matched'
    BY <2>1 DEF Inv, Typed, Placed, PlacedAt, Unique, Matched, Idx, Rd, Wk, In, IsWork
  <2>3. Working'
    <3> SUFFICES ASSUME NEW i \in Idx, IsWork(i) PROVE WorkAt(i)'
      BY <2>1 DEF Working, Idx, IsWork
    <3>. QED BY <2>1, Fits DEF Inv, Working
  <2>4. Accounted' /\ Creating'
    BY <2>1 DEF Inv, Accounted, Free, Creating, Told, Idx, Wk, In, IsWork, Bottom
  <2>5. Left' /\ Owning'
    BY <2>1 DEF Inv, Left, Leaving, Owning, OwnAt, Consistent, Bottom, Dying
  <2>6. Served'
    BY <2>1 DEF Inv, Served, ServedAt, Excused, DueAt, Right, Idx, Rd, In, Bottom, Dying
  <2>. QED BY <2>2, <2>3, <2>4, <2>5, <2>6 DEF Inv
<1>2. CASE Unheard
  <2>1. Is("change") \/ Is("created") \/ Is("disposed")
    BY <1>2 DEF Unheard
  <2>2. CASE Top.left = <<>> /\ stack' = Below /\ listed' = IF Is("disposed") THEN listed \ {Top.a} ELSE listed
    <3>1. UNCHANGED <<preset, known, mounted, events, meddles, missed, regs, own, live, guards>>
      BY <1>2 DEF Unheard
    <3>. QED BY <2>1, <2>2, <3>1, Ended
  <2>3. CASE Top.left # <<>> /\ Head(Top.left) \notin mounted /\ stack' = Append(Below, Heard) /\ UNCHANGED listed
    <3>1. UNCHANGED <<host, regs, own, live, guards>>
      BY <1>2, <2>3 DEF Unheard, host, outer
    <3>. QED BY <2>1, <2>3, <3>1, Skipped
  <2>. QED BY <1>2, <2>2, <2>3 DEF Unheard
<1>3. CASE OnChange
  BY <1>3, Coalesced, Roused
<1>4. CASE RoundEnds
  BY <1>4, RoundEnded, CaughtUp
<1>5. CASE Probe \/ Add \/ AddRefused \/ Drop \/ Uninstalled \/ Installed
  BY <1>5, Probed, Added, Refusing, Dropped, Undone, Concluded
<1>6. CASE RoundInstalls \/ OnCreated \/ OnDisposed \/ TeardownAgent \/ TeardownEnds
  BY <1>6, InRound, AtCreation, AtDisposal, AtTeardown, TornDown
<1>7. CASE Meddle \/ RegisterTerminals
  BY <1>7, Meddled, Registers
<1>8. ASSUME NEW p \in P, Mount(p) \/ Unmount(p) PROVE Inv'
  BY <1>8, Mounts, Unmounts
<1>9. ASSUME NEW a \in Agents, Publish(a) \/ Dispose(a) \/ SwitchPreset(a) PROVE Inv'
  BY <1>9, Publishes, Disposes, Switches
<1>10. CASE Idle
  BY <1>1, <1>10 DEF Idle
<1>. QED BY <1>1, <1>2, <1>3, <1>4, <1>5, <1>6, <1>7, <1>8, <1>9, <1>10 DEF Next, Step

LEMMA WantedAre == \A a : Wanted(a) = Wants(preset[a])
BY DEF Wanted, Wants

\* What a policy has noted for the agents, when nothing runs, is what they have.
LEMMA Noted ==
  ASSUME Configured, Inv, stack = <<>>, NEW a \in Agents, NEW S, S = ToSet(own["fish"][a].regs)
  PROVE  /\ Has(a, S \cup Terminals(a))
         /\ S \in Swaps
         /\ ~Covers(a) => S = {}
         /\ Covers(a) /\ a \notin missed => S = SwapOf(a)
<1>1. /\ \A p \in P :
              /\ OwnAt(p, a) /\ Leaving(p, a)
              /\ p \notin mounted \/ a \notin listed => own[p][a] = Nothing
              /\ p = "fish" /\ own[p][a] # Nothing => Consistent(own[p][a], a) \/ a \in missed
              /\ \A r \in Of(p) : regs[a][r] = IF r \in ToSet(own[p][a].regs) THEN 1 ELSE 0
      /\ \A p \in mounted : a \in listed => Excused(p, a) \/ Right(p, a)
  BY AtRest
<1>2. "fish" \in P /\ "deny" \in P /\ Of("fish") = {"bash", "prompt", "pfish"} /\ Of("deny") = {"terminals"}
  BY TwoPolicies DEF Of
<1>3. Nothing.regs = <<>> /\ Nothing.key = "none" /\ "none" \notin Presets /\ preset[a] \in Presets
  BY DEF Nothing, Configured, Inv, Typed
<1>4. S \subseteq Of("fish") /\ \A r \in Of("fish") : regs[a][r] = IF r \in S THEN 1 ELSE 0
  BY <1>1, <1>2 DEF OwnAt
<1>5. regs[a]["terminals"] = IF Serves("deny", a) /\ known THEN 1 ELSE 0
  <2>1. "terminals" \in ToSet(own["deny"][a].regs) <=> own["deny"][a] # Nothing
    BY <1>1, <1>2, <1>3, Empty DEF OwnAt
  <2>2. own["deny"][a] # Nothing <=> Serves("deny", a) /\ known
    BY <1>1, <1>2 DEF Right, Serves, OwnAt, Excused
  <2>. QED BY <1>1, <1>2, <2>1, <2>2
<1>6. Has(a, S \cup Terminals(a))
  <2> SUFFICES ASSUME NEW r \in Regs
               PROVE  regs[a][r] = IF r \in S \cup Terminals(a) THEN 1 ELSE 0
    BY DEF Has
  <2>1. CASE r = "terminals"
    BY <1>2, <1>4, <1>5, <2>1 DEF Terminals
  <2>2. CASE r # "terminals"
    BY <1>2, <1>4, <2>2 DEF Regs, Terminals
  <2>. QED BY <2>1, <2>2
<1>7. own["fish"][a] = Nothing => S = {}
  BY <1>3, Empty
<1>8. S \in Swaps
  <2>1. CASE own["fish"][a] = Nothing
    BY <1>7, <2>1 DEF Swaps
  <2>2. CASE own["fish"][a] # Nothing
    <3>1. PICK k \in Presets : S = ToSet(Wants(k))
      BY <1>1, <1>2, <2>2 DEF OwnAt
    <3>2. /\ ToSet(<<"bash", "prompt">>) = {"bash", "prompt"}
          /\ ToSet(<<"pfish", "bash", "prompt">>) = {"pfish", "bash", "prompt"}
      BY DEF ToSet
    <3>. QED BY <3>1, <3>2 DEF Swaps, Wants
  <2>. QED BY <2>1, <2>2
<1>9. ~Covers(a) => S = {}
  <2>1. ~Covers(a) => own["fish"][a] = Nothing
    BY <1>1, <1>2 DEF Covers, Serves, Leaving
  <2>. QED BY <1>7, <2>1
<1>10. ASSUME Covers(a), a \notin missed PROVE S = SwapOf(a)
  <2>1. Swapped(a) <=> Swap(preset[a], a)
    BY DEF Swapped, Swap, Sees
  <2>2. Right("fish", a)
    BY <1>1, <1>10 DEF Covers, Serves, Excused
  <2>3. CASE Swapped(a)
    <3>1. own["fish"][a].key = preset[a] /\ own["fish"][a] # Nothing
      BY <1>3, <2>1, <2>2, <2>3 DEF Right
    <3>2. ToSet(own["fish"][a].regs) = ToSet(Wants(preset[a]))
      BY <1>1, <1>2, <1>10, <3>1 DEF Consistent
    <3>. QED BY <2>3, <3>2, WantedAre DEF SwapOf
  <2>4. CASE ~Swapped(a)
    BY <1>7, <2>1, <2>2, <2>4 DEF Right, SwapOf
  <2>. QED BY <2>3, <2>4
<1>. QED BY <1>6, <1>8, <1>9, <1>10

LEMMA Holds ==
  ASSUME Configured, Inv
  PROVE  Settled
<1> SUFFICES ASSUME stack = <<>>, NEW a \in Agents
             PROVE  IF Covers(a)
                    THEN IF a \in missed THEN \E swap \in Swaps : Has(a, swap \cup Terminals(a))
                         ELSE Has(a, SwapOf(a) \cup Terminals(a))
                    ELSE Has(a, Terminals(a))
  BY DEF Settled
<1>1. PICK S : S = ToSet(own["fish"][a].regs)
  OBVIOUS
<1>2. /\ Has(a, S \cup Terminals(a)) /\ S \in Swaps
      /\ ~Covers(a) => S = {}
      /\ Covers(a) /\ a \notin missed => S = SwapOf(a)
  BY <1>1, Noted
<1>3. {} \cup Terminals(a) = Terminals(a)
  OBVIOUS
<1>. QED BY <1>2, <1>3

LEMMA TypesHold ==
  ASSUME Configured, Inv
  PROVE  TypeOK
<1>1. \A p \in P, a \in Agents : own[p][a].key \in Presets \cup {"none"} /\ ToSet(own[p][a].regs) \subseteq Regs
  <2> SUFFICES ASSUME NEW p \in P, NEW a \in Agents
               PROVE  own[p][a].key \in Presets \cup {"none"} /\ ToSet(own[p][a].regs) \subseteq Regs
    OBVIOUS
  <2>1. own[p][a] \in [key : Presets \cup {"none"}, regs : Seq(Regs)]
    BY DEF Inv, Typed
  <2>. QED BY <2>1 DEF ToSet
<1>2. regs \in [Agents -> [Regs -> 0..2]]
  <2>1. ASSUME NEW a \in Agents, NEW r \in Regs PROVE regs[a][r] \in 0..2
    <3>1. PICK p \in P : r \in Of(p)
      BY TwoPolicies DEF Regs, Of
    <3>2. CASE Free(p, a)
      BY <3>1, <3>2 DEF Inv, Accounted
    <3>3. CASE ~Free(p, a)
      <4>1. PICK i \in Idx : Wk(i, p, a)
        BY <3>3 DEF Free
      <4>. QED BY <3>1, <4>1 DEF Inv, Accounted, Wk
    <3>. QED BY <3>2, <3>3
  <2>2. regs \in [Agents -> [Regs -> Int]]
    BY DEF Inv, Typed
  <2>. QED BY <2>1, <2>2
<1>. QED BY <1>1, <1>2 DEF TypeOK, Inv, Typed

\* Whenever a dispatch has ended, and however many presets other plugins switched
\* in it, every agent the policies cover has exactly the registrations its present
\* preset asks for, each once; one that was switched where no install looks again
\* has the whole swap of some preset or none; and an agent or a plugin that is gone,
\* or that the fish policy has once uninstalled, has nothing of it
\* (installFishPolicy, reconcile, install, uninstall).
THEOREM PoliciesSettle == ASSUME Configured PROVE Spec => [](TypeOK /\ Settled)
<1>1. Init => Inv
  BY Initial
<1>2. Inv /\ [Next]_vars => Inv'
  BY Steps
<1>3. Inv => TypeOK /\ Settled
  BY Holds, TypesHold
<1>. QED BY <1>1, <1>2, <1>3, PTL DEF Spec
=============================================================================
