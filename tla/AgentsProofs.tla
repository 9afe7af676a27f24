---------------------------- MODULE AgentsProofs ----------------------------
(***************************************************************************)
(* The agents plugin, for any ids, definitions, capabilities, writers,     *)
(* revisions, starts, calls and children: what children may do and who     *)
(* holds them, the identities and generations on disk, and the drafts of   *)
(* the settings card.                                                      *)
(***************************************************************************)
EXTENDS MCAgents, FiniteSetTheorems, TLAPS

---------------------------------------------------------------------------
(* The authority of children.                                              *)

Ours == {"oneshot", "continuable"}

\* The sidecar of c is the one its delegation wrote.
SidecarIs(c) ==
  /\ sidecar[c].state = "valid"
  /\ sidecar[c].agent = granted[c].agent /\ sidecar[c].main = granted[c].main

\* What is known of a child by the phase and the kind it is in.
Staged(c) ==
  /\ phase[c] = "unused" =>
       mode[c] = None /\ granted[c] = NoGrant /\ sidecar[c] = Absent /\ record[c] = Absent
  /\ mode[c] = None => phase[c] = "unused"
  /\ phase[c] \in {"provisioned", "created"} => mode[c] \in Ours /\ home[c] = granted[c].main
  /\ phase[c] = "provisioned" => parked[c] = granted[c]
  /\ phase[c] \in {"provisioned", "created"} /\ mode[c] = "continuable" => SidecarIs(c)

Kinds(c) ==
  /\ mode[c] \in Ours => granted[c] \in Grants
  /\ mode[c] = "foreign" =>
       /\ NotOurs(c) /\ granted[c] = NoGrant /\ phase[c] \in {"cold", "live"}
       /\ phase[c] = "live" => surface[c] = Tools
  /\ mode[c] = "oneshot" => phase[c] # "cold" /\ (phase[c] = "live" => c \in live)
  /\ c \in live => phase[c] = "live" /\ mode[c] = "oneshot"

\* A record comes from the grant; one fact at least is left; the facts of a
\* child that shows tools agree.
FactsOf(c) ==
  /\ record[c].state = "valid" => mode[c] \in Ours /\ record[c] = Says(granted[c])
  /\ mode[c] = "continuable" /\ phase[c] \in {"created", "live", "cold"} => ~NotOurs(c)
  /\ mode[c] = "continuable" /\ phase[c] = "live" /\ surface[c] # {} => SidecarIs(c)
  /\ damage = 0 /\ sidecar[c].state = "valid" => SidecarIs(c)
  /\ phase[c] \in Running /\ mode[c] # "foreign" => surface[c] \subseteq granted[c].tools

EdgeOf(c) ==
  granted[c] # NoGrant =>
    /\ granted[c].agent \in Edges[granted[c].by]
    /\ granted[c].depth = 1 => granted[c].by = granted[c].main

ChildInv(c) == Staged(c) /\ Kinds(c) /\ FactsOf(c) /\ EdgeOf(c)

AuthorityInv == TypeOK /\ \A c \in Ids : ChildInv(c)

\* What a grant is worth, and what it leaves on disk.
LEMMA GrantFields ==
  ASSUME NEW g \in Grants
  PROVE  /\ g.agent \in Kids /\ g.main \in Mains /\ g.by \in Agents
         /\ g.depth \in 1..MaxDepth /\ g.tools \in SUBSET Tools /\ g # NoGrant
         /\ Says(g) \in Facts /\ Identifies(g) \in Facts
         /\ Says(g).state = "valid" /\ Identifies(g).state = "valid"
         /\ Says(g).agent = g.agent /\ Identifies(g).agent = g.agent
         /\ Says(g).main = g.main /\ Identifies(g).main = g.main
         /\ Says(g).tools = g.tools
<1>1. /\ g.agent \in Kids /\ g.main \in Mains /\ g.by \in Agents
      /\ g.depth \in 1..MaxDepth /\ g.tools \in SUBSET Tools
  BY DEF Grants
<1>2. g # NoGrant
  BY <1>1, LimitsAreNumbers DEF NoGrant
<1>3. Says(g) = [state |-> "valid", agent |-> g.agent, main |-> g.main, tools |-> g.tools]
  BY DEF Says
<1>4. Identifies(g) = [state |-> "valid", agent |-> g.agent, main |-> g.main, tools |-> {}]
  BY DEF Identifies, Says
<1>. HIDE DEF Grants
<1>. QED BY <1>1, <1>2, <1>3, <1>4 DEF Facts

LEMMA NoFacts ==
  /\ Absent \in Facts /\ Invalid \in Facts
  /\ Absent.state = "absent" /\ Invalid.state = "invalid"
BY DEF Absent, Invalid, Facts

LEMMA FactFields ==
  ASSUME NEW f \in Facts
  PROVE  f.state = "valid" => f.agent \in Kids /\ f.main \in Mains
BY DEF Facts, Absent, Invalid

\* Nothing that a child's invariant speaks of has changed for it.
Untouched(c) ==
  /\ phase'[c] = phase[c] /\ mode'[c] = mode[c] /\ granted'[c] = granted[c]
  /\ sidecar'[c] = sidecar[c] /\ record'[c] = record[c] /\ parked'[c] = parked[c]
  /\ home'[c] = home[c] /\ surface'[c] = surface[c] /\ (c \in live' <=> c \in live)
  /\ damage' \in Nat /\ (damage' = 0 => damage = 0)

LEMMA UntouchedKept ==
  ASSUME NEW c, ChildInv(c), Untouched(c)
  PROVE  ChildInv(c)'
<1>1. Staged(c)'
  BY DEF ChildInv, Untouched, Staged, SidecarIs
<1>2. Kinds(c)'
  BY DEF ChildInv, Untouched, Kinds, NotOurs
<1>3. FactsOf(c)'
  BY DEF ChildInv, Untouched, FactsOf, SidecarIs, NotOurs, Says
<1>4. EdgeOf(c)'
  BY DEF ChildInv, Untouched, EdgeOf
<1>. QED BY <1>1, <1>2, <1>3, <1>4 DEF ChildInv

\* One child changes, the others do not.
LEMMA OneChanges ==
  ASSUME AuthorityInv, TypeOK', NEW c \in Ids, ChildInv(c)',
         \A d \in Ids \ {c} : Untouched(d)
  PROVE  AuthorityInv'
BY UntouchedKept DEF AuthorityInv

LEMMA AuthorityInit == ASSUME Init PROVE AuthorityInv
<1>1. TypeOK
  BY NoFacts, LimitsAreNumbers DEF Init, TypeOK
<1>2. ASSUME NEW c \in Ids PROVE ChildInv(c)
  <2>1. /\ phase[c] = "unused" /\ mode[c] = None /\ granted[c] = NoGrant /\ sidecar[c] = Absent
        /\ record[c] = Absent /\ c \notin live
    BY DEF Init
  <2>. QED BY <2>1, NoFacts DEF ChildInv, Staged, Kinds, FactsOf, EdgeOf, Ours, None, Running
<1>. QED BY <1>1, <1>2 DEF AuthorityInv

\* The fields of a child's variables have their types.
LEMMA ChildTypes ==
  ASSUME TypeOK, NEW c \in Ids
  PROVE  /\ granted[c] \in Grants \cup {NoGrant} /\ parked[c] \in Grants \cup {NoGrant}
         /\ sidecar[c] \in Facts /\ record[c] \in Facts /\ surface[c] \in SUBSET Tools
         /\ home[c] \in Mains \cup {None} /\ damage \in Nat
         /\ mode[c] \in {None, "oneshot", "continuable", "foreign"}
         /\ phase[c] \in {"unused", "provisioned", "created", "live", "cold", "over"}
BY LimitsAreNumbers DEF TypeOK

LEMMA KeepsProvision ==
  ASSUME AuthorityInv, NEW c \in Ids, NEW g \in Grants, NEW how \in Ours, Provision(c, g, how),
         g.agent \in Edges[g.by], g.depth = 1 => g.by = g.main
  PROVE  AuthorityInv'
<1>1. /\ phase[c] = "unused" /\ phase' = [phase EXCEPT ![c] = "provisioned"]
      /\ mode' = [mode EXCEPT ![c] = how] /\ granted' = [granted EXCEPT ![c] = g]
      /\ home' = [home EXCEPT ![c] = g.main] /\ parked' = [parked EXCEPT ![c] = g]
      /\ sidecar' = IF how = "continuable" THEN [sidecar EXCEPT ![c] = Identifies(g)] ELSE sidecar
      /\ UNCHANGED <<policy, up, active, live, record, surface, changes, damage>>
  BY DEF Provision
<1>2. /\ g.main \in Mains /\ g # NoGrant /\ Identifies(g) \in Facts /\ Identifies(g).state = "valid"
      /\ Identifies(g).agent = g.agent /\ Identifies(g).main = g.main
  BY GrantFields
<1>3. TypeOK'
  BY <1>1, <1>2 DEF AuthorityInv, TypeOK, Ours
<1>4. \A d \in Ids \ {c} : Untouched(d)
  BY <1>1, LimitsAreNumbers DEF AuthorityInv, TypeOK, Untouched
<1>5. /\ phase'[c] = "provisioned" /\ mode'[c] = how /\ granted'[c] = g /\ home'[c] = g.main
      /\ parked'[c] = g /\ (how = "continuable" => sidecar'[c] = Identifies(g))
      /\ how # "continuable" => sidecar'[c] = sidecar[c]
  BY <1>1 DEF AuthorityInv, TypeOK
<1>6. c \notin live /\ record[c] = Absent /\ sidecar[c] = Absent
  BY <1>1 DEF AuthorityInv, ChildInv, Kinds, Staged
<1>7. ChildInv(c)'
  BY <1>1, <1>2, <1>5, <1>6, NoFacts
     DEF ChildInv, Staged, Kinds, FactsOf, EdgeOf, SidecarIs, Ours, None, Running
<1>. QED BY <1>3, <1>4, <1>7, OneChanges

\* A delegation by a main.
LEMMA KeepsFromMain ==
  ASSUME AuthorityInv, NEW c \in Ids, NEW m \in Mains, NEW k \in Kids, NEW how \in Ours,
         DelegateFromMain(c, m, k, how)
  PROVE  AuthorityInv'
<1>. DEFINE g == GrantOf(m, k, m, 1)
<1>1. Provision(c, g, how) /\ k \in Edges[m]
  BY DEF DelegateFromMain, Edge
<1>2. g.agent = k /\ g.main = m /\ g.by = m /\ g.depth = 1
  BY DEF GrantOf
<1>3. g \in Grants
  <2>1. g.depth <= MaxDepth
    BY <1>1 DEF Provision
  <2>2. g.tools \in SUBSET Tools
    BY GrantsAreTools DEF GrantOf
  <2>. QED BY <1>2, <2>1, <2>2, LimitsAreNumbers DEF GrantOf, Grants, Agents
<1>. HIDE DEF g
<1>. QED BY <1>1, <1>2, <1>3, KeepsProvision

\* What an identity says of a caller that may call is what its delegation said.
LEMMA CallerKnown ==
  ASSUME AuthorityInv, NEW p \in Ids, ChildMayCall(p)
  PROVE  /\ granted[p] \in Grants
         /\ Identity(p).agent = granted[p].agent /\ Identity(p).main = granted[p].main
<1>1. /\ phase[p] = "live" /\ Delegating \in surface[p] /\ Identity(p).state = "valid"
  BY DEF ChildMayCall
<1>2. mode[p] \in Ours
  <2>1. mode[p] # None
    BY <1>1 DEF AuthorityInv, ChildInv, Staged
  <2>2. mode[p] # "foreign"
    <3>1. ASSUME mode[p] = "foreign" PROVE FALSE
      <4>1. sidecar[p].state = "absent" /\ p \notin live
        BY <3>1 DEF AuthorityInv, ChildInv, Kinds, NotOurs
      <4>. QED BY <1>1, <4>1 DEF Identity
    <3>. QED BY <3>1
  <2>. QED BY <2>1, <2>2, ChildTypes DEF AuthorityInv, Ours
<1>3. granted[p] \in Grants
  BY <1>2 DEF AuthorityInv, ChildInv, Kinds
<1>4. CASE p \in live
  BY <1>3, <1>4, GrantFields DEF Identity
<1>5. CASE p \notin live
  <2>1. mode[p] = "continuable"
    BY <1>1, <1>2, <1>5 DEF AuthorityInv, ChildInv, Kinds, Ours
  <2>2. SidecarIs(p)
    BY <1>1, <2>1 DEF AuthorityInv, ChildInv, FactsOf
  <2>. QED BY <1>3, <1>5, <2>2 DEF Identity, SidecarIs
<1>. QED BY <1>3, <1>4, <1>5

LEMMA KeepsFromChild ==
  ASSUME AuthorityInv, NEW c \in Ids, NEW p \in Ids, NEW k \in Kids, NEW how \in Ours,
         DelegateFromChild(c, p, k, how)
  PROVE  AuthorityInv'
<1>. DEFINE g == GrantOf(Identity(p).main, k, granted[p].agent, granted[p].depth + 1)
<1>1. /\ ChildMayCall(p) /\ Provision(c, g, how) /\ k \in Edges[Identity(p).agent]
  BY DEF DelegateFromChild, Edge
<1>2. /\ granted[p] \in Grants
      /\ Identity(p).agent = granted[p].agent /\ Identity(p).main = granted[p].main
  BY <1>1, CallerKnown
<1>3. /\ g.agent = k /\ g.main = granted[p].main /\ g.by = granted[p].agent
      /\ g.depth = granted[p].depth + 1
  BY <1>2 DEF GrantOf
<1>4. granted[p].agent \in Agents /\ granted[p].main \in Mains /\ granted[p].depth \in 1..MaxDepth
  BY <1>2, GrantFields DEF Agents
<1>5. g \in Grants
  <2>1. g.depth <= MaxDepth
    BY <1>1 DEF Provision
  <2>2. g.depth \in 1..MaxDepth
    BY <1>3, <1>4, <2>1, LimitsAreNumbers
  <2>3. g.tools \in SUBSET Tools
    BY GrantsAreTools DEF GrantOf
  <2>. QED BY <1>3, <1>4, <2>2, <2>3 DEF GrantOf, Grants
<1>6. g.depth # 1 /\ g.agent \in Edges[g.by]
  BY <1>1, <1>2, <1>3, <1>4, LimitsAreNumbers
<1>. HIDE DEF g
<1>. QED BY <1>1, <1>5, <1>6, KeepsProvision

LEMMA KeepsCreated ==
  ASSUME AuthorityInv, NEW c \in Ids, Created(c) PROVE AuthorityInv'
<1>1. /\ phase[c] = "provisioned" /\ Fresh(c)
      /\ parked' = [parked EXCEPT ![c] = NoGrant] /\ phase' = [phase EXCEPT ![c] = "created"]
      /\ UNCHANGED <<policy, up, active, mode, granted, live, sidecar, home, changes, damage>>
  BY DEF Created
<1>2. /\ mode[c] \in Ours /\ granted[c] \in Grants /\ parked[c] = granted[c]
      /\ home[c] = granted[c].main /\ (mode[c] = "continuable" => SidecarIs(c)) /\ c \notin live
  BY <1>1 DEF AuthorityInv, ChildInv, Staged, Kinds
<1>. DEFINE g == granted[c]
<1>3. /\ g.tools \in SUBSET Tools /\ Says(g) \in Facts /\ Says(g).state = "valid"
  BY <1>2, GrantFields
<1>4. \/ /\ record' = [record EXCEPT ![c] = Says(g)] /\ surface' = [surface EXCEPT ![c] = g.tools]
      \/ /\ record' = record /\ surface' = [surface EXCEPT ![c] = {}]
  BY <1>1, <1>2 DEF Fresh
<1>5. TypeOK'
  BY <1>1, <1>3, <1>4 DEF AuthorityInv, TypeOK
<1>6. \A d \in Ids \ {c} : Untouched(d)
  BY <1>1, <1>4, LimitsAreNumbers DEF AuthorityInv, TypeOK, Untouched
<1>7. /\ phase'[c] = "created" /\ surface'[c] \in SUBSET g.tools
      /\ record'[c] = Says(g) \/ record'[c] = record[c]
  BY <1>1, <1>4 DEF AuthorityInv, TypeOK
<1>8. ChildInv(c)'
  <2>1. Staged(c)'
    BY <1>1, <1>2, <1>7 DEF AuthorityInv, ChildInv, Staged, SidecarIs, Ours, None
  <2>2. Kinds(c)'
    BY <1>1, <1>2, <1>7 DEF AuthorityInv, ChildInv, Kinds, Ours
  <2>3. FactsOf(c)'
    BY <1>1, <1>2, <1>3, <1>7 DEF AuthorityInv, ChildInv, FactsOf, SidecarIs, NotOurs, Ours, Running
  <2>4. EdgeOf(c)'
    BY <1>1 DEF AuthorityInv, ChildInv, EdgeOf
  <2>. QED BY <2>1, <2>2, <2>3, <2>4 DEF ChildInv
<1>. QED BY <1>5, <1>6, <1>8, OneChanges

LEMMA KeepsPublished ==
  ASSUME AuthorityInv, NEW c \in Ids, Published(c) PROVE AuthorityInv'
<1>1. /\ phase[c] = "created" /\ phase' = [phase EXCEPT ![c] = "live"]
      /\ live' = IF mode[c] = "oneshot" THEN live \cup {c} ELSE live
      /\ UNCHANGED <<policy, up, active, mode, granted, parked, sidecar, record, home, surface,
                     changes, damage>>
  BY DEF Published
<1>2. /\ mode[c] \in Ours /\ (mode[c] = "continuable" => SidecarIs(c)) /\ c \notin live
  BY <1>1 DEF AuthorityInv, ChildInv, Staged, Kinds
<1>3. TypeOK'
  BY <1>1 DEF AuthorityInv, TypeOK
<1>4. \A d \in Ids \ {c} : Untouched(d)
  BY <1>1, LimitsAreNumbers DEF AuthorityInv, TypeOK, Untouched
<1>5. phase'[c] = "live" /\ (c \in live' <=> mode[c] = "oneshot")
  BY <1>1, <1>2 DEF AuthorityInv, TypeOK
<1>6. ChildInv(c)'
  <2>1. Staged(c)'
    BY <1>1, <1>2, <1>5 DEF Staged, Ours, None
  <2>2. Kinds(c)'
    BY <1>1, <1>2, <1>5 DEF AuthorityInv, ChildInv, Kinds, Ours
  <2>3. FactsOf(c)'
    BY <1>1, <1>2, <1>5 DEF AuthorityInv, ChildInv, FactsOf, SidecarIs, NotOurs, Running
  <2>4. EdgeOf(c)'
    BY <1>1 DEF AuthorityInv, ChildInv, EdgeOf
  <2>. QED BY <2>1, <2>2, <2>3, <2>4 DEF ChildInv
<1>. QED BY <1>3, <1>4, <1>6, OneChanges

LEMMA KeepsStartFails ==
  ASSUME AuthorityInv, NEW c \in Ids, StartFails(c) PROVE AuthorityInv'
<1>1. /\ phase[c] \in {"provisioned", "created"} /\ phase' = [phase EXCEPT ![c] = "over"]
      /\ parked' = [parked EXCEPT ![c] = NoGrant] /\ sidecar' = [sidecar EXCEPT ![c] = Absent]
      /\ surface' = [surface EXCEPT ![c] = {}]
      /\ UNCHANGED <<policy, up, active, mode, granted, live, record, home, changes, damage>>
  BY DEF StartFails
<1>2. mode[c] \in Ours /\ c \notin live
  BY <1>1 DEF AuthorityInv, ChildInv, Staged, Kinds
<1>3. TypeOK'
  BY <1>1, NoFacts DEF AuthorityInv, TypeOK
<1>4. \A d \in Ids \ {c} : Untouched(d)
  BY <1>1, LimitsAreNumbers DEF AuthorityInv, TypeOK, Untouched
<1>5. phase'[c] = "over" /\ sidecar'[c] = Absent
  BY <1>1 DEF AuthorityInv, TypeOK
<1>6. ChildInv(c)'
  <2>1. Staged(c)'
    BY <1>1, <1>2, <1>5 DEF Staged, Ours, None
  <2>2. Kinds(c)'
    BY <1>1, <1>2, <1>5 DEF AuthorityInv, ChildInv, Kinds, Ours
  <2>3. FactsOf(c)'
    BY <1>1, <1>5, NoFacts DEF AuthorityInv, ChildInv, FactsOf, Running
  <2>4. EdgeOf(c)'
    BY <1>1 DEF AuthorityInv, ChildInv, EdgeOf
  <2>. QED BY <2>1, <2>2, <2>3, <2>4 DEF ChildInv
<1>. QED BY <1>3, <1>4, <1>6, OneChanges

LEMMA KeepsRetire ==
  ASSUME AuthorityInv, NEW c \in Ids, Retire(c) PROVE AuthorityInv'
<1>1. /\ phase[c] = "live"
      /\ phase' = [phase EXCEPT ![c] = IF mode[c] = "oneshot" THEN "over" ELSE "cold"]
      /\ live' = live \ {c} /\ surface' = [surface EXCEPT ![c] = {}]
      /\ UNCHANGED <<policy, up, active, mode, granted, parked, sidecar, record, home, changes, damage>>
  BY DEF Retire
<1>2. TypeOK'
  BY <1>1 DEF AuthorityInv, TypeOK
<1>3. \A d \in Ids \ {c} : Untouched(d)
  BY <1>1, LimitsAreNumbers DEF AuthorityInv, TypeOK, Untouched
<1>4. /\ phase'[c] = IF mode[c] = "oneshot" THEN "over" ELSE "cold"
      /\ c \notin live'
  BY <1>1 DEF AuthorityInv, TypeOK
<1>5. ChildInv(c)'
  <2>1. Staged(c)'
    BY <1>1, <1>4 DEF AuthorityInv, ChildInv, Staged
  <2>2. Kinds(c)'
    BY <1>1, <1>4 DEF AuthorityInv, ChildInv, Kinds, NotOurs
  <2>3. FactsOf(c)'
    BY <1>1, <1>4 DEF AuthorityInv, ChildInv, FactsOf, NotOurs, SidecarIs, Running
  <2>4. EdgeOf(c)'
    BY <1>1 DEF AuthorityInv, ChildInv, EdgeOf
  <2>. QED BY <2>1, <2>2, <2>3, <2>4 DEF ChildInv
<1>. QED BY <1>2, <1>3, <1>5, OneChanges

\* What a cold child is rebuilt with is no more than its grant, and its facts
\* agree when it is something.
LEMMA RebuiltWithin ==
  ASSUME AuthorityInv, NEW c \in Ids, NEW m \in Mains, phase[c] = "cold"
  PROVE  /\ mode[c] \in {"continuable", "foreign"}
         /\ mode[c] = "foreign" => Rebuilt(c, m) = Tools
         /\ mode[c] = "continuable" /\ Rebuilt(c, m) # {} =>
              Bound(c, m) /\ Rebuilt(c, m) = granted[c].tools /\ SidecarIs(c)
         /\ mode[c] = "continuable" /\ Bound(c, m) =>
              Rebuilt(c, m) = granted[c].tools /\ m = granted[c].main
         /\ Rebuilt(c, m) \in SUBSET Tools
<1>1. /\ mode[c] \in {"continuable", "foreign"}
      /\ mode[c] = "foreign" => NotOurs(c)
      /\ mode[c] = "continuable" => ~NotOurs(c) /\ granted[c] \in Grants
  BY ChildTypes DEF AuthorityInv, ChildInv, Staged, Kinds, FactsOf, Ours
<1>2. CASE mode[c] = "foreign"
  <2>1. Rebuilt(c, m) = Tools
    BY <1>1, <1>2 DEF Rebuilt, Bound, NotOurs
  <2>2. mode[c] # "continuable"
    BY <1>2
  <2>. QED BY <1>2, <2>1, <2>2
<1>3. CASE mode[c] = "continuable"
  <2>1. CASE Bound(c, m)
    <3>1. record[c] = Says(granted[c])
      BY <2>1 DEF Bound, AuthorityInv, ChildInv, FactsOf
    <3>2. /\ record[c].tools = granted[c].tools /\ record[c].agent = granted[c].agent
          /\ record[c].main = granted[c].main /\ granted[c].tools \in SUBSET Tools
      BY <1>1, <1>3, <3>1, GrantFields
    <3>3. SidecarIs(c) /\ m = granted[c].main
      BY <2>1, <3>2 DEF Bound, SidecarIs
    <3>4. Rebuilt(c, m) = granted[c].tools
      BY <1>1, <1>3, <2>1, <3>2 DEF Rebuilt
    <3>. QED BY <1>1, <1>3, <2>1, <3>2, <3>3, <3>4
  <2>2. CASE ~Bound(c, m)
    <3>1. Rebuilt(c, m) = {}
      BY <1>1, <1>3, <2>2 DEF Rebuilt
    <3>. QED BY <1>1, <1>3, <2>2, <3>1
  <2>. QED BY <2>1, <2>2
<1>. QED BY <1>1, <1>2, <1>3

LEMMA KeepsMaterialise ==
  ASSUME AuthorityInv, NEW c \in Ids, NEW m \in Mains, Materialise(c, m) PROVE AuthorityInv'
<1>1. /\ phase[c] = "cold" /\ phase' = [phase EXCEPT ![c] = "live"]
      /\ home' = [home EXCEPT ![c] = m] /\ surface' = [surface EXCEPT ![c] = Rebuilt(c, m)]
      /\ UNCHANGED <<policy, up, active, mode, granted, live, parked, sidecar, record, changes, damage>>
  BY DEF Materialise
<1>. DEFINE tools == Rebuilt(c, m)
<1>2. /\ mode[c] \in {"continuable", "foreign"} /\ (mode[c] = "foreign" => tools = Tools)
      /\ mode[c] = "continuable" /\ tools # {} => tools = granted[c].tools /\ SidecarIs(c)
      /\ tools \in SUBSET Tools
  BY <1>1, RebuiltWithin
<1>. HIDE DEF tools
<1>3. TypeOK'
  BY <1>1, <1>2 DEF AuthorityInv, TypeOK, tools
<1>4. \A d \in Ids \ {c} : Untouched(d)
  BY <1>1, LimitsAreNumbers DEF AuthorityInv, TypeOK, Untouched
<1>5. phase'[c] = "live" /\ surface'[c] = tools
  BY <1>1 DEF AuthorityInv, TypeOK, tools
<1>6. ChildInv(c)'
  <2>1. Staged(c)'
    BY <1>1, <1>5 DEF AuthorityInv, ChildInv, Staged
  <2>2. Kinds(c)'
    BY <1>1, <1>2, <1>5 DEF AuthorityInv, ChildInv, Kinds, NotOurs
  <2>3. FactsOf(c)'
    BY <1>1, <1>2, <1>5 DEF AuthorityInv, ChildInv, FactsOf, NotOurs, SidecarIs, Running
  <2>4. EdgeOf(c)'
    BY <1>1 DEF AuthorityInv, ChildInv, EdgeOf
  <2>. QED BY <2>1, <2>2, <2>3, <2>4 DEF ChildInv
<1>. QED BY <1>3, <1>4, <1>6, OneChanges

LEMMA KeepsForeign ==
  ASSUME AuthorityInv, NEW c \in Ids, ForeignChild(c) PROVE AuthorityInv'
<1>1. /\ phase[c] = "unused" /\ phase' = [phase EXCEPT ![c] = "cold"]
      /\ mode' = [mode EXCEPT ![c] = "foreign"]
      /\ UNCHANGED <<policy, up, active, granted, live, parked, sidecar, record, home, surface,
                     changes, damage>>
  BY DEF ForeignChild
<1>2. /\ granted[c] = NoGrant /\ sidecar[c] = Absent /\ record[c] = Absent /\ c \notin live
  BY <1>1 DEF AuthorityInv, ChildInv, Staged, Kinds
<1>3. TypeOK'
  BY <1>1 DEF AuthorityInv, TypeOK
<1>4. \A d \in Ids \ {c} : Untouched(d)
  BY <1>1, LimitsAreNumbers DEF AuthorityInv, TypeOK, Untouched
<1>5. phase'[c] = "cold" /\ mode'[c] = "foreign"
  BY <1>1 DEF AuthorityInv, TypeOK
<1>6. ChildInv(c)'
  BY <1>1, <1>2, <1>5, NoFacts
     DEF ChildInv, Staged, Kinds, FactsOf, EdgeOf, NotOurs, Ours, None, Running
<1>. QED BY <1>3, <1>4, <1>6, OneChanges

LEMMA KeepsFork ==
  ASSUME AuthorityInv, NEW c \in Ids, NEW f \in Ids, Fork(c, f) PROVE AuthorityInv'
<1>1. /\ mode[c] = "continuable" /\ phase[f] = "unused" /\ record[c].state # "absent"
      /\ phase' = [phase EXCEPT ![f] = "cold"] /\ mode' = [mode EXCEPT ![f] = "continuable"]
      /\ record' = [record EXCEPT ![f] = record[c]] /\ granted' = [granted EXCEPT ![f] = granted[c]]
      /\ UNCHANGED <<policy, up, active, live, parked, sidecar, home, surface, changes, damage>>
  BY DEF Fork
<1>2. /\ granted[c] \in Grants /\ sidecar[f] = Absent /\ f \notin live
      /\ record[c].state = "valid" => record[c] = Says(granted[c])
      /\ EdgeOf(c)
  BY <1>1 DEF AuthorityInv, ChildInv, Staged, Kinds, FactsOf, Ours
<1>3. TypeOK'
  BY <1>1 DEF AuthorityInv, TypeOK
<1>4. \A d \in Ids \ {f} : Untouched(d)
  BY <1>1, LimitsAreNumbers DEF AuthorityInv, TypeOK, Untouched
<1>5. /\ phase'[f] = "cold" /\ mode'[f] = "continuable" /\ record'[f] = record[c]
      /\ granted'[f] = granted[c]
  BY <1>1 DEF AuthorityInv, TypeOK
<1>6. ChildInv(f)'
  <2>1. Staged(f)' /\ Kinds(f)'
    BY <1>1, <1>2, <1>5 DEF Staged, Kinds, Ours, None
  <2>2. FactsOf(f)'
    BY <1>1, <1>2, <1>5, NoFacts DEF FactsOf, NotOurs, Ours, Running
  <2>3. EdgeOf(f)'
    BY <1>2, <1>5 DEF EdgeOf
  <2>. QED BY <2>1, <2>2, <2>3 DEF ChildInv
<1>. QED BY <1>3, <1>4, <1>6, OneChanges

LEMMA KeepsDamage ==
  ASSUME AuthorityInv, NEW c \in Ids, Damage(c) PROVE AuthorityInv'
<1>1. /\ damage < MaxDamage /\ phase[c] = "cold" /\ mode[c] # "foreign" /\ damage' = damage + 1
      /\ UNCHANGED <<policy, up, active, phase, mode, granted, live, parked, home, surface, changes>>
  BY DEF Damage
<1>2. damage' \in 0..MaxDamage /\ damage' # 0
  BY <1>1, LimitsAreNumbers DEF AuthorityInv, TypeOK
<1>3. ASSUME NEW r \in {Absent, Invalid}, record' = [record EXCEPT ![c] = r], sidecar' = sidecar,
             sidecar[c].state # "absent"
      PROVE  AuthorityInv'
  <2>1. TypeOK'
    BY <1>1, <1>2, <1>3, NoFacts DEF AuthorityInv, TypeOK
  <2>2. \A d \in Ids \ {c} : Untouched(d)
    BY <1>1, <1>2, <1>3, LimitsAreNumbers DEF AuthorityInv, TypeOK, Untouched
  <2>3. record'[c] = r /\ r.state # "valid"
    BY <1>3, NoFacts DEF AuthorityInv, TypeOK
  <2>4. ChildInv(c)'
    <3>1. Staged(c)'
      BY <1>1, <1>3, <2>3 DEF AuthorityInv, ChildInv, Staged
    <3>2. Kinds(c)'
      BY <1>1, <1>3, <2>3 DEF AuthorityInv, ChildInv, Kinds
    <3>3. FactsOf(c)'
      BY <1>1, <1>2, <1>3, <2>3 DEF AuthorityInv, ChildInv, FactsOf, NotOurs, Running
    <3>4. EdgeOf(c)'
      BY <1>1 DEF AuthorityInv, ChildInv, EdgeOf
    <3>. QED BY <3>1, <3>2, <3>3, <3>4 DEF ChildInv
  <2>. QED BY <2>1, <2>2, <2>4, OneChanges
<1>4. ASSUME NEW s \in Facts, sidecar' = [sidecar EXCEPT ![c] = s], record' = record,
             record[c].state # "absent"
      PROVE  AuthorityInv'
  <2>1. TypeOK'
    BY <1>1, <1>2, <1>4 DEF AuthorityInv, TypeOK
  <2>2. \A d \in Ids \ {c} : Untouched(d)
    BY <1>1, <1>2, <1>4, LimitsAreNumbers DEF AuthorityInv, TypeOK, Untouched
  <2>3. sidecar'[c] = s
    BY <1>4 DEF AuthorityInv, TypeOK
  <2>4. ChildInv(c)'
    <3>1. Staged(c)'
      BY <1>1, <1>4, <2>3 DEF AuthorityInv, ChildInv, Staged
    <3>2. Kinds(c)'
      BY <1>1, <1>4, <2>3 DEF AuthorityInv, ChildInv, Kinds
    <3>3. FactsOf(c)'
      BY <1>1, <1>2, <1>4, <2>3 DEF AuthorityInv, ChildInv, FactsOf, NotOurs, Running
    <3>4. EdgeOf(c)'
      BY <1>1 DEF AuthorityInv, ChildInv, EdgeOf
    <3>. QED BY <3>1, <3>2, <3>3, <3>4 DEF ChildInv
  <2>. QED BY <2>1, <2>2, <2>4, OneChanges
<1>5. \/ /\ sidecar[c].state # "absent" /\ sidecar' = sidecar
         /\ \E r \in {Absent, Invalid} : record' = [record EXCEPT ![c] = r]
      \/ /\ record[c].state # "absent" /\ record' = record
         /\ \E s \in Facts : sidecar' = [sidecar EXCEPT ![c] = s]
  BY NoFacts DEF Damage, AuthorityInv, TypeOK
<1>. QED BY <1>3, <1>4, <1>5

LEMMA KeepsCrash ==
  ASSUME AuthorityInv, Crash PROVE AuthorityInv'
<1>1. /\ up' = FALSE /\ active' = {} /\ live' = {} /\ parked' = [c \in Ids |-> NoGrant]
      /\ surface' = [c \in Ids |-> {}]
      /\ UNCHANGED <<policy, mode, granted, sidecar, record, home, changes, damage>>
  BY DEF Crash
<1>2. ASSUME NEW c \in Ids
      PROVE  /\ phase[c] \in {"created", "live"} /\ mode[c] # "oneshot" => phase'[c] = "cold"
             /\ phase[c] \in {"created", "live"} /\ mode[c] = "oneshot" => phase'[c] = "over"
             /\ phase[c] = "provisioned" => phase'[c] = "over"
             /\ phase[c] \in {"unused", "cold", "over"} => phase'[c] = phase[c]
  <2>1. phase'[c] = CASE phase[c] \in Running /\ mode[c] # "oneshot" -> "cold"
                      [] phase[c] \in Running /\ mode[c] = "oneshot" -> "over"
                      [] phase[c] = "provisioned"                    -> "over"
                      [] OTHER                                       -> phase[c]
    BY DEF Crash
  <2>. QED BY <2>1 DEF Running
<1>3. /\ DOMAIN phase' = Ids /\ phase' = [c \in Ids |-> phase'[c]]
  BY DEF Crash
<1>4. TypeOK'
  <2>1. phase' \in [Ids -> {"unused", "provisioned", "created", "live", "cold", "over"}]
    BY <1>2, <1>3, ChildTypes DEF AuthorityInv
  <2>. QED BY <1>1, <2>1 DEF AuthorityInv, TypeOK
<1>5. ASSUME NEW c \in Ids PROVE ChildInv(c)'
  <2>1. /\ phase[c] \in {"unused", "provisioned", "created", "live", "cold", "over"}
        /\ surface'[c] = {} /\ c \notin live'
    BY <1>1, ChildTypes DEF AuthorityInv
  <2>2. Staged(c)'
    BY <1>1, <1>2, <2>1 DEF AuthorityInv, ChildInv, Staged
  <2>3. Kinds(c)'
    BY <1>1, <1>2, <2>1 DEF AuthorityInv, ChildInv, Staged, Kinds, NotOurs, Ours
  <2>4. FactsOf(c)'
    BY <1>1, <1>2, <2>1 DEF AuthorityInv, ChildInv, FactsOf, NotOurs, SidecarIs, Running
  <2>5. EdgeOf(c)'
    BY <1>1 DEF AuthorityInv, ChildInv, EdgeOf
  <2>. QED BY <2>2, <2>3, <2>4, <2>5 DEF ChildInv
<1>. QED BY <1>4, <1>5 DEF AuthorityInv

\* Settings, the catalog and the mains say nothing of what a child has.
LEMMA KeepsWorld ==
  ASSUME AuthorityInv,
         \/ \E m \in Mains : Activate(m)
         \/ \E a \in Agents : Commit(a)
         \/ Boot \/ UNCHANGED vars
  PROVE  AuthorityInv'
<1>1. UNCHANGED <<phase, mode, granted, live, parked, sidecar, record, home, surface, damage>>
  BY DEF Activate, Commit, Boot, vars
<1>2. /\ policy' \in [Agents -> {"enabled", "disabled", "gone"}] /\ up' \in BOOLEAN
      /\ active' \subseteq Mains /\ changes' \in 0..MaxChanges
  <2>1. CASE \E m \in Mains : Activate(m)
    BY <2>1 DEF Activate, AuthorityInv, TypeOK
  <2>2. CASE \E a \in Agents : Commit(a)
    BY <2>2, LimitsAreNumbers DEF Commit, AuthorityInv, TypeOK
  <2>3. CASE Boot
    BY <2>3, LimitsAreNumbers DEF Boot, AuthorityInv, TypeOK
  <2>4. CASE UNCHANGED vars
    BY <2>4 DEF vars, AuthorityInv, TypeOK
  <2>. QED BY <2>1, <2>2, <2>3, <2>4
<1>3. TypeOK'
  BY <1>1, <1>2 DEF AuthorityInv, TypeOK
<1>4. \A d \in Ids : Untouched(d)
  BY <1>1, LimitsAreNumbers DEF AuthorityInv, TypeOK, Untouched
<1>. QED BY <1>3, <1>4, UntouchedKept DEF AuthorityInv

LEMMA AuthorityNext == ASSUME AuthorityInv, [Next]_vars PROVE AuthorityInv'
BY KeepsFromMain, KeepsFromChild, KeepsCreated, KeepsPublished, KeepsStartFails, KeepsRetire,
   KeepsMaterialise, KeepsForeign, KeepsFork, KeepsDamage, KeepsCrash, KeepsWorld DEF Next, Ours

\* A child that comes up is a new one that takes what was parked for it, or
\* a cold one rebuilt from its facts.
LEMMA ComesUp ==
  ASSUME AuthorityInv, [Next]_vars, NEW c \in Ids, Came(c)
  PROVE  \/ Created(c)
         \/ \E m \in Mains : Materialise(c, m)
<1>. USE DEF Came, Running
<1>1. phase[c] \notin {"created", "live"} /\ phase'[c] \in {"created", "live"}
  OBVIOUS
<1>2. phase \in [Ids -> {"unused", "provisioned", "created", "live", "cold", "over"}]
  BY DEF AuthorityInv, TypeOK
<1>3. ASSUME NEW d \in Ids, NEW x \in {"unused", "provisioned", "cold", "over"},
             phase' = [phase EXCEPT ![d] = x]
      PROVE  FALSE
  BY <1>1, <1>2, <1>3
<1>4. ~UNCHANGED phase
  BY <1>1
<1>5. ASSUME NEW d \in Ids, NEW g, NEW how, Provision(d, g, how) PROVE FALSE
  BY <1>3, <1>5 DEF Provision
<1>6. ASSUME NEW d \in Ids, NEW m \in Mains, NEW k \in Kids, NEW how,
             DelegateFromMain(d, m, k, how)
      PROVE  FALSE
  BY <1>5, <1>6 DEF DelegateFromMain
<1>7. ASSUME NEW d \in Ids, NEW p \in Ids, NEW k \in Kids, NEW how,
             DelegateFromChild(d, p, k, how)
      PROVE  FALSE
  BY <1>5, <1>7 DEF DelegateFromChild
<1>8. ASSUME NEW d \in Ids, StartFails(d) \/ Retire(d) \/ ForeignChild(d) \/ Damage(d) PROVE FALSE
  <2>1. CASE StartFails(d)
    BY <1>3, <2>1 DEF StartFails
  <2>2. CASE Retire(d)
    BY <1>3, <2>2 DEF Retire
  <2>3. CASE ForeignChild(d)
    BY <1>3, <2>3 DEF ForeignChild
  <2>4. CASE Damage(d)
    BY <1>4, <2>4 DEF Damage
  <2>. QED BY <1>8, <2>1, <2>2, <2>3, <2>4
<1>9. ASSUME NEW d \in Ids, NEW f \in Ids, Fork(d, f) PROVE FALSE
  BY <1>3, <1>9 DEF Fork
<1>10. ASSUME Crash PROVE FALSE
  <2>1. phase'[c] = CASE phase[c] \in Running /\ mode[c] # "oneshot" -> "cold"
                      [] phase[c] \in Running /\ mode[c] = "oneshot" -> "over"
                      [] phase[c] = "provisioned"                    -> "over"
                      [] OTHER                                       -> phase[c]
    BY <1>10 DEF Crash
  <2>2. phase'[c] \in {"cold", "over"} \/ phase'[c] = phase[c]
    BY <2>1
  <2>. QED BY <1>1, <2>2
<1>11. ASSUME (\E m \in Mains : Activate(m)) \/ (\E a \in Agents : Commit(a)) \/ Boot \/ UNCHANGED vars
       PROVE  FALSE
  BY <1>4, <1>11 DEF Activate, Commit, Boot, vars
<1>12. ASSUME NEW d \in Ids, Created(d) PROVE d = c
  BY <1>1, <1>2, <1>12 DEF Created
<1>13. ASSUME NEW d \in Ids, Published(d) PROVE FALSE
  BY <1>1, <1>2, <1>13 DEF Published
<1>14. ASSUME NEW d \in Ids, NEW m \in Mains, Materialise(d, m) PROVE d = c
  BY <1>1, <1>2, <1>14 DEF Materialise
<1>15. \/ \E d \in Ids : Created(d)
       \/ \E d \in Ids : \E m \in Mains : Materialise(d, m)
  BY <1>6, <1>7, <1>8, <1>9, <1>10, <1>11, <1>13 DEF Next
<1>. QED BY <1>12, <1>14, <1>15

\* A child comes up within its delegation, under what the settings say.
LEMMA ComesUpRight ==
  ASSUME AuthorityInv, [Next]_vars, NEW c \in Ids, Came(c), mode'[c] # "foreign"
  PROVE  /\ surface'[c] # {} => Enabled(granted[c].agent) /\ home'[c] = granted[c].main
         /\ (/\ phase[c] = "cold" /\ damage = 0 /\ record[c].state = "valid"
             /\ sidecar[c].state = "valid" /\ home'[c] = granted[c].main
             /\ Enabled(granted[c].agent))
              => surface'[c] = granted[c].tools
<1>1. CASE Created(c)
  <2>1. /\ phase[c] = "provisioned" /\ Fresh(c) /\ home' = home
    BY <1>1 DEF Created
  <2>2. parked[c] = granted[c] /\ home[c] = granted[c].main
    BY <2>1 DEF AuthorityInv, ChildInv, Staged
  <2>3. CASE Enabled(granted[c].agent)
    BY <2>1, <2>2, <2>3
  <2>4. CASE ~Enabled(granted[c].agent)
    <3>1. surface' = [surface EXCEPT ![c] = {}]
      BY <2>1, <2>2, <2>4 DEF Fresh
    <3>2. surface'[c] = {}
      BY <3>1 DEF AuthorityInv, TypeOK
    <3>. QED BY <2>1, <3>2
  <2>. QED BY <2>3, <2>4
<1>2. ASSUME NEW m \in Mains, Materialise(c, m)
      PROVE  /\ surface'[c] # {} => Enabled(granted[c].agent) /\ home'[c] = granted[c].main
             /\ (/\ damage = 0 /\ record[c].state = "valid"
                 /\ sidecar[c].state = "valid" /\ home'[c] = granted[c].main
                 /\ Enabled(granted[c].agent))
                  => surface'[c] = granted[c].tools
  <2>1. /\ phase[c] = "cold" /\ mode'[c] = mode[c] /\ home'[c] = m /\ surface'[c] = Rebuilt(c, m)
    BY <1>2 DEF Materialise, AuthorityInv, TypeOK
  <2>2. mode[c] = "continuable" /\ granted[c] \in Grants
    BY <2>1, RebuiltWithin DEF AuthorityInv, ChildInv, Kinds, Ours
  <2>3. ASSUME surface'[c] # {} PROVE Enabled(granted[c].agent) /\ home'[c] = granted[c].main
    <3>1. Bound(c, m) /\ SidecarIs(c)
      BY <2>1, <2>2, <2>3, RebuiltWithin
    <3>. QED BY <2>1, <3>1 DEF Bound, SidecarIs
  <2>4. ASSUME damage = 0, record[c].state = "valid", sidecar[c].state = "valid",
               home'[c] = granted[c].main, Enabled(granted[c].agent)
        PROVE  surface'[c] = granted[c].tools
    <3>1. SidecarIs(c) /\ record[c] = Says(granted[c])
      BY <2>4 DEF AuthorityInv, ChildInv, FactsOf
    <3>2. record[c].agent = granted[c].agent /\ record[c].main = granted[c].main
      BY <2>2, <3>1, GrantFields
    <3>3. Bound(c, m)
      BY <2>1, <2>4, <3>1, <3>2 DEF Bound, SidecarIs
    <3>. QED BY <2>1, <2>2, <3>3, RebuiltWithin
  <2>. QED BY <2>3, <2>4
<1>. QED BY <1>1, <1>2, ComesUp

\* What the invariant says of tools and edges.
LEMMA AuthoritySays == ASSUME AuthorityInv PROVE TypeOK /\ NeverWider /\ EdgesHold
<1>1. NeverWider
  <2>. SUFFICES ASSUME NEW c \in Ids, phase[c] \in Running
                PROVE  IF mode[c] = "foreign" THEN surface[c] = Tools
                                              ELSE surface[c] \subseteq granted[c].tools
    BY DEF NeverWider
  <2>1. mode[c] = "foreign" => surface[c] = Tools
    BY DEF AuthorityInv, ChildInv, Kinds, Running
  <2>2. mode[c] # "foreign" => surface[c] \subseteq granted[c].tools
    BY DEF AuthorityInv, ChildInv, FactsOf
  <2>. QED BY <2>1, <2>2
<1>2. EdgesHold
  BY DEF AuthorityInv, ChildInv, EdgeOf, EdgesHold
<1>. QED BY <1>1, <1>2 DEF AuthorityInv

\* A step of the plugin is a step of its children's authority or leaves it.
LEMMA AuthorityStep == ASSUME [AllNext]_all PROVE [Next]_vars
BY DEF AllNext, all, vars

\* However processes end, settings change and facts are lost or exchanged, a
\* child of ours never shows a tool that its delegation did not give it, it
\* comes up only under an enabled definition and its own main, gets exactly
\* its tools back from facts nobody touched, and every delegation follows an
\* edge of the agent that asked: composeDelegatedChild, resolveCallerIdentity.
THEOREM AuthorityKept == AllSpec => AuthorityHolds
<1>1. AllInit => AuthorityInv
  BY AuthorityInit DEF AllInit
<1>2. AuthorityInv /\ [AllNext]_all => AuthorityInv'
  BY AuthorityNext, AuthorityStep
<1>3. AuthorityInv => (which = "authority" => TypeOK /\ NeverWider /\ EdgesHold)
  BY AuthoritySays
<1>4. AuthorityInv /\ [AllNext]_all =>
        [\A c \in Ids : Came(c) /\ mode'[c] # "foreign" =>
           /\ surface'[c] # {} => Enabled(granted[c].agent) /\ home'[c] = granted[c].main
           /\ (/\ phase[c] = "cold" /\ damage = 0 /\ record[c].state = "valid"
               /\ sidecar[c].state = "valid" /\ home'[c] = granted[c].main
               /\ Enabled(granted[c].agent))
                => surface'[c] = granted[c].tools]_vars
  BY ComesUpRight, AuthorityStep
<1>. QED BY <1>1, <1>2, <1>3, <1>4, PTL DEF AllSpec, AuthorityHolds, MaterialisedRight

---------------------------------------------------------------------------
(* The identity of a child on disk.                                        *)

WriterInv(w) ==
  /\ id_pc[w] \in {"publish", "check", "rename"} => id_temp[w] = Payloads[w]
  /\ id_links => id_pc[w] \notin {"check", "rename"}
  /\ id_links /\ id_pc[w] = "remove" => id_target = Payloads[w]
  /\ id_links /\ id_pc[w] \in {"discard", "done"} /\ id_result[w] = "written" =>
       id_target = Payloads[w]
  /\ id_links /\ id_pc[w] = "kept" => id_target = Payloads[w]

IdInv ==
  /\ Sidecar!TypeOK /\ id_target # Sidecar!Half
  /\ \A w \in Writers : WriterInv(w)

\* No two writers write the same, and none of them nothing.
LEMMA OwnPayload ==
  /\ \A w \in Writers : /\ Payloads[w] = w /\ w \in Sidecar!Texts
                        /\ w # Sidecar!None /\ w # Sidecar!Half
  /\ Sidecar!Texts = Writers
<1>1. \A w \in Writers : Payloads[w] = w
  BY DEF Payloads
<1>2. Sidecar!Texts = Writers
  BY <1>1 DEF Sidecar!Texts
<1>. QED BY <1>1, <1>2, WritersTell DEF Sidecar!None, Sidecar!Half

\* A step of one writer that leaves the sidecar alone, or is the first to
\* fill it, or takes its own record back.
LEMMA IdOneStep ==
  ASSUME IdInv, Sidecar!TypeOK', id_target' # Sidecar!Half, NEW w \in Writers, WriterInv(w)',
         id_links' = id_links,
         \A v \in Writers \ {w} :
           id_pc'[v] = id_pc[v] /\ id_temp'[v] = id_temp[v] /\ id_result'[v] = id_result[v],
         \/ id_target' = id_target \/ ~id_links
         \/ id_target = Sidecar!None
         \/ id_target = Payloads[w]
  PROVE  IdInv'
<1>1. ASSUME NEW v \in Writers \ {w} PROVE WriterInv(v)'
  <2>1. WriterInv(v) /\ Payloads[v] = v /\ v # Sidecar!None
    BY OwnPayload DEF IdInv
  <2>2. CASE id_target' = id_target
    BY <2>1, <2>2 DEF WriterInv
  <2>3. CASE ~id_links
    BY <2>1, <2>3 DEF WriterInv
  <2>4. CASE id_target = Sidecar!None
    BY <2>1, <2>4 DEF WriterInv
  <2>5. CASE id_target = Payloads[w]
    BY <2>1, <2>5, OwnPayload DEF WriterInv
  <2>. QED BY <2>2, <2>3, <2>4, <2>5
<1>. QED BY <1>1 DEF IdInv

LEMMA IdInit == ASSUME Sidecar!Init PROVE IdInv
BY WritersTell DEF Sidecar!Init, IdInv, Sidecar!TypeOK, WriterInv, Sidecar!None, Sidecar!Half

\* The steps that neither read nor change the sidecar.
LEMMA IdQuietly ==
  ASSUME IdInv, NEW w \in Writers,
         \/ Sidecar!Open(w) \/ Sidecar!Staged(w) \/ Sidecar!StagingFails(w) \/ Sidecar!LinkFails(w)
         \/ Sidecar!Discard(w) \/ Sidecar!RollBack(w) \/ Sidecar!Keep(w) \/ Sidecar!Die(w)
  PROVE  IdInv'
<1>. USE OwnPayload DEF Sidecar!Goto, Sidecar!Conclude
<1>. DEFINE Others == \A v \in Writers \ {w} :
       id_pc'[v] = id_pc[v] /\ id_temp'[v] = id_temp[v] /\ id_result'[v] = id_result[v]
<1>1. id_links' = id_links /\ id_target' = id_target
  BY DEF Sidecar!Open, Sidecar!Staged, Sidecar!StagingFails, Sidecar!LinkFails,
         Sidecar!Discard, Sidecar!RollBack, Sidecar!Keep, Sidecar!Die
<1>2. CASE Sidecar!Open(w)
  <2>1. Sidecar!TypeOK' /\ Others /\ WriterInv(w)'
    BY <1>2 DEF Sidecar!Open, IdInv, Sidecar!TypeOK, WriterInv
  <2>. QED BY <1>1, <2>1, IdOneStep DEF IdInv
<1>3. CASE Sidecar!Staged(w)
  <2>1. Sidecar!TypeOK' /\ Others /\ WriterInv(w)'
    BY <1>3 DEF Sidecar!Staged, IdInv, Sidecar!TypeOK, WriterInv
  <2>. QED BY <1>1, <2>1, IdOneStep DEF IdInv
<1>4. CASE Sidecar!StagingFails(w) \/ Sidecar!LinkFails(w)
  <2>1. Sidecar!TypeOK' /\ Others /\ WriterInv(w)'
    BY <1>4 DEF Sidecar!StagingFails, Sidecar!LinkFails, IdInv, Sidecar!TypeOK, WriterInv
  <2>. QED BY <1>1, <2>1, IdOneStep DEF IdInv
<1>5. CASE Sidecar!Discard(w)
  <2>1. Sidecar!TypeOK' /\ Others /\ WriterInv(w)'
    BY <1>5 DEF Sidecar!Discard, IdInv, Sidecar!TypeOK, WriterInv
  <2>. QED BY <1>1, <2>1, IdOneStep DEF IdInv
<1>6. CASE Sidecar!RollBack(w) \/ Sidecar!Die(w)
  <2>1. Sidecar!TypeOK' /\ Others /\ WriterInv(w)'
    BY <1>6 DEF Sidecar!RollBack, Sidecar!Die, IdInv, Sidecar!TypeOK, WriterInv
  <2>. QED BY <1>1, <2>1, IdOneStep DEF IdInv
<1>7. CASE Sidecar!Keep(w)
  <2>1. Sidecar!TypeOK' /\ Others /\ WriterInv(w)'
    BY <1>7 DEF Sidecar!Keep, IdInv, Sidecar!TypeOK, WriterInv
  <2>. QED BY <1>1, <2>1, IdOneStep DEF IdInv
<1>. QED BY <1>2, <1>3, <1>4, <1>5, <1>6, <1>7

\* The steps that read or change the sidecar.
LEMMA IdOnDisk ==
  ASSUME IdInv, NEW w \in Writers,
         \/ Sidecar!Link(w) \/ Sidecar!Check(w) \/ Sidecar!Rename(w) \/ Sidecar!Compare(w)
         \/ Sidecar!ReadBack(w) \/ Sidecar!Remove(w)
  PROVE  IdInv'
<1>. USE OwnPayload DEF Sidecar!Goto, Sidecar!Conclude
<1>. DEFINE Others == \A v \in Writers \ {w} :
       id_pc'[v] = id_pc[v] /\ id_temp'[v] = id_temp[v] /\ id_result'[v] = id_result[v]
<1>1. id_links' = id_links
  BY DEF Sidecar!Link, Sidecar!Check, Sidecar!Rename, Sidecar!Compare, Sidecar!ReadBack,
         Sidecar!Remove
<1>2. CASE Sidecar!Link(w)
  <2>1. /\ Sidecar!TypeOK' /\ Others /\ WriterInv(w)' /\ id_target' # Sidecar!Half
        /\ id_target' = id_target \/ id_target = Sidecar!None
    BY <1>2 DEF Sidecar!Link, IdInv, Sidecar!TypeOK, WriterInv
  <2>. QED BY <1>1, <2>1, IdOneStep
<1>3. CASE Sidecar!Check(w)
  <2>1. Sidecar!TypeOK' /\ Others /\ WriterInv(w)' /\ id_target' = id_target
    BY <1>3 DEF Sidecar!Check, IdInv, Sidecar!TypeOK, WriterInv
  <2>. QED BY <1>1, <2>1, IdOneStep DEF IdInv
<1>4. CASE Sidecar!Rename(w)
  <2>1. /\ Sidecar!TypeOK' /\ Others /\ WriterInv(w)' /\ id_target' # Sidecar!Half /\ ~id_links
    BY <1>4 DEF Sidecar!Rename, IdInv, Sidecar!TypeOK, WriterInv
  <2>. QED BY <1>1, <2>1, IdOneStep
<1>5. CASE Sidecar!Compare(w)
  <2>1. Sidecar!TypeOK' /\ Others /\ WriterInv(w)' /\ id_target' = id_target
    BY <1>5 DEF Sidecar!Compare, IdInv, Sidecar!TypeOK, WriterInv
  <2>. QED BY <1>1, <2>1, IdOneStep DEF IdInv
<1>6. CASE Sidecar!ReadBack(w)
  <2>1. Sidecar!TypeOK' /\ Others /\ WriterInv(w)' /\ id_target' = id_target
    BY <1>6 DEF Sidecar!ReadBack, Sidecar!Ours, IdInv, Sidecar!TypeOK, WriterInv
  <2>. QED BY <1>1, <2>1, IdOneStep DEF IdInv
<1>7. CASE Sidecar!Remove(w)
  <2>1. /\ Sidecar!TypeOK' /\ Others /\ WriterInv(w)' /\ id_target' # Sidecar!Half
        /\ ~id_links \/ id_target = Payloads[w]
    BY <1>7 DEF Sidecar!Remove, IdInv, Sidecar!TypeOK, WriterInv, Sidecar!None, Sidecar!Half
  <2>. QED BY <1>1, <2>1, IdOneStep
<1>. QED BY <1>2, <1>3, <1>4, <1>5, <1>6, <1>7

LEMMA IdNext == ASSUME IdInv, [AllNext]_all PROVE IdInv'
<1>1. CASE UNCHANGED id_vars
  BY <1>1 DEF id_vars, IdInv, Sidecar!TypeOK, WriterInv
<1>2. CASE Sidecar!Next
  BY <1>2, IdQuietly, IdOnDisk DEF Sidecar!Next
<1>. QED BY <1>1, <1>2 DEF AllNext, all

\* A reader never meets half a record, and where the file system has links
\* the record of a published child stays, whatever other attempts at its id
\* write, take back or leave behind: writeChildIdentity, rollbackChildIdentity.
THEOREM IdentitiesStay == AllSpec => []RecordsStay
<1>1. AllInit => IdInv
  BY IdInit DEF AllInit
<1>2. IdInv /\ [AllNext]_all => IdInv'
  BY IdNext
<1>3. IdInv => RecordsStay
  BY WritersTell
     DEF IdInv, WriterInv, RecordsStay, Sidecar!RecordsStay, Sidecar!State, Sidecar!None, Sidecar!Half
<1>. QED BY <1>1, <1>2, <1>3, PTL DEF AllSpec

---------------------------------------------------------------------------
(* The draft of the settings card.                                         *)

\* The draft was pinned no later than any of its fields was staged.
PinnedFirst ==
  /\ card_seenAt <= card_revision
  /\ card_staged # Card!NoDraft =>
       card_draftRevision \in Card!Revisions /\ card_draftRevision <= card_seenAt
  /\ \A f \in DOMAIN card_staged :
       card_draftRevision <= card_stagedAt[f] /\ card_stagedAt[f] <= card_seenAt

\* A request on its way carries the draft as it is, staged at one revision.
RequestHolds ==
  card_request # "none" =>
    /\ card_saving /\ card_written = card_staged
    /\ \A f \in DOMAIN card_written : card_stagedAt[f] = card_draftRevision

CardInv == Card!TypeOK /\ PinnedFirst /\ RequestHolds /\ Card!ShownIsTrue

LEMMA DraftType ==
  /\ \A S \in SUBSET Fields : \A d \in [S -> Settings] : d \in Card!Drafts
  /\ \A d \in Card!Drafts : DOMAIN d \in SUBSET Fields /\ d \in [DOMAIN d -> Settings]
  /\ Card!NoDraft \in Card!Drafts /\ DOMAIN Card!NoDraft = {}
<1>1. \A S \in SUBSET Fields : \A d \in [S -> Settings] : d \in Card!Drafts
  BY DEF Card!Drafts
<1>2. ASSUME NEW d \in Card!Drafts PROVE DOMAIN d \in SUBSET Fields /\ d \in [DOMAIN d -> Settings]
  <2>1. PICK S \in SUBSET Fields : d \in [S -> Settings]
    BY DEF Card!Drafts
  <2>. QED BY <2>1
<1>3. Card!NoDraft \in [{} -> Settings] /\ DOMAIN Card!NoDraft = {}
  BY DEF Card!NoDraft
<1>. QED BY <1>1, <1>2, <1>3

\* A write of some fields over a document is one.
LEMMA OverlayType ==
  ASSUME NEW d \in Card!Documents, NEW o \in Card!Drafts PROVE Card!Overlay(d, o) \in Card!Documents
BY DraftType DEF Card!Overlay, Card!Documents

LEMMA CardInit == ASSUME Card!Init PROVE CardInv
<1>1. Card!TypeOK
  <2>1. /\ card_revision \in Card!Revisions /\ card_seenAt \in Card!Revisions
        /\ card_staged \in Card!Drafts /\ card_written \in Card!Drafts
        /\ DOMAIN card_stagedAt = DOMAIN card_staged /\ DOMAIN card_stagedAt = {}
    BY DraftType, BoundsAreNumbers DEF Card!Init, Card!Revisions
  <2>. QED BY <2>1 DEF Card!Init, Card!TypeOK
<1>2. PinnedFirst /\ RequestHolds
  BY DraftType DEF Card!Init, PinnedFirst, RequestHolds
<1>3. Card!ShownIsTrue
  BY DEF Card!Init, Card!ShownIsTrue
<1>. QED BY <1>1, <1>2, <1>3 DEF CardInv

LEMMA CardStage ==
  ASSUME CardInv, NEW f \in Fields, NEW v \in Settings, Card!Stage(f, v) PROVE CardInv'
<1>1. /\ card_open /\ ~card_saving /\ card_draftRevision' = Card!PinnedAt
      /\ card_staged' = [g \in DOMAIN card_staged \cup {f} |-> IF g = f THEN v ELSE card_staged[g]]
      /\ card_stagedAt' = [g \in DOMAIN card_staged \cup {f} |->
                             IF g = f THEN card_seenAt ELSE card_stagedAt[g]]
      /\ card_failed' = FALSE /\ card_conflicted' = FALSE
      /\ UNCHANGED <<card_doc, card_revision, card_seen, card_seenAt, card_open, card_saving,
                     card_disposed, card_request, card_written>>
      /\ card_shown' = Card!Projection(card_seen', card_open', card_staged', card_saving',
                                       card_failed', card_conflicted')
  BY DEF Card!Stage, Card!Publish, Card!host, Card!mirror
<1>2. /\ card_staged \in [DOMAIN card_staged -> Settings] /\ DOMAIN card_staged \in SUBSET Fields
      /\ DOMAIN card_stagedAt = DOMAIN card_staged
  BY DraftType DEF CardInv, Card!TypeOK
<1>3. card_staged' \in Card!Drafts
  <2>1. card_staged' \in [DOMAIN card_staged \cup {f} -> Settings]
    BY <1>1, <1>2
  <2>. QED BY <1>2, <2>1, DraftType
<1>4. card_seenAt \in Card!Revisions /\ card_draftRevision \in Card!Revisions \cup {Card!NoRevision}
      /\ \A g \in DOMAIN card_stagedAt : card_stagedAt[g] \in Card!Revisions
  BY DEF CardInv, Card!TypeOK
<1>5. card_draftRevision' \in Card!Revisions /\ card_draftRevision' <= card_seenAt
  BY <1>1, <1>4, BoundsAreNumbers DEF Card!PinnedAt, CardInv, PinnedFirst, Card!Revisions
<1>6. /\ DOMAIN card_staged' = DOMAIN card_staged \cup {f}
      /\ DOMAIN card_stagedAt' = DOMAIN card_staged \cup {f}
      /\ card_stagedAt'[f] = card_seenAt
      /\ \A g \in DOMAIN card_staged : g # f => card_stagedAt'[g] = card_stagedAt[g]
  BY <1>1
<1>7. Card!TypeOK'
  BY <1>1, <1>2, <1>3, <1>4, <1>5, <1>6 DEF CardInv, Card!TypeOK
<1>8. PinnedFirst'
  <2>1. ASSUME NEW g \in DOMAIN card_staged, g # f
        PROVE  card_draftRevision' <= card_stagedAt[g] /\ card_stagedAt[g] <= card_seenAt
    <3>1. card_staged # Card!NoDraft
      BY DraftType
    <3>2. card_draftRevision' = card_draftRevision
      BY <1>1, <3>1 DEF Card!PinnedAt
    <3>. QED BY <3>2 DEF CardInv, PinnedFirst
  <2>2. card_seenAt <= card_seenAt
    BY <1>4, BoundsAreNumbers DEF Card!Revisions
  <2>. QED BY <1>1, <1>5, <1>6, <2>1, <2>2 DEF CardInv, PinnedFirst
<1>9. RequestHolds'
  BY <1>1 DEF CardInv, RequestHolds
<1>10. Card!ShownIsTrue'
  BY <1>1 DEF Card!ShownIsTrue
<1>. QED BY <1>7, <1>8, <1>9, <1>10 DEF CardInv

\* What the card does besides: the draft stays or goes as a whole.
LEMMA CardWorks ==
  ASSUME CardInv,
         \/ Card!Discard \/ Card!SaveRefused \/ Card!Save \/ Card!MutateResolves
         \/ Card!MutateRejects \/ Card!Dispose
  PROVE  CardInv'
<1>. USE DEF Card!host, Card!mirror, Card!draft, Card!flags, Card!ClearDraft, Card!Publish
<1>1. CASE Card!Discard
  <2>1. Card!TypeOK'
    BY <1>1, DraftType DEF Card!Discard, CardInv, Card!TypeOK
  <2>2. PinnedFirst' /\ RequestHolds'
    BY <1>1, DraftType DEF Card!Discard, CardInv, PinnedFirst, RequestHolds
  <2>3. Card!ShownIsTrue'
    BY <1>1 DEF Card!Discard, Card!ShownIsTrue
  <2>. QED BY <2>1, <2>2, <2>3 DEF CardInv
<1>2. CASE Card!SaveRefused
  <2>1. Card!TypeOK'
    BY <1>2 DEF Card!SaveRefused, CardInv, Card!TypeOK
  <2>2. PinnedFirst' /\ RequestHolds'
    BY <1>2 DEF Card!SaveRefused, CardInv, PinnedFirst, RequestHolds
  <2>3. Card!ShownIsTrue'
    BY <1>2 DEF Card!SaveRefused, Card!ShownIsTrue
  <2>. QED BY <2>1, <2>2, <2>3 DEF CardInv
<1>3. CASE Card!Save
  <2>1. Card!TypeOK'
    BY <1>3 DEF Card!Save, CardInv, Card!TypeOK
  <2>2. PinnedFirst'
    BY <1>3 DEF Card!Save, CardInv, PinnedFirst
  <2>3. ASSUME NEW f \in DOMAIN card_staged PROVE card_stagedAt[f] = card_draftRevision
    <3>1. /\ card_draftRevision <= card_stagedAt[f] /\ card_stagedAt[f] <= card_draftRevision
          /\ card_stagedAt[f] \in Nat /\ card_draftRevision \in Nat
      BY <1>3, BoundsAreNumbers
         DEF Card!Save, Card!Savable, CardInv, PinnedFirst, Card!TypeOK, Card!Revisions
    <3>. QED BY <3>1
  <2>4. RequestHolds'
    BY <1>3, <2>3 DEF Card!Save, RequestHolds
  <2>5. Card!ShownIsTrue'
    BY <1>3 DEF Card!Save, Card!ShownIsTrue
  <2>. QED BY <2>1, <2>2, <2>4, <2>5 DEF CardInv
<1>4. CASE Card!MutateResolves
  <2>1. Card!TypeOK'
    BY <1>4, DraftType DEF Card!MutateResolves, CardInv, Card!TypeOK
  <2>2. PinnedFirst' /\ RequestHolds'
    BY <1>4, DraftType DEF Card!MutateResolves, CardInv, PinnedFirst, RequestHolds
  <2>3. Card!ShownIsTrue'
    BY <1>4 DEF Card!MutateResolves, CardInv, Card!ShownIsTrue
  <2>. QED BY <2>1, <2>2, <2>3 DEF CardInv
<1>5. CASE Card!MutateRejects
  <2>1. Card!TypeOK'
    BY <1>5, DraftType DEF Card!MutateRejects, CardInv, Card!TypeOK
  <2>2. PinnedFirst' /\ RequestHolds'
    BY <1>5 DEF Card!MutateRejects, CardInv, PinnedFirst, RequestHolds
  <2>3. Card!ShownIsTrue'
    BY <1>5 DEF Card!MutateRejects, CardInv, Card!ShownIsTrue
  <2>. QED BY <2>1, <2>2, <2>3 DEF CardInv
<1>6. CASE Card!Dispose
  <2>1. Card!TypeOK'
    BY <1>6 DEF Card!Dispose, CardInv, Card!TypeOK
  <2>2. PinnedFirst' /\ RequestHolds'
    BY <1>6 DEF Card!Dispose, CardInv, PinnedFirst, RequestHolds
  <2>3. Card!ShownIsTrue'
    BY <1>6 DEF Card!Dispose, Card!ShownIsTrue
  <2>. QED BY <2>1, <2>2, <2>3 DEF CardInv
<1>. QED BY <1>1, <1>2, <1>3, <1>4, <1>5, <1>6

\* What the host and the mirror do: the draft stays, revisions only grow.
LEMMA CardHears ==
  ASSUME CardInv,
         \/ \E f \in Fields : \E v \in Settings : Card!OtherWrites(f, v)
         \/ Card!HostAnswers \/ Card!MirrorUpdate \/ Card!MirrorTurns
  PROVE  CardInv'
<1>. USE DEF Card!host, Card!mirror, Card!draft, Card!flags, Card!Publish
<1>1. /\ card_revision \in Nat /\ card_seenAt \in Nat /\ card_seenAt <= card_revision
      /\ card_revision <= MaxRevision
  BY BoundsAreNumbers DEF CardInv, Card!TypeOK, PinnedFirst, Card!Revisions
<1>2. ASSUME NEW f \in Fields, NEW v \in Settings, Card!OtherWrites(f, v) PROVE CardInv'
  <2>1. card_revision' \in Card!Revisions /\ card_seenAt <= card_revision'
    BY <1>1, <1>2, BoundsAreNumbers DEF Card!OtherWrites, Card!Revisions
  <2>2. card_doc' \in Card!Documents
    BY <1>2 DEF Card!OtherWrites, CardInv, Card!TypeOK, Card!Documents
  <2>3. Card!TypeOK'
    BY <1>2, <2>1, <2>2 DEF Card!OtherWrites, CardInv, Card!TypeOK
  <2>4. PinnedFirst' /\ RequestHolds'
    BY <1>2, <2>1 DEF Card!OtherWrites, CardInv, PinnedFirst, RequestHolds
  <2>5. Card!ShownIsTrue'
    BY <1>2 DEF Card!OtherWrites, CardInv, Card!ShownIsTrue
  <2>. QED BY <2>3, <2>4, <2>5 DEF CardInv
<1>3. CASE Card!HostAnswers
  <2>1. card_revision' \in Card!Revisions /\ card_seenAt <= card_revision'
    BY <1>1, <1>3, BoundsAreNumbers DEF Card!HostAnswers, Card!Revisions
  <2>2. card_doc' \in Card!Documents
    BY <1>3, OverlayType DEF Card!HostAnswers, CardInv, Card!TypeOK
  <2>3. Card!TypeOK'
    BY <1>3, <2>1, <2>2 DEF Card!HostAnswers, CardInv, Card!TypeOK
  <2>4. PinnedFirst' /\ RequestHolds'
    BY <1>3, <2>1 DEF Card!HostAnswers, CardInv, PinnedFirst, RequestHolds
  <2>5. Card!ShownIsTrue'
    BY <1>3 DEF Card!HostAnswers, CardInv, Card!ShownIsTrue
  <2>. QED BY <2>3, <2>4, <2>5 DEF CardInv
<1>4. CASE Card!MirrorUpdate
  <2>1. /\ card_seen' = card_doc /\ card_seenAt' = card_revision
        /\ UNCHANGED <<card_doc, card_revision, card_open, card_staged, card_stagedAt,
                       card_draftRevision, card_saving, card_failed, card_disposed,
                       card_request, card_written>>
    BY <1>4 DEF Card!MirrorUpdate
  <2>2. card_conflicted' \in BOOLEAN
    BY <1>4 DEF Card!MirrorUpdate, Card!Heard, CardInv, Card!TypeOK
  <2>3. Card!TypeOK'
    BY <2>1, <2>2 DEF CardInv, Card!TypeOK
  <2>4. PinnedFirst'
    <3>1. card_draftRevision \in Nat
      BY BoundsAreNumbers DEF CardInv, Card!TypeOK, Card!Revisions, Card!NoRevision
    <3>2. \A f \in DOMAIN card_staged : card_stagedAt[f] \in Nat
      BY BoundsAreNumbers DEF CardInv, Card!TypeOK, Card!Revisions
    <3>. QED BY <1>1, <2>1, <3>1, <3>2 DEF CardInv, PinnedFirst, Card!Revisions
  <2>5. RequestHolds'
    BY <2>1 DEF CardInv, RequestHolds
  <2>6. Card!ShownIsTrue'
    BY <1>4, <2>1 DEF Card!MirrorUpdate, Card!Heard, Card!ShownIsTrue
  <2>. QED BY <2>3, <2>4, <2>5, <2>6 DEF CardInv
<1>5. CASE Card!MirrorTurns
  <2>1. /\ card_open' = ~card_open
        /\ UNCHANGED <<card_doc, card_revision, card_seen, card_seenAt, card_staged, card_stagedAt,
                       card_draftRevision, card_saving, card_failed, card_disposed,
                       card_request, card_written>>
    BY <1>5 DEF Card!MirrorTurns
  <2>2. card_conflicted' \in BOOLEAN
    BY <1>5 DEF Card!MirrorTurns, Card!Heard, CardInv, Card!TypeOK
  <2>3. Card!TypeOK'
    BY <2>1, <2>2 DEF CardInv, Card!TypeOK
  <2>4. PinnedFirst' /\ RequestHolds'
    BY <2>1 DEF CardInv, PinnedFirst, RequestHolds
  <2>5. Card!ShownIsTrue'
    BY <1>5, <2>1 DEF Card!MirrorTurns, Card!Heard, Card!ShownIsTrue
  <2>. QED BY <2>3, <2>4, <2>5 DEF CardInv
<1>. QED BY <1>2, <1>3, <1>4, <1>5

LEMMA CardStep == ASSUME [AllNext]_all PROVE Card!Next \/ UNCHANGED card_vars
BY DEF AllNext, all

LEMMA CardNext == ASSUME CardInv, [AllNext]_all PROVE CardInv'
<1>1. CASE UNCHANGED card_vars
  BY <1>1 DEF card_vars, CardInv, Card!TypeOK, PinnedFirst, RequestHolds, Card!ShownIsTrue
<1>2. CASE Card!Next
  BY <1>2, CardStage, CardWorks, CardHears DEF Card!Next
<1>. QED BY <1>1, <1>2, CardStep

\* The host takes a write only where the draft was pinned.
LEMMA CardWrites ==
  ASSUME CardInv, [AllNext]_all, card_request = "sent", card_request' = "applied"
  PROVE  \A f \in DOMAIN card_written : card_stagedAt[f] = card_revision
<1>1. Card!HostAnswers
  <2>1. ~UNCHANGED card_vars
    BY DEF card_vars
  <2>. QED
    BY <2>1, CardStep
       DEF Card!Next, Card!Stage, Card!OtherWrites, Card!Discard, Card!SaveRefused, Card!Save,
           Card!MutateResolves, Card!MutateRejects, Card!Dispose, Card!MirrorUpdate,
           Card!MirrorTurns
<1>2. card_revision = card_draftRevision
  BY <1>1 DEF Card!HostAnswers
<1>. QED BY <1>2 DEF CardInv, RequestHolds

\* A field goes from the draft with a discard or with the save that landed.
LEMMA CardForgets ==
  ASSUME CardInv, [AllNext]_all, NEW f \in DOMAIN card_staged, f \notin DOMAIN card_staged'
  PROVE  \/ ~card_saving
         \/ card_request = "applied" /\ f \in DOMAIN card_written
            /\ card_written[f] = card_staged[f] /\ card_seen[f] = card_staged[f]
<1>1. card_staged' # card_staged
  OBVIOUS
<1>2. \/ \E g \in Fields : \E v \in Settings : Card!Stage(g, v)
      \/ Card!Discard \/ Card!MutateResolves
  <2>1. ~UNCHANGED card_vars
    BY <1>1 DEF card_vars
  <2>. QED
    BY <1>1, <2>1, CardStep
       DEF Card!Next, Card!OtherWrites, Card!SaveRefused, Card!Save, Card!HostAnswers,
           Card!MutateRejects, Card!Dispose, Card!MirrorUpdate, Card!MirrorTurns, Card!draft
<1>3. CASE \E g \in Fields : \E v \in Settings : Card!Stage(g, v)
  BY <1>3 DEF Card!Stage
<1>4. CASE Card!Discard
  BY <1>4 DEF Card!Discard
<1>5. CASE Card!MutateResolves
  <2>1. card_request = "applied" /\ Card!Landed
    BY <1>1, <1>5 DEF Card!MutateResolves, Card!draft
  <2>2. card_written = card_staged
    BY <2>1 DEF CardInv, RequestHolds
  <2>. QED BY <2>1, <2>2 DEF Card!Landed
<1>. QED BY <1>2, <1>3, <1>4, <1>5

\* A save writes a field only over the document its user saw, nothing staged
\* is lost with a save, and the card shows its state: controller.ts.
THEOREM DraftsStay == AllSpec => DraftsKept
<1>1. AllInit => CardInv
  BY CardInit DEF AllInit
<1>2. CardInv /\ [AllNext]_all => CardInv'
  BY CardNext
<1>3. CardInv => (which = "card" => Card!TypeOK /\ Card!ShownIsTrue)
  BY DEF CardInv
<1>4. CardInv /\ [AllNext]_all =>
        [card_request = "sent" /\ card_request' = "applied" =>
           \A f \in DOMAIN card_written : card_stagedAt[f] = card_revision]_(Card!vars)
  BY CardWrites
<1>5. CardInv /\ [AllNext]_all =>
        [\A f \in DOMAIN card_staged : f \notin DOMAIN card_staged' =>
           \/ ~card_saving
           \/ card_request = "applied" /\ f \in DOMAIN card_written
              /\ card_written[f] = card_staged[f] /\ card_seen[f] = card_staged[f]]_(Card!vars)
  BY CardForgets
<1>. QED
  BY <1>1, <1>2, <1>3, <1>4, <1>5, PTL DEF AllSpec, DraftsKept, Card!OnlySeen, Card!DraftKept

---------------------------------------------------------------------------
(* The generations of the presets, one Host starting at a time.            *)

\* A manifest narrows and forgets nothing that was published.
KeepsAbi(g) ==
  gen_posix => \A a \in PresetAgents : gen_published[a] # "absent" =>
    g[a].shape = gen_published[a] \/ (gen_published[a] = "main" /\ g[a].shape = "both")

AtOne(S) == gen_pc["h"] \in S
Before == gen_before["h"]
Mine == gen_mine["h"]

\* Where `current` points as a boot goes on, and what its pruning spares.
BootInv ==
  /\ AtOne(Gens!Starting) =>
       /\ Before # Gens!NoGeneration => Before \in gen_whole
       /\ KeepsAbi(Before) /\ KeepsAbi(Mine)
  /\ AtOne({"compile", "building", "activate"}) => gen_pointer = Before
  /\ AtOne({"activate", "swap", "prune", "pruning", "compiled", "restore", "reswap"}) =>
       Mine \in gen_whole
  /\ AtOne({"building", "activate", "swap", "prune", "pruning"}) =>
       Mine \in gen_keep["h"] /\ Before \in gen_keep["h"]
  /\ AtOne({"swap"}) => gen_parked["h"] = Before
  /\ AtOne({"reswap"}) => gen_parked["h"] = Mine
  /\ AtOne({"swap", "reswap"}) => ~gen_posix /\ gen_pointer = Gens!NoGeneration
  /\ AtOne({"prune", "pruning", "compiled", "restore"}) => gen_pointer = Mine
  /\ AtOne({"failed"}) => gen_pointer = Before

GenInv == Gens!TypeOK /\ Gens!CurrentIsWhole /\ KeepsAbi(gen_pointer) /\ BootInv

LEMMA NoManifest == Gens!NoGeneration \in Gens!Manifests
BY DEF Gens!NoGeneration, Gens!Manifests

LEMMA ManifestType ==
  ASSUME NEW g \in Gens!Manifests, gen_files \in Gens!Files
  PROVE  Gens!Manifest(g) \in Gens!Manifests
<1>1. ASSUME NEW a \in PresetAgents
      PROVE  (IF gen_files[a] # "absent" THEN [shape |-> gen_files[a], retired |-> FALSE]
              ELSE IF g[a] = Gens!NoRecord THEN Gens!NoRecord
              ELSE [shape |-> g[a].shape, retired |-> TRUE])
             \in Gens!Records \cup {Gens!NoRecord}
  <2>1. gen_files[a] \in Gens!Shapes \cup {"absent"} /\ g[a] \in Gens!Records \cup {Gens!NoRecord}
    BY DEF Gens!Files, Gens!Manifests
  <2>2. g[a] \in Gens!Records => g[a].shape \in Gens!Shapes
    BY DEF Gens!Records
  <2>3. \A s \in Gens!Shapes : \A r \in BOOLEAN : [shape |-> s, retired |-> r] \in Gens!Records
    BY DEF Gens!Records
  <2>4. CASE gen_files[a] # "absent"
    BY <2>1, <2>3, <2>4
  <2>5. CASE gen_files[a] = "absent" /\ g[a] = Gens!NoRecord
    BY <2>5
  <2>6. CASE gen_files[a] = "absent" /\ g[a] # Gens!NoRecord
    BY <2>1, <2>2, <2>3, <2>6
  <2>. QED BY <2>4, <2>5, <2>6
<1>. QED BY <1>1 DEF Gens!Manifest, Gens!Manifests

\* What is compiled over a pointer keeps what the pointer kept.
LEMMA ManifestKeeps ==
  ASSUME NEW g \in Gens!Manifests, gen_files \in Gens!Files, gen_published \in Gens!Files,
         KeepsAbi(g), ~Gens!Narrowed(g)
  PROVE  KeepsAbi(Gens!Manifest(g))
<1>. SUFFICES ASSUME gen_posix, NEW a \in PresetAgents, gen_published[a] # "absent"
              PROVE  \/ Gens!Manifest(g)[a].shape = gen_published[a]
                     \/ gen_published[a] = "main" /\ Gens!Manifest(g)[a].shape = "both"
  BY DEF KeepsAbi
<1>1. g[a].shape = gen_published[a] \/ (gen_published[a] = "main" /\ g[a].shape = "both")
  BY DEF KeepsAbi
<1>2. gen_published[a] \in {"main", "both"} /\ gen_files[a] \in {"main", "both", "absent"}
  BY DEF Gens!Files, Gens!Shapes
<1>3. g[a] # Gens!NoRecord
  BY <1>1, <1>2 DEF Gens!NoRecord
<1>4. CASE gen_files[a] # "absent"
  <2>1. Gens!Manifest(g)[a].shape = gen_files[a]
    BY <1>4 DEF Gens!Manifest
  <2>2. ~(g[a].shape = "both" /\ gen_files[a] = "main")
    BY DEF Gens!Narrowed
  <2>. QED BY <1>1, <1>2, <1>4, <2>1, <2>2
<1>5. CASE gen_files[a] = "absent"
  <2>1. Gens!Manifest(g)[a].shape = g[a].shape
    BY <1>3, <1>5 DEF Gens!Manifest
  <2>. QED BY <1>1, <2>1
<1>. QED BY <1>4, <1>5

LEMMA GenInit == ASSUME Gens!Init PROVE GenInv
<1>1. Gens!TypeOK
  BY NoManifest, BoundsAreNumbers
     DEF Gens!Init, Gens!TypeOK, Gens!Files, Gens!Shapes, Gens!Ended
<1>2. Gens!CurrentIsWhole /\ KeepsAbi(gen_pointer)
  BY DEF Gens!Init, Gens!CurrentIsWhole, KeepsAbi
<1>3. BootInv
  BY DEF Gens!Init, BootInv, AtOne, Gens!Starting
<1>. QED BY <1>1, <1>2, <1>3 DEF GenInv

\* The values a boot works with.
LEMMA BootTypes ==
  ASSUME Gens!TypeOK
  PROVE  /\ Before \in Gens!Manifests /\ Mine \in Gens!Manifests
         /\ gen_parked["h"] \in Gens!Manifests /\ gen_pointer \in Gens!Manifests
         /\ \A l : gen_pc' = [gen_pc EXCEPT !["h"] = l] => gen_pc'["h"] = l
BY DEF Gens!TypeOK, Before, Mine

\* A step that only moves the boot on.
LEMMA BootMoves ==
  ASSUME GenInv, NEW l \in Gens!Starting \cup Gens!Ended \cup {"ready"},
         gen_pc' = [gen_pc EXCEPT !["h"] = l],
         UNCHANGED <<gen_posix, gen_pointer, gen_whole, gen_before, gen_mine, gen_published>>,
         gen_files' \in Gens!Files, gen_parked' \in [{"h"} -> Gens!Manifests],
         gen_partial' \subseteq {"h"}, gen_boots' \in 0..MaxBoots, gen_edits' \in 0..MaxEdits,
         gen_keep' \in [{"h"} -> SUBSET Gens!Manifests],
         BootInv'
  PROVE  GenInv'
<1>1. Gens!TypeOK'
  BY DEF GenInv, Gens!TypeOK
<1>2. Gens!CurrentIsWhole' /\ KeepsAbi(gen_pointer)'
  BY DEF GenInv, Gens!CurrentIsWhole, KeepsAbi
<1>. QED BY <1>1, <1>2 DEF GenInv

LEMMA GenBegin == ASSUME GenInv, Gens!Begin("h") PROVE GenInv'
<1>1. /\ gen_boots < MaxBoots /\ gen_boots' = gen_boots + 1
      /\ gen_before' = [gen_before EXCEPT !["h"] = gen_pointer]
      /\ UNCHANGED <<gen_files, gen_posix, gen_pointer, gen_parked, gen_whole, gen_partial,
                     gen_edits, gen_keep, gen_published>>
  BY DEF Gens!Begin, Gens!disk
<1>2. Before' = gen_pointer /\ gen_boots' \in 0..MaxBoots
  BY <1>1, BoundsAreNumbers DEF GenInv, Gens!TypeOK, Before
<1>3. Gens!CurrentIsWhole' /\ KeepsAbi(gen_pointer)'
  BY <1>1 DEF GenInv, Gens!CurrentIsWhole, KeepsAbi
<1>4. CASE gen_pc' = [gen_pc EXCEPT !["h"] = "refused"] /\ gen_mine' = gen_mine
  <2>1. gen_pc'["h"] = "refused"
    BY <1>4 DEF GenInv, Gens!TypeOK
  <2>2. Gens!TypeOK'
    BY <1>1, <1>2, <1>4 DEF GenInv, Gens!TypeOK, Gens!Ended
  <2>3. BootInv'
    BY <2>1 DEF BootInv, AtOne, Gens!Starting
  <2>. QED BY <1>3, <2>2, <2>3 DEF GenInv
<1>5. CASE /\ ~Gens!Narrowed(gen_pointer)
           /\ gen_pointer # Gens!NoGeneration => gen_pointer \in gen_whole
           /\ gen_pc' = [gen_pc EXCEPT !["h"] = "compile"]
           /\ gen_mine' = [gen_mine EXCEPT !["h"] = Gens!Manifest(gen_pointer)]
  <2>1. /\ gen_pc'["h"] = "compile" /\ Mine' = Gens!Manifest(gen_pointer)
        /\ Gens!Manifest(gen_pointer) \in Gens!Manifests
    BY <1>5, ManifestType DEF GenInv, Gens!TypeOK, Mine
  <2>2. Gens!TypeOK'
    BY <1>1, <1>2, <1>5, <2>1 DEF GenInv, Gens!TypeOK, Gens!Starting
  <2>3. KeepsAbi(gen_pointer) /\ KeepsAbi(Gens!Manifest(gen_pointer))
    BY <1>5, ManifestKeeps DEF GenInv, Gens!TypeOK
  <2>4. KeepsAbi(Before)' /\ KeepsAbi(Mine)'
    BY <1>1, <1>2, <2>1, <2>3 DEF KeepsAbi
  <2>5. BootInv'
    BY <1>1, <1>2, <1>5, <2>1, <2>4 DEF BootInv, AtOne
  <2>. QED BY <1>3, <2>2, <2>5 DEF GenInv
<1>. QED BY <1>4, <1>5 DEF Gens!Begin, Gens!Goto

LEMMA GenCompile == ASSUME GenInv, Gens!Compile("h") PROVE GenInv'
<1>1. /\ gen_pc["h"] = "compile"
      /\ gen_keep' = [gen_keep EXCEPT !["h"] = {Mine, gen_pointer}]
      /\ UNCHANGED <<gen_files, gen_posix, gen_pointer, gen_parked, gen_whole, gen_boots,
                     gen_edits, gen_before, gen_mine, gen_published>>
      /\ \/ /\ Mine \in gen_whole /\ gen_pc' = [gen_pc EXCEPT !["h"] = "activate"]
            /\ gen_partial' = gen_partial
         \/ /\ gen_pc' = [gen_pc EXCEPT !["h"] = "building"]
            /\ gen_partial' = gen_partial \cup {"h"}
  BY DEF Gens!Compile, Gens!Goto, Mine
<1>2. gen_keep'["h"] = {Mine, gen_pointer} /\ Mine' = Mine /\ Before' = Before /\ gen_pointer = Before
  BY <1>1 DEF GenInv, Gens!TypeOK, Mine, Before, BootInv, AtOne
<1>3. gen_keep' \in [{"h"} -> SUBSET Gens!Manifests] /\ gen_partial' \subseteq {"h"}
  BY <1>1, BootTypes DEF GenInv, Gens!TypeOK
<1>4. PICK l \in {"activate", "building"} :
        /\ gen_pc' = [gen_pc EXCEPT !["h"] = l] /\ gen_pc'["h"] = l
        /\ l = "activate" => Mine \in gen_whole
  BY <1>1, BootTypes DEF GenInv
<1>5. KeepsAbi(Before)' /\ KeepsAbi(Mine)' /\ (Before' # Gens!NoGeneration => Before' \in gen_whole')
  BY <1>1, <1>2 DEF GenInv, BootInv, AtOne, Gens!Starting, KeepsAbi
<1>6. BootInv'
  BY <1>1, <1>2, <1>4, <1>5 DEF BootInv, AtOne
<1>7. /\ gen_files' \in Gens!Files /\ gen_parked' \in [{"h"} -> Gens!Manifests]
      /\ gen_boots' \in 0..MaxBoots /\ gen_edits' \in 0..MaxEdits
  BY <1>1 DEF GenInv, Gens!TypeOK
<1>. QED BY <1>1, <1>3, <1>4, <1>6, <1>7, BootMoves DEF Gens!Starting

LEMMA GenBuilt == ASSUME GenInv, Gens!BuildDone("h") PROVE GenInv'
<1>1. /\ gen_pc["h"] = "building" /\ gen_partial' = gen_partial \ {"h"}
      /\ UNCHANGED <<gen_files, gen_posix, gen_pointer, gen_parked, gen_boots, gen_edits,
                     gen_before, gen_mine, gen_keep, gen_published>>
      /\ \/ /\ gen_whole' = gen_whole \cup {Mine} /\ gen_pc' = [gen_pc EXCEPT !["h"] = "activate"]
         \/ /\ gen_whole' = gen_whole /\ gen_pc' = [gen_pc EXCEPT !["h"] = "failed"]
  BY DEF Gens!BuildDone, Gens!Goto, Gens!boot, Mine
<1>2. /\ gen_pointer = Before /\ KeepsAbi(Before) /\ KeepsAbi(Mine)
      /\ (Before # Gens!NoGeneration => Before \in gen_whole)
      /\ Mine \in gen_keep["h"] /\ Before \in gen_keep["h"]
  BY <1>1 DEF GenInv, BootInv, AtOne, Gens!Starting
<1>3. PICK l \in {"activate", "failed"} :
        /\ gen_pc' = [gen_pc EXCEPT !["h"] = l] /\ gen_pc'["h"] = l
        /\ l = "activate" => Mine \in gen_whole'
  BY <1>1, BootTypes DEF GenInv
<1>4. gen_whole \subseteq gen_whole' /\ gen_whole' \subseteq Gens!Manifests
  BY <1>1, BootTypes DEF GenInv, Gens!TypeOK
<1>5. Gens!TypeOK'
  BY <1>1, <1>3, <1>4 DEF GenInv, Gens!TypeOK, Gens!Starting, Gens!Ended
<1>6. Gens!CurrentIsWhole' /\ KeepsAbi(gen_pointer)'
  BY <1>1, <1>4 DEF GenInv, Gens!CurrentIsWhole, KeepsAbi
<1>7. Mine' = Mine /\ Before' = Before /\ KeepsAbi(Before)' /\ KeepsAbi(Mine)'
  BY <1>1, <1>2 DEF KeepsAbi, Mine, Before
<1>8. BootInv'
  BY <1>1, <1>2, <1>3, <1>4, <1>7 DEF BootInv, AtOne
<1>. QED BY <1>5, <1>6, <1>8 DEF GenInv

LEMMA GenInstall == ASSUME GenInv, Gens!Install("h") PROVE GenInv'
<1>1. /\ gen_pc["h"] \in {"activate", "restore"}
      /\ UNCHANGED <<gen_files, gen_posix, gen_whole, gen_partial, gen_boots, gen_edits,
                     gen_before, gen_mine, gen_keep, gen_published>>
  BY DEF Gens!Install, Gens!Installing, Gens!boot
<1>2. /\ Before # Gens!NoGeneration => Before \in gen_whole
      /\ KeepsAbi(Before) /\ KeepsAbi(Mine) /\ Mine \in gen_whole
      /\ gen_pc["h"] = "activate" =>
           gen_pointer = Before /\ Mine \in gen_keep["h"] /\ Before \in gen_keep["h"]
      /\ gen_pc["h"] = "restore" => gen_pointer = Mine
  BY <1>1 DEF GenInv, BootInv, AtOne, Gens!Starting
<1>3. Mine' = Mine /\ Before' = Before /\ KeepsAbi(Before)' /\ KeepsAbi(Mine)'
  BY <1>1, <1>2 DEF KeepsAbi, Mine, Before
<1>4. CASE gen_posix \/ gen_pointer = Gens!NoGeneration
  <2>1. /\ gen_pointer' = Gens!Target("h") /\ Gens!Installed("h") /\ gen_parked' = gen_parked
    BY <1>4 DEF Gens!Install
  <2>2. \/ /\ gen_pc["h"] = "activate" /\ gen_pointer' = Mine
           /\ gen_pc' = [gen_pc EXCEPT !["h"] = "prune"] /\ gen_pc'["h"] = "prune"
        \/ /\ gen_pc["h"] = "restore" /\ gen_pointer' = Before
           /\ gen_pc' = [gen_pc EXCEPT !["h"] = "failed"] /\ gen_pc'["h"] = "failed"
    BY <1>1, <2>1, BootTypes
       DEF GenInv, Gens!Target, Gens!Installed, Gens!Goto, Mine, Before
  <2>3. Gens!TypeOK'
    BY <1>1, <2>1, <2>2, BootTypes DEF GenInv, Gens!TypeOK, Gens!Starting, Gens!Ended
  <2>4. Gens!CurrentIsWhole' /\ KeepsAbi(gen_pointer)'
    BY <1>1, <1>2, <1>3, <2>2 DEF Gens!CurrentIsWhole, KeepsAbi
  <2>5. BootInv'
    BY <1>1, <1>2, <1>3, <2>2 DEF BootInv, AtOne, Gens!Starting
  <2>. QED BY <2>3, <2>4, <2>5 DEF GenInv
<1>5. CASE ~gen_posix /\ gen_pointer # Gens!NoGeneration
  <2>1. /\ gen_parked' = [gen_parked EXCEPT !["h"] = gen_pointer]
        /\ gen_pointer' = Gens!NoGeneration
        /\ gen_pc' = [gen_pc EXCEPT !["h"] = IF gen_pc["h"] = "restore" THEN "reswap" ELSE "swap"]
    BY <1>5 DEF Gens!Install, Gens!Goto
  <2>2. /\ gen_parked'["h"] = gen_pointer
        /\ \/ gen_pc["h"] = "activate" /\ gen_pc'["h"] = "swap"
           \/ gen_pc["h"] = "restore" /\ gen_pc'["h"] = "reswap"
    BY <1>1, <2>1 DEF GenInv, Gens!TypeOK
  <2>3. Gens!TypeOK'
    BY <1>1, <2>1, <2>2, BootTypes, NoManifest DEF GenInv, Gens!TypeOK, Gens!Starting
  <2>4. Gens!CurrentIsWhole' /\ KeepsAbi(gen_pointer)'
    BY <1>1, <1>5, <2>1 DEF Gens!CurrentIsWhole, KeepsAbi
  <2>5. BootInv'
    BY <1>1, <1>2, <1>3, <1>5, <2>1, <2>2 DEF BootInv, AtOne, Gens!Starting
  <2>. QED BY <2>3, <2>4, <2>5 DEF GenInv
<1>. QED BY <1>4, <1>5

LEMMA GenInstallFails == ASSUME GenInv, Gens!InstallFails("h") PROVE GenInv'
<1>1. /\ gen_pc["h"] \in {"activate", "restore"}
      /\ UNCHANGED <<gen_files, gen_posix, gen_pointer, gen_parked, gen_whole, gen_partial,
                     gen_boots, gen_edits, gen_before, gen_mine, gen_keep, gen_published>>
  BY DEF Gens!InstallFails, Gens!Installing, Gens!boot, Gens!disk
<1>2. \/ /\ gen_pc["h"] = "activate"
         /\ gen_pc' = [gen_pc EXCEPT !["h"] = "failed"] /\ gen_pc'["h"] = "failed"
      \/ /\ gen_pc' = [gen_pc EXCEPT !["h"] = "unrestored"] /\ gen_pc'["h"] = "unrestored"
  BY <1>1, BootTypes DEF GenInv, Gens!InstallFails, Gens!NotInstalled, Gens!Goto
<1>3. BootInv'
  BY <1>1, <1>2 DEF GenInv, BootInv, AtOne, Gens!Starting, Before
<1>4. /\ gen_files' \in Gens!Files /\ gen_parked' \in [{"h"} -> Gens!Manifests]
      /\ gen_partial' \subseteq {"h"} /\ gen_boots' \in 0..MaxBoots /\ gen_edits' \in 0..MaxEdits
      /\ gen_keep' \in [{"h"} -> SUBSET Gens!Manifests]
  BY <1>1 DEF GenInv, Gens!TypeOK
<1>. QED BY <1>1, <1>2, <1>3, <1>4, BootMoves DEF Gens!Ended

LEMMA GenSwapIn == ASSUME GenInv, Gens!SwapIn("h") PROVE GenInv'
<1>1. /\ gen_pc["h"] \in {"swap", "reswap"} /\ gen_pointer' = Gens!Target("h")
      /\ gen_parked' = [gen_parked EXCEPT !["h"] = Gens!NoGeneration] /\ Gens!Installed("h")
      /\ UNCHANGED <<gen_files, gen_posix, gen_whole, gen_partial, gen_boots, gen_edits,
                     gen_before, gen_mine, gen_keep, gen_published>>
  BY DEF Gens!SwapIn, Gens!Swapping, Gens!boot
<1>2. /\ Before # Gens!NoGeneration => Before \in gen_whole
      /\ KeepsAbi(Before) /\ KeepsAbi(Mine) /\ Mine \in gen_whole
      /\ gen_pc["h"] = "swap" => Mine \in gen_keep["h"] /\ Before \in gen_keep["h"]
  BY <1>1 DEF GenInv, BootInv, AtOne, Gens!Starting
<1>3. Mine' = Mine /\ Before' = Before /\ KeepsAbi(Before)' /\ KeepsAbi(Mine)'
  BY <1>1, <1>2 DEF KeepsAbi, Mine, Before
<1>4. \/ /\ gen_pc["h"] = "swap" /\ gen_pointer' = Mine
         /\ gen_pc' = [gen_pc EXCEPT !["h"] = "prune"] /\ gen_pc'["h"] = "prune"
      \/ /\ gen_pc["h"] = "reswap" /\ gen_pointer' = Before
         /\ gen_pc' = [gen_pc EXCEPT !["h"] = "failed"] /\ gen_pc'["h"] = "failed"
  BY <1>1, BootTypes DEF GenInv, Gens!Target, Gens!Installed, Gens!Goto, Mine, Before
<1>5. Gens!TypeOK'
  BY <1>1, <1>4, BootTypes, NoManifest DEF GenInv, Gens!TypeOK, Gens!Starting, Gens!Ended
<1>6. Gens!CurrentIsWhole' /\ KeepsAbi(gen_pointer)'
  BY <1>1, <1>2, <1>3, <1>4 DEF Gens!CurrentIsWhole, KeepsAbi
<1>7. BootInv'
  BY <1>1, <1>2, <1>3, <1>4 DEF BootInv, AtOne, Gens!Starting
<1>. QED BY <1>5, <1>6, <1>7 DEF GenInv

LEMMA GenSwapFails == ASSUME GenInv, Gens!SwapFails("h") PROVE GenInv'
<1>1. /\ gen_pc["h"] \in {"swap", "reswap"}
      /\ UNCHANGED <<gen_files, gen_posix, gen_whole, gen_partial, gen_boots, gen_edits,
                     gen_before, gen_mine, gen_keep, gen_published>>
  BY DEF Gens!SwapFails, Gens!Swapping, Gens!boot
<1>2. /\ Before # Gens!NoGeneration => Before \in gen_whole
      /\ Mine \in gen_whole /\ ~gen_posix /\ gen_pointer = Gens!NoGeneration
      /\ gen_pc["h"] = "swap" => gen_parked["h"] = Before
      /\ gen_pc["h"] = "reswap" => gen_parked["h"] = Mine
  BY <1>1 DEF GenInv, BootInv, AtOne, Gens!Starting
<1>3. /\ gen_pointer' \in {gen_parked["h"], Gens!NoGeneration}
      /\ gen_parked' \in [{"h"} -> Gens!Manifests]
      /\ \/ /\ gen_pc["h"] = "swap" /\ gen_pointer' = gen_parked["h"]
            /\ gen_pc' = [gen_pc EXCEPT !["h"] = "failed"] /\ gen_pc'["h"] = "failed"
         \/ gen_pc' = [gen_pc EXCEPT !["h"] = "unrestored"] /\ gen_pc'["h"] = "unrestored"
  <2>1. \/ /\ Gens!NotInstalled("h") /\ gen_pointer' = gen_parked["h"]
           /\ gen_parked' = [gen_parked EXCEPT !["h"] = Gens!NoGeneration]
        \/ Gens!Goto("h", "unrestored") /\ gen_pointer' = gen_pointer /\ gen_parked' = gen_parked
    BY <1>2 DEF Gens!SwapFails
  <2>. QED BY <1>1, <1>2, <2>1, BootTypes, NoManifest
           DEF GenInv, Gens!TypeOK, Gens!NotInstalled, Gens!Goto
<1>4. Gens!TypeOK'
  BY <1>1, <1>3, BootTypes, NoManifest DEF GenInv, Gens!TypeOK, Gens!Ended
<1>5. Gens!CurrentIsWhole' /\ KeepsAbi(gen_pointer)'
  BY <1>1, <1>2, <1>3 DEF Gens!CurrentIsWhole, KeepsAbi
<1>6. BootInv'
  BY <1>1, <1>2, <1>3 DEF BootInv, AtOne, Gens!Starting, Before
<1>. QED BY <1>4, <1>5, <1>6 DEF GenInv

LEMMA GenPrune ==
  ASSUME GenInv, Gens!PruneBegin("h") \/ Gens!PruneOne("h") \/ Gens!PruneDone("h") PROVE GenInv'
<1>1. /\ gen_pc["h"] \in {"prune", "pruning"}
      /\ UNCHANGED <<gen_files, gen_posix, gen_pointer, gen_parked, gen_boots, gen_edits,
                     gen_before, gen_mine, gen_published>>
  BY DEF Gens!PruneBegin, Gens!PruneOne, Gens!PruneDone, Gens!boot, Gens!disk
<1>2. /\ Before # Gens!NoGeneration => Before \in gen_whole
      /\ KeepsAbi(Before) /\ KeepsAbi(Mine) /\ Mine \in gen_whole /\ gen_pointer = Mine
      /\ Mine \in gen_keep["h"] /\ Before \in gen_keep["h"]
  BY <1>1 DEF GenInv, BootInv, AtOne, Gens!Starting
<1>3. Mine' = Mine /\ Before' = Before /\ KeepsAbi(Before)' /\ KeepsAbi(Mine)'
  BY <1>1, <1>2 DEF KeepsAbi, Mine, Before
<1>4. /\ gen_files' \in Gens!Files /\ gen_parked' \in [{"h"} -> Gens!Manifests]
      /\ gen_boots' \in 0..MaxBoots /\ gen_edits' \in 0..MaxEdits
  BY <1>1 DEF GenInv, Gens!TypeOK
<1>5. CASE Gens!PruneBegin("h")
  <2>1. /\ gen_pc' = [gen_pc EXCEPT !["h"] = "pruning"] /\ gen_pc'["h"] = "pruning"
        /\ gen_keep' \in [{"h"} -> SUBSET Gens!Manifests]
        /\ Mine \in gen_keep'["h"] /\ Before \in gen_keep'["h"]
        /\ gen_whole' = gen_whole /\ gen_partial' \subseteq {"h"}
    BY <1>2, <1>5, BootTypes DEF Gens!PruneBegin, Gens!Goto, Gens!disk, GenInv, Gens!TypeOK
  <2>2. BootInv'
    BY <1>1, <1>2, <1>3, <2>1 DEF BootInv, AtOne, Gens!Starting
  <2>. QED BY <1>1, <1>4, <2>1, <2>2, BootMoves DEF Gens!Starting
<1>6. CASE Gens!PruneOne("h")
  <2>1. /\ gen_pc' = gen_pc /\ gen_keep' = gen_keep /\ gen_partial' \subseteq {"h"}
        /\ gen_whole' \subseteq gen_whole
        /\ \A g \in gen_whole : g \in gen_keep["h"] => g \in gen_whole'
    BY <1>6 DEF Gens!PruneOne, Gens!boot, GenInv, Gens!TypeOK
  <2>2. Mine \in gen_whole' /\ (Before # Gens!NoGeneration => Before \in gen_whole')
    BY <1>2, <2>1
  <2>3. Gens!TypeOK'
    BY <1>1, <2>1 DEF GenInv, Gens!TypeOK
  <2>4. Gens!CurrentIsWhole' /\ KeepsAbi(gen_pointer)'
    BY <1>1, <1>2, <1>3, <2>2 DEF Gens!CurrentIsWhole, KeepsAbi
  <2>5. BootInv'
    BY <1>1, <1>2, <1>3, <2>1, <2>2 DEF GenInv, BootInv, AtOne
  <2>. QED BY <2>3, <2>4, <2>5 DEF GenInv
<1>7. CASE Gens!PruneDone("h")
  <2>1. /\ gen_pc' = [gen_pc EXCEPT !["h"] = "compiled"] /\ gen_pc'["h"] = "compiled"
        /\ gen_keep' = gen_keep /\ gen_whole' = gen_whole /\ gen_partial' = gen_partial
    BY <1>7, BootTypes DEF Gens!PruneDone, Gens!Goto, Gens!disk, Gens!boot, GenInv
  <2>2. BootInv'
    BY <1>1, <1>2, <1>3, <2>1 DEF BootInv, AtOne, Gens!Starting
  <2>3. gen_keep' \in [{"h"} -> SUBSET Gens!Manifests] /\ gen_partial' \subseteq {"h"}
    BY <2>1 DEF GenInv, Gens!TypeOK
  <2>. QED BY <1>1, <1>4, <2>1, <2>2, <2>3, BootMoves DEF Gens!Starting
<1>. QED BY <1>5, <1>6, <1>7

LEMMA GenReady == ASSUME GenInv, Gens!Ready("h") PROVE GenInv'
<1>1. /\ gen_pc["h"] = "compiled" /\ gen_pc' = [gen_pc EXCEPT !["h"] = "ready"]
      /\ gen_published' = [a \in PresetAgents |->
           IF Mine[a] = Gens!NoRecord THEN gen_published[a] ELSE Mine[a].shape]
      /\ UNCHANGED <<gen_files, gen_posix, gen_pointer, gen_parked, gen_whole, gen_partial,
                     gen_boots, gen_edits, gen_before, gen_mine, gen_keep>>
  BY DEF Gens!Ready, Gens!Goto, Gens!disk, Gens!boot, Mine
<1>2. gen_pc'["h"] = "ready"
  BY <1>1, BootTypes DEF GenInv
<1>3. KeepsAbi(Mine) /\ gen_pointer = Mine /\ Mine \in Gens!Manifests
  BY <1>1, BootTypes DEF GenInv, BootInv, AtOne, Gens!Starting
<1>4. gen_published' \in Gens!Files
  <2>1. ASSUME NEW a \in PresetAgents
        PROVE  (IF Mine[a] = Gens!NoRecord THEN gen_published[a] ELSE Mine[a].shape)
               \in Gens!Shapes \cup {"absent"}
    <3>1. gen_published[a] \in Gens!Shapes \cup {"absent"}
      BY DEF GenInv, Gens!TypeOK, Gens!Files
    <3>2. Mine[a] # Gens!NoRecord => Mine[a].shape \in Gens!Shapes
      BY <1>3 DEF Gens!Manifests, Gens!Records
    <3>. QED BY <3>1, <3>2
  <2>. QED BY <1>1, <2>1 DEF Gens!Files
<1>5. Gens!TypeOK'
  BY <1>1, <1>4 DEF GenInv, Gens!TypeOK
<1>6. KeepsAbi(gen_pointer)'
  <2>. SUFFICES ASSUME gen_posix, NEW a \in PresetAgents, gen_published'[a] # "absent"
                PROVE  gen_pointer[a].shape = gen_published'[a]
    BY <1>1 DEF KeepsAbi
  <2>1. CASE Mine[a] # Gens!NoRecord
    BY <1>1, <1>3, <2>1
  <2>2. CASE Mine[a] = Gens!NoRecord
    <3>1. gen_published[a] # "absent" /\ Mine[a].shape = "absent"
      BY <1>1, <2>2 DEF Gens!NoRecord
    <3>. QED BY <1>3, <3>1 DEF KeepsAbi
  <2>. QED BY <2>1, <2>2
<1>7. Gens!CurrentIsWhole' /\ BootInv'
  BY <1>1, <1>2 DEF GenInv, Gens!CurrentIsWhole, BootInv, AtOne, Gens!Starting
<1>. QED BY <1>5, <1>6, <1>7 DEF GenInv

LEMMA GenFailsLate == ASSUME GenInv, Gens!FailsLate("h") PROVE GenInv'
<1>1. /\ gen_pc["h"] = "compiled"
      /\ UNCHANGED <<gen_files, gen_posix, gen_parked, gen_whole, gen_partial, gen_boots,
                     gen_edits, gen_before, gen_mine, gen_keep, gen_published>>
  BY DEF Gens!FailsLate, Gens!boot
<1>2. /\ Before # Gens!NoGeneration => Before \in gen_whole
      /\ KeepsAbi(Before) /\ KeepsAbi(Mine) /\ Mine \in gen_whole /\ gen_pointer = Mine
  BY <1>1 DEF GenInv, BootInv, AtOne, Gens!Starting
<1>3. Mine' = Mine /\ Before' = Before /\ KeepsAbi(Before)' /\ KeepsAbi(Mine)'
  BY <1>1, <1>2 DEF KeepsAbi, Mine, Before
<1>4. \/ /\ Before = Gens!NoGeneration /\ gen_pointer' = Gens!NoGeneration
         /\ gen_pc' = [gen_pc EXCEPT !["h"] = "failed"] /\ gen_pc'["h"] = "failed"
      \/ /\ gen_pointer' = gen_pointer
         /\ gen_pc' = [gen_pc EXCEPT !["h"] = "restore"] /\ gen_pc'["h"] = "restore"
  BY BootTypes DEF Gens!FailsLate, Gens!Goto, GenInv, Before
<1>5. Gens!TypeOK'
  BY <1>1, <1>4, NoManifest DEF GenInv, Gens!TypeOK, Gens!Starting, Gens!Ended
<1>6. Gens!CurrentIsWhole' /\ KeepsAbi(gen_pointer)'
  BY <1>1, <1>2, <1>3, <1>4 DEF Gens!CurrentIsWhole, KeepsAbi
<1>7. BootInv'
  BY <1>1, <1>2, <1>3, <1>4 DEF BootInv, AtOne, Gens!Starting
<1>. QED BY <1>5, <1>6, <1>7 DEF GenInv

LEMMA GenEnds ==
  ASSUME GenInv,
         \/ Gens!Die("h")
         \/ \E a \in PresetAgents : \E s \in Gens!Shapes \cup {"absent"} : Gens!Edit(a, s)
  PROVE  GenInv'
<1>1. CASE Gens!Die("h")
  <2>1. /\ gen_pc' = [gen_pc EXCEPT !["h"] = "off"] /\ gen_pc'["h"] = "off"
        /\ gen_parked' = [gen_parked EXCEPT !["h"] = Gens!NoGeneration]
        /\ UNCHANGED <<gen_files, gen_posix, gen_pointer, gen_whole, gen_partial, gen_boots,
                       gen_edits, gen_before, gen_mine, gen_keep, gen_published>>
    BY <1>1, BootTypes DEF Gens!Die, Gens!Goto, Gens!boot, GenInv
  <2>2. BootInv'
    BY <2>1 DEF BootInv, AtOne, Gens!Starting
  <2>3. /\ gen_files' \in Gens!Files /\ gen_parked' \in [{"h"} -> Gens!Manifests]
        /\ gen_partial' \subseteq {"h"} /\ gen_boots' \in 0..MaxBoots /\ gen_edits' \in 0..MaxEdits
        /\ gen_keep' \in [{"h"} -> SUBSET Gens!Manifests]
    BY <2>1, NoManifest DEF GenInv, Gens!TypeOK
  <2>. QED BY <2>1, <2>2, <2>3, BootMoves DEF Gens!Ended
<1>2. ASSUME NEW a \in PresetAgents, NEW s \in Gens!Shapes \cup {"absent"}, Gens!Edit(a, s)
      PROVE  GenInv'
  <2>1. /\ gen_edits' = gen_edits + 1 /\ gen_edits < MaxEdits
        /\ gen_files' = [gen_files EXCEPT ![a] = s]
        /\ UNCHANGED <<gen_posix, gen_pointer, gen_parked, gen_whole, gen_partial, gen_pc,
                       gen_boots, gen_before, gen_mine, gen_keep, gen_published>>
    BY <1>2 DEF Gens!Edit, Gens!disk, Gens!boot
  <2>2. Gens!TypeOK'
    BY <2>1, BoundsAreNumbers DEF GenInv, Gens!TypeOK, Gens!Files
  <2>3. Gens!CurrentIsWhole' /\ KeepsAbi(gen_pointer)' /\ BootInv'
    BY <2>1 DEF GenInv, Gens!CurrentIsWhole, KeepsAbi, BootInv, AtOne, Before, Mine
  <2>. QED BY <2>2, <2>3 DEF GenInv
<1>. QED BY <1>1, <1>2

LEMMA GenNext == ASSUME GenInv, [AllNext]_all PROVE GenInv'
<1>1. CASE UNCHANGED gen_vars
  BY <1>1 DEF gen_vars, GenInv, Gens!TypeOK, Gens!CurrentIsWhole, KeepsAbi, BootInv, AtOne, Before, Mine
<1>2. CASE Gens!Next
  BY <1>2, GenBegin, GenCompile, GenBuilt, GenInstall, GenInstallFails, GenSwapIn, GenSwapFails,
     GenPrune, GenReady, GenFailsLate, GenEnds DEF Gens!Next
<1>. QED BY <1>1, <1>2 DEF AllNext, all

\* `current` names a complete generation that keeps every shape a Host has
\* published, and a boot that fails leaves it as it found it or says so,
\* whatever fails, dies or is edited: activateGeneration,
\* restoreGenerationPointer, validateAbi.
THEOREM GenerationsStay == AllSpec => []GenerationsSound
<1>1. AllInit => GenInv
  BY GenInit DEF AllInit
<1>2. GenInv /\ [AllNext]_all => GenInv'
  BY GenNext
<1>3. GenInv => GenerationsSound
  BY DEF GenInv, KeepsAbi, BootInv, AtOne, Before, GenerationsSound, Gens!AbiKept,
         Gens!FailureRestores
<1>. QED BY <1>1, <1>2, <1>3, PTL DEF AllSpec

---------------------------------------------------------------------------
(* Delegations: a job, or a continuable child, beside a batch.             *)

RunP == INSTANCE DelegationProofs WITH
  Calls <- RunCalls, Children <- RunChildren, CallOf <- CallOfEach, Mode <- ModeOf,
  Scoped <- RunScoped, Limit <- Slots,
  running <- run_running, lease <- run_lease, pc <- run_pc,
  final <- run_final, holder <- run_holder, child <- run_child,
  parked <- run_parked, identity <- run_identity, terminal <- run_terminal,
  closed <- run_closed, boundary <- run_boundary, kept <- run_kept,
  drain <- run_drain

KeepP == INSTANCE DelegationProofs WITH
  Calls <- KeepCalls, Children <- KeepChildren, CallOf <- CallOfEach, Mode <- ModeOf,
  Scoped <- {}, Limit <- Slots,
  running <- run_running, lease <- run_lease, pc <- run_pc,
  final <- run_final, holder <- run_holder, child <- run_child,
  parked <- run_parked, identity <- run_identity, terminal <- run_terminal,
  closed <- run_closed, boundary <- run_boundary, kept <- run_kept,
  drain <- run_drain

LEMMA RunCopies ==
  /\ RunP!Delegates
  /\ Run!Init => RunP!Init
  /\ Run!Next => RunP!Next
  /\ RunP!TypeOK /\ RunP!Registered /\ RunP!StatusTells /\ RunP!IdentityKept /\ RunP!SlotsReturned =>
       Run!TypeOK /\ Run!Registered /\ Run!StatusTells /\ Run!IdentityKept /\ Run!SlotsReturned
<1>0. \A S : RunP!Cardinality(S) = Run!Cardinality(S) /\ RunP!IsFiniteSet(S) = Run!IsFiniteSet(S)
  BY DEF RunP!Cardinality, Run!Cardinality, RunP!IsFiniteSet, Run!IsFiniteSet
<1>1. RunP!Delegates
  BY <1>0, OneChildEach DEF Run!Delegates, RunP!Delegates, Run!Items, RunP!Items
<1>2. Run!Init => RunP!Init
  BY DEF Run!Init, RunP!Init, Run!NoHolder, RunP!NoHolder, Run!Reserved, RunP!Reserved
<1>3. Run!Next => RunP!Next
  <2>1. ASSUME NEW C, Run!Release(C) PROVE RunP!Release(C)
    BY <1>0, <2>1 DEF Run!Release, RunP!Release, Run!Back, RunP!Back, Run!Open, RunP!Open
  <2>2. ASSUME NEW h \in RunChildren, Run!ReleaseOwn(h) PROVE RunP!ReleaseOwn(h)
    BY <2>1, <2>2 DEF Run!ReleaseOwn, RunP!ReleaseOwn
  <2>3. ASSUME NEW c \in RunCalls, Run!Acquire(c) PROVE RunP!Acquire(c)
    BY <1>0, <2>3 DEF Run!Acquire, RunP!Acquire, Run!Items, RunP!Items
  <2>4. ASSUME NEW h \in RunChildren, Run!Drive(h) \/ Run!Host(h) PROVE RunP!Drive(h) \/ RunP!Host(h)
    <3>1. \A ok \in BOOLEAN : Run!DisposeSettles(h, ok) => RunP!DisposeSettles(h, ok)
      BY <2>2 DEF Run!DisposeSettles, RunP!DisposeSettles, Run!KeepsHolder, RunP!KeepsHolder,
          Run!Hold, RunP!Hold, Run!CleanedUp, RunP!CleanedUp, Run!Forget, RunP!Forget,
          Run!DidSettle, RunP!DidSettle, Run!Settled, RunP!Settled, Run!budget, RunP!budget,
          Run!flow, RunP!flow
    <3>2. Run!Drive(h) => RunP!Drive(h)
      BY <2>2 DEF Run!Drive, RunP!Drive, Run!Refuse, RunP!Refuse, Run!Started, RunP!Started,
          Run!KeptStarted, RunP!KeptStarted, Run!SettlementArrives, RunP!SettlementArrives,
          Run!CutShort, RunP!CutShort, Run!GraceEnds, RunP!GraceEnds, Run!OneShot,
          RunP!OneShot, Run!Guarded, RunP!Guarded, Run!Hold, RunP!Hold, Run!GoTo, RunP!GoTo,
          Run!FailStart, RunP!FailStart, Run!Attach, RunP!Attach, Run!Settle, RunP!Settle,
          Run!Settled, RunP!Settled, Run!DidSettle, RunP!DidSettle, Run!CleanedUp,
          RunP!CleanedUp, Run!Forget, RunP!Forget, Run!Return, RunP!Return, Run!Tell,
          RunP!Tell, Run!CutStatus, RunP!CutStatus, Run!Single, RunP!Single, Run!budget,
          RunP!budget
    <3>3. Run!Materialize(h) \/ Run!StartRejects(h) \/ Run!RefusedDisposed(h) =>
            RunP!Materialize(h) \/ RunP!StartRejects(h) \/ RunP!RefusedDisposed(h)
      BY <2>2 DEF Run!Materialize, RunP!Materialize, Run!StartRejects, RunP!StartRejects,
          Run!RefusedDisposed, RunP!RefusedDisposed, Run!OneShot, RunP!OneShot, Run!Hold,
          RunP!Hold, Run!GoTo, RunP!GoTo, Run!FailStart, RunP!FailStart, Run!Settle,
          RunP!Settle, Run!Return, RunP!Return, Run!Tell, RunP!Tell, Run!budget,
          RunP!budget, Run!flow, RunP!flow
    <3>4. Run!FirstRoundEnds(h) \/ Run!ResultArrives(h) \/ Run!ResultRejects(h) =>
            RunP!FirstRoundEnds(h) \/ RunP!ResultArrives(h) \/ RunP!ResultRejects(h)
      BY <2>2 DEF Run!FirstRoundEnds, RunP!FirstRoundEnds, Run!ResultArrives, RunP!ResultArrives,
          Run!ResultRejects, RunP!ResultRejects, Run!InBatch, RunP!InBatch, Run!Hold,
          RunP!Hold, Run!GoTo, RunP!GoTo, Run!Settle, RunP!Settle, Run!Settled,
          RunP!Settled, Run!DidSettle, RunP!DidSettle, Run!CleanedUp, RunP!CleanedUp,
          Run!Forget, RunP!Forget, Run!Return, RunP!Return, Run!Tell, RunP!Tell, Run!budget,
          RunP!budget
    <3> QED BY <2>4, <3>1, <3>2, <3>3, <3>4 DEF Run!Host, RunP!Host
  <2>5. ASSUME NEW c \in RunCalls, Run!Boundary(c) PROVE RunP!Boundary(c)
    BY <2>1, <2>5 DEF Run!Boundary, RunP!Boundary, Run!BatchAll, RunP!BatchAll, Run!BatchCut,
        RunP!BatchCut, Run!BatchGraceEnds, RunP!BatchGraceEnds, Run!Items, RunP!Items,
        Run!Tell, RunP!Tell, Run!Settle, RunP!Settle, Run!DidSettle, RunP!DidSettle,
        Run!CutStatus, RunP!CutStatus, Run!budget, RunP!budget
  <2>6. ASSUME NEW c \in RunCalls, Run!Delegate(c) \/ Run!NotStarted(c)
        PROVE  RunP!Delegate(c) \/ RunP!NotStarted(c)
    BY <1>0, <2>3, <2>6 DEF Run!Delegate, RunP!Delegate, Run!NotStarted, RunP!NotStarted, Run!StartAll,
        RunP!StartAll, Run!Items, RunP!Items, Run!Tell, RunP!Tell, Run!OneShot,
        RunP!OneShot, Run!Reserved, RunP!Reserved
  <2>7. ASSUME NEW c \in RunCalls, \E S \in SUBSET Run!Items(c) : Run!DelegateBatch(c, S)
        PROVE  \E S \in SUBSET RunP!Items(c) : RunP!DelegateBatch(c, S)
    BY <2>3, <2>7 DEF Run!DelegateBatch, RunP!DelegateBatch, Run!StartAll, RunP!StartAll, Run!Items,
        RunP!Items, Run!Tell, RunP!Tell, Run!OneShot, RunP!OneShot, Run!Reserved,
        RunP!Reserved
  <2>8. Run!DrainBegin \/ Run!DrainEnds => RunP!DrainBegin \/ RunP!DrainEnds
    BY <2>1 DEF Run!DrainBegin, RunP!DrainBegin, Run!DrainEnds, RunP!DrainEnds, Run!Settle,
        RunP!Settle, Run!Settled, RunP!Settled, Run!budget, RunP!budget, Run!flow, RunP!flow
  <2> QED BY <2>4, <2>5, <2>6, <2>7, <2>8 DEF Run!Next, RunP!Next
<1>4. RunP!TypeOK /\ RunP!Registered /\ RunP!StatusTells /\ RunP!IdentityKept /\ RunP!SlotsReturned =>
        Run!TypeOK /\ Run!Registered /\ Run!StatusTells /\ Run!IdentityKept /\ Run!SlotsReturned
  BY <1>0 DEF Run!TypeOK, RunP!TypeOK, Run!Registered, RunP!Registered, Run!StatusTells,
       RunP!StatusTells, Run!IdentityKept, RunP!IdentityKept, Run!SlotsReturned,
       RunP!SlotsReturned, Run!Lives, RunP!Lives, Run!Stages, RunP!Stages, Run!Holders,
       RunP!Holders, Run!Statuses, RunP!Statuses, Run!Items, RunP!Items, Run!Single,
       RunP!Single, Run!OneShot, RunP!OneShot
<1> QED BY <1>1, <1>2, <1>3, <1>4

LEMMA KeepCopies ==
  /\ KeepP!Delegates
  /\ Keep!Init => KeepP!Init
  /\ Keep!Next => KeepP!Next
  /\ KeepP!TypeOK /\ KeepP!Registered /\ KeepP!StatusTells /\ KeepP!IdentityKept /\ KeepP!SlotsReturned =>
       Keep!TypeOK /\ Keep!Registered /\ Keep!StatusTells /\ Keep!IdentityKept /\ Keep!SlotsReturned
<1>0. \A S : KeepP!Cardinality(S) = Keep!Cardinality(S) /\ KeepP!IsFiniteSet(S) = Keep!IsFiniteSet(S)
  BY DEF KeepP!Cardinality, Keep!Cardinality, KeepP!IsFiniteSet, Keep!IsFiniteSet
<1>1. KeepP!Delegates
  BY <1>0, OneChildEach DEF Keep!Delegates, KeepP!Delegates, Keep!Items, KeepP!Items
<1>2. Keep!Init => KeepP!Init
  BY DEF Keep!Init, KeepP!Init, Keep!NoHolder, KeepP!NoHolder, Keep!Reserved, KeepP!Reserved
<1>3. Keep!Next => KeepP!Next
  <2>1. ASSUME NEW C, Keep!Release(C) PROVE KeepP!Release(C)
    BY <1>0, <2>1 DEF Keep!Release, KeepP!Release, Keep!Back, KeepP!Back, Keep!Open, KeepP!Open
  <2>2. ASSUME NEW h \in KeepChildren, Keep!ReleaseOwn(h) PROVE KeepP!ReleaseOwn(h)
    BY <2>1, <2>2 DEF Keep!ReleaseOwn, KeepP!ReleaseOwn
  <2>3. ASSUME NEW c \in KeepCalls, Keep!Acquire(c) PROVE KeepP!Acquire(c)
    BY <1>0, <2>3 DEF Keep!Acquire, KeepP!Acquire, Keep!Items, KeepP!Items
  <2>4. ASSUME NEW h \in KeepChildren, Keep!Drive(h) \/ Keep!Host(h) PROVE KeepP!Drive(h) \/ KeepP!Host(h)
    <3>1. \A ok \in BOOLEAN : Keep!DisposeSettles(h, ok) => KeepP!DisposeSettles(h, ok)
      BY <2>2 DEF Keep!DisposeSettles, KeepP!DisposeSettles, Keep!KeepsHolder, KeepP!KeepsHolder,
          Keep!Hold, KeepP!Hold, Keep!CleanedUp, KeepP!CleanedUp, Keep!Forget, KeepP!Forget,
          Keep!DidSettle, KeepP!DidSettle, Keep!Settled, KeepP!Settled, Keep!budget,
          KeepP!budget, Keep!flow, KeepP!flow
    <3>2. Keep!Drive(h) => KeepP!Drive(h)
      BY <2>2 DEF Keep!Drive, KeepP!Drive, Keep!Refuse, KeepP!Refuse, Keep!Started, KeepP!Started,
          Keep!KeptStarted, KeepP!KeptStarted, Keep!SettlementArrives,
          KeepP!SettlementArrives, Keep!CutShort, KeepP!CutShort, Keep!GraceEnds,
          KeepP!GraceEnds, Keep!OneShot, KeepP!OneShot, Keep!Guarded, KeepP!Guarded,
          Keep!Hold, KeepP!Hold, Keep!GoTo, KeepP!GoTo, Keep!FailStart, KeepP!FailStart,
          Keep!Attach, KeepP!Attach, Keep!Settle, KeepP!Settle, Keep!Settled, KeepP!Settled,
          Keep!DidSettle, KeepP!DidSettle, Keep!CleanedUp, KeepP!CleanedUp, Keep!Forget,
          KeepP!Forget, Keep!Return, KeepP!Return, Keep!Tell, KeepP!Tell, Keep!CutStatus,
          KeepP!CutStatus, Keep!Single, KeepP!Single, Keep!budget, KeepP!budget
    <3>3. Keep!Materialize(h) \/ Keep!StartRejects(h) \/ Keep!RefusedDisposed(h) =>
            KeepP!Materialize(h) \/ KeepP!StartRejects(h) \/ KeepP!RefusedDisposed(h)
      BY <2>2 DEF Keep!Materialize, KeepP!Materialize, Keep!StartRejects, KeepP!StartRejects,
          Keep!RefusedDisposed, KeepP!RefusedDisposed, Keep!OneShot, KeepP!OneShot,
          Keep!Hold, KeepP!Hold, Keep!GoTo, KeepP!GoTo, Keep!FailStart, KeepP!FailStart,
          Keep!Settle, KeepP!Settle, Keep!Return, KeepP!Return, Keep!Tell, KeepP!Tell,
          Keep!budget, KeepP!budget, Keep!flow, KeepP!flow
    <3>4. Keep!FirstRoundEnds(h) \/ Keep!ResultArrives(h) \/ Keep!ResultRejects(h) =>
            KeepP!FirstRoundEnds(h) \/ KeepP!ResultArrives(h) \/ KeepP!ResultRejects(h)
      BY <2>2 DEF Keep!FirstRoundEnds, KeepP!FirstRoundEnds, Keep!ResultArrives,
          KeepP!ResultArrives, Keep!ResultRejects, KeepP!ResultRejects, Keep!InBatch,
          KeepP!InBatch, Keep!Hold, KeepP!Hold, Keep!GoTo, KeepP!GoTo, Keep!Settle,
          KeepP!Settle, Keep!Settled, KeepP!Settled, Keep!DidSettle, KeepP!DidSettle,
          Keep!CleanedUp, KeepP!CleanedUp, Keep!Forget, KeepP!Forget, Keep!Return,
          KeepP!Return, Keep!Tell, KeepP!Tell, Keep!budget, KeepP!budget
    <3> QED BY <2>4, <3>1, <3>2, <3>3, <3>4 DEF Keep!Host, KeepP!Host
  <2>5. ASSUME NEW c \in KeepCalls, Keep!Boundary(c) PROVE KeepP!Boundary(c)
    BY <2>1, <2>5 DEF Keep!Boundary, KeepP!Boundary, Keep!BatchAll, KeepP!BatchAll, Keep!BatchCut,
        KeepP!BatchCut, Keep!BatchGraceEnds, KeepP!BatchGraceEnds, Keep!Items, KeepP!Items,
        Keep!Tell, KeepP!Tell, Keep!Settle, KeepP!Settle, Keep!DidSettle, KeepP!DidSettle,
        Keep!CutStatus, KeepP!CutStatus, Keep!budget, KeepP!budget
  <2>6. ASSUME NEW c \in KeepCalls, Keep!Delegate(c) \/ Keep!NotStarted(c)
        PROVE  KeepP!Delegate(c) \/ KeepP!NotStarted(c)
    BY <1>0, <2>3, <2>6 DEF Keep!Delegate, KeepP!Delegate, Keep!NotStarted, KeepP!NotStarted, Keep!StartAll,
        KeepP!StartAll, Keep!Items, KeepP!Items, Keep!Tell, KeepP!Tell, Keep!OneShot,
        KeepP!OneShot, Keep!Reserved, KeepP!Reserved
  <2>7. ASSUME NEW c \in KeepCalls, \E S \in SUBSET Keep!Items(c) : Keep!DelegateBatch(c, S)
        PROVE  \E S \in SUBSET KeepP!Items(c) : KeepP!DelegateBatch(c, S)
    BY <2>3, <2>7 DEF Keep!DelegateBatch, KeepP!DelegateBatch, Keep!StartAll, KeepP!StartAll, Keep!Items,
        KeepP!Items, Keep!Tell, KeepP!Tell, Keep!OneShot, KeepP!OneShot, Keep!Reserved,
        KeepP!Reserved
  <2>8. Keep!DrainBegin \/ Keep!DrainEnds => KeepP!DrainBegin \/ KeepP!DrainEnds
    BY <2>1 DEF Keep!DrainBegin, KeepP!DrainBegin, Keep!DrainEnds, KeepP!DrainEnds, Keep!Settle,
        KeepP!Settle, Keep!Settled, KeepP!Settled, Keep!budget, KeepP!budget, Keep!flow,
        KeepP!flow
  <2> QED BY <2>4, <2>5, <2>6, <2>7, <2>8 DEF Keep!Next, KeepP!Next
<1>4. KeepP!TypeOK /\ KeepP!Registered /\ KeepP!StatusTells /\ KeepP!IdentityKept /\ KeepP!SlotsReturned =>
        Keep!TypeOK /\ Keep!Registered /\ Keep!StatusTells /\ Keep!IdentityKept /\ Keep!SlotsReturned
  BY <1>0 DEF Keep!TypeOK, KeepP!TypeOK, Keep!Registered, KeepP!Registered, Keep!StatusTells,
       KeepP!StatusTells, Keep!IdentityKept, KeepP!IdentityKept, Keep!SlotsReturned,
       KeepP!SlotsReturned, Keep!Lives, KeepP!Lives, Keep!Stages, KeepP!Stages,
       Keep!Holders, KeepP!Holders, Keep!Statuses, KeepP!Statuses, Keep!Items, KeepP!Items,
       Keep!Single, KeepP!Single, Keep!OneShot, KeepP!OneShot
<1> QED BY <1>1, <1>2, <1>3, <1>4

DelegationsInv == IF which = "keep" THEN KeepP!DelInv ELSE RunP!DelInv

LEMMA InitDelegations == AllInit => DelegationsInv
  BY RunCopies, KeepCopies, RunP!InitDel, KeepP!InitDel DEF AllInit, DelegationsInv

LEMMA NextDelegations == DelegationsInv /\ [AllNext]_all => DelegationsInv'
<1> SUFFICES ASSUME DelegationsInv, [AllNext]_all PROVE DelegationsInv'
  OBVIOUS
<1>1. which' = which
  BY DEF AllNext, all
<1>2. CASE which = "keep"
  <2>1. [KeepP!Next]_(KeepP!vars)
    BY <1>2, KeepCopies DEF AllNext, all, run_vars, KeepP!vars
  <2>2. KeepP!DelInv'
    BY <1>2, <2>1, KeepCopies, KeepP!NextDel DEF DelegationsInv
  <2> QED BY <1>1, <1>2, <2>2 DEF DelegationsInv
<1>3. CASE which # "keep"
  <2>1. [RunP!Next]_(RunP!vars)
    BY <1>3, RunCopies DEF AllNext, all, run_vars, RunP!vars
  <2>2. RunP!DelInv'
    BY <1>3, <2>1, RunCopies, RunP!NextDel DEF DelegationsInv
  <2> QED BY <1>1, <1>3, <2>2 DEF DelegationsInv
<1> QED BY <1>2, <1>3

\* Every child that lives has an owner, every slot comes back, and statuses
\* and identities agree with what the children do.
THEOREM ChildrenStay == AllSpec => []ChildrenAccounted
<1>1. DelegationsInv => ChildrenAccounted
  BY RunCopies, KeepCopies, RunP!DelSays, KeepP!DelSays DEF DelegationsInv, ChildrenAccounted
<1> QED BY <1>1, InitDelegations, NextDelegations, PTL DEF AllSpec

---------------------------------------------------------------------------
(* Induction without a parameter: a set that contains 0 and, with each     *)
(* number, the next one contains every number, for its members up to n     *)
(* cannot be injected into themselves without 0.                           *)
LEMMA Inductive ==
  ASSUME NEW S, 0 \in S, \A n \in Nat : n \in S => n + 1 \in S
  PROVE  Nat \subseteq S
<1> SUFFICES ASSUME NEW n \in Nat, n \notin S PROVE FALSE
  OBVIOUS
<1>1. PICK A : A = {i \in 0..n : i \in S}
  OBVIOUS
<1>2. IsFiniteSet(A) /\ IsFiniteSet(A \ {0}) /\ Cardinality(A) \in Nat
      /\ Cardinality(A \ {0}) = Cardinality(A) - 1
  <2>1. A \in SUBSET (0..n) /\ IsFiniteSet(0..n) /\ 0 \in A
    BY <1>1, FS_Interval
  <2>2. IsFiniteSet(A)
    BY <2>1, FS_Subset
  <2> QED BY <2>1, <2>2, FS_RemoveElement, FS_CardinalityType
<1>3. PICK f : f = [i \in A |-> i + 1]
  OBVIOUS
<1>4. f \in Injection(A, A \ {0})
  <2>1. \A i \in A : i \in Nat /\ i + 1 \in A \ {0}
    BY <1>1
  <2> QED BY <1>3, <2>1 DEF Injection, IsInjective
<1> QED BY <1>2, <1>4, FS_Injection

LEMMA InductiveTo ==
  ASSUME NEW N \in Nat, NEW S, 0 \in S, \A n \in 0..(N - 1) : n \in S => n + 1 \in S
  PROVE  0..N \subseteq S
<1>1. PICK T : T = S \cup {n \in Nat : n > N}
  OBVIOUS
<1>2. Nat \subseteq T
  <2>1. \A n \in Nat : n \in T => n + 1 \in T
    BY <1>1
  <2>2. 0 \in T
    BY <1>1
  <2> QED BY <2>1, <2>2, Inductive
<1> QED BY <1>1, <1>2

\* A fold over a finite set with a function: one member after the other.
PickOf(s) == CHOOSE x \in s : TRUE
Walk(v, base, C) ==
  LET iter[s \in SUBSET C] ==
        IF s = {} THEN base ELSE v[<<PickOf(s), iter[s \ {PickOf(s)}]>>]
  IN iter[C]
Walks(f, v, base, s) == f[s] = IF s = {} THEN base ELSE v[<<PickOf(s), f[s \ {PickOf(s)}]>>]

LEMMA WalkSolution ==
  ASSUME NEW v, NEW base, NEW C, IsFiniteSet(C)
  PROVE  \E f : /\ \A s \in SUBSET C : Walks(f, v, base, s)
                /\ Walk(v, base, C) = f[C]
<1>1. \A s \in SUBSET C : IsFiniteSet(s) /\ Cardinality(s) \in Nat /\ Cardinality(s) <= Cardinality(C)
  BY FS_Subset, FS_CardinalityType
<1>2. PICK T : T = {n \in Nat : \E f : \A s \in SUBSET C : Cardinality(s) < n => Walks(f, v, base, s)}
  OBVIOUS
<1>3. 0 \in T
  BY <1>1, <1>2
<1>4. ASSUME NEW n \in Nat, n \in T PROVE n + 1 \in T
  <2>1. PICK f : \A s \in SUBSET C : Cardinality(s) < n => Walks(f, v, base, s)
    BY <1>2, <1>4
  <2>2. PICK g : g = [s \in SUBSET C |-> IF s = {} THEN base ELSE v[<<PickOf(s), f[s \ {PickOf(s)}]>>]]
    OBVIOUS
  <2>3. ASSUME NEW s \in SUBSET C, Cardinality(s) < n + 1 PROVE Walks(g, v, base, s)
    <3>1. CASE s = {}
      BY <2>2, <3>1 DEF Walks
    <3>2. CASE s # {}
      <4>1. PICK x \in s : x = PickOf(s)
        BY <3>2 DEF PickOf
      <4>2. PICK t \in SUBSET C : t = s \ {x}
        OBVIOUS
      <4>3. Cardinality(t) < n
        <5>1. Cardinality(t) = Cardinality(s) - 1
          BY <1>1, <4>1, <4>2, FS_RemoveElement
        <5> QED BY <1>1, <2>3, <5>1
      <4>4. g[t] = f[t]
        BY <2>1, <2>2, <4>3 DEF Walks
      <4>5. g[s] = v[<<x, f[t]>>]
        BY <2>2, <3>2, <4>1, <4>2
      <4>6. g[s] = v[<<x, g[t]>>]
        BY <4>4, <4>5
      <4> QED BY <3>2, <4>1, <4>2, <4>6 DEF Walks
    <3> QED BY <3>1, <3>2
  <2> QED BY <1>2, <2>3
<1>5. PICK f : f = [s \in SUBSET C |-> IF s = {} THEN base ELSE v[<<PickOf(s), f[s \ {PickOf(s)}]>>]]
  <2>1. Cardinality(C) + 1 \in T
    BY <1>1, <1>3, <1>4, Inductive
  <2>2. PICK f : \A s \in SUBSET C : Cardinality(s) < Cardinality(C) + 1 => Walks(f, v, base, s)
    BY <1>2, <2>1
  <2>3. \A s \in SUBSET C : Walks(f, v, base, s)
    BY <1>1, <2>2
  <2>4. PICK g : g = [s \in SUBSET C |-> f[s]]
    OBVIOUS
  <2>5. \A s \in SUBSET C : Walks(g, v, base, s)
    <3> SUFFICES ASSUME NEW s \in SUBSET C PROVE Walks(g, v, base, s)
      OBVIOUS
    <3>1. g[s] = f[s] /\ g[s \ {PickOf(s)}] = f[s \ {PickOf(s)}]
      BY <2>4
    <3> QED BY <2>3, <3>1 DEF Walks
  <2>6. g = [s \in SUBSET C |-> IF s = {} THEN base ELSE v[<<PickOf(s), g[s \ {PickOf(s)}]>>]]
    BY <2>4, <2>5 DEF Walks
  <2> QED BY <2>6
<1>6. PICK g : /\ g = CHOOSE h : h = [s \in SUBSET C |-> IF s = {} THEN base ELSE v[<<PickOf(s), h[s \ {PickOf(s)}]>>]]
               /\ Walk(v, base, C) = g[C]
  BY DEF Walk
<1>7. g = [s \in SUBSET C |-> IF s = {} THEN base ELSE v[<<PickOf(s), g[s \ {PickOf(s)}]>>]]
  BY <1>5, <1>6
<1>8. \A s \in SUBSET C : Walks(g, v, base, s)
  BY <1>7 DEF Walks
<1> QED BY <1>6, <1>8

\* What holds of the base, and at each step of what it gives, holds of the whole.
LEMMA WalkKeeps ==
  ASSUME NEW v, NEW base, NEW C, IsFiniteSet(C), NEW K, base \in K[{}],
         \A s \in SUBSET C : \A x \in s : \A m \in K[s \ {x}] : v[<<x, m>>] \in K[s]
  PROVE  Walk(v, base, C) \in K[C]
<1>1. PICK f : /\ \A s \in SUBSET C : Walks(f, v, base, s)
               /\ Walk(v, base, C) = f[C]
  BY WalkSolution
<1>2. PICK T : T = {n \in Nat : \A s \in SUBSET C : Cardinality(s) <= n => f[s] \in K[s]}
  OBVIOUS
<1>3. \A s \in SUBSET C : IsFiniteSet(s) /\ Cardinality(s) \in Nat
  BY FS_Subset, FS_CardinalityType
<1>4. ASSUME NEW s \in SUBSET C, s = {} PROVE f[s] \in K[s]
  BY <1>1, <1>4 DEF Walks
<1>5. 0 \in T
  <2>1. \A s \in SUBSET C : Cardinality(s) <= 0 => s = {}
    BY <1>3, FS_EmptySet
  <2> QED BY <1>2, <1>4, <2>1
<1>6. ASSUME NEW n \in Nat, n \in T PROVE n + 1 \in T
  <2> SUFFICES ASSUME NEW s \in SUBSET C, Cardinality(s) <= n + 1 PROVE f[s] \in K[s]
    BY <1>2
  <2>1. CASE s # {}
    <3>1. PICK x \in s : x = PickOf(s)
      BY <2>1 DEF PickOf
    <3>2. Cardinality(s \ {x}) <= n
      <4>1. Cardinality(s \ {x}) = Cardinality(s) - 1
        BY <1>3, FS_RemoveElement
      <4> QED BY <1>3, <4>1
    <3>3. f[s \ {x}] \in K[s \ {x}]
      BY <1>2, <1>6, <3>2
    <3>4. f[s] = v[<<x, f[s \ {x}]>>]
      BY <1>1, <2>1, <3>1 DEF Walks
    <3> QED BY <3>3, <3>4
  <2> QED BY <1>4, <2>1
<1>7. Cardinality(C) \in T
  BY <1>3, <1>5, <1>6, Inductive
<1> QED BY <1>1, <1>2, <1>3, <1>7

\* Two functions that agree on what the walk meets walk alike.
LEMMA WalkAlike ==
  ASSUME NEW v, NEW w, NEW base, NEW C, IsFiniteSet(C), NEW M, base \in M,
         \A x \in C : \A m \in M : v[<<x, m>>] \in M /\ v[<<x, m>>] = w[<<x, m>>]
  PROVE  Walk(v, base, C) = Walk(w, base, C)
<1>1. PICK f : /\ \A s \in SUBSET C : Walks(f, v, base, s)
               /\ Walk(v, base, C) = f[C]
  BY WalkSolution
<1>2. PICK g : /\ \A s \in SUBSET C : Walks(g, w, base, s)
               /\ Walk(w, base, C) = g[C]
  BY WalkSolution
<1>3. PICK T : T = {n \in Nat : \A s \in SUBSET C : Cardinality(s) <= n => f[s] \in M /\ f[s] = g[s]}
  OBVIOUS
<1>4. \A s \in SUBSET C : IsFiniteSet(s) /\ Cardinality(s) \in Nat
  BY FS_Subset, FS_CardinalityType
<1>5. ASSUME NEW s \in SUBSET C, s = {} PROVE f[s] \in M /\ f[s] = g[s]
  BY <1>1, <1>2, <1>5 DEF Walks
<1>6. 0 \in T
  <2>1. \A s \in SUBSET C : Cardinality(s) <= 0 => s = {}
    BY <1>4, FS_EmptySet
  <2> QED BY <1>3, <1>5, <2>1
<1>7. ASSUME NEW n \in Nat, n \in T PROVE n + 1 \in T
  <2> SUFFICES ASSUME NEW s \in SUBSET C, Cardinality(s) <= n + 1 PROVE f[s] \in M /\ f[s] = g[s]
    BY <1>3
  <2>1. CASE s # {}
    <3>1. PICK x \in s : x = PickOf(s)
      BY <2>1 DEF PickOf
    <3>2. Cardinality(s \ {x}) <= n
      <4>1. Cardinality(s \ {x}) = Cardinality(s) - 1
        BY <1>4, FS_RemoveElement
      <4> QED BY <1>4, <4>1
    <3>3. PICK m \in M : m = f[s \ {x}] /\ m = g[s \ {x}]
      BY <1>3, <1>7, <3>2
    <3>4. f[s] = v[<<x, m>>] /\ g[s] = w[<<x, m>>]
      BY <1>1, <1>2, <2>1, <3>1, <3>3 DEF Walks
    <3> QED BY <3>4
  <2> QED BY <1>5, <2>1
<1>8. Cardinality(C) \in T
  BY <1>4, <1>6, <1>7, Inductive
<1> QED BY <1>1, <1>2, <1>3, <1>4, <1>8

---------------------------------------------------------------------------
(* The search for a cycle of delegations.                                  *)

Graph(d) == IsFiniteSet(DOMAIN d) /\ \A i \in DOMAIN d : d[i].children \subseteq DOMAIN d
Marked(d, m, mark) == {i \in DOMAIN d : m.on[i] = mark}
ClosedUnder(d, Q) == \A y \in Q : d[y].children \subseteq Q
\* Whoever a delegates to, in any number of steps, b is one of them.
Reaches(d, a, b) == \A Q \in SUBSET DOMAIN d : d[a].children \subseteq Q /\ ClosedUnder(d, Q) => b \in Q
\* Delegations of x stay within D, and never come back to it.
EndsWithin(d, x, D) == \E Q \in SUBSET D : d[x].children \subseteq Q /\ ClosedUnder(d, Q) /\ x \notin Q

\* The marks tell the truth: a cycle was there, the delegations of the finished end.
MarksTell(d, m) ==
  /\ m.cycle => \E i \in DOMAIN d : Reaches(d, i, i)
  /\ ~m.cycle => /\ ClosedUnder(d, Marked(d, m, "done"))
                 /\ \A x \in Marked(d, m, "done") : EndsWithin(d, x, Marked(d, m, "done"))
OnStack(d, id, m) == \A o \in Marked(d, m, "open") : Reaches(d, o, id)

\* What a step of the search makes of the marks m: r.
LaterMarks(d, m, r) ==
  /\ r \in Cat!Marks(d)
  /\ Marked(d, r, "new") \subseteq Marked(d, m, "new")
  /\ Marked(d, r, "open") = Marked(d, m, "open")
  /\ Marked(d, m, "done") \subseteq Marked(d, r, "done")
  /\ m.cycle => r.cycle
Visited(d, id, m, r) ==
  /\ LaterMarks(d, m, r)
  /\ ~r.cycle => id \in Marked(d, r, "done")
  /\ MarksTell(d, m) /\ OnStack(d, id, m) => MarksTell(d, r)

Looks(d, visit, place) ==
  LET id == place[1]
      marks == place[2] IN
  IF marks.on[id] = "done" \/ marks.cycle THEN marks
  ELSE IF marks.on[id] = "open" THEN [marks EXCEPT !.cycle = TRUE]
  ELSE [Walk(visit, [marks EXCEPT !.on[id] = "open"], d[id].children) EXCEPT !.on[id] = "done"]
Unvisited(d, m) == Cardinality(Marked(d, m, "new"))

LEMMA VisitIs ==
  ASSUME NEW d
  PROVE  Cat!Visit(d) = CHOOSE v : v = [place \in (DOMAIN d) \X Cat!Marks(d) |-> Looks(d, v, place)]
BY DEF Cat!Visit, Looks, Cat!FoldSet, Cat!MapThenFoldSet, Walk, PickOf

LEMMA SizeType ==
  ASSUME NEW d, Graph(d), NEW m
  PROVE  IsFiniteSet(Marked(d, m, "new")) /\ Unvisited(d, m) \in Nat /\ Unvisited(d, m) <= Cardinality(DOMAIN d)
BY FS_Subset, FS_CardinalityType DEF Graph, Marked, Unvisited

LEMMA FewerUnvisited ==
  ASSUME NEW d, Graph(d), NEW m, NEW r, Marked(d, r, "new") \subseteq Marked(d, m, "new")
  PROVE  Unvisited(d, r) <= Unvisited(d, m)
BY SizeType, FS_Subset DEF Unvisited

LEMMA LaterAgain ==
  ASSUME NEW d, NEW l, NEW m, NEW r, LaterMarks(d, l, m), LaterMarks(d, m, r)
  PROVE  LaterMarks(d, l, r)
BY DEF LaterMarks

\* The marks a search of id starts its children with.
LEMMA Opening ==
  ASSUME NEW d, Graph(d), NEW id \in DOMAIN d, NEW m \in Cat!Marks(d), m.on[id] = "new"
  PROVE  \E o \in Cat!Marks(d) :
           /\ o = [m EXCEPT !.on[id] = "open"] /\ o.cycle = m.cycle
           /\ Marked(d, o, "new") = Marked(d, m, "new") \ {id}
           /\ Marked(d, o, "open") = Marked(d, m, "open") \cup {id}
           /\ Marked(d, o, "done") = Marked(d, m, "done")
           /\ Unvisited(d, o) < Unvisited(d, m)
<1>1. PICK o : o = [on |-> [m.on EXCEPT ![id] = "open"], cycle |-> m.cycle]
  OBVIOUS
<1>2. o \in Cat!Marks(d) /\ o = [m EXCEPT !.on[id] = "open"] /\ o.cycle = m.cycle
  BY <1>1 DEF Cat!Marks
<1>3. \A i \in DOMAIN d : o.on[i] = IF i = id THEN "open" ELSE m.on[i]
  BY <1>1 DEF Cat!Marks
<1>4. /\ Marked(d, o, "new") = Marked(d, m, "new") \ {id}
      /\ Marked(d, o, "open") = Marked(d, m, "open") \cup {id}
      /\ Marked(d, o, "done") = Marked(d, m, "done")
  BY <1>3 DEF Marked
<1>5. Unvisited(d, o) < Unvisited(d, m)
  <2>1. id \in Marked(d, m, "new")
    BY DEF Marked
  <2>2. IsFiniteSet(Marked(d, m, "new")) /\ Unvisited(d, m) \in Nat /\ Unvisited(d, o) \in Nat
    BY SizeType
  <2>3. Cardinality(Marked(d, m, "new") \ {id}) = Cardinality(Marked(d, m, "new")) - 1
    BY <2>1, <2>2, FS_RemoveElement
  <2>4. Unvisited(d, o) = Unvisited(d, m) - 1
    BY <1>4, <2>3 DEF Unvisited
  <2> QED BY <2>2, <2>4
<1> QED BY <1>2, <1>4, <1>5

LEMMA Finishing ==
  ASSUME NEW d, NEW id \in DOMAIN d, NEW r \in Cat!Marks(d), r.on[id] = "open"
  PROVE  \E e \in Cat!Marks(d) :
           /\ e = [r EXCEPT !.on[id] = "done"] /\ e.cycle = r.cycle
           /\ Marked(d, e, "new") = Marked(d, r, "new")
           /\ Marked(d, e, "open") = Marked(d, r, "open") \ {id}
           /\ Marked(d, e, "done") = Marked(d, r, "done") \cup {id}
<1>1. PICK e : e = [on |-> [r.on EXCEPT ![id] = "done"], cycle |-> r.cycle]
  OBVIOUS
<1>2. e \in Cat!Marks(d) /\ e = [r EXCEPT !.on[id] = "done"] /\ e.cycle = r.cycle
  BY <1>1 DEF Cat!Marks
<1>3. \A i \in DOMAIN d : e.on[i] = IF i = id THEN "done" ELSE r.on[i]
  BY <1>1 DEF Cat!Marks
<1>4. /\ Marked(d, e, "new") = Marked(d, r, "new")
      /\ Marked(d, e, "open") = Marked(d, r, "open") \ {id}
      /\ Marked(d, e, "done") = Marked(d, r, "done") \cup {id}
  BY <1>3 DEF Marked
<1> QED BY <1>2, <1>4

\* A search of the members of C, one after the other, that starts with the marks o.
LEMMA SearchAll ==
  ASSUME NEW d, Graph(d), NEW v, NEW o \in Cat!Marks(d), NEW C \in SUBSET DOMAIN d,
         \A c \in C : \A m \in Cat!Marks(d) : LaterMarks(d, o, m) => Visited(d, c, m, v[<<c, m>>])
  PROVE  \E r : /\ r = Walk(v, o, C)
                /\ LaterMarks(d, o, r)
                /\ ~r.cycle => C \subseteq Marked(d, r, "done")
                /\ MarksTell(d, o) /\ (\A c \in C : OnStack(d, c, o)) => MarksTell(d, r)
<1>1. PICK K : K = [s \in SUBSET C |->
        {r \in Cat!Marks(d) : /\ LaterMarks(d, o, r)
                              /\ ~r.cycle => s \subseteq Marked(d, r, "done")
                              /\ MarksTell(d, o) /\ (\A c \in C : OnStack(d, c, o)) => MarksTell(d, r)}]
  OBVIOUS
<1>2. o \in K[{}]
  BY <1>1 DEF LaterMarks
<1>3. ASSUME NEW s \in SUBSET C, NEW x \in s, NEW m \in K[s \ {x}] PROVE v[<<x, m>>] \in K[s]
  <2>1. PICK r : r = v[<<x, m>>]
    OBVIOUS
  <2>2. m \in Cat!Marks(d) /\ LaterMarks(d, o, m) /\ (~m.cycle => s \ {x} \subseteq Marked(d, m, "done"))
        /\ (MarksTell(d, o) /\ (\A c \in C : OnStack(d, c, o)) => MarksTell(d, m))
    BY <1>1
  <2>3. Visited(d, x, m, r)
    BY <2>1, <2>2
  <2>4. LaterMarks(d, m, r) /\ LaterMarks(d, o, r)
    BY <2>2, <2>3, LaterAgain DEF Visited
  <2>5. ~r.cycle => s \subseteq Marked(d, r, "done")
    BY <2>2, <2>3, <2>4 DEF Visited, LaterMarks
  <2>6. ASSUME MarksTell(d, o), \A c \in C : OnStack(d, c, o) PROVE MarksTell(d, r)
    <3>1. MarksTell(d, m)
      BY <2>2, <2>6
    <3>2. OnStack(d, x, m)
      BY <2>2, <2>6 DEF OnStack, LaterMarks
    <3> QED BY <2>3, <3>1, <3>2 DEF Visited
  <2>7. r \in Cat!Marks(d)
    BY <2>4 DEF LaterMarks
  <2> QED BY <1>1, <2>1, <2>4, <2>5, <2>6, <2>7
<1>4. IsFiniteSet(C)
  BY FS_Subset DEF Graph
<1>5. Walk(v, o, C) \in K[C]
  BY <1>2, <1>3, <1>4, WalkKeeps
<1> QED BY <1>1, <1>5

\* Marks that tell the truth about all that id delegates to may tell it of id.
LEMMA FinishTold ==
  ASSUME NEW d, Graph(d), NEW id \in DOMAIN d, NEW r, NEW e, MarksTell(d, r), e.cycle = r.cycle,
         Marked(d, e, "done") = Marked(d, r, "done") \cup {id}, id \notin Marked(d, r, "done"),
         ~r.cycle => d[id].children \subseteq Marked(d, r, "done")
  PROVE  MarksTell(d, e)
<1> SUFFICES ASSUME ~r.cycle PROVE MarksTell(d, e)
  BY DEF MarksTell
<1>1. PICK D : D = Marked(d, r, "done")
  OBVIOUS
<1>2. PICK E : E = Marked(d, e, "done") /\ E = D \cup {id} /\ id \notin D
  BY <1>1
<1>3. ClosedUnder(d, D) /\ (\A x \in D : EndsWithin(d, x, D)) /\ d[id].children \subseteq D
  BY <1>1 DEF MarksTell
<1>4. ClosedUnder(d, E)
  BY <1>2, <1>3 DEF ClosedUnder
<1>5. \A x \in D : EndsWithin(d, x, E)
  BY <1>2, <1>3 DEF EndsWithin
<1>6. EndsWithin(d, id, E)
  BY <1>2, <1>3 DEF EndsWithin
<1>7. ~e.cycle
  OBVIOUS
<1>8. \A x \in E : EndsWithin(d, x, E)
  BY <1>2, <1>5, <1>6
<1> QED BY <1>2, <1>4, <1>7, <1>8 DEF MarksTell

\* One look, when every look at marks with fewer new ones is right.
LEMMA LooksRight ==
  ASSUME NEW d, Graph(d), NEW v, NEW n \in Nat,
         \A c \in DOMAIN d : \A m \in Cat!Marks(d) : Unvisited(d, m) < n => Visited(d, c, m, v[<<c, m>>]),
         NEW id \in DOMAIN d, NEW m \in Cat!Marks(d), Unvisited(d, m) < n + 1
  PROVE  Visited(d, id, m, Looks(d, v, <<id, m>>))
<1>0. m.on[id] \in {"new", "open", "done"} /\ m.cycle \in BOOLEAN
  BY DEF Cat!Marks
<1>1. CASE m.on[id] = "done" \/ m.cycle
  <2>1. Looks(d, v, <<id, m>>) = m
    BY <1>1 DEF Looks
  <2>2. Visited(d, id, m, m)
    BY <1>1 DEF Visited, LaterMarks, Marked
  <2> QED BY <2>1, <2>2
<1>2. CASE m.on[id] = "open" /\ ~m.cycle
  <2>1. PICK r \in Cat!Marks(d) : r = [m EXCEPT !.cycle = TRUE] /\ r.on = m.on /\ r.cycle
    <3>1. PICK r : r = [m EXCEPT !.cycle = TRUE]
      OBVIOUS
    <3>2. r \in Cat!Marks(d)
      BY <3>1 DEF Cat!Marks
    <3>3. r.on = m.on
      BY <3>1 DEF Cat!Marks
    <3>4. r.cycle
      BY <3>1 DEF Cat!Marks
    <3> QED BY <3>1, <3>2, <3>3, <3>4
  <2>2. Looks(d, v, <<id, m>>) = r
    BY <1>2, <2>1 DEF Looks
  <2>3. LaterMarks(d, m, r)
    BY <2>1 DEF LaterMarks, Marked
  <2>4. r.cycle
    BY <2>1
  <2>5. ASSUME OnStack(d, id, m) PROVE MarksTell(d, r)
    <3>1. Reaches(d, id, id)
      BY <1>2, <2>5 DEF OnStack, Marked
    <3> QED BY <2>4, <3>1 DEF MarksTell
  <2> QED BY <2>2, <2>3, <2>4, <2>5 DEF Visited
<1>3. CASE m.on[id] = "new" /\ ~m.cycle
  <2>1. PICK o \in Cat!Marks(d) :
           /\ o = [m EXCEPT !.on[id] = "open"] /\ o.cycle = m.cycle
           /\ Marked(d, o, "new") = Marked(d, m, "new") \ {id}
           /\ Marked(d, o, "open") = Marked(d, m, "open") \cup {id}
           /\ Marked(d, o, "done") = Marked(d, m, "done")
           /\ Unvisited(d, o) < Unvisited(d, m)
    BY <1>3, Opening
  <2>2. PICK C \in SUBSET DOMAIN d : C = d[id].children
    BY DEF Graph
  <2>3. Looks(d, v, <<id, m>>) = [Walk(v, o, C) EXCEPT !.on[id] = "done"]
    BY <1>3, <2>1, <2>2 DEF Looks
  <2>4. ASSUME NEW c \in C, NEW l \in Cat!Marks(d), LaterMarks(d, o, l) PROVE Visited(d, c, l, v[<<c, l>>])
    <3>1. Unvisited(d, l) <= Unvisited(d, o)
      BY <2>4, FewerUnvisited DEF LaterMarks
    <3>2. Unvisited(d, l) \in Nat /\ Unvisited(d, o) \in Nat /\ Unvisited(d, m) \in Nat
      BY SizeType
    <3>3. Unvisited(d, l) < n
      BY <2>1, <3>1, <3>2
    <3> QED BY <3>3
  <2>5. PICK r : /\ r = Walk(v, o, C)
                 /\ LaterMarks(d, o, r)
                 /\ ~r.cycle => C \subseteq Marked(d, r, "done")
                 /\ MarksTell(d, o) /\ (\A c \in C : OnStack(d, c, o)) => MarksTell(d, r)
    BY <2>4, SearchAll
  <2>6. r \in Cat!Marks(d) /\ r.on[id] = "open" /\ id \notin Marked(d, r, "done")
    <3>1. id \in Marked(d, r, "open") /\ r \in Cat!Marks(d)
      BY <2>1, <2>5 DEF LaterMarks
    <3> QED BY <3>1 DEF Marked
  <2>7. PICK e \in Cat!Marks(d) :
           /\ e = [r EXCEPT !.on[id] = "done"] /\ e.cycle = r.cycle
           /\ Marked(d, e, "new") = Marked(d, r, "new")
           /\ Marked(d, e, "open") = Marked(d, r, "open") \ {id}
           /\ Marked(d, e, "done") = Marked(d, r, "done") \cup {id}
    BY <2>6, Finishing
  <2>8. id \notin Marked(d, m, "open")
    BY <1>3 DEF Marked
  <2>9. LaterMarks(d, m, e)
    <3>1. Marked(d, e, "new") \subseteq Marked(d, m, "new") /\ Marked(d, m, "done") \subseteq Marked(d, e, "done")
      BY <2>1, <2>5, <2>7 DEF LaterMarks
    <3>2. Marked(d, e, "open") = Marked(d, m, "open")
      <4>1. Marked(d, r, "open") = Marked(d, m, "open") \cup {id}
        BY <2>1, <2>5 DEF LaterMarks
      <4> QED BY <2>7, <2>8, <4>1
    <3> QED BY <1>3, <2>7, <3>1, <3>2 DEF LaterMarks
  <2>10. ASSUME MarksTell(d, m), OnStack(d, id, m) PROVE MarksTell(d, e)
    <3>1. MarksTell(d, o)
      BY <2>1, <2>10 DEF MarksTell
    <3>2. ASSUME NEW c \in C, NEW a \in Marked(d, o, "open") PROVE Reaches(d, a, c)
      <4> SUFFICES ASSUME NEW Q \in SUBSET DOMAIN d, d[a].children \subseteq Q, ClosedUnder(d, Q)
                   PROVE  c \in Q
        BY DEF Reaches
      <4>1. CASE a = id
        BY <2>2, <4>1
      <4>2. CASE a # id
        <5>1. Reaches(d, a, id)
          BY <2>1, <2>10, <4>2 DEF OnStack
        <5>2. id \in Q
          BY <5>1 DEF Reaches
        <5> QED BY <2>2, <5>2 DEF ClosedUnder
      <4> QED BY <4>1, <4>2
    <3>3. MarksTell(d, r)
      BY <2>5, <3>1, <3>2 DEF OnStack
    <3>4. ~r.cycle => d[id].children \subseteq Marked(d, r, "done")
      BY <2>2, <2>5
    <3> QED BY <2>6, <2>7, <3>3, <3>4, FinishTold
  <2>11. Looks(d, v, <<id, m>>) = e /\ id \in Marked(d, e, "done")
    BY <2>3, <2>5, <2>7
  <2> QED BY <2>9, <2>10, <2>11 DEF Visited
<1> QED BY <1>0, <1>1, <1>2, <1>3

\* Functions that agree on marks with fewer new ones give the same look.
Agree(d, v, w, n) ==
  \A c \in DOMAIN d : \A m \in Cat!Marks(d) : Unvisited(d, m) < n =>
    Visited(d, c, m, v[<<c, m>>]) /\ v[<<c, m>>] = w[<<c, m>>]

LEMMA LooksAlike ==
  ASSUME NEW d, Graph(d), NEW v, NEW w, NEW n \in Nat, Agree(d, v, w, n),
         NEW id \in DOMAIN d, NEW m \in Cat!Marks(d), Unvisited(d, m) < n + 1
  PROVE  Looks(d, v, <<id, m>>) = Looks(d, w, <<id, m>>)
<1>1. CASE ~(m.on[id] = "new" /\ ~m.cycle)
  BY <1>1 DEF Looks, Cat!Marks
<1>2. CASE m.on[id] = "new" /\ ~m.cycle
  <2>1. PICK o \in Cat!Marks(d) :
           o = [m EXCEPT !.on[id] = "open"] /\ Unvisited(d, o) < Unvisited(d, m)
    BY <1>2, Opening
  <2>2. PICK C \in SUBSET DOMAIN d : C = d[id].children
    BY DEF Graph
  <2>3. PICK M : M = {l \in Cat!Marks(d) : LaterMarks(d, o, l)}
    OBVIOUS
  <2>4. o \in M
    BY <2>3 DEF LaterMarks
  <2>5. ASSUME NEW c \in C, NEW l \in M PROVE v[<<c, l>>] \in M /\ v[<<c, l>>] = w[<<c, l>>]
    <3>1. LaterMarks(d, o, l) /\ l \in Cat!Marks(d)
      BY <2>3
    <3>2. Unvisited(d, l) <= Unvisited(d, o)
      BY <3>1, FewerUnvisited DEF LaterMarks
    <3>3. Unvisited(d, l) \in Nat /\ Unvisited(d, o) \in Nat /\ Unvisited(d, m) \in Nat
      BY SizeType
    <3>4. Unvisited(d, l) < n
      BY <2>1, <3>2, <3>3
    <3>5. Visited(d, c, l, v[<<c, l>>]) /\ v[<<c, l>>] = w[<<c, l>>]
      BY <3>1, <3>4 DEF Agree
    <3>6. LaterMarks(d, l, v[<<c, l>>])
      BY <3>5 DEF Visited
    <3>7. LaterMarks(d, o, v[<<c, l>>])
      BY <3>1, <3>6, LaterAgain
    <3> QED BY <2>3, <3>5, <3>7 DEF LaterMarks
  <2>6. IsFiniteSet(C)
    BY FS_Subset DEF Graph
  <2>7. Walk(v, o, C) = Walk(w, o, C)
    BY <2>4, <2>5, <2>6, WalkAlike
  <2> QED BY <1>2, <2>1, <2>2, <2>7 DEF Looks
<1> QED BY <1>1, <1>2

Searches(d, v, n) ==
  \A c \in DOMAIN d : \A m \in Cat!Marks(d) : Unvisited(d, m) < n =>
    Visited(d, c, m, v[<<c, m>>]) /\ v[<<c, m>>] = Looks(d, v, <<c, m>>)

\* The recursion of the search has a solution, and what it answers is right.
LEMMA VisitRight ==
  ASSUME NEW d, Graph(d), NEW c \in DOMAIN d, NEW m \in Cat!Marks(d)
  PROVE  Visited(d, c, m, Cat!Visit(d)[<<c, m>>])
<1>1. PICK T : T = {n \in Nat : \E v : Searches(d, v, n)}
  OBVIOUS
<1>2. 0 \in T
  <2>1. \A l \in Cat!Marks(d) : ~(Unvisited(d, l) < 0)
    BY SizeType
  <2>2. \A v : Searches(d, v, 0)
    BY <2>1 DEF Searches
  <2> QED BY <1>1, <2>2
<1>3. ASSUME NEW n \in Nat, n \in T PROVE n + 1 \in T
  <2>1. PICK v : Searches(d, v, n)
    BY <1>1, <1>3
  <2>2. PICK w : w = [place \in (DOMAIN d) \X Cat!Marks(d) |-> Looks(d, v, place)]
    OBVIOUS
  <2>3. \A x \in DOMAIN d : \A l \in Cat!Marks(d) : w[<<x, l>>] = Looks(d, v, <<x, l>>)
    BY <2>2
  <2>4. \A x \in DOMAIN d : \A l \in Cat!Marks(d) : Unvisited(d, l) < n => Visited(d, x, l, v[<<x, l>>])
    BY <2>1 DEF Searches
  <2>5. Agree(d, v, w, n)
    BY <2>1, <2>3 DEF Searches, Agree
  <2>6. ASSUME NEW x \in DOMAIN d, NEW l \in Cat!Marks(d), Unvisited(d, l) < n + 1
        PROVE  Visited(d, x, l, w[<<x, l>>]) /\ w[<<x, l>>] = Looks(d, w, <<x, l>>)
    <3>1. Visited(d, x, l, Looks(d, v, <<x, l>>))
      BY <2>4, <2>6, LooksRight
    <3>2. Looks(d, v, <<x, l>>) = Looks(d, w, <<x, l>>)
      BY <2>5, <2>6, LooksAlike
    <3> QED BY <2>3, <3>1, <3>2
  <2>7. Searches(d, w, n + 1)
    BY <2>6 DEF Searches
  <2> QED BY <1>1, <2>7
<1>4. PICK N \in Nat : \A l \in Cat!Marks(d) : Unvisited(d, l) < N
  <2>1. Cardinality(DOMAIN d) \in Nat
    BY FS_CardinalityType DEF Graph
  <2>2. \A l \in Cat!Marks(d) : Unvisited(d, l) < Cardinality(DOMAIN d) + 1
    BY <2>1, SizeType
  <2> QED BY <2>1, <2>2
<1>5. N \in T
  BY <1>2, <1>3, Inductive
<1>6. PICK v : Searches(d, v, N)
  BY <1>1, <1>5
<1>7. PICK w : w = [place \in (DOMAIN d) \X Cat!Marks(d) |-> v[place]]
  OBVIOUS
<1>8. ASSUME NEW x \in DOMAIN d, NEW l \in Cat!Marks(d) PROVE w[<<x, l>>] = Looks(d, w, <<x, l>>)
  <2>1. Agree(d, v, w, N)
    BY <1>6, <1>7 DEF Searches, Agree
  <2>2. Unvisited(d, l) < N + 1
    BY <1>4, SizeType
  <2>3. Looks(d, v, <<x, l>>) = Looks(d, w, <<x, l>>)
    BY <2>1, <2>2, LooksAlike
  <2>4. v[<<x, l>>] = Looks(d, v, <<x, l>>) /\ v[<<x, l>>] = w[<<x, l>>]
    BY <1>4, <1>6, <1>7 DEF Searches
  <2> QED BY <2>3, <2>4
<1>9. w = [place \in (DOMAIN d) \X Cat!Marks(d) |-> Looks(d, w, place)]
  <2>1. \A place \in (DOMAIN d) \X Cat!Marks(d) : w[place] = Looks(d, w, place)
    BY <1>8
  <2> QED BY <1>7, <2>1
<1>10. PICK u : u = Cat!Visit(d) /\ u = [place \in (DOMAIN d) \X Cat!Marks(d) |-> Looks(d, u, place)]
  BY <1>9, VisitIs
<1>11. PICK S : S = {n \in Nat : \A x \in DOMAIN d : \A l \in Cat!Marks(d) :
                                   Unvisited(d, l) < n => Visited(d, x, l, u[<<x, l>>])}
  OBVIOUS
<1>12. 0 \in S
  <2>1. \A l \in Cat!Marks(d) : ~(Unvisited(d, l) < 0)
    BY SizeType
  <2> QED BY <1>11, <2>1
<1>13. ASSUME NEW n \in Nat, n \in S PROVE n + 1 \in S
  <2>1. \A x \in DOMAIN d : \A l \in Cat!Marks(d) : Unvisited(d, l) < n => Visited(d, x, l, u[<<x, l>>])
    BY <1>11, <1>13
  <2>2. \A x \in DOMAIN d : \A l \in Cat!Marks(d) : u[<<x, l>>] = Looks(d, u, <<x, l>>)
    BY <1>10
  <2>3. \A x \in DOMAIN d : \A l \in Cat!Marks(d) : Unvisited(d, l) < n + 1 => Visited(d, x, l, u[<<x, l>>])
    BY <2>1, <2>2, LooksRight
  <2> QED BY <1>11, <2>3
<1>14. N \in S
  BY <1>12, <1>13, Inductive
<1> QED BY <1>4, <1>10, <1>11, <1>14

\* The search finds a cycle exactly if there is one.
LEMMA SearchTells ==
  ASSUME NEW d, Graph(d)
  PROVE  /\ Cat!Acyclic(d) => \A i \in DOMAIN d : EndsWithin(d, i, DOMAIN d)
         /\ ~Cat!Acyclic(d) => \E i \in DOMAIN d : Reaches(d, i, i)
<1>1. Cat!Acyclic(d) <=> ~Walk(Cat!Visit(d), Cat!NoMarks(d), DOMAIN d).cycle
  BY DEF Cat!Acyclic, Cat!FoldSet, Cat!MapThenFoldSet, Walk, PickOf
<1>2. PICK o \in Cat!Marks(d) : o = Cat!NoMarks(d)
  BY DEF Cat!NoMarks, Cat!Marks
<1>3. MarksTell(d, o) /\ \A c \in DOMAIN d : OnStack(d, c, o)
  BY <1>2 DEF MarksTell, OnStack, Cat!NoMarks, Marked, ClosedUnder
<1>4. \A c \in DOMAIN d : \A m \in Cat!Marks(d) : LaterMarks(d, o, m) => Visited(d, c, m, Cat!Visit(d)[<<c, m>>])
  BY VisitRight
<1>5. PICK r : /\ r = Walk(Cat!Visit(d), o, DOMAIN d)
               /\ LaterMarks(d, o, r)
               /\ ~r.cycle => DOMAIN d \subseteq Marked(d, r, "done")
               /\ MarksTell(d, r)
  <2>1. PICK v : v = Cat!Visit(d)
    OBVIOUS
  <2>2. \A c \in DOMAIN d : \A m \in Cat!Marks(d) : LaterMarks(d, o, m) => Visited(d, c, m, v[<<c, m>>])
    BY <1>4, <2>1
  <2> QED BY <1>3, <2>1, <2>2, SearchAll
<1>6. CASE r.cycle
  BY <1>1, <1>2, <1>5, <1>6 DEF MarksTell
<1>7. CASE ~r.cycle
  <2>1. Marked(d, r, "done") = DOMAIN d
    BY <1>5, <1>7 DEF Marked
  <2> QED BY <1>1, <1>2, <1>5, <1>7, <2>1 DEF MarksTell
<1> QED BY <1>6, <1>7


\* The agents within k delegations, as far as there are agents.
Spread(d, S) == S \cup UNION {d[j].children : j \in S}
Spreads(f, d, id, k) == f[k] = IF k = 0 THEN d[id].children ELSE Spread(d, f[k - 1])

LEMMA CatalogCounts == \A S : Cat!Cardinality(S) = Cardinality(S)
BY DEF Cat!Cardinality, Cardinality

LEMMA ReachSolution ==
  ASSUME NEW d, NEW id
  PROVE  \E f : /\ \A k \in 0..Cardinality(CatalogIds) : Spreads(f, d, id, k)
                /\ Cat!Reach(d, id) = f[Cardinality(CatalogIds)]
<1>1. PICK N \in Nat : N = Cardinality(CatalogIds)
  BY CatalogIsFinite, FS_CardinalityType
<1>2. PICK T : T = {n \in Nat : \E f : \A k \in 0..N : k < n => Spreads(f, d, id, k)}
  OBVIOUS
<1>3. 0 \in T
  BY <1>1, <1>2
<1>4. ASSUME NEW n \in Nat, n \in T PROVE n + 1 \in T
  <2>1. PICK f : \A k \in 0..N : k < n => Spreads(f, d, id, k)
    BY <1>2, <1>4
  <2>2. PICK g : g = [k \in 0..N |-> IF k = 0 THEN d[id].children ELSE Spread(d, f[k - 1])]
    OBVIOUS
  <2>3. ASSUME NEW k \in 0..N, k < n + 1 PROVE Spreads(g, d, id, k)
    <3>1. CASE k = 0
      BY <2>2, <3>1 DEF Spreads
    <3>2. CASE k # 0
      <4>1. k - 1 \in 0..N /\ k - 1 < n
        BY <1>1, <2>3, <3>2
      <4>2. g[k - 1] = f[k - 1]
        BY <2>1, <2>2, <4>1 DEF Spreads
      <4> QED BY <2>2, <3>2, <4>2 DEF Spreads
    <3> QED BY <3>1, <3>2
  <2> QED BY <1>2, <2>3
<1>5. PICK f : f = [k \in 0..N |-> IF k = 0 THEN d[id].children ELSE Spread(d, f[k - 1])]
  <2>1. N + 1 \in T
    BY <1>1, <1>3, <1>4, Inductive
  <2>2. PICK f : \A k \in 0..N : k < N + 1 => Spreads(f, d, id, k)
    BY <1>2, <2>1
  <2>3. \A k \in 0..N : Spreads(f, d, id, k)
    BY <1>1, <2>2
  <2>4. PICK g : g = [k \in 0..N |-> f[k]]
    OBVIOUS
  <2>5. ASSUME NEW k \in 0..N PROVE g[k] = IF k = 0 THEN d[id].children ELSE Spread(d, g[k - 1])
    <3>1. CASE k = 0
      BY <2>3, <2>4, <3>1 DEF Spreads
    <3>2. CASE k # 0
      <4>1. g[k - 1] = f[k - 1]
        BY <1>1, <2>4, <3>2
      <4> QED BY <2>3, <2>4, <3>2, <4>1 DEF Spreads
    <3> QED BY <3>1, <3>2
  <2>6. g = [k \in 0..N |-> IF k = 0 THEN d[id].children ELSE Spread(d, g[k - 1])]
    BY <2>4, <2>5
  <2> QED BY <2>6
<1>6. PICK g : /\ g = CHOOSE h : h = [k \in 0..N |-> IF k = 0 THEN d[id].children ELSE Spread(d, h[k - 1])]
               /\ Cat!Reach(d, id) = g[N]
  <2>1. Cat!Cardinality(CatalogIds) = N
    BY <1>1, CatalogCounts
  <2> QED BY <2>1 DEF Cat!Reach, Spread
<1>7. g = [k \in 0..N |-> IF k = 0 THEN d[id].children ELSE Spread(d, g[k - 1])]
  BY <1>5, <1>6
<1>8. \A k \in 0..N : Spreads(g, d, id, k)
  BY <1>7 DEF Spreads
<1> QED BY <1>1, <1>6, <1>8

LEMMA ReachEnds ==
  ASSUME NEW d, NEW i, EndsWithin(d, i, DOMAIN d)
  PROVE  i \notin Cat!Reach(d, i)
<1>1. PICK Q : d[i].children \subseteq Q /\ ClosedUnder(d, Q) /\ i \notin Q
  BY DEF EndsWithin
<1>2. PICK f : /\ \A k \in 0..Cardinality(CatalogIds) : Spreads(f, d, i, k)
               /\ Cat!Reach(d, i) = f[Cardinality(CatalogIds)]
  BY ReachSolution
<1>3. PICK N \in Nat : N = Cardinality(CatalogIds)
  BY CatalogIsFinite, FS_CardinalityType
<1>4. PICK T : T = {n \in 0..N : f[n] \subseteq Q}
  OBVIOUS
<1>5. 0 \in T
  BY <1>1, <1>2, <1>3, <1>4 DEF Spreads
<1>6. ASSUME NEW n \in 0..(N - 1), n \in T PROVE n + 1 \in T
  <2>1. n + 1 \in 0..N /\ n + 1 # 0 /\ (n + 1) - 1 = n
    BY <1>3
  <2>2. f[n + 1] = Spread(d, f[n])
    BY <1>2, <1>3, <2>1 DEF Spreads
  <2>3. f[n] \subseteq Q
    BY <1>4, <1>6
  <2>4. Spread(d, f[n]) \subseteq Q
    BY <1>1, <2>3 DEF Spread, ClosedUnder
  <2> QED BY <1>4, <2>1, <2>2, <2>4
<1>7. N \in T
  BY <1>3, <1>5, <1>6, InductiveTo
<1> QED BY <1>1, <1>2, <1>3, <1>4, <1>7

LEMMA ReachFinds ==
  ASSUME NEW d, Graph(d), DOMAIN d \subseteq CatalogIds, NEW i \in DOMAIN d, Reaches(d, i, i)
  PROVE  i \in Cat!Reach(d, i)
<1>1. PICK f : /\ \A k \in 0..Cardinality(CatalogIds) : Spreads(f, d, i, k)
               /\ Cat!Reach(d, i) = f[Cardinality(CatalogIds)]
  BY ReachSolution
<1>2. PICK N \in Nat : N = Cardinality(CatalogIds)
  BY CatalogIsFinite, FS_CardinalityType
<1>3. PICK T : T = {n \in 0..N : /\ f[n] \subseteq DOMAIN d /\ d[i].children \subseteq f[n]
                                 /\ ClosedUnder(d, f[n]) \/ Cardinality(f[n]) >= n}
  OBVIOUS
<1>4. \A S \in SUBSET DOMAIN d : IsFiniteSet(S) /\ Cardinality(S) \in Nat
  BY FS_Subset, FS_CardinalityType DEF Graph
<1>5. 0 \in T
  <2>1. f[0] = d[i].children
    BY <1>1, <1>2 DEF Spreads
  <2>2. f[0] \subseteq DOMAIN d
    BY <2>1 DEF Graph
  <2> QED BY <1>2, <1>3, <1>4, <2>1, <2>2
<1>6. ASSUME NEW n \in 0..(N - 1), n \in T PROVE n + 1 \in T
  <2>1. n + 1 \in 0..N /\ n + 1 # 0 /\ (n + 1) - 1 = n /\ n \in Nat
    BY <1>2
  <2>2. PICK S \in SUBSET DOMAIN d : S = f[n]
    BY <1>3, <1>6
  <2>3. PICK R : R = f[n + 1]
    OBVIOUS
  <2>4. R = Spread(d, S)
    BY <1>1, <1>2, <2>1, <2>2, <2>3 DEF Spreads
  <2>5. R \in SUBSET DOMAIN d /\ S \subseteq R
    BY <2>4 DEF Graph, Spread
  <2>6. d[i].children \subseteq R
    BY <1>3, <1>6, <2>2, <2>5
  <2>7. CASE ClosedUnder(d, S)
    <3>1. R = S
      BY <2>4, <2>7 DEF Spread, ClosedUnder
    <3> QED BY <1>3, <2>1, <2>3, <2>5, <2>6, <2>7, <3>1
  <2>8. CASE ~ClosedUnder(d, S)
    <3>1. R # S
      BY <2>4, <2>8 DEF Spread, ClosedUnder
    <3>2. Cardinality(S) >= n
      BY <1>3, <1>6, <2>2, <2>8
    <3>3. IsFiniteSet(R) /\ Cardinality(R) \in Nat /\ Cardinality(S) \in Nat
      BY <1>4, <2>5
    <3>4. Cardinality(S) <= Cardinality(R) /\ Cardinality(R) # Cardinality(S)
      BY <2>5, <3>1, <3>3, FS_Subset
    <3>5. Cardinality(R) >= n + 1
      BY <2>1, <3>2, <3>3, <3>4
    <3> QED BY <1>3, <2>1, <2>3, <2>5, <2>6, <3>5
  <2> QED BY <2>7, <2>8
<1>7. N \in T
  BY <1>2, <1>5, <1>6, InductiveTo
<1>8. PICK S \in SUBSET DOMAIN d : S = f[N] /\ d[i].children \subseteq S
                                   /\ (ClosedUnder(d, S) \/ Cardinality(S) >= N)
  BY <1>3, <1>7
<1>9. CASE ClosedUnder(d, S)
  BY <1>1, <1>2, <1>8, <1>9 DEF Reaches
<1>10. CASE Cardinality(S) >= N
  <2>1. S \in SUBSET CatalogIds
    OBVIOUS
  <2>2. Cardinality(S) <= N /\ (Cardinality(S) = N => S = CatalogIds)
    BY <1>2, <2>1, CatalogIsFinite, FS_Subset
  <2>3. S = CatalogIds
    BY <1>2, <1>4, <1>10, <2>2
  <2> QED BY <1>1, <1>2, <1>8, <2>3
<1> QED BY <1>8, <1>9, <1>10

---------------------------------------------------------------------------
(* The files and the forms.                                                *)

Formed(form) ==
  /\ DOMAIN form = {"tools", "extra", "scope", "keep", "cont"}
  /\ form.tools \subseteq {"read", "write", "exec"}

LEMMA NormalForm ==
  ASSUME NEW file, file.child # NoField => Formed(file.child), Cat!Normalised(file).child # NoField
  PROVE  /\ Formed(Cat!Normalised(file).child)
         /\ Cat!Valid(file) => Cat!Enforceable(Cat!Normalised(file).child)
<1>1. file.child # NoField /\ Formed(file.child)
  BY DEF Cat!Normalised
<1>2. PICK form : form = Cat!Normalised(file).child
  OBVIOUS
<1>3. form = file.child \/ form = [file.child EXCEPT !.keep = NoField]
  BY <1>1, <1>2 DEF Cat!Normalised
<1>4. DOMAIN form = DOMAIN file.child /\ form.tools = file.child.tools
      /\ form.extra = file.child.extra /\ form.scope = file.child.scope
  BY <1>1, <1>3 DEF Formed
<1>5. Formed(form)
  BY <1>1, <1>4 DEF Formed
<1>6. Cat!Valid(file) => Cat!Enforceable(form)
  BY <1>1, <1>4 DEF Cat!Valid, Cat!ValidForm, Cat!Enforceable, Cat!HasScope
<1> QED BY <1>2, <1>5, <1>6

LEMMA StrippedForm ==
  ASSUME NEW d, "child" \in DOMAIN d, d.child # NoField => Formed(d.child) /\ Cat!Enforceable(d.child),
         Cat!Stripped(d).child # NoField
  PROVE  Formed(Cat!Stripped(d).child) /\ Cat!Enforceable(Cat!Stripped(d).child)
<1>1. CASE ~(d.child # NoField /\ d.child.scope = "cancel")
  BY <1>1 DEF Cat!Stripped
<1>2. CASE d.child # NoField /\ d.child.scope = "cancel"
  <2>1. PICK form : form = [d.child EXCEPT !.scope = NoField] /\ form = Cat!Stripped(d).child
    BY <1>2 DEF Cat!Stripped
  <2>2. Formed(d.child)
    BY <1>2
  <2>3. DOMAIN form = DOMAIN d.child /\ form.tools = d.child.tools /\ form.scope = NoField
    BY <2>1, <2>2 DEF Formed
  <2> QED BY <2>1, <2>2, <2>3 DEF Formed, Cat!Enforceable, Cat!HasScope
<1> QED BY <1>1, <1>2

LEMMA MergeForm ==
  ASSUME NEW base, NEW patch, base # NoField => Formed(base), patch # NoField => Formed(patch),
         base # NoField => Cat!Enforceable(base),
         patch # NoField => Cat!Enforceable(Cat!MergedForm(base, patch)), Cat!MergedForm(base, patch) # NoField
  PROVE  Formed(Cat!MergedForm(base, patch)) /\ Cat!Enforceable(Cat!MergedForm(base, patch))
BY DEF Cat!MergedForm, Cat!Over, Formed

\* The input of a behaviour, as the assumptions have it.
FilesAre ==
  /\ DOMAIN cat_builtin = CatalogIds /\ DOMAIN cat_user = CatalogIds
  /\ \A id \in CatalogIds : cat_builtin[id] # NoField /\ cat_builtin[id].child # NoField => Formed(cat_builtin[id].child)
  /\ \A id \in CatalogIds : cat_user[id] # NoField /\ cat_user[id].child # NoField => Formed(cat_user[id].child)

LEMMA LayeredForm ==
  ASSUME FilesAre, Cat!LayersValid, NEW id \in Cat!Defined, Cat!Layered(id).child # NoField
  PROVE  Formed(Cat!Layered(id).child) /\ Cat!Enforceable(Cat!Layered(id).child)
<1>0. id \in CatalogIds /\ (cat_builtin[id] # NoField \/ cat_user[id] # NoField)
  BY DEF Cat!Defined
<1>1. \A file : "child" \in DOMAIN Cat!Normalised(file)
  BY DEF Cat!Normalised
<1>2. CASE cat_user[id] = NoField
  <2>1. Cat!Layered(id) = Cat!Normalised(cat_builtin[id])
    BY <1>0, <1>2 DEF Cat!Layered
  <2> QED BY <1>0, <1>2, <2>1, NormalForm DEF FilesAre, Cat!LayersValid
<1>3. CASE cat_user[id] # NoField /\ cat_builtin[id] = NoField
  <2>1. PICK d : d = Cat!Normalised(cat_user[id])
    OBVIOUS
  <2>2. Cat!Layered(id) = Cat!Stripped(d)
    BY <1>0, <1>3, <2>1 DEF Cat!Layered
  <2>3. d.child # NoField => Formed(d.child) /\ Cat!Enforceable(d.child)
    BY <1>0, <1>3, <2>1, NormalForm DEF FilesAre, Cat!LayersValid
  <2> QED BY <1>1, <2>1, <2>2, <2>3, StrippedForm
<1>4. CASE cat_user[id] # NoField /\ cat_builtin[id] # NoField
  <2>1. PICK b, u : b = Cat!Normalised(cat_builtin[id]) /\ u = Cat!Normalised(cat_user[id])
    OBVIOUS
  <2>2. PICK d : d = Cat!Merge(b, u)
    OBVIOUS
  <2>3. Cat!Layered(id) = Cat!Stripped(d)
    BY <1>4, <2>1, <2>2 DEF Cat!Layered
  <2>4. b.child # NoField => Formed(b.child) /\ Cat!Enforceable(b.child)
    BY <1>0, <1>4, <2>1, NormalForm DEF FilesAre, Cat!LayersValid
  <2>5. u.child # NoField => Formed(u.child)
    BY <1>0, <1>4, <2>1, NormalForm DEF FilesAre, Cat!LayersValid
  <2>6. u.child # NoField => Cat!Enforceable(Cat!MergedForm(b.child, u.child))
    BY <1>0, <1>4, <2>1 DEF Cat!LayersValid, Cat!Mergeable
  <2>7. d.child = Cat!MergedForm(b.child, u.child) /\ "child" \in DOMAIN d
    BY <2>2 DEF Cat!Merge
  <2>8. d.child # NoField => Formed(d.child) /\ Cat!Enforceable(d.child)
    BY <2>4, <2>5, <2>6, <2>7, MergeForm
  <2> QED BY <2>3, <2>7, <2>8, StrippedForm
<1> QED BY <1>0, <1>2, <1>3, <1>4

---------------------------------------------------------------------------
(* The catalog.                                                            *)

Merged == [id \in Cat!Defined |-> Cat!Layered(id)]

\* What a mounted form may call.
GrantedRight(id) ==
  /\ Cat!Loaded /\ id \in DOMAIN cat_catalog
  /\ cat_granted[id] \subseteq cat_registered
  /\ "exec" \notin cat_catalog[id].child.tools =>
       /\ cat_granted[id] \cap Cat!ShellNames \subseteq Cat!Extra(cat_catalog[id].child)
       /\ cat_granted[id] \ Cat!Owned \subseteq Cat!Extra(cat_catalog[id].child)
  /\ \E shell : cat_granted[id] \cap Cat!ShellNames \subseteq {shell} \cup Cat!Extra(cat_catalog[id].child)

CatInv ==
  /\ FilesAre
  /\ \/ cat_catalog = NoField
     \/ cat_catalog = Refused /\ ~(Cat!LayersValid /\ Cat!GraphValid(Merged))
     \/ cat_catalog = Merged /\ Cat!LayersValid /\ Cat!GraphValid(Merged)
  /\ cat_registered \subseteq CatalogNames \cup {"read", "write"}
  /\ DOMAIN cat_granted = CatalogIds
  /\ \A id \in CatalogIds : cat_granted[id] = NoField \/ GrantedRight(id)

LEMMA InitCatalog == ASSUME Cat!Init PROVE CatInv
<1>1. FilesAre
  BY FilesFormed DEF Cat!Init, FilesAre, Formed
<1> QED BY <1>1 DEF Cat!Init, CatInv

\* The tools a form is given.
LEMMA GivenRight ==
  ASSUME NEW form, Formed(form), Cat!Compilable(form)
  PROVE  /\ Cat!Allowlist(form) \subseteq cat_registered
         /\ "exec" \notin form.tools =>
              /\ Cat!Allowlist(form) \cap Cat!ShellNames \subseteq Cat!Extra(form)
              /\ Cat!Allowlist(form) \ Cat!Owned \subseteq Cat!Extra(form)
         /\ \E shell : Cat!Allowlist(form) \cap Cat!ShellNames \subseteq {shell} \cup Cat!Extra(form)
<1>1. \A cap \in form.tools : cap \in {"read", "write", "exec"} /\ Cat!Available(cap)
  BY DEF Formed, Cat!Compilable
<1>2. /\ Cat!Capability["read"] = [all |-> {"read"}, optional |-> {"read_image"}]
      /\ Cat!Capability["write"] = [all |-> {"write"}, optional |-> {}]
      /\ Cat!Capability["exec"] = [all |-> {}, optional |-> {}]
  BY DEF Cat!Capability
<1>3. /\ Cat!Resolved("read") = {"read"} \cup ({"read_image"} \cap cat_registered)
      /\ Cat!Resolved("write") = {"write"}
      /\ Cat!Resolved("exec") = {Cat!Shell}
  BY <1>2 DEF Cat!Resolved
<1>4. Cat!ShellNames = {"fish", "bash"}
  BY DEF Cat!ShellNames, Cat!Shells
<1>5. ASSUME Cat!Available("exec") PROVE Cat!Shell \in cat_registered
  <2>1. PICK S \in SUBSET {1, 2} : S = {i \in DOMAIN Cat!Shells : Cat!Shells[i] \in cat_registered}
    <3>1. DOMAIN Cat!Shells = 1..2
      BY DEF Cat!Shells
    <3>2. DOMAIN Cat!Shells = {1, 2}
      BY <3>1
    <3> QED BY <3>2
  <2>2. S # {}
    BY <1>5, <2>1 DEF Cat!Available, Cat!ShellNames
  <2>3. Cat!Min(S) \in S
    BY <2>1, <2>2 DEF Cat!Min
  <2> QED BY <2>1, <2>3 DEF Cat!Shell
<1>6. \A cap \in form.tools : Cat!Resolved(cap) \subseteq cat_registered
  BY <1>1, <1>2, <1>3, <1>5 DEF Cat!Available
<1>7. Cat!Ambient \subseteq cat_registered /\ Cat!Ambient \cap Cat!ShellNames = {}
  BY DEF Cat!Ambient, Cat!Owned
<1>u. PICK U : U = UNION {Cat!Resolved(cap) : cap \in form.tools}
  OBVIOUS
<1>a. Cat!Allowlist(form) = U \cup Cat!Extra(form) \cup (IF "exec" \in form.tools THEN Cat!Ambient ELSE {})
  BY <1>u DEF Cat!Allowlist
<1>8. Cat!Allowlist(form) \subseteq cat_registered
  <2>1. U \subseteq cat_registered
    BY <1>u, <1>6
  <2>2. Cat!Extra(form) \subseteq cat_registered
    BY DEF Cat!Compilable
  <2> QED BY <1>7, <1>a, <2>1, <2>2
<1>9. \A cap \in form.tools : cap # "exec" => Cat!Resolved(cap) \cap Cat!ShellNames = {} /\ Cat!Resolved(cap) \subseteq Cat!Owned
  BY <1>1, <1>3, <1>4 DEF Cat!Owned
<1>10. \A cap \in form.tools : Cat!Resolved(cap) \cap Cat!ShellNames \subseteq {Cat!Shell}
  BY <1>1, <1>3, <1>9
<1>11. ASSUME "exec" \notin form.tools
       PROVE  /\ Cat!Allowlist(form) \cap Cat!ShellNames \subseteq Cat!Extra(form)
              /\ Cat!Allowlist(form) \ Cat!Owned \subseteq Cat!Extra(form)
  <2>1. U \cap Cat!ShellNames = {} /\ U \subseteq Cat!Owned
    BY <1>u, <1>9, <1>11
  <2> QED BY <1>11, <1>a, <2>1
<1>12. Cat!Allowlist(form) \cap Cat!ShellNames \subseteq {Cat!Shell} \cup Cat!Extra(form)
  <2>1. U \cap Cat!ShellNames \subseteq {Cat!Shell}
    BY <1>u, <1>10
  <2> QED BY <1>7, <1>a, <2>1
<1> QED BY <1>8, <1>11, <1>12

LEMMA FilesStay ==
  ASSUME cat_builtin' = cat_builtin, cat_user' = cat_user
  PROVE  /\ FilesAre => FilesAre'
         /\ Cat!LayersValid <=> Cat!LayersValid'
         /\ Merged' = Merged
         /\ Cat!GraphValid(Merged) <=> Cat!GraphValid(Merged)'
<1>1. FilesAre => FilesAre'
  BY DEF FilesAre
<1>2. Cat!LayersValid <=> Cat!LayersValid'
  BY DEF Cat!LayersValid
<1>3. Merged' = Merged
  BY DEF Merged, Cat!Defined, Cat!Layered
<1>4. Cat!GraphValid(Merged) <=> Cat!GraphValid(Merged)'
  BY <1>3
<1> QED BY <1>1, <1>2, <1>3, <1>4

LEMMA NextCatalog == ASSUME CatInv, [Cat!Next]_cat_vars PROVE CatInv'
<1>1. CASE Cat!Load
  <2>1. FilesAre' /\ (Cat!LayersValid <=> Cat!LayersValid') /\ Merged' = Merged
        /\ (Cat!GraphValid(Merged) <=> Cat!GraphValid(Merged)')
    BY <1>1, FilesStay DEF Cat!Load, CatInv
  <2>2. \A id \in CatalogIds : cat_granted[id] = NoField
    BY <1>1 DEF Cat!Load, CatInv, GrantedRight, Cat!Loaded
  <2>3. \/ cat_catalog' = Refused /\ ~(Cat!LayersValid /\ Cat!GraphValid(Merged))
        \/ cat_catalog' = Merged /\ Cat!LayersValid /\ Cat!GraphValid(Merged)
    BY <1>1 DEF Cat!Load, Merged
  <2> QED BY <1>1, <2>1, <2>2, <2>3 DEF Cat!Load, CatInv
<1>2. ASSUME NEW n \in CatalogNames, Cat!Register(n) PROVE CatInv'
  <2>1. FilesAre' /\ (Cat!LayersValid <=> Cat!LayersValid') /\ Merged' = Merged
        /\ (Cat!GraphValid(Merged) <=> Cat!GraphValid(Merged)')
    BY <1>2, FilesStay DEF Cat!Register, CatInv
  <2>2. \A id \in CatalogIds : GrantedRight(id) => GrantedRight(id)'
    BY <1>2 DEF Cat!Register, GrantedRight, Cat!Loaded
  <2> QED BY <1>2, <2>1, <2>2 DEF Cat!Register, CatInv
<1>3. ASSUME NEW id \in CatalogIds, Cat!Mount(id) PROVE CatInv'
  <2>1. FilesAre' /\ (Cat!LayersValid <=> Cat!LayersValid') /\ Merged' = Merged
        /\ (Cat!GraphValid(Merged) <=> Cat!GraphValid(Merged)')
    BY <1>3, FilesStay DEF Cat!Mount, CatInv
  <2>2. \A i \in CatalogIds : i # id => cat_granted'[i] = cat_granted[i] /\ (GrantedRight(i) => GrantedRight(i)')
    BY <1>3 DEF Cat!Mount, GrantedRight, Cat!Loaded, CatInv
  <2>3. CASE ~Cat!Compilable(cat_catalog[id].child)
    <3>1. cat_granted'[id] = NoField
      BY <1>3, <2>3 DEF Cat!Mount, CatInv
    <3> QED BY <1>3, <2>1, <2>2, <3>1 DEF Cat!Mount, CatInv
  <2>4. CASE Cat!Compilable(cat_catalog[id].child)
    <3>1. PICK form : form = cat_catalog[id].child /\ form # NoField
      BY <1>3 DEF Cat!Mount
    <3>2. id \in Cat!Defined /\ form = Cat!Layered(id).child /\ Cat!LayersValid /\ FilesAre
      BY <1>3, <3>1 DEF Cat!Mount, Cat!Loaded, CatInv, Merged
    <3>3. Formed(form)
      BY <3>1, <3>2, LayeredForm
    <3>4. cat_granted'[id] = Cat!Allowlist(form) /\ cat_catalog' = cat_catalog /\ cat_registered' = cat_registered
          /\ Cat!Loaded /\ id \in DOMAIN cat_catalog
      BY <1>3, <2>4, <3>1 DEF Cat!Mount, CatInv
    <3>5. GrantedRight(id)'
      BY <2>4, <3>1, <3>3, <3>4, GivenRight DEF GrantedRight, Cat!Loaded
    <3> QED BY <1>3, <2>1, <2>2, <3>5 DEF Cat!Mount, CatInv
  <2> QED BY <2>3, <2>4
<1>4. CASE UNCHANGED cat_vars
  <2>1. FilesAre' /\ (Cat!LayersValid <=> Cat!LayersValid') /\ Merged' = Merged
        /\ (Cat!GraphValid(Merged) <=> Cat!GraphValid(Merged)')
    BY <1>4, FilesStay DEF cat_vars, CatInv
  <2>2. \A id \in CatalogIds : GrantedRight(id) => GrantedRight(id)'
    BY <1>4 DEF cat_vars, GrantedRight, Cat!Loaded
  <2> QED BY <1>4, <2>1, <2>2 DEF cat_vars, CatInv
<1> QED BY <1>1, <1>2, <1>3, <1>4 DEF Cat!Next

LEMMA FewerNames ==
  ASSUME NEW P, IsFiniteSet(P), NEW f, NEW i \in P, NEW j \in P, i # j, f[i] = f[j]
  PROVE  Cardinality({f[k] : k \in P}) < Cardinality(P)
<1>1. PICK T : T = {f[k] : k \in P}
  OBVIOUS
<1>2. PICK g : g = [k \in P |-> f[k]]
  OBVIOUS
<1>3. g \in Surjection(P, T)
  BY <1>1, <1>2 DEF Surjection
<1>4. g \notin Injection(P, T)
  BY <1>2 DEF Injection, IsInjective
<1>5. IsFiniteSet(T) /\ Cardinality(T) <= Cardinality(P) /\ Cardinality(T) # Cardinality(P)
  BY <1>3, <1>4, FS_Surjection
<1>6. Cardinality(T) \in Nat /\ Cardinality(P) \in Nat
  BY <1>5, FS_CardinalityType
<1> QED BY <1>1, <1>5, <1>6

LEMMA MergedIds ==
  IsFiniteSet(DOMAIN Merged) /\ DOMAIN Merged \subseteq CatalogIds
<1>1. DOMAIN Merged \in SUBSET CatalogIds
  BY DEF Merged, Cat!Defined
<1> QED BY <1>1, CatalogIsFinite, FS_Subset

LEMMA EndsHold == ASSUME CatInv PROVE Cat!DelegationEnds
<1>1. ASSUME Cat!Loaded, NEW i \in DOMAIN cat_catalog
      PROVE  /\ cat_catalog[i].children \subseteq DOMAIN cat_catalog
             /\ i \notin Cat!Reach(cat_catalog, i)
             /\ \A c \in cat_catalog[i].children : cat_catalog[c].child # NoField
  <2>1. cat_catalog = Merged /\ Cat!GraphValid(cat_catalog)
    BY <1>1 DEF CatInv, Cat!Loaded
  <2>2. Graph(cat_catalog) /\ Cat!Acyclic(cat_catalog)
    BY <2>1, MergedIds DEF Cat!GraphValid, Graph
  <2>3. EndsWithin(cat_catalog, i, DOMAIN cat_catalog)
    BY <1>1, <2>2, SearchTells
  <2> QED BY <1>1, <2>1, <2>3, ReachEnds DEF Cat!GraphValid
<1>2. ASSUME cat_catalog = Refused, Cat!LayersValid, NEW d, d = Merged
      PROVE  \/ \E i \in DOMAIN d : \E c \in d[i].children :
                  IF c \in DOMAIN d THEN d[c].child = NoField ELSE TRUE
             \/ \E i \in DOMAIN d : i \in Cat!Reach(d, i)
             \/ {d[i].main.preset : i \in Cat!PresetIds(d)} \cap Cat!Reserved # {}
             \/ Cardinality({d[i].main.preset : i \in Cat!PresetIds(d)}) < Cardinality(Cat!PresetIds(d))
  <2>1. ~Cat!GraphValid(d)
    BY <1>2, MergedIds, RefusalToldApart DEF CatInv
  <2>2. CASE ~ \A i \in Cat!PresetIds(d) : d[i].main.preset \notin Cat!Reserved
    BY <2>2
  <2>3. CASE ~ \A i, j \in Cat!PresetIds(d) : d[i].main.preset = d[j].main.preset => i = j
    <3>1. PICK i \in Cat!PresetIds(d), j \in Cat!PresetIds(d) : i # j /\ d[i].main.preset = d[j].main.preset
      BY <2>3
    <3>2. PICK P : P = Cat!PresetIds(d)
      OBVIOUS
    <3>3. PICK f : f = [k \in P |-> d[k].main.preset]
      OBVIOUS
    <3>4. IsFiniteSet(P)
      <4>1. P \in SUBSET DOMAIN d
        BY <3>2 DEF Cat!PresetIds
      <4> QED BY <1>2, <4>1, MergedIds, FS_Subset
    <3>5. i \in P /\ j \in P /\ f[i] = f[j]
      BY <3>1, <3>2, <3>3
    <3>6. Cardinality({f[k] : k \in P}) < Cardinality(P)
      BY <3>1, <3>4, <3>5, FewerNames
    <3>7. {f[k] : k \in P} = {d[k].main.preset : k \in P}
      BY <3>3
    <3> QED BY <3>2, <3>6, <3>7
  <2>4. CASE ~ \A i \in DOMAIN d : \A c \in d[i].children : c \in DOMAIN d /\ d[c].child # NoField
    BY <2>4
  <2>5. CASE /\ \A i \in DOMAIN d : \A c \in d[i].children : c \in DOMAIN d /\ d[c].child # NoField
             /\ ~Cat!Acyclic(d)
    <3>1. Graph(d) /\ DOMAIN d \subseteq CatalogIds
      BY <1>2, <2>5, MergedIds DEF Graph
    <3>2. PICK i \in DOMAIN d : Reaches(d, i, i)
      BY <2>5, <3>1, SearchTells
    <3> QED BY <3>1, <3>2, ReachFinds
  <2> QED BY <2>1, <2>2, <2>3, <2>4, <2>5 DEF Cat!GraphValid
<1> QED BY <1>1, <1>2, CatalogCounts DEF Cat!DelegationEnds, Merged

LEMMA ScopeHeld == ASSUME CatInv PROVE Cat!ScopeHolds
<1> SUFFICES ASSUME Cat!Loaded, NEW i \in DOMAIN cat_catalog, cat_catalog[i].child # NoField,
                    cat_granted[i] # NoField, Cat!HasScope(cat_catalog[i].child)
             PROVE  /\ cat_granted[i] \cap Cat!ShellNames = {}
                    /\ cat_granted[i] \ Cat!Owned \subseteq Cat!Extra(cat_catalog[i].child)
  BY DEF Cat!ScopeHolds
<1>1. cat_catalog = Merged /\ Cat!LayersValid /\ FilesAre /\ i \in Cat!Defined /\ i \in CatalogIds
  BY DEF CatInv, Cat!Loaded, Merged, Cat!Defined
<1>2. PICK form : form = cat_catalog[i].child /\ form = Cat!Layered(i).child
  BY <1>1 DEF Merged
<1>3. Cat!Enforceable(form) /\ Cat!HasScope(form)
  BY <1>1, <1>2, LayeredForm
<1>4. GrantedRight(i)
  BY <1>1 DEF CatInv
<1>5. "exec" \notin form.tools /\ Cat!Extra(form) \cap Cat!ShellNames = {}
  BY <1>3 DEF Cat!Enforceable, Cat!Extra
<1> QED BY <1>2, <1>4, <1>5 DEF GrantedRight

LEMMA ShellOne == ASSUME CatInv PROVE Cat!OneShell
<1> SUFFICES ASSUME Cat!Loaded, NEW i \in DOMAIN cat_catalog, cat_catalog[i].child # NoField, cat_granted[i] # NoField
             PROVE  Cardinality(cat_granted[i] \cap (Cat!ShellNames \ Cat!Extra(cat_catalog[i].child))) <= 1
  BY CatalogCounts DEF Cat!OneShell
<1>1. i \in CatalogIds
  BY DEF CatInv, Cat!Loaded, Merged, Cat!Defined
<1>2. PICK shell : cat_granted[i] \cap Cat!ShellNames \subseteq {shell} \cup Cat!Extra(cat_catalog[i].child)
  BY <1>1 DEF CatInv, GrantedRight
<1>3. PICK S : S = cat_granted[i] \cap (Cat!ShellNames \ Cat!Extra(cat_catalog[i].child))
  OBVIOUS
<1>4. S \in SUBSET {shell}
  BY <1>2, <1>3
<1>5. IsFiniteSet({shell}) /\ Cardinality({shell}) = 1
  BY FS_Singleton
<1>6. Cardinality(S) <= 1
  BY <1>4, <1>5, FS_Subset
<1> QED BY <1>3, <1>6

LEMMA TypesHeld == ASSUME CatInv PROVE Cat!TypeOK
<1>1. cat_catalog \in {NoField, Refused} \/ DOMAIN cat_catalog \subseteq CatalogIds
  BY MergedIds DEF CatInv
<1> QED BY <1>1 DEF CatInv, FilesAre, Cat!TypeOK, GrantedRight

\* In every behaviour, for any ids, files and tool names: the catalog accepts
\* exactly the definitions whose delegations end, and a form whose writes are
\* confined never gets a shell, nor two shells unasked (assertAcyclic,
\* loadCatalog, compileAllowlist).
THEOREM CatalogAccepts == AllSpec => []CatalogSound
<1>1. AllInit => CatInv
  BY InitCatalog DEF AllInit
<1>2. CatInv /\ [AllNext]_all => CatInv'
  BY NextCatalog DEF AllNext, all
<1>3. CatInv => CatalogSound
  BY EndsHold, ScopeHeld, ShellOne, TypesHeld DEF CatalogSound
<1> QED BY <1>1, <1>2, <1>3, PTL DEF AllSpec
=============================================================================
