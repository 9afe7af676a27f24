--------------------------- MODULE ChildAuthority --------------------------
(***************************************************************************)
(* What a delegated child may do, over its whole life: the delegation that *)
(* fixes its tools (delegation.js), the composition parked for it and the  *)
(* agent/created listener that applies it (main-runtime.js), and the two   *)
(* durable facts a cold resume relies on, the identity sidecar             *)
(* (identity.js) and the authority record in the child's own log           *)
(* (child-authority.js).  Between them the settings change, the process    *)
(* crashes, the catalog changes over a restart, a log is forked and one of *)
(* the two facts is damaged.                                               *)
(***************************************************************************)
EXTENDS Naturals, FiniteSets

CONSTANTS Ids,            \* session ids of subagents
          Mains, Kids,    \* definitions with a main form, with a child form
          Edges,          \* allowedChildren of every definition
          Tools,          \* the whole surface of a composition
          Allow,          \* the compiled capabilities of each child form
          MaxDepth,       \* main.maxDepth
          MaxChanges,     \* bound on settings commits and catalog changes
          MaxDamage       \* bound on damaged facts

Agents == Mains \cup Kids
Delegating == "delegate"   \* the agent_* tools and delegate_batch

ASSUME GrantsAreTools == Allow \in [Kids -> SUBSET Tools] /\ Delegating \in Tools
ASSUME LimitsAreNumbers == MaxDepth \in Nat /\ MaxChanges \in Nat /\ MaxDamage \in Nat

None == "none"

VARIABLES policy,    \* what the settings and the catalog say of a definition
          up,        \* the process runs
          active,    \* mains with an activated top-level Agent
          phase,     \* where each child is
          mode,      \* one-shot or continuable, third-party ones are foreign
          granted,   \* what the delegation that created it authorised: ours to remember
          live,      \* liveIdentities
          parked,    \* child-composition's pending map
          sidecar, record,
          home,      \* the main whose preset the child runs in
          surface,   \* the tools the child sees
          changes, damage

vars == <<policy, up, active, phase, mode, granted, live, parked, sidecar, record,
          home, surface, changes, damage>>

\* `by` is what the caller really was, which only the properties know.
NoGrant == [agent |-> None, main |-> None, by |-> None, depth |-> 0, tools |-> {}]
Grants == [agent : Kids, main : Mains, by : Agents, depth : 1..MaxDepth, tools : SUBSET Tools]
\* A durable fact: not there, there but not to be trusted, or what it says.
Absent == [state |-> "absent", agent |-> None, main |-> None, tools |-> {}]
Invalid == [Absent EXCEPT !.state = "invalid"]
Says(g) == [state |-> "valid", agent |-> g.agent, main |-> g.main, tools |-> g.tools]
Identifies(g) == [Says(g) EXCEPT !.tools = {}]
Facts == {Absent, Invalid}
         \cup [state : {"valid"}, agent : Kids, main : Mains, tools : SUBSET Tools]

Running == {"created", "live"}

TypeOK ==
  /\ policy \in [Agents -> {"enabled", "disabled", "gone"}] /\ up \in BOOLEAN
  /\ active \subseteq Mains
  /\ phase \in [Ids -> {"unused", "provisioned", "created", "live", "cold", "over"}]
  /\ mode \in [Ids -> {None, "oneshot", "continuable", "foreign"}]
  /\ granted \in [Ids -> Grants \cup {NoGrant}]
  /\ live \subseteq Ids /\ parked \in [Ids -> Grants \cup {NoGrant}]
  /\ sidecar \in [Ids -> Facts] /\ record \in [Ids -> Facts]
  /\ home \in [Ids -> Mains \cup {None}] /\ surface \in [Ids -> SUBSET Tools]
  /\ changes \in 0..MaxChanges /\ damage \in 0..MaxDamage

Init ==
  /\ policy = [a \in Agents |-> "enabled"] /\ up = TRUE /\ active = {}
  /\ phase = [c \in Ids |-> "unused"] /\ mode = [c \in Ids |-> None]
  /\ granted = [c \in Ids |-> NoGrant] /\ live = {}
  /\ parked = [c \in Ids |-> NoGrant]
  /\ sidecar = [c \in Ids |-> Absent] /\ record = [c \in Ids |-> Absent]
  /\ home = [c \in Ids |-> None] /\ surface = [c \in Ids |-> {}]
  /\ changes = 0 /\ damage = 0

Enabled(a) == policy[a] = "enabled"

---------------------------------------------------------------------------
(* Delegation.                                                             *)

\* A top-level Agent is created only under an enabled definition; an
\* installation that fails is rolled back and vetoes it.
Activate(m) ==
  /\ up /\ m \notin active /\ Enabled(m)
  /\ active' = active \cup {m}
  /\ UNCHANGED <<policy, up, phase, mode, granted, live, parked, sidecar, record, home,
                 surface, changes, damage>>

\* Who calls, to the delegation: the live map for a one-shot child, the
\* sidecar for any other.
Identity(p) == IF p \in live THEN Identifies(granted[p]) ELSE sidecar[p]

\* The main of a call, under the settings of the moment.
CurrentMain(m) == Enabled(m)

ChildMayCall(p) ==
  /\ phase[p] = "live" /\ Delegating \in surface[p]
  /\ Identity(p).state = "valid" /\ Identity(p).main = home[p] /\ CurrentMain(home[p])
  /\ Enabled(Identity(p).agent)

\* The guard of a top-level Agent, at every call: a batch needs only some
\* child, a named tool asks about its own.
GuardAllows(m, k, batch) ==
  /\ CurrentMain(m) /\ MaxDepth > 0 /\ Edges[m] # {}
  /\ ~batch => k \in Edges[m] /\ Enabled(k)

Edge(m, a, k) == CurrentMain(m) /\ k \in Edges[a] /\ Enabled(k)

GrantOf(m, k, caller, d) ==
  [agent |-> k, main |-> m, by |-> caller, depth |-> d,
   tools |-> Allow[k] \cup (IF d < MaxDepth /\ Edges[k] # {} THEN {Delegating} ELSE {})]

\* A continuable child gets its sidecar before it exists; both kinds have
\* their composition parked under the reserved id.  A crash in between
\* leaves a sidecar nobody needs.
Provision(c, g, how) ==
  /\ phase[c] = "unused" /\ g.depth <= MaxDepth
  /\ phase' = [phase EXCEPT ![c] = "provisioned"]
  /\ mode' = [mode EXCEPT ![c] = how]
  /\ granted' = [granted EXCEPT ![c] = g]
  /\ home' = [home EXCEPT ![c] = g.main]
  /\ sidecar' = IF how = "continuable" THEN [sidecar EXCEPT ![c] = Identifies(g)] ELSE sidecar
  /\ parked' = [parked EXCEPT ![c] = g]
  /\ UNCHANGED <<policy, up, active, live, record, surface, changes, damage>>

DelegateFromMain(c, m, k, how) ==
  /\ up /\ m \in active
  /\ \E batch \in BOOLEAN : GuardAllows(m, k, batch) /\ (batch => how = "oneshot")
  /\ Edge(m, m, k)
  /\ Provision(c, GrantOf(m, k, m, 1), how)

DelegateFromChild(c, p, k, how) ==
  /\ up /\ ChildMayCall(p)
  /\ LET who == Identity(p) IN
       /\ Edge(who.main, who.agent, k)
       /\ Provision(c, GrantOf(who.main, k, granted[p].agent, granted[p].depth + 1), how)

---------------------------------------------------------------------------
(* Composition, in the agent/created listener.                             *)

\* A fresh child takes what was parked for it.
Fresh(c) ==
  IF Enabled(parked[c].agent)
  THEN /\ record' = [record EXCEPT ![c] = Says(parked[c])]
       /\ surface' = [surface EXCEPT ![c] = parked[c].tools]
  ELSE /\ surface' = [surface EXCEPT ![c] = {}]
       /\ UNCHANGED record

\* Any other is rebuilt from its two facts.  A record is honoured only when
\* it is bound to the sidecar, to the main it is resumed under and to a
\* definition that is still enabled.
BugBound(c, m) ==
  /\ record[c].state = "valid" /\ sidecar[c].state = "valid"
  /\ record[c].agent = sidecar[c].agent
  /\ record[c].main = sidecar[c].main /\ sidecar[c].main = m
Bound(c, m) ==
  /\ record[c].state = "valid" /\ sidecar[c].state = "valid"
  /\ record[c].agent = sidecar[c].agent
  /\ record[c].main = sidecar[c].main
  /\ sidecar[c].main = m
  /\ Enabled(sidecar[c].agent)

NotOurs(c) == record[c].state = "absent" /\ sidecar[c].state = "absent"

Rebuilt(c, m) ==
  CASE NotOurs(c)  -> Tools
    [] Bound(c, m) -> record[c].tools
    [] OTHER       -> {}

Created(c) ==
  /\ phase[c] = "provisioned"
  /\ Fresh(c)
  /\ parked' = [parked EXCEPT ![c] = NoGrant]
  /\ phase' = [phase EXCEPT ![c] = "created"]
  /\ UNCHANGED <<policy, up, active, mode, granted, live, sidecar, home, changes, damage>>

\* startActivation returned the child.
Published(c) ==
  /\ phase[c] = "created"
  /\ phase' = [phase EXCEPT ![c] = "live"]
  /\ live' = IF mode[c] = "oneshot" THEN live \cup {c} ELSE live
  /\ UNCHANGED <<policy, up, active, mode, granted, parked, sidecar, record, home, surface,
                 changes, damage>>

\* startActivation rejected, a record that could not be written included:
\* the reservation and the sidecar are taken back, the manager keeps no child.
StartFails(c) ==
  /\ phase[c] \in {"provisioned", "created"}
  /\ phase' = [phase EXCEPT ![c] = "over"]
  /\ parked' = [parked EXCEPT ![c] = NoGrant]
  /\ sidecar' = [sidecar EXCEPT ![c] = Absent]
  /\ surface' = [surface EXCEPT ![c] = {}]
  /\ UNCHANGED <<policy, up, active, mode, granted, live, record, home, changes, damage>>

\* A one-shot child ends; an idle continuable one is disposed by the harness.
Retire(c) ==
  /\ phase[c] = "live"
  /\ phase' = [phase EXCEPT ![c] = IF mode[c] = "oneshot" THEN "over" ELSE "cold"]
  /\ live' = live \ {c}
  /\ surface' = [surface EXCEPT ![c] = {}]
  /\ UNCHANGED <<policy, up, active, mode, granted, parked, sidecar, record, home,
                 changes, damage>>

\* A message to a cold child rebuilds it, in the preset it is resumed under.
Materialise(c, m) ==
  /\ up /\ m \in active /\ phase[c] = "cold"
  /\ phase' = [phase EXCEPT ![c] = "live"]
  /\ home' = [home EXCEPT ![c] = m]
  /\ surface' = [surface EXCEPT ![c] = Rebuilt(c, m)]
  /\ UNCHANGED <<policy, up, active, mode, granted, live, parked, sidecar, record,
                 changes, damage>>

---------------------------------------------------------------------------
(* The rest of the world.                                                  *)

\* A subagent another plugin created: its log and our store know nothing of it.
ForeignChild(c) ==
  /\ phase[c] = "unused"
  /\ phase' = [phase EXCEPT ![c] = "cold"] /\ mode' = [mode EXCEPT ![c] = "foreign"]
  /\ UNCHANGED <<policy, up, active, granted, live, parked, sidecar, record, home, surface,
                 changes, damage>>

\* The session of a child of ours is copied under a new id.
Fork(c, f) ==
  /\ phase[c] \in {"live", "cold"} /\ mode[c] = "continuable" /\ phase[f] = "unused"
  /\ record[c].state # "absent"
  /\ phase' = [phase EXCEPT ![f] = "cold"] /\ mode' = [mode EXCEPT ![f] = "continuable"]
  /\ record' = [record EXCEPT ![f] = record[c]]
  /\ granted' = [granted EXCEPT ![f] = granted[c]]
  /\ UNCHANGED <<policy, up, active, live, parked, sidecar, home, surface, changes, damage>>

Commit(a) ==
  /\ changes < MaxChanges /\ policy[a] # "gone"
  /\ policy' = [policy EXCEPT ![a] = IF policy[a] = "enabled" THEN "disabled" ELSE "enabled"]
  /\ changes' = changes + 1
  /\ UNCHANGED <<up, active, phase, mode, granted, live, parked, sidecar, record, home,
                 surface, damage>>

\* A process that ends loses every map and every Agent.  A continuable child
\* it had created may be resumed by the next one.
Crash ==
  /\ up /\ up' = FALSE /\ active' = {} /\ live' = {}
  /\ parked' = [c \in Ids |-> NoGrant]
  /\ phase' = [c \in Ids |->
       CASE phase[c] \in Running /\ mode[c] # "oneshot" -> "cold"
         [] phase[c] \in Running /\ mode[c] = "oneshot" -> "over"
         [] phase[c] = "provisioned"                    -> "over"
         [] OTHER                                       -> phase[c]]
  /\ surface' = [c \in Ids |-> {}]
  /\ UNCHANGED <<policy, mode, granted, sidecar, record, home, changes, damage>>

\* The catalog is read at startup only: a definition may be gone from it.
Boot ==
  /\ ~up /\ up' = TRUE
  /\ \/ UNCHANGED <<policy, changes>>
     \/ \E a \in Agents :
          /\ changes < MaxChanges /\ changes' = changes + 1
          /\ policy' = [policy EXCEPT ![a] = IF policy[a] = "gone" THEN "enabled" ELSE "gone"]
  /\ UNCHANGED <<active, phase, mode, granted, live, parked, sidecar, record, home, surface,
                 damage>>

\* A truncated, hand-edited or migrated log; a corrupt sidecar; the sidecar
\* of another child in its place.
Damage(c) ==
  /\ damage < MaxDamage /\ phase[c] = "cold" /\ mode[c] # "foreign"
  /\ damage' = damage + 1
  /\ \/ /\ record[c].state = "valid" /\ sidecar[c].state # "absent" /\ UNCHANGED sidecar
        /\ \E r \in {Absent, Invalid} : record' = [record EXCEPT ![c] = r]
     \/ /\ record[c].state # "absent" /\ sidecar[c].state = "valid" /\ UNCHANGED record
        /\ \E s \in {Absent, Invalid} \cup {sidecar[o] : o \in Ids} :
             sidecar' = [sidecar EXCEPT ![c] = s]
  /\ UNCHANGED <<policy, up, active, phase, mode, granted, live, parked, home, surface,
                 changes>>

Next ==
  \/ \E m \in Mains : Activate(m)
  \/ \E c \in Ids : \E m \in Mains : \E k \in Kids : \E how \in {"oneshot", "continuable"} :
       DelegateFromMain(c, m, k, how)
  \/ \E c \in Ids : \E p \in Ids : \E k \in Kids : \E how \in {"oneshot", "continuable"} :
       DelegateFromChild(c, p, k, how)
  \/ \E c \in Ids : Created(c) \/ Published(c) \/ StartFails(c) \/ Retire(c)
                    \/ ForeignChild(c) \/ Damage(c)
  \/ \E c \in Ids : \E m \in Mains : Materialise(c, m)
  \/ \E c \in Ids : \E f \in Ids : Fork(c, f)
  \/ \E a \in Agents : Commit(a)
  \/ Crash \/ Boot

Spec == Init /\ [][Next]_vars

---------------------------------------------------------------------------
(* Properties.                                                             *)

\* A child of ours never sees a tool beyond what the delegation that created
\* it authorised, whatever crashed, was disabled, damaged or forked since;
\* a subagent that is not ours keeps its whole surface
\* (composeDelegatedChild's two sources and its fail-closed rules).
NeverWider ==
  \A c \in Ids : phase[c] \in Running =>
    IF mode[c] = "foreign" THEN surface[c] = Tools ELSE surface[c] \subseteq granted[c].tools

\* A child that comes up with tools comes up under an enabled definition and,
\* when it is resumed, in a preset of the main that owns it; one whose facts
\* were never touched gets exactly its own surface back.
Came(c) == phase[c] \notin Running /\ phase'[c] \in Running
MaterialisedRight ==
  [][\A c \in Ids : Came(c) /\ mode'[c] # "foreign" =>
       /\ surface'[c] # {} => Enabled(granted[c].agent) /\ home'[c] = granted[c].main
       /\ (/\ phase[c] = "cold" /\ damage = 0 /\ record[c].state = "valid"
           /\ sidecar[c].state = "valid" /\ home'[c] = granted[c].main
           /\ Enabled(granted[c].agent))
            => surface'[c] = granted[c].tools]_vars

\* Every delegation follows an edge of the agent the caller really is, under
\* the main it belongs to: an identity is never guessed, and one that was
\* damaged or exchanged cannot be used to delegate (resolveCallerIdentity).
EdgesHold ==
  \A c \in Ids : granted[c] # NoGrant =>
    /\ granted[c].agent \in Edges[granted[c].by]
    /\ granted[c].depth = 1 => granted[c].by = granted[c].main
=============================================================================
