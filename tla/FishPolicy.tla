---------------------------- MODULE FishPolicy -----------------------------
(***************************************************************************)
(* The two tool policies of the fish bundle: "fish" (policy.js) hides the  *)
(* bash tool an agent inherits from its preset and offers fish instead,    *)
(* "deny" (terminal-tools.js) takes the terminal tools away.  Both follow  *)
(* the host's events, and every registration they add or drop fires        *)
(* tools/change synchronously, so that their handlers run inside each      *)
(* other.  `stack` is the call stack of one such dispatch, the running     *)
(* frame last; host events happen when it is empty.                        *)
(***************************************************************************)
EXTENDS Naturals, Sequences, SequencesExt

CONSTANTS Agents,
          Presets, Bash, Fish,  \* presets: the form of their bash tool ("none",
                      \* "shot", "persistent") and whether they show fish
          Stubborn,   \* what an agent registers itself: "bash", "prompt" or "no"
          MaxEvents,  \* bound on host events
          MaxMeddles  \* bound on other plugins' switches during one dispatch

Policies == <<"fish", "deny">>

VARIABLES preset,      \* the preset each agent is composed under
          listed,      \* agents the host's agents service lists
          known,       \* the terminal tools are registered in this profile
          mounted,     \* policies that are mounted
          regs,        \* registrations in force per agent: how many of each
          own,         \* what a policy installed for an agent (states, restrictions)
          live,        \* liveAgents
          installing, removed, reconciling, again,  \* the policies' guards
          stack, events, meddles,
          missed       \* agents switched where no install looks again (history)

vars == <<preset, listed, known, mounted, regs, own, live, installing, removed,
          reconciling, again, stack, events, meddles, missed>>

outer == <<preset, listed, known, mounted, events, meddles>>
host == <<outer, missed>>
guards == <<installing, removed, reconciling, again>>

Regs == {"bash", "prompt", "pfish", "terminals"}

Nothing == [key |-> "none", regs |-> <<>>]

P == ToSet(Policies)

TypeOK ==
  /\ preset \in [Agents -> Presets] /\ listed \subseteq Agents /\ known \in BOOLEAN
  /\ mounted \subseteq P /\ regs \in [Agents -> [Regs -> 0..2]]
  /\ \A p \in P, a \in Agents :
       /\ own[p][a].key \in Presets \cup {"none"} /\ ToSet(own[p][a].regs) \subseteq Regs
  /\ live \in [P -> SUBSET Agents] /\ installing \in [P -> SUBSET Agents]
  /\ removed \in [P -> SUBSET Agents]
  /\ reconciling \in [P -> BOOLEAN] /\ again \in [P -> BOOLEAN]
  /\ events \in 0..MaxEvents /\ meddles \in 0..MaxMeddles /\ missed \subseteq Agents

Init ==
  /\ preset \in [Agents -> Presets] /\ listed = {} /\ known = FALSE /\ mounted = {}
  /\ regs = [a \in Agents |-> [r \in Regs |-> 0]]
  /\ own = [p \in P |-> [a \in Agents |-> Nothing]]
  /\ live = [p \in P |-> {}] /\ installing = [p \in P |-> {}]
  /\ removed = [p \in P |-> {}] /\ reconciling = [p \in P |-> FALSE]
  /\ again = [p \in P |-> FALSE] /\ stack = <<>> /\ events = 0 /\ meddles = 0
  /\ missed = {}

---------------------------------------------------------------------------
(* Frames.                                                                 *)

\* An event on its way to the policies that have not heard of it yet.
Notify(op, a) == [op |-> op, a |-> a, left |-> Policies]
Change == Notify("change", "none")
Round(p, catchUp) ==
  [op |-> "round", p |-> p, left |-> SetToSeq(listed), catchUp |-> catchUp]
Teardown(p) == [op |-> "teardown", p |-> p, left |-> SetToSeq(live[p])]

\* A frame that works on the registrations of one agent: what it still has to
\* drop, what it then has to add, and what comes after; `made` is what this very
\* call has added.
Work(op, p, a, drops, adds, then) ==
  [op |-> op, p |-> p, a |-> a, key |-> preset[a],
   drops |-> drops, adds |-> adds, then |-> then, made |-> <<>>]

Top == Last(stack)
Below == Front(stack)
Is(op) == stack # <<>> /\ Top.op = op
Works == Is("install") \/ Is("uninstall")
Comes(then) == Works /\ Top.drops = <<>> /\ Top.adds = <<>> /\ Top.then = then

---------------------------------------------------------------------------
(* Installing and uninstalling.                                            *)

\* The guards and the fast path of installFishPolicy and install.
Skips(p, a) ==
  \/ a \in installing[p] \/ a \in removed[p]
  \/ own[p][a] # Nothing /\ (p = "deny" \/ own[p][a].key = preset[a])

\* install(a), called by the frame f, which is `rest` when it goes on.
CallInstall(p, a, rest) ==
  IF Skips(p, a)
  THEN stack' = Append(Below, rest) /\ UNCHANGED <<installing, missed>>
  ELSE /\ missed' = IF p = "fish" THEN missed \ {a} ELSE missed
       /\ installing' = [installing EXCEPT ![p] = @ \cup {a}]
       /\ stack' = Below \o <<rest,
            IF p = "deny" THEN Work("install", p, a, <<>>, <<"terminals">>, "commit")
            ELSE Work("install", p, a, own[p][a].regs, <<>>, "probe")>>

\* The state is forgotten first, then its registrations are dropped.
CallUninstall(p, a, rest) ==
  /\ own' = [own EXCEPT ![p][a] = Nothing]
  /\ stack' = Below \o <<rest, Work("uninstall", p, a, own[p][a].regs, <<>>, "done")>>

\* What an agent resolves for a tool, its own registrations included.
SeesBash(a) == Bash[preset[a]] # "none" /\ regs[a]["bash"] = 0
SeesFish(a) == Fish[preset[a]] \/ regs[a]["pfish"] > 0

Wanted(a) ==
  IF Bash[preset[a]] = "persistent" THEN <<"pfish", "bash", "prompt">> ELSE <<"bash", "prompt">>

\* tools.restrict or the prompt section throws.
Refused(a, r) == Stubborn[a] = r \/ (r = "terminals" /\ ~known)

Probe ==
  LET f == Top IN
  /\ Comes("probe")
  /\ stack' = Append(Below, IF SeesBash(f.a) /\ SeesFish(f.a)
                            THEN [f EXCEPT !.adds = Wanted(f.a), !.then = "commit"]
                            ELSE [f EXCEPT !.then = "abandon"])
  /\ UNCHANGED <<host, regs, own, live, guards>>

Add ==
  LET f == Top  r == Head(f.adds) IN
  /\ Works /\ f.adds # <<>> /\ ~Refused(f.a, r)
  /\ regs' = [regs EXCEPT ![f.a][r] = @ + 1]
  /\ stack' = Below \o <<[f EXCEPT !.adds = Tail(@), !.made = Append(@, r)], Change>>
  /\ UNCHANGED <<host, own, live, guards>>

\* A refusal rolls back what this call made, the latest first, but the
\* persistent fish, which was made before the others, after them.
RolledBack(made) ==
  IF made # <<>> /\ Head(made) = "pfish" THEN Append(Reverse(Tail(made)), "pfish")
  ELSE Reverse(made)

AddRefused ==
  LET f == Top IN
  /\ Works /\ f.adds # <<>> /\ Refused(f.a, Head(f.adds))
  /\ stack' = Append(Below, [f EXCEPT !.drops = RolledBack(f.made), !.adds = <<>>,
                                      !.then = "abandon", !.made = <<>>])
  /\ UNCHANGED <<host, regs, own, live, guards>>

\* A disposer runs once; dropping a registration fires tools/change too.
Drop ==
  LET f == Top  r == Head(f.drops) IN
  /\ Works /\ f.drops # <<>>
  /\ regs' = [regs EXCEPT ![f.a][r] = @ - 1]
  /\ stack' = Below \o <<[f EXCEPT !.drops = Tail(@)], Change>>
  /\ UNCHANGED <<host, own, live, guards>>

Uninstalled ==
  /\ Comes("done") /\ stack' = Below
  /\ UNCHANGED <<host, regs, own, live, guards>>

\* The last word of an install: its state is set, or forgotten.
Installed ==
  LET f == Top IN
  /\ Comes("commit") \/ Comes("abandon")
  /\ own' = [own EXCEPT ![f.p][f.a] =
               IF f.then = "commit" THEN [key |-> f.key, regs |-> Reverse(f.made)]
               ELSE Nothing]
  /\ installing' = [installing EXCEPT ![f.p] = @ \ {f.a}]
  /\ stack' = Below
  /\ UNCHANGED <<host, regs, live, removed, reconciling, again>>

---------------------------------------------------------------------------
(* Rounds, and the events they answer.                                     *)

\* One agent of a round.
RoundInstalls ==
  LET f == Top  a == Head(f.left) IN
  /\ Is("round") /\ f.left # <<>>
  /\ live' = [live EXCEPT ![f.p] = @ \cup {a}]
  /\ CallInstall(f.p, a, [f EXCEPT !.left = Tail(@)])
  /\ UNCHANGED <<outer, regs, own, removed, reconciling, again>>

\* The end of a round; changes that arrived meanwhile get one more round.
BugMore(p) == FALSE
More(p) == again[p] /\ ~Top.catchUp

RoundEnds ==
  LET p == Top.p IN
  /\ Is("round") /\ Top.left = <<>>
  /\ again' = [again EXCEPT ![p] = FALSE]
  /\ reconciling' = [reconciling EXCEPT ![p] = More(p)]
  /\ stack' = IF More(p) THEN Append(Below, Round(p, TRUE)) ELSE Below
  /\ UNCHANGED <<host, regs, own, live, installing, removed>>

Heard == [Top EXCEPT !.left = Tail(@)]

\* The next listener of an event is not mounted, or there is none.
Unheard ==
  /\ Is("change") \/ Is("created") \/ Is("disposed")
  /\ \/ /\ Top.left = <<>> /\ stack' = Below
        /\ listed' = IF Is("disposed") THEN listed \ {Top.a} ELSE listed
     \/ /\ Top.left # <<>> /\ Head(Top.left) \notin mounted
        /\ stack' = Append(Below, Heard) /\ UNCHANGED listed
  /\ UNCHANGED <<preset, known, mounted, events, meddles, missed, regs, own, live, guards>>

\* tools/change: a round, unless one is running.
OnChange ==
  LET p == Head(Top.left) IN
  /\ Is("change") /\ Top.left # <<>> /\ p \in mounted
  /\ IF reconciling[p]
     THEN /\ again' = [again EXCEPT ![p] = TRUE] /\ stack' = Append(Below, Heard)
          /\ UNCHANGED reconciling
     ELSE /\ reconciling' = [reconciling EXCEPT ![p] = TRUE] /\ UNCHANGED again
          /\ stack' = Below \o <<Heard, Round(p, FALSE)>>
  /\ UNCHANGED <<host, regs, own, live, installing, removed>>

OnCreated ==
  LET p == Head(Top.left) IN
  /\ Is("created") /\ Top.left # <<>> /\ p \in mounted
  /\ live' = [live EXCEPT ![p] = @ \cup {Top.a}]
  /\ CallInstall(p, Top.a, Heard)
  /\ UNCHANGED <<outer, regs, own, removed, reconciling, again>>

OnDisposed ==
  LET p == Head(Top.left) IN
  /\ Is("disposed") /\ Top.left # <<>> /\ p \in mounted
  /\ live' = [live EXCEPT ![p] = @ \ {Top.a}]
  /\ removed' = [removed EXCEPT ![p] = @ \cup {Top.a}]
  /\ CallUninstall(p, Top.a, Heard)
  /\ UNCHANGED <<host, regs, installing, reconciling, again>>

\* The plugin's teardown, one live agent after the other.
TeardownAgent ==
  LET f == Top  a == Head(f.left) IN
  /\ Is("teardown") /\ f.left # <<>>
  /\ removed' = IF f.p = "fish" THEN [removed EXCEPT !["fish"] = @ \cup {a}] ELSE removed
  /\ CallUninstall(f.p, a, [f EXCEPT !.left = Tail(@)])
  /\ UNCHANGED <<host, regs, live, installing, reconciling, again>>

TeardownEnds ==
  /\ Is("teardown") /\ Top.left = <<>>
  /\ live' = [live EXCEPT ![Top.p] = {}] /\ stack' = Below
  /\ UNCHANGED <<host, regs, own, guards>>

---------------------------------------------------------------------------
(* The host.                                                               *)

Event ==
  /\ stack = <<>> /\ events < MaxEvents /\ events' = events + 1 /\ meddles' = 0
  /\ UNCHANGED <<regs, own, live, installing, again, missed>>

\* A policy covers the agents that exist.  The tables of "deny" are its mount's
\* own.  Those of "fish" belong to the module: a plugin that is enabled again
\* finds them as it left them, one whose module was reloaded finds them empty.
Mount(p) ==
  /\ Event /\ p \notin mounted
  /\ mounted' = mounted \cup {p}
  /\ \/ removed' = [removed EXCEPT ![p] = {}]
     \/ p = "fish" /\ UNCHANGED removed
  /\ reconciling' = [reconciling EXCEPT ![p] = TRUE]
  /\ stack' = <<Round(p, FALSE)>>
  /\ UNCHANGED <<preset, listed, known>>

\* Unload: the listeners are deaf before the registrations are dropped.
Unmount(p) ==
  /\ Event /\ p \in mounted
  /\ mounted' = mounted \ {p} /\ stack' = <<Teardown(p)>>
  /\ UNCHANGED <<preset, listed, known, reconciling, removed>>

Publish(a) ==
  /\ Event /\ a \notin listed /\ \A p \in P : a \notin removed[p]
  /\ listed' = listed \cup {a} /\ stack' = <<Notify("created", a)>>
  /\ UNCHANGED <<preset, known, mounted, reconciling, removed>>

\* The service may list the dying agent until the listeners have returned (Unheard).
Dispose(a) ==
  /\ Event /\ a \in listed
  /\ listed' \in {listed, listed \ {a}} /\ stack' = <<Notify("disposed", a)>>
  /\ UNCHANGED <<preset, known, mounted, reconciling, removed>>

SwitchPreset(a) ==
  /\ Event /\ a \in listed
  /\ \E new \in Presets \ {preset[a]} : preset' = [preset EXCEPT ![a] = new]
  /\ stack' = <<Change>>
  /\ UNCHANGED <<listed, known, mounted, reconciling, removed>>

RegisterTerminals ==
  /\ Event /\ ~known /\ known' = TRUE /\ stack' = <<Change>>
  /\ UNCHANGED <<preset, listed, mounted, reconciling, removed>>

\* What the fish policy does not look at again when a is switched to `new` during a
\* dispatch: the last round has passed it by; rounds skip it, for its own
\* agent/created is installing it; or its install, under way or noted, was begun
\* for that very preset.
PassedBy(a) == \E i \in DOMAIN stack : LET f == stack[i] IN
  /\ f.op \in {"round", "install"} /\ f.p = "fish"
  /\ IF f.op = "round" THEN f.catchUp /\ a \notin ToSet(f.left)
     ELSE f.a = a /\ stack[1].op = "created" /\ i = 2
BegunFor(a, new) ==
  \/ own["fish"][a].key = new
  \/ \E f \in ToSet(stack) : f.op = "install" /\ f.p = "fish" /\ f.a = a /\ f.key = new

\* Another plugin answers a tools/change with a preset switch.
Meddle ==
  /\ Is("change") /\ meddles < MaxMeddles /\ meddles' = meddles + 1
  /\ \E a \in listed : \E new \in Presets \ {preset[a]} :
       /\ preset' = [preset EXCEPT ![a] = new]
       /\ missed' = IF PassedBy(a) \/ BegunFor(a, new) THEN missed \cup {a} ELSE missed
  /\ stack' = Append(stack, Change)
  /\ UNCHANGED <<listed, known, mounted, events, regs, own, live, guards>>

Step ==
  \/ Probe \/ Add \/ AddRefused \/ Drop \/ Uninstalled \/ Installed
  \/ RoundInstalls \/ RoundEnds \/ Unheard \/ OnChange \/ OnCreated \/ OnDisposed
  \/ TeardownAgent \/ TeardownEnds

Idle == stack = <<>> /\ events = MaxEvents /\ UNCHANGED vars

Next ==
  \/ Step \/ Meddle \/ Idle \/ RegisterTerminals
  \/ \E p \in P : Mount(p) \/ Unmount(p)
  \/ \E a \in Agents : Publish(a) \/ Dispose(a) \/ SwitchPreset(a)

Spec == Init /\ [][Next]_vars

---------------------------------------------------------------------------
(* Properties.                                                             *)

\* What an agent must have when nothing is running.  The fish policy covers no
\* agent it has once uninstalled, until its module is reloaded.
Serves(p, a) == p \in mounted /\ a \in listed
Covers(a) == Serves("fish", a) /\ a \notin removed["fish"]
Swapped(a) == /\ Bash[preset[a]] # "none" /\ Fish[preset[a]]
              /\ Stubborn[a] \notin {"bash", "prompt"}
SwapOf(a) == IF Swapped(a) THEN ToSet(Wanted(a)) ELSE {}
Terminals(a) == IF Serves("deny", a) /\ known THEN {"terminals"} ELSE {}

\* The registrations of an agent are these, each once.
Has(a, tools) == \A r \in Regs : regs[a][r] = IF r \in tools THEN 1 ELSE 0
Swaps == {{}, {"bash", "prompt"}, {"pfish", "bash", "prompt"}}

\* After a dispatch every agent has exactly the registrations its present preset
\* asks for, each once: bash is hidden only where fish takes its place, a
\* half-installed policy is rolled back, and nothing is left for an agent or a
\* plugin that is gone (installFishPolicy, reconcile, install).  Of an agent that
\* was switched where no install looked again it is the swap of some preset,
\* whole, or none.
Settled ==
  stack = <<>> => \A a \in Agents :
    IF Covers(a)
    THEN IF a \in missed THEN \E swap \in Swaps : Has(a, swap \cup Terminals(a))
         ELSE Has(a, SwapOf(a) \cup Terminals(a))
    ELSE Has(a, Terminals(a))

=============================================================================
