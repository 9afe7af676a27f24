------------------------------ MODULE Catalog ------------------------------
(***************************************************************************)
(* What a deployment's agents are and may do: the definition files of two  *)
(* layers, each validated on its own (schema.js), merged per id and checked *)
(* as a graph (catalog.js, loadCatalog), and the tools a mounted form gets  *)
(* out of what the composition registers (tool-surface.js).                *)
(* Of a definition the model keeps the edges, the preset id and budget of   *)
(* the main form, and the child form's tools, extra tools, write scope,     *)
(* continuation and preferBackground.                                       *)
(***************************************************************************)
EXTENDS Naturals, FiniteSets, FiniteSetsExt

CONSTANTS Ids,          \* agent ids
          Inputs,       \* pairs of the two layers, each a function of Ids
          Names,        \* tool names a composition may register
          Absent,       \* a field or file that is not there
          Refused       \* a catalog the host refuses to start with

Reserved == {"standard"}                \* RESERVED_PRESET_IDS
Shells == <<"fish", "bash">>            \* SHELL_TOOL_NAMES
ShellNames == {Shells[i] : i \in DOMAIN Shells}
Forbidden == {"ralph"}                  \* FORBIDDEN_RUNTIME_TOOLS
OwnTools == {"agent_x"}                 \* the plugin's delegation surface
Capability == [c \in {"read", "write", "exec"} |->
  CASE c = "read"  -> [all |-> {"read"}, optional |-> {"read_image"}]
    [] c = "write" -> [all |-> {"write"}, optional |-> {}]
    [] c = "exec"  -> [all |-> {}, optional |-> {}]]
Owned == {"read", "read_image", "write"} \cup ShellNames

VARIABLES builtin, user,      \* the files of the two layers
          catalog,            \* what loadCatalog returned, Absent before
          registered,         \* the names the composition registers
          granted             \* the allowlist of every mounted child form

vars == <<builtin, user, catalog, registered, granted>>

---------------------------------------------------------------------------
(* One file.                                                               *)

HasScope(form) == form.scope \notin {Absent, "cancel"}
Enforceable(form) ==
  HasScope(form) => "exec" \notin form.tools
                    /\ (form.extra = Absent \/ form.extra \cap ShellNames = {})

ValidForm(form) ==
  /\ form.extra # Absent => form.extra \cap (Forbidden \cup OwnTools) = {}
  /\ form.keep = "yes" => form.cont = "optional"
  /\ Enforceable(form)

Valid(file) ==
  /\ file.main # Absent \/ file.child # Absent
  /\ file.child # Absent => ValidForm(file.child)

\* The validated copy spells out the defaults: a file without edges has none,
\* one without a budget has the default one, and keep = "no" is not kept.
Normalised(file) ==
  [children |-> IF file.children = Absent THEN {} ELSE file.children,
   main |-> IF file.main = Absent \/ file.main.budget # Absent THEN file.main
            ELSE [file.main EXCEPT !.budget = "default"],
   child |-> IF file.child = Absent \/ file.child.keep = "yes" THEN file.child
             ELSE [file.child EXCEPT !.keep = Absent]]

---------------------------------------------------------------------------
(* The two layers.                                                         *)

Over(base, patch) == IF patch = Absent THEN base ELSE patch

MergedForm(base, patch) ==
  IF patch = Absent \/ base = Absent THEN Over(base, patch)
  ELSE [tools |-> patch.tools, cont |-> patch.cont,
        extra |-> Over(base.extra, patch.extra), keep |-> Over(base.keep, patch.keep),
        scope |-> IF patch.scope = "cancel" THEN Absent ELSE Over(base.scope, patch.scope)]

\* Every field the validated override has replaces the base's.
Merge(base, patch) ==
  [children |-> patch.children, main |-> Over(base.main, patch.main),
   child |-> MergedForm(base.child, patch.child)]
\* Only a form the override touches is checked again.
BugMergeable(base, patch) == TRUE
Mergeable(base, patch) ==
  patch.child # Absent => Enforceable(MergedForm(base.child, patch.child))

Stripped(d) == IF d.child # Absent /\ d.child.scope = "cancel"
               THEN [d EXCEPT !.child.scope = Absent] ELSE d

Layered(id) ==
  CASE user[id] = Absent -> Normalised(builtin[id])
    [] builtin[id] = Absent -> Stripped(Normalised(user[id]))
    [] OTHER -> Stripped(Merge(Normalised(builtin[id]), Normalised(user[id])))

Defined == {id \in Ids : builtin[id] # Absent \/ user[id] # Absent}

LayersValid ==
  /\ \A id \in Ids : builtin[id] # Absent => Valid(builtin[id])
  /\ \A id \in Ids : user[id] # Absent => Valid(user[id])
  /\ \A id \in Ids : builtin[id] # Absent /\ user[id] # Absent =>
       Mergeable(Normalised(builtin[id]), Normalised(user[id]))

---------------------------------------------------------------------------
(* The graph.                                                              *)

\* assertAcyclic: a depth-first search that marks what is on the stack open
\* and what is finished done; `cycle` is the throw.
Marks(defs) == [on : [DOMAIN defs -> {"new", "open", "done"}], cycle : BOOLEAN]
Visit(defs) ==
  LET visit[place \in (DOMAIN defs) \X Marks(defs)] ==
        LET id == place[1]
            marks == place[2] IN
        IF marks.on[id] = "done" \/ marks.cycle THEN marks
        ELSE IF marks.on[id] = "open" THEN [marks EXCEPT !.cycle = TRUE]
        ELSE [FoldSet(LAMBDA c, m : visit[<<c, m>>], [marks EXCEPT !.on[id] = "open"],
                      defs[id].children) EXCEPT !.on[id] = "done"]
  IN visit

NoMarks(defs) == [on |-> [i \in DOMAIN defs |-> "new"], cycle |-> FALSE]
Acyclic(defs) ==
  ~FoldSet(LAMBDA i, m : Visit(defs)[<<i, m>>], NoMarks(defs), DOMAIN defs).cycle

PresetIds(defs) == {i \in DOMAIN defs : defs[i].main # Absent}
GraphValid(defs) ==
  /\ \A i \in PresetIds(defs) : defs[i].main.preset \notin Reserved
  /\ \A i, j \in PresetIds(defs) : defs[i].main.preset = defs[j].main.preset => i = j
  /\ \A i \in DOMAIN defs : \A c \in defs[i].children :
       c \in DOMAIN defs /\ defs[c].child # Absent
  /\ Acyclic(defs)

Load ==
  /\ catalog = Absent
  /\ LET defs == [id \in Defined |-> Layered(id)] IN
       catalog' = IF LayersValid /\ GraphValid(defs) THEN defs ELSE Refused
  /\ UNCHANGED <<builtin, user, registered, granted>>

---------------------------------------------------------------------------
(* The tools of a mounted form.                                            *)

Loaded == catalog \notin {Absent, Refused}

Available(cap) ==
  /\ Capability[cap].all \subseteq registered
  /\ cap = "exec" => ShellNames \cap registered # {}
\* The first shell of the preference order that is there.
Shell == Shells[Min({i \in DOMAIN Shells : Shells[i] \in registered})]
Resolved(cap) == Capability[cap].all \cup (Capability[cap].optional \cap registered)
                 \cup (IF cap = "exec" THEN {Shell} ELSE {})

Ambient == registered \ (Owned \cup Forbidden \cup OwnTools)

Extra(form) == IF form.extra = Absent THEN {} ELSE form.extra
Compilable(form) ==
  /\ \A cap \in form.tools : Available(cap)
  /\ Extra(form) \subseteq registered /\ Extra(form) \cap Forbidden = {}
Allowlist(form) ==
  (UNION {Resolved(cap) : cap \in form.tools}) \cup Extra(form)
  \cup (IF "exec" \in form.tools THEN Ambient ELSE {})

Mount(id) ==
  /\ Loaded /\ id \in DOMAIN catalog /\ catalog[id].child # Absent
  /\ granted' = [granted EXCEPT ![id] = IF Compilable(catalog[id].child)
                                        THEN Allowlist(catalog[id].child) ELSE Absent]
  /\ UNCHANGED <<builtin, user, catalog, registered>>

\* A plugin is installed, with its tool.
Register(n) ==
  /\ Loaded /\ n \notin registered /\ registered' = registered \cup {n}
  /\ UNCHANGED <<builtin, user, catalog, granted>>

Init ==
  /\ \E in \in Inputs : builtin = in[1] /\ user = in[2]
  /\ catalog = Absent
  /\ registered = {"read", "write"} /\ granted = [id \in Ids |-> Absent]

Next == Load \/ \E n \in Names : Register(n) \/ \E id \in Ids : Mount(id)
Spec == Init /\ [][Next]_vars

---------------------------------------------------------------------------
(* Properties.                                                             *)

TypeOK ==
  /\ DOMAIN builtin = Ids /\ DOMAIN user = Ids
  /\ catalog \in {Absent, Refused} \/ DOMAIN catalog \subseteq Ids
  /\ registered \subseteq Names \cup {"read", "write"}
  /\ \A id \in Ids : granted[id] = Absent \/ granted[id] \subseteq registered

\* Whom an agent can reach by delegating, in any number of steps.
Reach(defs, id) ==
  LET step(S) == S \cup UNION {defs[j].children : j \in S}
      n[k \in 0..Cardinality(Ids)] == IF k = 0 THEN defs[id].children ELSE step(n[k - 1])
  IN n[Cardinality(Ids)]

\* loadCatalog accepts exactly the merged definitions whose delegations end:
\* what it returns has no agent that can reach itself and every edge leads to a
\* child form; and a set of definitions with these traits, sound files and
\* distinct presets is not refused.
DelegationEnds ==
  /\ Loaded => \A i \in DOMAIN catalog :
       /\ catalog[i].children \subseteq DOMAIN catalog
       /\ i \notin Reach(catalog, i)
       /\ \A c \in catalog[i].children : catalog[c].child # Absent
  /\ catalog = Refused /\ LayersValid =>
       LET defs == [id \in Defined |-> Layered(id)] IN
       \/ \E i \in DOMAIN defs : \E c \in defs[i].children :
            IF c \in DOMAIN defs THEN defs[c].child = Absent ELSE TRUE
       \/ \E i \in DOMAIN defs : i \in Reach(defs, i)
       \/ {defs[i].main.preset : i \in PresetIds(defs)} \cap Reserved # {}
       \/ Cardinality({defs[i].main.preset : i \in PresetIds(defs)}) < Cardinality(PresetIds(defs))

\* A form whose writes are confined to a directory never gets a shell, which
\* could write anywhere, nor a tool of a plugin it did not name: whichever
\* layer the scope and the tools came from, and whatever is registered later.
ScopeHolds ==
  Loaded => \A i \in DOMAIN catalog :
    catalog[i].child # Absent /\ granted[i] # Absent /\ HasScope(catalog[i].child) =>
      /\ granted[i] \cap ShellNames = {}
      /\ granted[i] \ Owned \subseteq Extra(catalog[i].child)

\* A form gets one shell of the composition unless its author named more.
OneShell ==
  Loaded => \A i \in DOMAIN catalog :
    catalog[i].child # Absent /\ granted[i] # Absent =>
      Cardinality(granted[i] \cap (ShellNames \ Extra(catalog[i].child))) <= 1
=============================================================================
