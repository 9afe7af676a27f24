---------------------------- MODULE Generations ----------------------------
(***************************************************************************)
(* How a Host publishes its agents catalog at startup (index.js, catalog.js*)
(* and preset-compiler.js): an immutable, content-addressed generation is  *)
(* built beside the others, `current` is pointed at it, old generations    *)
(* are pruned, and a boot that fails late points `current` back.  There is *)
(* no lock: several Hosts may start over one data root, and any of them    *)
(* may die between two file system calls.                                  *)
(*                                                                         *)
(* A generation is named by its content, the published ABI: for every      *)
(* agent id the shape it is published with, live or retired.               *)
(***************************************************************************)
EXTENDS Naturals, FiniteSets

CONSTANTS Hosts, Agents,
          AtOnce,        \* how many Hosts may be starting at the same time
          MaxBoots, MaxEdits   \* bounds

Shapes == {"main", "both"}
Files == [Agents -> Shapes \cup {"absent"}]
Records == {[shape |-> s, retired |-> r] : s \in Shapes, r \in BOOLEAN}
NoRecord == [shape |-> "absent", retired |-> FALSE]
Manifests == [Agents -> Records \cup {NoRecord}]
NoGeneration == [a \in Agents |-> NoRecord]    \* never published: a catalog is not empty

VARIABLES files,      \* the user's definition files
          posix,      \* rename replaces a directory link
          pointer,    \* what `current` names
          parked,     \* the pointer a swap moved aside, per Host
          whole,      \* generations that carry the complete marker
          partial,    \* Hosts whose .partial- directory is on disk
          pc, boots, edits,
          before,     \* the pointer a boot found, to restore
          mine,       \* the generation it publishes
          keep,       \* those its pruning spares
          published   \* the ABI of every Host that got ready: ours to remember

disk == <<pointer, parked, whole, partial>>
boot == <<before, mine, keep>>
vars == <<files, posix, disk, pc, boots, edits, boot, published>>

Starting == {"compile", "building", "activate", "swap", "prune", "pruning", "compiled",
             "restore", "reswap"}
Ended == {"off", "refused", "failed", "unrestored"}

TypeOK ==
  /\ files \in Files /\ posix \in BOOLEAN
  /\ pointer \in Manifests /\ parked \in [Hosts -> Manifests]
  /\ whole \subseteq Manifests /\ partial \subseteq Hosts
  /\ pc \in [Hosts -> Starting \cup Ended \cup {"ready"}]
  /\ boots \in 0..MaxBoots /\ edits \in 0..MaxEdits
  /\ before \in [Hosts -> Manifests] /\ mine \in [Hosts -> Manifests]
  /\ keep \in [Hosts -> SUBSET Manifests]
  /\ published \in Files

Init ==
  /\ files = [a \in Agents |-> "both"] /\ posix \in BOOLEAN
  /\ pointer = NoGeneration /\ parked = [h \in Hosts |-> NoGeneration]
  /\ whole = {} /\ partial = {}
  /\ pc = [h \in Hosts |-> "off"] /\ boots = 0 /\ edits = 0
  /\ before = [h \in Hosts |-> NoGeneration] /\ mine = before
  /\ keep = [h \in Hosts |-> {}]
  /\ published = [a \in Agents |-> "absent"]

Goto(h, l) == pc' = [pc EXCEPT ![h] = l]

---------------------------------------------------------------------------
(* The catalog and its ABI.                                                *)

\* A published agent keeps its forms; one whose file is gone is retired.
Narrowed(prev) == \E a \in Agents : prev[a].shape = "both" /\ files[a] = "main"

Manifest(prev) ==
  [a \in Agents |->
     IF files[a] # "absent" THEN [shape |-> files[a], retired |-> FALSE]
     ELSE IF prev[a] = NoRecord THEN NoRecord
     ELSE [shape |-> prev[a].shape, retired |-> TRUE]]

\* initialiseCatalog up to the compilation: reads only.  A pointer without
\* its manifest refuses the start.
Begin(h) ==
  /\ pc[h] \in Ended /\ boots < MaxBoots
  /\ Cardinality({o \in Hosts : pc[o] \in Starting}) < AtOnce
  /\ boots' = boots + 1
  /\ before' = [before EXCEPT ![h] = pointer]
  /\ IF Narrowed(pointer) \/ (pointer # NoGeneration /\ pointer \notin whole)
     THEN Goto(h, "refused") /\ UNCHANGED mine
     ELSE Goto(h, "compile") /\ mine' = [mine EXCEPT ![h] = Manifest(pointer)]
  /\ UNCHANGED <<files, posix, disk, edits, keep, published>>

---------------------------------------------------------------------------
(* compilePresets.                                                         *)

\* A complete generation of the same name is reused.
Compile(h) ==
  /\ pc[h] = "compile"
  /\ IF mine[h] \in whole
     THEN Goto(h, "activate") /\ UNCHANGED partial
     ELSE Goto(h, "building") /\ partial' = partial \cup {h}
  /\ keep' = [keep EXCEPT ![h] = {mine[h], pointer}]
  /\ UNCHANGED <<files, posix, pointer, parked, whole, boots, edits, before, mine, published>>

\* The rename of a finished build; the build of a peer is as good.
BuildDone(h) ==
  /\ pc[h] = "building"
  /\ IF h \in partial \/ mine[h] \in whole
     THEN whole' = whole \cup {mine[h]} /\ Goto(h, "activate")
     ELSE Goto(h, "failed") /\ UNCHANGED whole
  /\ partial' = partial \ {h}
  /\ UNCHANGED <<files, posix, pointer, parked, boots, edits, boot, published>>

\* activateGeneration, of the new generation or, to restore it, of the old.
Installing == {"activate", "restore"}
Swapping == {"swap", "reswap"}
BugTarget(h) == mine[h]
Target(h) == IF pc[h] \in {"restore", "reswap"} THEN before[h] ELSE mine[h]
Installed(h) == Goto(h, IF pc[h] \in {"restore", "reswap"} THEN "failed" ELSE "prune")
NotInstalled(h) == Goto(h, IF pc[h] \in {"restore", "reswap"} THEN "unrestored" ELSE "failed")

\* One rename where the platform replaces a link; else the live pointer is
\* parked first.
Install(h) ==
  /\ pc[h] \in Installing
  /\ IF posix \/ pointer = NoGeneration
     THEN pointer' = Target(h) /\ Installed(h) /\ UNCHANGED parked
     ELSE /\ parked' = [parked EXCEPT ![h] = pointer]
          /\ pointer' = NoGeneration
          /\ Goto(h, IF pc[h] = "restore" THEN "reswap" ELSE "swap")
  /\ UNCHANGED <<files, posix, whole, partial, boots, edits, boot, published>>

\* Nothing moved: creating the link, parking or renaming failed.
InstallFails(h) ==
  /\ pc[h] \in Installing /\ NotInstalled(h)
  /\ UNCHANGED <<files, posix, disk, boots, edits, boot, published>>

SwapIn(h) ==
  /\ pc[h] \in Swapping /\ pointer = NoGeneration
  /\ pointer' = Target(h) /\ parked' = [parked EXCEPT ![h] = NoGeneration]
  /\ Installed(h)
  /\ UNCHANGED <<files, posix, whole, partial, boots, edits, boot, published>>

\* The install failed, or a peer installed a pointer meanwhile, which stays.
\* Otherwise the parked one is put back, by a rename or as a new link, and
\* `current` is absent when the platform refuses even that.
SwapFails(h) ==
  /\ pc[h] \in Swapping
  /\ \/ /\ pointer = NoGeneration /\ NotInstalled(h)
        /\ pointer' = parked[h] /\ parked' = [parked EXCEPT ![h] = NoGeneration]
     \/ pointer = NoGeneration /\ Goto(h, "unrestored") /\ UNCHANGED <<pointer, parked>>
     \/ pointer # NoGeneration /\ NotInstalled(h) /\ UNCHANGED <<pointer, parked>>
  /\ UNCHANGED <<files, posix, whole, partial, boots, edits, boot, published>>

\* The pointer is read again, for what a peer activated since.
PruneBegin(h) ==
  /\ pc[h] = "prune" /\ Goto(h, "pruning")
  /\ keep' = [keep EXCEPT ![h] = @ \cup {pointer}]
  /\ UNCHANGED <<files, posix, disk, boots, edits, before, mine, published>>

\* Only what carries our marker or our prefix is removed, any of it may stay.
PruneOne(h) ==
  /\ pc[h] = "pruning"
  /\ \/ \E g \in whole \ keep[h] : whole' = whole \ {g} /\ UNCHANGED partial
     \/ \E o \in partial : partial' = partial \ {o} /\ UNCHANGED whole
  /\ UNCHANGED <<files, posix, pointer, parked, pc, boots, edits, boot, published>>

PruneDone(h) ==
  /\ pc[h] = "pruning" /\ Goto(h, "compiled")
  /\ UNCHANGED <<files, posix, disk, boots, edits, boot, published>>

---------------------------------------------------------------------------
(* The rest of the boot.                                                   *)

Ready(h) ==
  /\ pc[h] = "compiled" /\ Goto(h, "ready")
  /\ published' = [a \in Agents |-> IF mine[h][a] = NoRecord THEN published[a]
                                                            ELSE mine[h][a].shape]
  /\ UNCHANGED <<files, posix, disk, boots, edits, boot>>

\* A settings entry that does not validate fails the boot after its
\* activation: restoreGenerationPointer.
FailsLate(h) ==
  /\ pc[h] = "compiled"
  /\ IF before[h] = NoGeneration
     THEN pointer' = NoGeneration /\ Goto(h, "failed")
     ELSE Goto(h, "restore") /\ UNCHANGED pointer
  /\ UNCHANGED <<files, posix, parked, whole, partial, boots, edits, boot, published>>

\* The process ends or dies; what it left on disk stays.
Die(h) ==
  /\ pc[h] \notin Ended /\ Goto(h, "off")
  /\ parked' = [parked EXCEPT ![h] = NoGeneration]
  /\ UNCHANGED <<files, posix, pointer, whole, partial, boots, edits, boot, published>>

Edit(a, s) ==
  /\ edits < MaxEdits /\ edits' = edits + 1 /\ files[a] # s
  /\ files' = [files EXCEPT ![a] = s]
  /\ UNCHANGED <<posix, disk, pc, boots, boot, published>>

Next ==
  \/ \E h \in Hosts : Begin(h) \/ Compile(h) \/ BuildDone(h) \/ Install(h) \/ SwapIn(h)
                      \/ SwapFails(h) \/ InstallFails(h) \/ PruneBegin(h) \/ PruneOne(h)
                      \/ PruneDone(h) \/ Ready(h) \/ FailsLate(h) \/ Die(h)
  \/ \E a \in Agents : \E s \in Shapes \cup {"absent"} : Edit(a, s)

Spec == Init /\ [][Next]_vars

---------------------------------------------------------------------------
(* Properties.                                                             *)

\* `current`, when it is there, names a complete generation, whatever failed
\* or died ("永远指向一个完整 generation", docs/agents-plugin-plan.md 8.6):
\* the next boot refuses to start over one that is gone (readPreviousAbi).
CurrentIsWhole == pointer # NoGeneration => pointer \in whole

\* The shape an accepted Host published is never narrowed, and the id never
\* forgotten: not by a deleted file, a boot that failed late or a crash
\* (validateAbi, computeAbiManifest, restoreGenerationPointer).
AbiKept ==
  posix => \A a \in Agents : published[a] # "absent" =>
             pointer[a].shape = published[a] \/ (published[a] = "main" /\ pointer[a].shape = "both")

\* A boot that fails leaves `current` as it found it, or says that it could
\* not (activateGeneration, pointerStateAfterFailedSwap).
FailureRestores == \A h \in Hosts : pc[h] = "failed" => pointer = before[h]
=============================================================================
