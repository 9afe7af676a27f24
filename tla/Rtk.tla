-------------------------------- MODULE Rtk --------------------------------
(***************************************************************************)
(* The rtk plugin.  Every mount shares one decoration of the live shell's  *)
(* execute, counted by references; a decorated command asks the oracle     *)
(* `rtk rewrite` once, and is then denied, rewritten or passed through.    *)
(* The result of a grep call goes through the post-execute listeners of    *)
(* all mounts, nested in each other, and is piped through rtk once.        *)
(***************************************************************************)
EXTENDS Naturals, Sequences, FiniteSets, SequencesExt

CONSTANTS Mounts,      \* plugin fibers that may mount the plugin, each once
          Compresses,  \* those configured with grepCompress
          Commands,    \* calls of shell.execute
          Greps        \* dispatched tool calls

VARIABLES mounted, gone,
          refs, shared,   \* decoration: its references, the first mount's options
          wrapped,        \* shellTarget.execute is the wrapper
          pc,             \* where each command is
          aborted,        \* the caller's signal of each command
          asked, ran,     \* oracle calls and delegate calls of each command
          decision,       \* what the oracle decided
          chain,          \* the nested listeners of each grep call, outermost first
          at,             \* the one that runs: 0 before the call, Len + 1 downstream
          unwinding, depth, attempted, attempts, plain

vars == <<mounted, gone, refs, shared, wrapped, pc, aborted, asked, ran, decision,
          chain, at, unwinding, depth, attempted, attempts, plain>>
owners == <<mounted, gone, refs, shared, wrapped>>
commands == <<pc, aborted, asked, ran, decision>>
greps == <<chain, at, unwinding, depth, attempted, attempts, plain>>

Decisions == {"none", "deny", "rewrite", "passthrough"}
NoOptions == "undecorated"

TypeOK ==
  /\ mounted \subseteq Mounts /\ gone \subseteq Mounts /\ refs \in 0..Cardinality(Mounts)
  /\ shared \in {"grep", "silent", NoOptions} /\ wrapped \in BOOLEAN
  /\ pc \in [Commands -> {"idle", "oracle", "decided", "delegated", "denied", "thrown"}]
  /\ aborted \in [Commands -> BOOLEAN] /\ asked \in [Commands -> 0..2]
  /\ ran \in [Commands -> {"nothing", "original", "rewritten"}]
  /\ decision \in [Commands -> Decisions]
  /\ \A g \in Greps : ToSet(chain[g]) \subseteq Mounts /\ at[g] \in 0..(Len(chain[g]) + 1)
  /\ unwinding \in [Greps -> BOOLEAN] /\ depth \in [Greps -> 0..Cardinality(Mounts)]
  /\ attempted \in [Greps -> BOOLEAN] /\ attempts \in [Greps -> 0..2]
  /\ plain \in [Greps -> BOOLEAN]

Init ==
  /\ mounted = {} /\ gone = {} /\ refs = 0 /\ shared = NoOptions /\ wrapped = FALSE
  /\ pc = [c \in Commands |-> "idle"] /\ aborted = [c \in Commands |-> FALSE]
  /\ asked = [c \in Commands |-> 0] /\ ran = [c \in Commands |-> "nothing"]
  /\ decision = [c \in Commands |-> "none"]
  /\ chain = [g \in Greps |-> <<>>] /\ at = [g \in Greps |-> 0]
  /\ unwinding = [g \in Greps |-> FALSE] /\ depth = [g \in Greps |-> 0]
  /\ attempted = [g \in Greps |-> FALSE] /\ attempts = [g \in Greps |-> 0]
  /\ plain \in [Greps -> BOOLEAN]

---------------------------------------------------------------------------
(* Mounts.                                                                 *)

Decorate(m) ==
  IF shared = NoOptions
  THEN shared' = (IF m \in Compresses THEN "grep" ELSE "silent") /\ wrapped' = TRUE
  ELSE UNCHANGED <<shared, wrapped>>

Mount(m) ==
  /\ m \notin mounted \cup gone /\ mounted' = mounted \cup {m}
  /\ Decorate(m) /\ refs' = refs + 1
  /\ UNCHANGED <<gone, commands, greps>>

\* Only the last disposer restores the method and forgets the decoration.
Undecorate ==
  IF refs' > 0 THEN UNCHANGED <<shared, wrapped>>
  ELSE shared' = NoOptions /\ wrapped' = FALSE

Unmount(m) ==
  /\ m \in mounted /\ mounted' = mounted \ {m} /\ gone' = gone \cup {m}
  /\ refs' = refs - 1 /\ Undecorate
  /\ UNCHANGED <<commands, greps>>

---------------------------------------------------------------------------
(* A command.                                                              *)

Go(c, next) == pc' = [pc EXCEPT ![c] = next]

Delegate(c, command) == Go(c, "delegated") /\ ran' = [ran EXCEPT ![c] = command]

\* The signal is checked before the oracle and after it.
BugCancelled(c) == pc[c] = "idle" /\ aborted[c]
Cancelled(c) == aborted[c]

\* execute of an undecorated shell, or of the wrapper.
Execute(c) ==
  /\ pc[c] = "idle"
  /\ IF ~wrapped THEN Delegate(c, "original") /\ UNCHANGED asked
     ELSE IF Cancelled(c) THEN Go(c, "thrown") /\ UNCHANGED <<asked, ran>>
     ELSE Go(c, "oracle") /\ asked' = [asked EXCEPT ![c] = @ + 1] /\ UNCHANGED ran
  /\ UNCHANGED <<owners, aborted, decision, greps>>

Abort(c) ==
  /\ ~aborted[c] /\ aborted' = [aborted EXCEPT ![c] = TRUE]
  /\ UNCHANGED <<owners, pc, asked, ran, decision, greps>>

\* The exit code of rtk, and whether it printed another command.
MapRtkExit(code, changed) ==
  IF code = 2 THEN "deny"
  ELSE IF code \in {0, 3} /\ changed THEN "rewrite"
  ELSE "passthrough"

\* An oracle that exits without an answer (missing, hung, killed) lets the
\* command pass; an aborted caller gets its own reason instead, unless the
\* oracle had already succeeded.
OracleAnswers(c) ==
  /\ pc[c] = "oracle"
  /\ \/ \E code \in (IF aborted[c] THEN {0} ELSE 0..4), changed \in BOOLEAN :
          decision' = [decision EXCEPT ![c] = MapRtkExit(code, changed)]
     \/ decision' = [decision EXCEPT ![c] = "passthrough"] /\ ~aborted[c]
  /\ Go(c, "decided")
  /\ UNCHANGED <<owners, aborted, asked, ran, greps>>

OracleCancelled(c) ==
  /\ pc[c] = "oracle" /\ aborted[c] /\ Go(c, "thrown")
  /\ UNCHANGED <<owners, aborted, asked, ran, decision, greps>>

\* The wrapper goes on, possibly after its plugin is unmounted.
Decide(c) ==
  /\ pc[c] = "decided"
  /\ IF Cancelled(c) THEN Go(c, "thrown") /\ UNCHANGED ran
     ELSE IF decision[c] = "deny" THEN Go(c, "denied") /\ UNCHANGED ran
     ELSE Delegate(c, IF decision[c] = "rewrite" THEN "rewritten" ELSE "original")
  /\ UNCHANGED <<owners, aborted, asked, decision, greps>>

---------------------------------------------------------------------------
(* A grep result.                                                          *)

\* The listeners are those registered now, the latest mount outermost.
Dispatch(g) ==
  /\ at[g] = 0 /\ ~unwinding[g]
  /\ \E order \in SetToSeqs(IF shared = "grep" THEN mounted ELSE {}) :
       chain' = [chain EXCEPT ![g] = order]
  /\ at' = [at EXCEPT ![g] = 1]
  /\ UNCHANGED <<owners, commands, unwinding, depth, attempted, attempts, plain>>

Inside(g) == at[g] \in 1..Len(chain[g])

Enter(g) ==
  /\ Inside(g) /\ ~unwinding[g]
  /\ depth' = [depth EXCEPT ![g] = @ + 1] /\ at' = [at EXCEPT ![g] = @ + 1]
  /\ UNCHANGED <<owners, commands, chain, unwinding, attempted, attempts, plain>>

\* What the tool itself and the other listeners decide is theirs; `plain` says
\* that it is one replaceable text block.
Downstream(g) ==
  /\ at[g] = Len(chain[g]) + 1 /\ ~unwinding[g]
  /\ unwinding' = [unwinding EXCEPT ![g] = TRUE] /\ at' = [at EXCEPT ![g] = @ - 1]
  /\ UNCHANGED <<owners, commands, chain, depth, attempted, attempts, plain>>

\* The listener after its next(): one attempt for the whole chain.
Compress(g) ==
  /\ Inside(g) /\ unwinding[g] /\ ~attempted[g] /\ plain[g]
  /\ attempted' = [attempted EXCEPT ![g] = TRUE]
  /\ attempts' = [attempts EXCEPT ![g] = @ + 1]
  /\ UNCHANGED <<owners, commands, chain, at, unwinding, depth, plain>>

\* The finally; the outermost listener forgets the chain.
LeaveListener(g) ==
  /\ Inside(g) /\ unwinding[g] /\ (attempted[g] \/ ~plain[g])
  /\ depth' = [depth EXCEPT ![g] = @ - 1] /\ at' = [at EXCEPT ![g] = @ - 1]
  /\ attempted' = [attempted EXCEPT ![g] = @ /\ depth'[g] > 0]
  /\ UNCHANGED <<owners, commands, chain, unwinding, attempts, plain>>

Idle == gone = Mounts /\ (\A c \in Commands : aborted[c] /\ pc[c] \notin {"idle", "oracle", "decided"})
        /\ (\A g \in Greps : unwinding[g] /\ at[g] = 0) /\ UNCHANGED vars

Next ==
  \/ \E m \in Mounts : Mount(m) \/ Unmount(m)
  \/ \E c \in Commands : \/ Execute(c) \/ Abort(c) \/ OracleAnswers(c)
                         \/ OracleCancelled(c) \/ Decide(c)
  \/ \E g \in Greps : Dispatch(g) \/ Enter(g) \/ Downstream(g) \/ Compress(g) \/ LeaveListener(g)
  \/ Idle

Spec == Init /\ [][Next]_vars

---------------------------------------------------------------------------
(* Properties.                                                             *)

\* The shell is decorated while anybody owns the plugin and given back when
\* nobody does, in whatever order the fibers go (apply).
DecoratedWhileOwned ==
  /\ wrapped <=> mounted # {}
  /\ refs = Cardinality(mounted) /\ (shared = NoOptions <=> mounted = {})

\* A command asks the oracle at most once whoever mounts meanwhile, a denied
\* command never runs, and nothing that was cancelled before or while the
\* oracle ran is run by the wrapper (execute, rtkRewriteDecision).
RunsOnce ==
  [][\A c \in Commands :
       /\ asked[c] <= 1
       /\ pc[c] \in {"oracle", "decided"} /\ ran'[c] # ran[c]
            => ~aborted[c] /\ decision[c] # "deny"
       /\ ran[c] # "nothing" => ran'[c] = ran[c]]_vars

\* A grep result that can be replaced is compressed once if a listener saw it,
\* however many mounts listen, and the guard of the chain is gone afterwards.
CompressedOnce ==
  \A g \in Greps :
    unwinding[g] /\ at[g] = 0 =>
      /\ attempts[g] = IF plain[g] /\ chain[g] # <<>> THEN 1 ELSE 0
      /\ depth[g] = 0 /\ ~attempted[g]

=============================================================================
