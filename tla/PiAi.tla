-------------------------------- MODULE PiAi -------------------------------
(***************************************************************************)
(* The session routes of dsh-llm-pi-ai-with-session: how they follow the   *)
(* provider table another plugin owns (index.js), and how one model call   *)
(* is streamed against the table it started with (adapter.js, stream.js).  *)
(*                                                                         *)
(* A provider profile is a value whose facts are what differs between two  *)
(* profiles: `Advert` are the facts the llm service captures when a route  *)
(* is registered (display name and retry policy, "bad" when the policy is  *)
(* refused); gateway, key, timeouts and models are the profile itself.     *)
(***************************************************************************)
EXTENDS Naturals, FiniteSets

CONSTANTS Sources,    \* providers of the table
          Routes,     \* those a configured route mirrors, a subset
          Profiles, Advert,
          Calls,
          MaxWrites   \* bound on settings writes

None == "none"
Tables == [Sources -> Profiles \cup {None}]

VARIABLES doc,      \* the table in the settings
          told,     \* the last write has been announced to the plugin
          writes,
          held,     \* currentProviders
          facts,    \* registeredFacts
          registry, \* what the llm service captured for the routes
          pc,       \* where each call is
          route, snap, used,  \* its route, its pinned table, the profiles it read
          stage,    \* toStreamChunks: "body", "usage" or "finish" given
          pending,  \* a read of the provider is outstanding in the SDK
          aborted,  \* the caller's signal
          fired,    \* the idle watchdog fired
          open,     \* the SDK's request is running
          outcome

routing == <<doc, told, writes, held, facts, registry>>
vars == <<routing, pc, route, snap, used, stage, pending, aborted, fired, open, outcome>>
flow == <<stage, pending, fired, open, outcome>>

Empty == [s \in Sources |-> None]
FactsOf(t) == [s \in Routes |-> IF t[s] = None THEN None ELSE Advert[t[s]]]
AllFacts == [Routes -> {Advert[p] : p \in Profiles} \cup {None}]
Outcomes == {"none", "finished", "stopped", "error", "TIMEOUT", "ABORTED"}

TypeOK ==
  /\ doc \in Tables /\ held \in Tables /\ told \in BOOLEAN /\ writes \in 0..MaxWrites
  /\ facts \in AllFacts \cup {<<>>} /\ registry \in AllFacts \cup {<<>>}
  /\ pc \in [Calls -> {"idle", "prepared", "key", "context", "reading", "paused",
                       "closing", "ended"}]
  /\ route \in [Calls -> Routes \cup {None}] /\ snap \in [Calls -> Tables]
  /\ used \in [Calls -> SUBSET Profiles]
  /\ stage \in [Calls -> {"body", "usage", "finish"}]
  /\ pending \in [Calls -> BOOLEAN] /\ aborted \in [Calls -> BOOLEAN]
  /\ fired \in [Calls -> BOOLEAN] /\ open \in [Calls -> BOOLEAN]
  /\ outcome \in [Calls -> Outcomes]

---------------------------------------------------------------------------
(* The routes.                                                             *)

\* The llm service reads display names and retry policies while it registers.
Serviceable(t) == \A s \in Routes : t[s] # None /\ Advert[t[s]] # "bad"

Keep(t) == held' = t /\ UNCHANGED <<facts, registry>>

Dormant(t) == facts' = FactsOf(t) /\ UNCHANGED <<held, registry>>

Register(t) == held' = t /\ registry' = FactsOf(t) /\ facts' = FactsOf(t)

Refused == UNCHANGED <<held, facts, registry>>

EnsureRegistration(t) ==
  IF FactsOf(t) = facts THEN Keep(t)
  ELSE IF registry = <<>> /\ t = Empty THEN Dormant(t)
  ELSE IF Serviceable(t) THEN Register(t)
  ELSE Refused

\* install reads the table twice in one synchronous call.
Init ==
  /\ doc \in Tables /\ told = FALSE /\ writes = 0
  /\ held = doc /\ facts = <<>> /\ registry = <<>>
  /\ pc = [c \in Calls |-> "idle"] /\ route = [c \in Calls |-> None]
  /\ snap = [c \in Calls |-> Empty] /\ used = [c \in Calls |-> {}]
  /\ stage = [c \in Calls |-> "body"] /\ pending = [c \in Calls |-> FALSE]
  /\ aborted = [c \in Calls |-> FALSE] /\ fired = [c \in Calls |-> FALSE]
  /\ open = [c \in Calls |-> FALSE] /\ outcome = [c \in Calls |-> "none"]

\* The first attempt and every settings/document-updated event.
DocumentUpdated ==
  /\ ~told /\ told' = TRUE /\ EnsureRegistration(doc)
  /\ UNCHANGED <<doc, writes, pc, route, snap, used, aborted, flow>>

\* Somebody edits one provider of the llm-pi-ai settings.
WriteSettings ==
  /\ writes < MaxWrites /\ writes' = writes + 1
  /\ \E s \in Sources : \E p \in (Profiles \cup {None}) \ {doc[s]} :
       doc' = [doc EXCEPT ![s] = p]
  /\ told' = FALSE
  /\ UNCHANGED <<held, facts, registry, pc, route, snap, used, aborted, flow>>

---------------------------------------------------------------------------
(* One call.                                                               *)

\* The call reads facts of its provider in the table t.
Reads(c, t) == used' = [used EXCEPT ![c] = @ \cup ({t[route'[c]]} \ {None})]

End(c, result) ==
  /\ pc' = [pc EXCEPT ![c] = "ended"] /\ outcome' = [outcome EXCEPT ![c] = result]

\* The model's metadata, and a stream bound to the same table.
PrepareCall(c) ==
  /\ pc[c] = "idle" /\ registry # <<>>
  /\ \E s \in Routes : route' = [route EXCEPT ![c] = s]
  /\ snap' = [snap EXCEPT ![c] = held] /\ Reads(c, held)
  /\ pc' = [pc EXCEPT ![c] = "prepared"]
  /\ UNCHANGED <<routing, aborted, flow>>

\* The table a call that has begun reads: the one it pinned.
BugPinned(c) == held
Pinned(c) == snap[c]

\* streamWithSnapshot up to the key: of a prepared call, or of one that pins
\* its table now (stream).  Without a session id the request is refused.
Stream(c) ==
  /\ \/ pc[c] = "prepared" /\ UNCHANGED <<route, snap>> /\ Reads(c, Pinned(c))
     \/ /\ pc[c] = "idle" /\ registry # <<>>
        /\ \E s \in Routes : route' = [route EXCEPT ![c] = s]
        /\ snap' = [snap EXCEPT ![c] = held] /\ Reads(c, held)
  /\ \/ pc' = [pc EXCEPT ![c] = "key"] /\ UNCHANGED outcome
     \/ End(c, "error")
  /\ UNCHANGED <<routing, aborted, stage, pending, fired, open>>

\* The key has been looked up: none, images the model, the roles or the
\* attachment service rule out, or on to the conversion of the history.
KeyResolved(c) ==
  /\ pc[c] = "key" /\ UNCHANGED route /\ Reads(c, Pinned(c))
  /\ \/ pc' = [pc EXCEPT ![c] = "context"] /\ UNCHANGED outcome
     \/ End(c, "error")
  /\ UNCHANGED <<routing, snap, aborted, stage, pending, fired, open>>

ContextFails(c) ==
  /\ pc[c] = "context" /\ End(c, "error")
  /\ UNCHANGED <<routing, route, snap, used, aborted, stage, pending, fired, open>>

\* The request goes out and the first read begins.
ContextReady(c) ==
  /\ pc[c] = "context" /\ UNCHANGED route /\ Reads(c, Pinned(c))
  /\ pc' = [pc EXCEPT ![c] = "reading"] /\ open' = [open EXCEPT ![c] = TRUE]
  /\ pending' = [pending EXCEPT ![c] = TRUE]
  /\ UNCHANGED <<routing, snap, aborted, stage, fired, outcome>>

\* What the catch and the final return make of the end of the loop.
Verdict(c) ==
  IF fired[c] THEN "TIMEOUT" ELSE IF aborted[c] THEN "ABORTED" ELSE "error"

\* The finally: the SDK is told to stop; a read that is still outstanding has
\* to settle before the generator can return.
Leave(c, result) ==
  /\ outcome' = [outcome EXCEPT ![c] = result]
  /\ pc' = [pc EXCEPT ![c] = IF pending'[c] THEN "closing" ELSE "ended"]
  /\ open' = [open EXCEPT ![c] = pending'[c]]

\* The outstanding read gives a chunk.
Chunk(c, next) ==
  /\ pc[c] = "reading" /\ pending[c]
  /\ pending' = [pending EXCEPT ![c] = FALSE] /\ stage' = [stage EXCEPT ![c] = next]
  /\ IF fired[c] THEN Leave(c, "TIMEOUT")
     ELSE pc' = [pc EXCEPT ![c] = "paused"] /\ UNCHANGED <<open, outcome>>
  /\ UNCHANGED <<routing, route, snap, used, aborted, fired>>

Delta(c) == stage[c] = "body" /\ Chunk(c, "body")
Terminal(c) == stage[c] = "body" /\ Chunk(c, "usage")
Finish(c) == stage[c] = "usage" /\ Chunk(c, "finish")

\* The generator returns after the finish chunk.
Exhausted(c) ==
  /\ pc[c] = "reading" /\ pending[c] /\ stage[c] = "finish"
  /\ pending' = [pending EXCEPT ![c] = FALSE] /\ Leave(c, "finished")
  /\ UNCHANGED <<routing, route, snap, used, aborted, stage, fired>>

\* The SDK throws, or its events end without done or error.
SdkFails(c) ==
  /\ pc[c] = "reading" /\ pending[c] /\ stage[c] = "body"
  /\ pending' = [pending EXCEPT ![c] = FALSE] /\ Leave(c, Verdict(c))
  /\ UNCHANGED <<routing, route, snap, used, aborted, stage, fired>>

\* The watchdog gives up on the read: its interval is over, or the caller's
\* signal is aborted.  The read itself stays outstanding.
BugGivenUp(c) == aborted[c]
GivenUp(c) == fired[c] \/ aborted[c]

ReadAbandoned(c) ==
  /\ pc[c] = "reading" /\ GivenUp(c)
  /\ UNCHANGED pending /\ Leave(c, Verdict(c))
  /\ UNCHANGED <<routing, route, snap, used, aborted, stage, fired>>

\* Only while the provider is silent; the end of a message needs no waiting.
IdleFires(c) ==
  /\ pc[c] = "reading" /\ stage[c] = "body" /\ ~fired[c] /\ ~aborted[c]
  /\ fired' = [fired EXCEPT ![c] = TRUE]
  /\ UNCHANGED <<routing, pc, route, snap, used, aborted, stage, pending, open, outcome>>

CallerAborts(c) ==
  /\ pc[c] \notin {"idle", "ended"} /\ ~aborted[c] /\ ~fired[c]
  /\ aborted' = [aborted EXCEPT ![c] = TRUE]
  /\ UNCHANGED <<routing, pc, route, snap, used, flow>>

\* The consumer asks for the next chunk, or stops asking.
Pull(c) ==
  /\ pc[c] = "paused" /\ pc' = [pc EXCEPT ![c] = "reading"]
  /\ pending' = [pending EXCEPT ![c] = TRUE]
  /\ UNCHANGED <<routing, route, snap, used, aborted, stage, fired, open, outcome>>

Stop(c) ==
  /\ pc[c] = "paused" /\ UNCHANGED pending /\ Leave(c, "stopped")
  /\ UNCHANGED <<routing, route, snap, used, aborted, stage, fired>>

\* The aborted SDK settles its last read.
SdkSettles(c) ==
  /\ pc[c] = "closing" /\ pending' = [pending EXCEPT ![c] = FALSE]
  /\ pc' = [pc EXCEPT ![c] = "ended"] /\ open' = [open EXCEPT ![c] = FALSE]
  /\ UNCHANGED <<routing, route, snap, used, aborted, stage, fired, outcome>>

Step(c) == KeyResolved(c) \/ ContextFails(c) \/ ContextReady(c) \/ SdkSettles(c)
Provider(c) == Delta(c) \/ Terminal(c) \/ SdkFails(c)
Microtasks(c) == Finish(c) \/ Exhausted(c) \/ ReadAbandoned(c)

Done == writes = MaxWrites /\ told /\ (\A c \in Calls : pc[c] \in {"idle", "ended"})
        /\ UNCHANGED vars

Next ==
  \/ DocumentUpdated \/ WriteSettings \/ Done
  \/ \E c \in Calls : \/ PrepareCall(c) \/ Stream(c) \/ Step(c) \/ Provider(c)
                      \/ Microtasks(c) \/ IdleFires(c) \/ CallerAborts(c) \/ Pull(c) \/ Stop(c)

Spec == Init /\ [][Next]_vars

\* Local awaits settle, the interval of a read that waits ends (the provider
\* owes nothing), and an aborted SDK settles.
Fairness == \A c \in Calls : WF_vars(Step(c)) /\ WF_vars(Microtasks(c)) /\ WF_vars(IdleFires(c))
FairSpec == Spec /\ Fairness

---------------------------------------------------------------------------
(* Properties.                                                             *)

\* What the llm service captured is what requests are served from, also after
\* a refused update; and once an update that can be served is announced, the
\* routes have it, whatever was refused before (ensureRegistration).
RoutesFollow ==
  /\ registry # <<>> => registry = FactsOf(held)
  /\ told /\ Serviceable(doc) => held = doc /\ registry = FactsOf(doc)

\* A call reads one generation of its provider, across every await and every
\* settings write (providersSnapshot, prepareCall, streamWithSnapshot).
OneGeneration == \A c \in Calls : Cardinality(used[c]) <= 1

\* A call ends cleanly only after its finish chunk, as a timeout only when the
\* watchdog fired, as an abort only when the caller aborted first; and then no
\* request and no read of it is left (streamWithSnapshot, toStreamChunks).
EndsTruly ==
  \A c \in Calls :
    /\ outcome[c] = "finished" => stage[c] = "finish"
    /\ outcome[c] = "TIMEOUT" <=> fired[c] /\ outcome[c] # "none"
    /\ outcome[c] = "ABORTED" => aborted[c] /\ ~fired[c]
    /\ pc[c] = "ended" => ~open[c] /\ ~pending[c]

\* No read waits for ever on a silent provider (idleWatchdog).
ReadsEnd == \A c \in Calls : pc[c] \in {"key", "context", "reading", "closing"} ~>
                             pc[c] \in {"paused", "ended"}

=============================================================================
