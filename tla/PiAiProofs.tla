----------------------------- MODULE PiAiProofs -----------------------------
(***************************************************************************)
(* The session routes and their model calls, for every provider table,     *)
(* every set of routes, profiles and calls: the table the routes serve is  *)
(* the one the llm service captured, a call reads one generation of its    *)
(* provider, and it ends as what ended it says.                            *)
(***************************************************************************)
EXTENDS PiAi, FiniteSetTheorems, TLAPS

\* What the proofs need of the constants: a route mirrors a provider of the
\* table, and neither a profile nor what it advertises is the missing one.
Configured ==
  /\ Routes \subseteq Sources /\ Routes # {}
  /\ None \notin Profiles /\ \A p \in Profiles : Advert[p] # None
  /\ MaxWrites \in Nat

-----------------------------------------------------------------------------
(* Types.                                                                  *)

LEMMA TableTypes ==
  ASSUME Configured, NEW t \in Tables
  PROVE  FactsOf(t) \in AllFacts /\ FactsOf(t) # <<>> /\ Empty \in Tables
<1>1. \A s \in Routes : t[s] = None \/ t[s] \in Profiles
  BY DEF Configured, Tables
<1>2. FactsOf(t) \in AllFacts
  BY <1>1 DEF FactsOf, AllFacts
<1>3. Empty \in Tables
  BY DEF Empty, Tables
<1>4. DOMAIN FactsOf(t) = Routes /\ DOMAIN <<>> = {}
  BY DEF FactsOf
<1> QED BY <1>2, <1>3, <1>4 DEF Configured

\* A call that has begun has its route, and all it read is of one profile:
\* the one its pinned table has for the route.
Begun ==
  \A c \in Calls :
    /\ pc[c] = "idle" => used[c] = {}
    /\ pc[c] # "idle" => route[c] \in Routes /\ used[c] \subseteq {snap[c][route[c]]}

\* How far a call is, and what may still be out then.
Ending(c) ==
  /\ pc[c] \in {"closing", "ended"} <=> outcome[c] # "none"
  /\ pc[c] \notin {"reading", "closing"} => ~pending[c]
  /\ open[c] => pc[c] \in {"reading", "paused", "closing"}
  /\ fired[c] => pc[c] \in {"reading", "closing", "ended"} /\ (pc[c] = "reading" => stage[c] = "body")
  /\ outcome[c] = "finished" => stage[c] = "finish"
  /\ outcome[c] = "TIMEOUT" <=> fired[c] /\ outcome[c] # "none"
  /\ outcome[c] = "ABORTED" => aborted[c] /\ ~fired[c]

Ended == \A c \in Calls : Ending(c)

\* What the plugin believes to be registered is what the llm service has.
Registered ==
  /\ registry # <<>> => registry = FactsOf(held) /\ facts = registry
  /\ registry = <<>> => facts \in {<<>>, FactsOf(Empty)}
  /\ told /\ Serviceable(doc) => held = doc /\ registry = FactsOf(doc)

PiInv == TypeOK /\ Begun /\ Ended /\ Registered

\* The other actions, of one call.
CallNext(c) ==
  \/ PrepareCall(c) \/ Stream(c) \/ Step(c) \/ Provider(c)
  \/ Microtasks(c) \/ IdleFires(c) \/ CallerAborts(c) \/ Pull(c) \/ Stop(c)

flags == <<stage, pending, aborted, fired, open, outcome>>

LEMMA InitPi == Configured /\ Init => PiInv
<1> SUFFICES ASSUME Configured, Init PROVE PiInv
  OBVIOUS
<1>1. Empty \in Tables
  BY DEF Empty, Tables
<1>2. TypeOK
  <2>1. 0 \in 0..MaxWrites
    BY DEF Configured
  <2> QED BY <1>1, <2>1 DEF Init, TypeOK, Outcomes
<1>3. Begun /\ Ended
  BY DEF Init, Begun, Ended, Ending
<1>4. Registered
  BY DEF Init, Registered
<1> QED BY <1>2, <1>3, <1>4 DEF PiInv

\* The table a call reads is pinned when it starts: what it reads later is of
\* the same profile.
LEMMA ReadsOne ==
  ASSUME Configured, TypeOK, Begun, NEW c \in Calls, NEW t \in Tables, Reads(c, t),
         route'[c] \in Routes, snap'[c] = t,
         pc[c] = "idle" \/ (route'[c] = route[c] /\ snap[c] = t)
  PROVE  /\ used' \in [Calls -> SUBSET Profiles]
         /\ used'[c] \subseteq {snap'[c][route'[c]]}
         /\ \A d \in Calls \ {c} : used'[d] = used[d]
<1>1. t[route'[c]] \in Profiles \cup {None}
  BY DEF Configured, Tables
<1>2. used' = [used EXCEPT ![c] = used[c] \cup ({t[route'[c]]} \ {None})]
  BY DEF Reads
<1>3. used[c] \subseteq {t[route'[c]]}
  BY DEF Begun
<1> QED BY <1>1, <1>2, <1>3 DEF TypeOK

\* The actions of a call by what they do to it: a step before the request,
\* one that ends a read or the call, and one that only sets flags.
Chunks(c) == \E next \in {"body", "usage", "finish"} : Chunk(c, next)

Leaves(c) == Exhausted(c) \/ SdkFails(c) \/ ReadAbandoned(c) \/ Stop(c)

Prepares(c) == PrepareCall(c) \/ Stream(c) \/ KeyResolved(c) \/ ContextFails(c)

Flags(c) == ContextReady(c) \/ SdkSettles(c) \/ Pull(c) \/ IdleFires(c) \/ CallerAborts(c)

LEMMA CallKinds ==
  ASSUME NEW c \in Calls, CallNext(c)
  PROVE  Chunks(c) \/ Leaves(c) \/ Prepares(c) \/ Flags(c)
  BY DEF CallNext, Chunks, Leaves, Prepares, Flags, Step, Provider, Microtasks, Delta,
       Terminal, Finish

\* A step of call c sets flags of its own and goes on from where it is.
OwnFlags(c) ==
  /\ stage' \in [Calls -> {"body", "usage", "finish"}]
  /\ pending' \in [Calls -> BOOLEAN] /\ aborted' \in [Calls -> BOOLEAN]
  /\ fired' \in [Calls -> BOOLEAN] /\ open' \in [Calls -> BOOLEAN]
  /\ outcome' \in [Calls -> Outcomes]
  /\ \A d \in Calls \ {c} :
       /\ stage'[d] = stage[d] /\ pending'[d] = pending[d] /\ aborted'[d] = aborted[d]
       /\ fired'[d] = fired[d] /\ open'[d] = open[d] /\ outcome'[d] = outcome[d]
  /\ \E s \in {"prepared", "key", "context", "reading", "paused", "closing", "ended"} :
       pc' = [pc EXCEPT ![c] = s]
  /\ UNCHANGED routing

LEMMA CallFlags ==
  ASSUME TypeOK, NEW c \in Calls, CallNext(c)
  PROVE  OwnFlags(c)
<1>0. /\ stage \in [Calls -> {"body", "usage", "finish"}]
      /\ pending \in [Calls -> BOOLEAN] /\ aborted \in [Calls -> BOOLEAN]
      /\ fired \in [Calls -> BOOLEAN] /\ open \in [Calls -> BOOLEAN]
      /\ outcome \in [Calls -> Outcomes] /\ pc = [pc EXCEPT ![c] = pc[c]]
      /\ pc[c] \in {"idle", "prepared", "key", "context", "reading", "paused", "closing", "ended"}
      /\ {"error", "finished", "stopped", "TIMEOUT", "ABORTED"} \subseteq Outcomes
  BY DEF TypeOK, Outcomes
<1>1. CASE Prepares(c)
  <2>1. UNCHANGED <<routing, stage, pending, aborted, fired, open>>
    BY <1>1 DEF Prepares, PrepareCall, Stream, KeyResolved, ContextFails, End, flow
  <2>2. outcome' = outcome \/ outcome' = [outcome EXCEPT ![c] = "error"]
    BY <1>1 DEF Prepares, PrepareCall, Stream, KeyResolved, ContextFails, End, flow
  <2>3. \E s \in {"prepared", "key", "context", "ended"} : pc' = [pc EXCEPT ![c] = s]
    BY <1>1 DEF Prepares, PrepareCall, Stream, KeyResolved, ContextFails, End
  <2> QED BY <1>0, <2>1, <2>2, <2>3 DEF OwnFlags
<1>2. CASE Flags(c)
  <2>1. UNCHANGED <<routing, stage, outcome>>
    BY <1>2 DEF Flags, ContextReady, SdkSettles, Pull, IdleFires, CallerAborts, flow
  <2>2. open' = open \/ open' = [open EXCEPT ![c] = TRUE] \/ open' = [open EXCEPT ![c] = FALSE]
    BY <1>2 DEF Flags, ContextReady, SdkSettles, Pull, IdleFires, CallerAborts, flow
  <2>3. \/ pending' = pending
        \/ pending' = [pending EXCEPT ![c] = TRUE] \/ pending' = [pending EXCEPT ![c] = FALSE]
    BY <1>2 DEF Flags, ContextReady, SdkSettles, Pull, IdleFires, CallerAborts, flow
  <2>4. fired' = fired \/ fired' = [fired EXCEPT ![c] = TRUE]
    BY <1>2 DEF Flags, ContextReady, SdkSettles, Pull, IdleFires, CallerAborts, flow
  <2>5. aborted' = aborted \/ aborted' = [aborted EXCEPT ![c] = TRUE]
    BY <1>2 DEF Flags, ContextReady, SdkSettles, Pull, IdleFires, CallerAborts, flow
  <2>6. \E s \in {"prepared", "key", "context", "reading", "paused", "closing", "ended"} :
          pc' = [pc EXCEPT ![c] = s]
    BY <1>0, <1>2 DEF Flags, ContextReady, SdkSettles, Pull, IdleFires, CallerAborts, flow
  <2>7. open' \in [Calls -> BOOLEAN] /\ \A d \in Calls \ {c} : open'[d] = open[d]
    BY <1>0, <2>2
  <2>8. pending' \in [Calls -> BOOLEAN] /\ \A d \in Calls \ {c} : pending'[d] = pending[d]
    BY <1>0, <2>3
  <2>9. /\ fired' \in [Calls -> BOOLEAN] /\ \A d \in Calls \ {c} : fired'[d] = fired[d]
        /\ aborted' \in [Calls -> BOOLEAN] /\ \A d \in Calls \ {c} : aborted'[d] = aborted[d]
    BY <1>0, <2>4, <2>5
  <2> QED BY <1>0, <2>1, <2>6, <2>7, <2>8, <2>9 DEF OwnFlags
<1>3. ASSUME NEW r \in Outcomes, Leave(c, r),
             NEW b \in BOOLEAN, pending' = [pending EXCEPT ![c] = b],
             NEW n \in {"body", "usage", "finish"}, stage' = [stage EXCEPT ![c] = n],
             UNCHANGED <<routing, aborted, fired>>
      PROVE  OwnFlags(c)
  <2>1. pending'[c] = b
    BY <1>0, <1>3
  <2>2. open' = [open EXCEPT ![c] = b] /\ outcome' = [outcome EXCEPT ![c] = r]
        /\ \E s \in {"closing", "ended"} : pc' = [pc EXCEPT ![c] = s]
    BY <1>3, <2>1 DEF Leave
  <2> QED BY <1>0, <1>3, <2>2 DEF OwnFlags
<1>4. Verdict(c) \in Outcomes
  BY <1>0 DEF Verdict
<1>5. CASE Leaves(c)
  <2>1. /\ \E r \in Outcomes : Leave(c, r)
        /\ \E b \in BOOLEAN : pending' = [pending EXCEPT ![c] = b]
        /\ \E n \in {"body", "usage", "finish"} : stage' = [stage EXCEPT ![c] = n]
        /\ UNCHANGED <<routing, aborted, fired>>
    <3>1. CASE Exhausted(c)
      BY <1>0, <3>1 DEF Exhausted
    <3>2. CASE SdkFails(c)
      BY <1>0, <1>4, <3>2 DEF SdkFails
    <3>3. UNCHANGED <<pending, stage>> =>
            pending' = [pending EXCEPT ![c] = pending[c]] /\ stage' = [stage EXCEPT ![c] = stage[c]]
      BY <1>0
    <3>4. CASE ReadAbandoned(c)
      BY <1>0, <1>4, <3>3, <3>4 DEF ReadAbandoned
    <3>5. CASE Stop(c)
      BY <1>0, <3>3, <3>5 DEF Stop
    <3> QED BY <1>5, <3>1, <3>2, <3>4, <3>5 DEF Leaves
  <2> QED BY <1>3, <2>1
<1>6. CASE Chunks(c)
  <2>1. PICK n \in {"body", "usage", "finish"} : Chunk(c, n)
    BY <1>6 DEF Chunks
  <2>2. /\ pending' = [pending EXCEPT ![c] = FALSE] /\ stage' = [stage EXCEPT ![c] = n]
        /\ UNCHANGED <<routing, aborted, fired>>
    BY <2>1 DEF Chunk
  <2>3. CASE fired[c]
    BY <1>0, <1>3, <2>1, <2>2, <2>3 DEF Chunk
  <2>4. CASE ~fired[c]
    <3>1. pc' = [pc EXCEPT ![c] = "paused"] /\ UNCHANGED <<open, outcome>>
      BY <2>1, <2>4 DEF Chunk
    <3> QED BY <1>0, <2>2, <3>1 DEF OwnFlags
  <2> QED BY <2>3, <2>4
<1> QED BY <1>1, <1>2, <1>5, <1>6, CallKinds

\* The reads of a call.
LEMMA CallReads ==
  ASSUME Configured, TypeOK, Begun, NEW c \in Calls, CallNext(c)
  PROVE  /\ route' \in [Calls -> Routes \cup {None}] /\ snap' \in [Calls -> Tables]
         /\ used' \in [Calls -> SUBSET Profiles]
         /\ route'[c] \in Routes /\ used'[c] \subseteq {snap'[c][route'[c]]}
         /\ \A d \in Calls \ {c} : route'[d] = route[d] /\ snap'[d] = snap[d] /\ used'[d] = used[d]
<1>0. /\ route \in [Calls -> Routes \cup {None}] /\ snap \in [Calls -> Tables]
      /\ used \in [Calls -> SUBSET Profiles]
      /\ held \in Tables /\ snap[c] \in Tables
      /\ pc[c] # "idle" => route[c] \in Routes /\ used[c] \subseteq {snap[c][route[c]]}
  BY DEF TypeOK, Begun
<1>1. CASE pc[c] = "idle" /\ snap' = [snap EXCEPT ![c] = held] /\ Reads(c, held)
           /\ \E s \in Routes : route' = [route EXCEPT ![c] = s]
  <2>1. snap'[c] = held /\ route'[c] \in Routes
    BY <1>0, <1>1
  <2>2. /\ used' \in [Calls -> SUBSET Profiles]
        /\ used'[c] \subseteq {snap'[c][route'[c]]}
        /\ \A d \in Calls \ {c} : used'[d] = used[d]
    BY <1>0, <1>1, <2>1, ReadsOne
  <2> QED BY <1>0, <1>1, <2>1, <2>2
<1>2. CASE pc[c] # "idle" /\ UNCHANGED <<route, snap>> /\ Reads(c, Pinned(c))
  <2>1. Reads(c, snap[c]) /\ snap'[c] = snap[c] /\ route'[c] = route[c]
    BY <1>2 DEF Pinned
  <2>2. /\ used' \in [Calls -> SUBSET Profiles]
        /\ used'[c] \subseteq {snap'[c][route'[c]]}
        /\ \A d \in Calls \ {c} : used'[d] = used[d]
    BY <1>0, <1>2, <2>1, ReadsOne
  <2> QED BY <1>0, <1>2, <2>2
<1>3. CASE pc[c] # "idle" /\ UNCHANGED <<route, snap, used>>
  BY <1>0, <1>3
<1>4. CASE Prepares(c)
  BY <1>1, <1>2, <1>3, <1>4 DEF Prepares, PrepareCall, Stream, KeyResolved, ContextFails
<1>5. CASE Flags(c)
  BY <1>2, <1>3, <1>5 DEF Flags, ContextReady, SdkSettles, Pull, IdleFires, CallerAborts
<1>6. CASE Leaves(c) \/ Chunks(c)
  BY <1>3, <1>6 DEF Leaves, Chunks, Exhausted, SdkFails, ReadAbandoned, Stop, Chunk
<1> QED BY <1>4, <1>5, <1>6, CallKinds

LEMMA CallTypes ==
  ASSUME Configured, TypeOK, Begun, NEW c \in Calls, CallNext(c)
  PROVE  TypeOK' /\ Begun'
<1>1. OwnFlags(c)
  BY CallFlags
<1>2. TypeOK'
  BY <1>1, CallReads DEF OwnFlags, TypeOK, routing
<1>3. PICK s \in {"prepared", "key", "context", "reading", "paused", "closing", "ended"} :
        pc' = [pc EXCEPT ![c] = s]
  BY <1>1 DEF OwnFlags
<1>4. pc'[c] # "idle" /\ \A d \in Calls \ {c} : pc'[d] = pc[d]
  BY <1>3 DEF TypeOK
<1>5. Begun'
  BY <1>4, CallReads DEF Begun
<1> QED BY <1>2, <1>5

\* What happens to a call is consistent with how far it is.
LEMMA CallEnds ==
  ASSUME TypeOK, Ended, NEW c \in Calls, CallNext(c)
  PROVE  Ended'
<1>0. /\ stage[c] \in {"body", "usage", "finish"} /\ outcome[c] \in Outcomes
      /\ pending[c] \in BOOLEAN /\ aborted[c] \in BOOLEAN /\ fired[c] \in BOOLEAN
      /\ open[c] \in BOOLEAN /\ Ending(c)
      /\ stage \in [Calls -> {"body", "usage", "finish"}]
      /\ pending \in [Calls -> BOOLEAN] /\ aborted \in [Calls -> BOOLEAN]
      /\ fired \in [Calls -> BOOLEAN] /\ open \in [Calls -> BOOLEAN]
      /\ outcome \in [Calls -> Outcomes] /\ DOMAIN pc = Calls
      /\ pc \in [Calls -> {"idle", "prepared", "key", "context", "reading", "paused",
                           "closing", "ended"}]
  BY DEF TypeOK, Ended
<1>1. OwnFlags(c)
  BY CallFlags
<1>2. \A d \in Calls \ {c} : pc'[d] = pc[d]
  BY <1>0, <1>1 DEF OwnFlags
<1>3. \A d \in Calls \ {c} : Ending(d)'
  BY <1>1, <1>2 DEF Ended, Ending, OwnFlags
<1>4. CASE Prepares(c)
  <2>1. /\ pc[c] \notin {"reading", "paused", "closing", "ended"}
        /\ UNCHANGED <<stage, pending, aborted, fired, open>>
        /\ \/ pc'[c] \in {"prepared", "key", "context"} /\ UNCHANGED outcome
           \/ pc'[c] = "ended" /\ outcome'[c] = "error"
    BY <1>0, <1>4 DEF Prepares, PrepareCall, Stream, KeyResolved, ContextFails, End, flow
  <2>2. Ending(c)'
    BY <1>0, <2>1 DEF Ending
  <2> QED BY <1>3, <2>2 DEF Ended
<1>5. CASE ContextReady(c) \/ Pull(c)
  <2>1. /\ pc[c] \in {"context", "paused"} /\ pc'[c] = "reading" /\ pending'[c] = TRUE
        /\ UNCHANGED <<stage, aborted, fired, outcome>>
    BY <1>0, <1>5 DEF ContextReady, Pull
  <2>2. Ending(c)'
    BY <1>0, <2>1 DEF Ending
  <2> QED BY <1>3, <2>2 DEF Ended
<1>6. CASE SdkSettles(c)
  <2>1. /\ pc[c] = "closing" /\ pc'[c] = "ended" /\ pending'[c] = FALSE /\ open'[c] = FALSE
        /\ UNCHANGED <<stage, aborted, fired, outcome>>
    BY <1>0, <1>6 DEF SdkSettles
  <2>2. Ending(c)'
    BY <1>0, <2>1 DEF Ending
  <2> QED BY <1>3, <2>2 DEF Ended
<1>7. CASE IdleFires(c)
  <2>1. /\ pc[c] = "reading" /\ stage[c] = "body" /\ ~aborted[c] /\ fired'[c] = TRUE
        /\ UNCHANGED <<pc, stage, pending, aborted, open, outcome>>
    BY <1>0, <1>7 DEF IdleFires
  <2>2. Ending(c)'
    BY <1>0, <2>1 DEF Ending
  <2> QED BY <1>3, <2>2 DEF Ended
<1>8. CASE CallerAborts(c)
  <2>1. aborted'[c] = TRUE /\ ~fired[c] /\ UNCHANGED <<pc, stage, pending, fired, open, outcome>>
    BY <1>0, <1>8 DEF CallerAborts, flow
  <2>2. Ending(c)'
    BY <1>0, <2>1 DEF Ending
  <2> QED BY <1>3, <2>2 DEF Ended
<1>9. ASSUME NEW r, Leave(c, r), pc[c] \in {"reading", "paused"},
             UNCHANGED <<aborted, fired>>, pending'[c] \in BOOLEAN,
             r # "none", r = "finished" => stage'[c] = "finish",
             r = "TIMEOUT" <=> fired[c], r = "ABORTED" => aborted[c] /\ ~fired[c]
      PROVE  Ended'
  <2>1. /\ outcome'[c] = r /\ open'[c] = pending'[c]
        /\ pc'[c] = IF pending'[c] THEN "closing" ELSE "ended"
    BY <1>0, <1>9 DEF Leave
  <2>2. Ending(c)'
    BY <1>0, <1>9, <2>1 DEF Ending
  <2> QED BY <1>3, <2>2 DEF Ended
<1>10. CASE Leaves(c)
  <2>1. UNCHANGED <<stage, aborted, fired>> /\ pending'[c] \in BOOLEAN
        /\ pc[c] \in {"reading", "paused"}
    BY <1>0, <1>10 DEF Leaves, Exhausted, SdkFails, ReadAbandoned, Stop
  <2>2. CASE Exhausted(c)
    <3>1. Leave(c, "finished") /\ stage[c] = "finish" /\ pc[c] = "reading"
      BY <2>2 DEF Exhausted
    <3> QED BY <1>0, <1>9, <2>1, <3>1 DEF Ending
  <2>3. CASE SdkFails(c) \/ ReadAbandoned(c)
    <3>1. Leave(c, Verdict(c))
      BY <2>3 DEF SdkFails, ReadAbandoned
    <3>2. /\ Verdict(c) \in {"TIMEOUT", "ABORTED", "error"}
          /\ Verdict(c) = "TIMEOUT" <=> fired[c]
          /\ Verdict(c) = "ABORTED" => aborted[c] /\ ~fired[c]
      BY <1>0 DEF Verdict
    <3> QED BY <1>9, <2>1, <3>1, <3>2
  <2>4. CASE Stop(c)
    <3>1. Leave(c, "stopped") /\ pc[c] = "paused"
      BY <2>4 DEF Stop
    <3> QED BY <1>0, <1>9, <2>1, <3>1 DEF Ending
  <2> QED BY <1>10, <2>2, <2>3, <2>4 DEF Leaves
<1>11. CASE Chunks(c)
  <2>1. PICK n \in {"body", "usage", "finish"} : Chunk(c, n)
    BY <1>11 DEF Chunks
  <2>2. /\ pending'[c] = FALSE /\ stage'[c] = n /\ UNCHANGED <<aborted, fired>>
        /\ pc[c] = "reading"
    BY <1>0, <2>1 DEF Chunk
  <2>3. CASE fired[c]
    <3>1. Leave(c, "TIMEOUT")
      BY <2>1, <2>3 DEF Chunk
    <3> QED BY <1>9, <2>2, <2>3, <3>1
  <2>4. CASE ~fired[c]
    <3>1. pc'[c] = "paused" /\ UNCHANGED <<open, outcome>>
      BY <1>0, <2>1, <2>4 DEF Chunk
    <3>2. Ending(c)'
      BY <1>0, <2>2, <2>4, <3>1 DEF Ending
    <3> QED BY <1>3, <3>2 DEF Ended
  <2> QED BY <2>3, <2>4
<1> QED BY <1>4, <1>5, <1>6, <1>7, <1>8, <1>10, <1>11, CallKinds DEF Flags

\* The three ways an announced table is taken, and the refusal.
LEMMA TableTaken ==
  ASSUME Configured, TypeOK, Registered, DocumentUpdated
  PROVE  TypeOK' /\ Registered'
<1>0. /\ FactsOf(doc) \in AllFacts /\ FactsOf(doc) # <<>> /\ Empty \in Tables
      /\ FactsOf(Empty) \in AllFacts /\ FactsOf(Empty) # <<>>
      /\ doc \in Tables
  BY TableTypes DEF TypeOK
<1>1. EnsureRegistration(doc) /\ told' = TRUE
      /\ UNCHANGED <<doc, writes, pc, route, snap, used, aborted, stage, pending, fired, open, outcome>>
  BY DEF DocumentUpdated, flow
<1>2. ASSUME Serviceable(doc)
      PROVE  FactsOf(doc) # FactsOf(Empty) /\ doc # Empty
  <2>1. PICK s \in Routes : TRUE
    BY DEF Configured
  <2>2. s \in Sources /\ doc[s] # None /\ doc[s] \in Profiles
    BY <1>0, <1>2, <2>1 DEF Serviceable, Configured, Tables
  <2>3. FactsOf(doc)[s] # None
    BY <2>1, <2>2 DEF FactsOf, Configured
  <2>4. FactsOf(Empty)[s] = None /\ Empty[s] = None
    BY <2>1, <2>2 DEF FactsOf, Empty
  <2> QED BY <2>2, <2>3, <2>4
<1>3. CASE Keep(doc) /\ FactsOf(doc) = facts
  BY <1>0, <1>1, <1>2, <1>3 DEF Keep, TypeOK, Registered, Serviceable
<1>4. CASE Dormant(doc) /\ registry = <<>> /\ doc = Empty
  BY <1>0, <1>1, <1>2, <1>4 DEF Dormant, TypeOK, Registered, Serviceable
<1>5. CASE Register(doc)
  BY <1>0, <1>1, <1>5 DEF Register, TypeOK, Registered
<1>6. CASE Refused /\ ~Serviceable(doc)
  BY <1>0, <1>1, <1>6 DEF Refused, TypeOK, Registered, Serviceable
<1> QED BY <1>1, <1>3, <1>4, <1>5, <1>6 DEF EnsureRegistration

LEMMA NextPi == Configured /\ PiInv /\ [Next]_vars => PiInv'
<1> SUFFICES ASSUME Configured, PiInv, [Next]_vars PROVE PiInv'
  OBVIOUS
<1>1. ASSUME NEW c \in Calls, CallNext(c)
      PROVE  PiInv'
  <2>1. TypeOK' /\ Begun' /\ Ended'
    BY <1>1, CallTypes, CallEnds DEF PiInv
  <2>2. UNCHANGED routing
    BY <1>1, CallFlags DEF PiInv, OwnFlags
  <2> QED BY <2>1, <2>2 DEF PiInv, Registered, routing, FactsOf, Serviceable
<1>2. CASE DocumentUpdated
  <2>1. TypeOK' /\ Registered'
    BY <1>2, TableTaken DEF PiInv
  <2> QED BY <1>2, <2>1 DEF DocumentUpdated, flow, PiInv, Begun, Ended, Ending
<1>3. CASE WriteSettings
  <2>0. doc \in Tables /\ writes \in 0..MaxWrites /\ writes < MaxWrites /\ MaxWrites \in Nat
    BY <1>3 DEF WriteSettings, PiInv, TypeOK, Configured
  <2>4. writes' \in 0..MaxWrites
    BY <1>3, <2>0 DEF WriteSettings
  <2>5. PICK s \in Sources, p \in Profiles \cup {None} : doc' = [doc EXCEPT ![s] = p]
    BY <1>3 DEF WriteSettings
  <2>6. doc' \in Tables
    BY <2>0, <2>5 DEF Tables
  <2>1. TypeOK'
    BY <1>3, <2>4, <2>6 DEF WriteSettings, PiInv, TypeOK, flow
  <2>2. Registered'
    BY <1>3 DEF WriteSettings, PiInv, Registered
  <2> QED BY <1>3, <2>1, <2>2 DEF WriteSettings, flow, PiInv, Begun, Ended, Ending
<1>4. CASE Done \/ UNCHANGED vars
  <2>1. UNCHANGED vars
    BY <1>4 DEF Done
  <2> QED BY <2>1 DEF vars, routing, PiInv, TypeOK, Begun, Ended, Ending, Registered
<1> QED BY <1>1, <1>2, <1>3, <1>4 DEF Next, CallNext

LEMMA PiInvariance == Configured => (Spec => []PiInv)
<1> SUFFICES ASSUME Configured PROVE Spec => []PiInv
  OBVIOUS
<1>1. Init => PiInv
  BY InitPi
<1>2. PiInv /\ [Next]_vars => PiInv'
  BY NextPi
<1> QED BY <1>1, <1>2, PTL DEF Spec

-----------------------------------------------------------------------------
\* Requests are served from what the llm service captured, and an announced
\* table that can be served is the one served, whatever was refused before.
THEOREM RoutesServed == Configured => (Spec => [](TypeOK /\ RoutesFollow))
<1>1. PiInv => TypeOK /\ RoutesFollow
  BY DEF PiInv, Registered, RoutesFollow
<1> QED BY <1>1, PiInvariance, PTL

\* A call reads one profile of its provider, over every await and every
\* settings write.
THEOREM ProviderPinned == Configured => (Spec => []OneGeneration)
<1>1. ASSUME PiInv, NEW c \in Calls
      PROVE  Cardinality(used[c]) <= 1
  <2>1. PICK p : used[c] \subseteq {p}
    BY <1>1 DEF PiInv, Begun
  <2>2. IsFiniteSet({p}) /\ Cardinality({p}) = 1
    BY FS_Singleton
  <2> QED BY <2>1, <2>2, FS_Subset
<1>2. PiInv => OneGeneration
  BY <1>1 DEF OneGeneration
<1> QED BY <1>2, PiInvariance, PTL

\* A call ends as a timeout, an abort or a finished message only if it was
\* one, and then no request and no read of it is left.
THEOREM EndingsTrue == Configured => (Spec => []EndsTruly)
<1>1. PiInv => EndsTruly
  BY DEF PiInv, TypeOK, Ended, Ending, EndsTruly
<1> QED BY <1>1, PiInvariance, PTL
=============================================================================
