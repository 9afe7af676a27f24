------------------------------ MODULE LspPool ------------------------------
(***************************************************************************)
(* The diagnostics runtime of the LSP plugin (runtime.js): admitted calls  *)
(* queue per provider/workspace key, read their document, take the pooled  *)
(* session of the key, open the document, wait for a publication to stay   *)
(* quiet, close, and retire the session whenever its protocol state can no *)
(* longer be trusted.  JavaScript runs one callback at a time: an action   *)
(* is the code between two awaits, so every interleaving of the calls, the *)
(* server's output, timers, aborts and disposal is a behaviour.            *)
(*                                                                         *)
(* The teardown of one process is a single step here; LspTeardown models   *)
(* it.  A key is a (providerId, workspaceKey) pair.                        *)
(***************************************************************************)
EXTENDS Naturals, Sequences

CONSTANTS Calls,        \* diagnose/diagnoseTarget invocations, each used once
          Uris,         \* canonical document URIs
          Keys,         \* (provider, workspace) pairs
          CallUri,      \* the document of a call
          CallKey,      \* the key a call is routed to
          NoCall,       \* "no waiter armed"
          MaxSessions,  \* bound: sessions created in a behaviour
          MaxWrites     \* bound: later mutations of one document

ASSUME CallAssumption ==
  /\ CallUri \in [Calls -> Uris]
  /\ CallKey \in [Calls -> Keys]
  /\ NoCall \notin Calls

ASSUME BoundAssumption == MaxSessions \in Nat /\ MaxWrites \in Nat

VARIABLES content,    \* content[u]: version of the text on disk
          call,       \* call[c]: progress of one invocation
          queue,      \* queue[k]: the calls enqueued on a key, in order
          pool,       \* pool[k]: the published session of a key, 0 for none
          sess,       \* sess[s]: one LspSession and its process
          made,       \* sessions created so far; ids are 1..made
          admission,  \* DiagnosticsRuntime.admissionOpen
          dispose     \* progress of performDispose

vars == <<content, call, queue, pool, sess, made, admission, dispose>>

Sessions == 1..MaxSessions

Docs == [uri : Uris, ver : Nat, text : Nat]

Phases == {"idle", "queued", "stat", "read", "boot", "opening", "waiting",
           "closing", "settled"}

\* "unavailable" carries the generic reason, "failed" a transport reason.
Outcomes == {"none", "ok", "stale", "unavailable", "failed"}

Boots == {"absent", "resolving", "initializing", "greeting", "ready", "failed"}

CallType == [pc : Phases, aborted : BOOLEAN, expected : Nat, text : Nat,
             ses : 0..MaxSessions, attempt : {0, 1}, out : Outcomes,
             shown : SUBSET Docs]

SessionType ==
  [owner : Calls \cup {NoCall}, boot : Boots, proc : {"none", "alive", "exited"},
   closing : BOOLEAN, poisoned : BOOLEAN, td : {"none", "running", "done"},
   accepted : BOOLEAN, retire : BOOLEAN, ver : [Uris -> Nat],
   recv : SUBSET Docs, waiter : Calls \cup {NoCall}, opened : BOOLEAN,
   pre : SUBSET Docs, batch : SUBSET Docs,
   out : {"none", "ok", "unavailable", "error"}]

TypeOK ==
  /\ content \in [Uris -> Nat]
  /\ call \in [Calls -> CallType]
  /\ queue \in [Keys -> Seq(Calls)]
  /\ pool \in [Keys -> 0..MaxSessions]
  /\ sess \in [Sessions -> SessionType]
  /\ made \in 0..MaxSessions
  /\ admission \in BOOLEAN
  /\ dispose \in {"none", "waiting", "done"}

\* The fields of a session before its constructor runs, and right after.
NoSession ==
  [owner |-> NoCall, boot |-> "absent", proc |-> "none", closing |-> FALSE,
   poisoned |-> FALSE, td |-> "none", accepted |-> FALSE, retire |-> FALSE,
   ver |-> [u \in Uris |-> 0], recv |-> {}, waiter |-> NoCall,
   opened |-> FALSE, pre |-> {}, batch |-> {}, out |-> "none"]

NewSession(c) == [NoSession EXCEPT !.owner = c, !.boot = "resolving"]

Init ==
  /\ content = [u \in Uris |-> 1]
  /\ call = [c \in Calls |->
               [pc |-> "idle", aborted |-> FALSE, expected |-> 0, text |-> 0,
                ses |-> 0, attempt |-> 0, out |-> "none", shown |-> {}]]
  /\ queue = [k \in Keys |-> <<>>]
  /\ pool = [k \in Keys |-> 0]
  /\ sess = [s \in Sessions |-> NoSession]
  /\ made = 0
  /\ admission = TRUE
  /\ dispose = "none"

-----------------------------------------------------------------------------
(* Operations on the sessions.  S is a value of sess, P one of pool.       *)

IsClosing(r) == r.closing \/ r.poisoned

\* The same, but the abort listener forgets a waiter without a batch.
BugSettle(r, o) ==
  IF r.waiter # NoCall /\ r.out = "none" /\ r.batch # {} THEN o ELSE r.out

\* Settling a waiter twice is a no-op.
Settle(r, o) == IF r.waiter # NoCall /\ r.out = "none" THEN o ELSE r.out

\* Rejecting the pending requests fails a handshake that awaits its response.
RejectPending(r) == IF r.boot = "initializing" THEN "failed" ELSE r.boot

StartTeardown(S, s) ==
  IF S[s].td # "none" THEN S
  ELSE [S EXCEPT ![s] = [@ EXCEPT !.closing = TRUE, !.td = "running",
                                  !.boot = RejectPending(S[s]),
                                  !.out = Settle(S[s], "unavailable")]]

\* poison, with the eviction and teardown its onFatal hook runs (EvictFrom).
Poison(S, s) ==
  IF S[s].poisoned THEN S
  ELSE StartTeardown([S EXCEPT ![s] = [@ EXCEPT !.poisoned = TRUE,
                                                !.boot = RejectPending(S[s]),
                                                !.out = Settle(S[s], "error")]], s)

EvictFrom(P, s) == [k \in Keys |-> IF P[k] = s THEN 0 ELSE P[k]]

\* detachWaiter drops the waiter object and all it held.
Detach(S, s) ==
  [S EXCEPT ![s] = [@ EXCEPT !.waiter = NoCall, !.opened = FALSE, !.pre = {},
                             !.batch = {}, !.out = "none"]]

\* Evicted from the pool, never torn down.
BugRetire(S, s) == Detach(S, s)

\* Evicted by its call: only the teardown still reads the session, so the
\* protocol state it leaves behind is forgotten.
Retire(S, s) ==
  LET T == StartTeardown(Detach(S, s), s)
  IN  [T EXCEPT ![s] = [@ EXCEPT !.poisoned = FALSE, !.accepted = FALSE,
                                 !.retire = FALSE, !.recv = {},
                                 !.ver = [u \in Uris |-> 0]]]

-----------------------------------------------------------------------------
(* Calls: admission and the queue.                                         *)

\* Somebody writes the file; after the last call has read it nobody looks.
Write(u) ==
  /\ content[u] <= MaxWrites
  /\ \E c \in Calls : /\ CallUri[c] = u
                      /\ call[c].pc \in {"idle", "queued", "stat", "read"}
  /\ content' = [content EXCEPT ![u] = @ + 1]
  /\ UNCHANGED <<call, queue, pool, sess, made, admission, dispose>>

\* A settled call keeps its result; its locals are gone.
Settled(c, o, shown) ==
  [call EXCEPT ![c] = [@ EXCEPT !.pc = "settled", !.out = o, !.shown = shown,
                                !.ses = 0, !.attempt = 0, !.expected = 0]]

Finish(c, o) == call' = Settled(c, o, {})

\* The caller may expect the version it saw when it called (0: no guard).
Diagnose(c) ==
  /\ call[c].pc = "idle"
  /\ IF ~admission \/ call[c].aborted
     THEN Finish(c, "stale") /\ UNCHANGED queue
     ELSE /\ \E v \in {0, content[CallUri[c]]} :
               call' = [call EXCEPT ![c].pc = "queued", ![c].expected = v]
          /\ queue' = [queue EXCEPT ![CallKey[c]] = Append(@, c)]
  /\ UNCHANGED <<content, pool, sess, made, admission, dispose>>

\* The tail follows the abortable view of the call just ahead.

\* A tail settles after every earlier tail of its key and its own result.
TailSettled(c) ==
  LET q == queue[CallKey[c]]
  IN  \A i, j \in 1..Len(q) : q[j] = c /\ i < j => call[q[i]].pc = "settled"

GiveUpQueued(c) ==
  /\ call[c].pc = "queued" /\ call[c].aborted
  /\ Finish(c, "stale")
  /\ UNCHANGED <<content, queue, pool, sess, made, admission, dispose>>

\* Admission, read again after every await that precedes a session.
BugStillAdmitted == TRUE
StillAdmitted == admission

StartRun(c) ==
  /\ call[c].pc = "queued" /\ ~call[c].aborted
  /\ TailSettled(c)
  /\ IF StillAdmitted THEN call' = [call EXCEPT ![c].pc = "stat"]
                      ELSE Finish(c, "stale")
  /\ UNCHANGED <<content, queue, pool, sess, made, admission, dispose>>

\* stat preflight; it may also fail, or the file be too large or not a file.
Stat(c) ==
  /\ call[c].pc = "stat"
  /\ \/ Finish(c, "unavailable")
     \/ /\ ~call[c].aborted
        /\ IF call[c].expected \in {0, content[CallUri[c]]}
           THEN call' = [call EXCEPT ![c].pc = "read"]
           ELSE Finish(c, "stale")
  /\ UNCHANGED <<content, queue, pool, sess, made, admission, dispose>>

ReadFails(c) ==
  /\ call[c].pc = "read"
  /\ Finish(c, "unavailable")
  /\ UNCHANGED <<content, queue, pool, sess, made, admission, dispose>>

\* getOrCreateSession, then session.diagnose up to its first await: S, P and C
\* are the sessions, the pool and the calls so far.
GetOrCreate(c, S, P, C) ==
  LET k == CallKey[c]
      cur == P[k]
      new == made + 1
  IN
  IF cur # 0 /\ ~IsClosing(S[cur])
  THEN /\ sess' = [S EXCEPT ![cur] = [@ EXCEPT !.accepted = FALSE, !.retire = FALSE]]
       /\ pool' = P
       /\ made' = made
       /\ call' = [C EXCEPT ![c] = [@ EXCEPT !.pc = "boot", !.ses = cur]]
  ELSE /\ made < MaxSessions
       /\ sess' = [S EXCEPT ![new] = NewSession(c)]
       /\ pool' = [P EXCEPT ![k] = new]
       /\ made' = new
       /\ call' = [C EXCEPT ![c] = [@ EXCEPT !.pc = "boot", !.ses = new]]

BugSpent(s, u) == FALSE

\* A process that already opened the URI is retired, never asked to reopen it.
Spent(s, u) == s # 0 /\ ~IsClosing(sess[s]) /\ sess[s].ver[u] > 0

\* The bytes read are those on disk now, whatever the version stat saw.
ReadAndAcquire(c) ==
  LET u == CallUri[c]
      cur == pool[CallKey[c]]
      read == [call EXCEPT ![c] = [@ EXCEPT !.text = content[u]]]
  IN
  /\ call[c].pc = "read" /\ ~call[c].aborted
  /\ IF ~StillAdmitted
     THEN Finish(c, "stale") /\ UNCHANGED <<pool, sess, made>>
     ELSE IF Spent(cur, u)
     THEN GetOrCreate(c, Retire(sess, cur), EvictFrom(pool, cur), read)
     ELSE GetOrCreate(c, sess, pool, read)
  /\ UNCHANGED <<content, queue, admission, dispose>>

-----------------------------------------------------------------------------
(* runDiagnosis after session.diagnose returned o or threw.                *)

\* S and P are the session and pool values left by session.diagnose.
Return(c, o, S, P) ==
  LET s == call[c].ses
      spent == call[c].aborted \/ S[s].retire
  IN
  /\ call' = Settled(c, o, IF o = "ok" THEN S[s].batch ELSE {})
  /\ sess' = IF spent THEN Retire(S, s) ELSE Detach(S, s)
  /\ pool' = IF spent THEN EvictFrom(P, s) ELSE P
  /\ UNCHANGED made

\* The one same-call restart needs an unaccepted publication and admission.
MayRestart(c, S) == ~S[call[c].ses].accepted /\ call[c].attempt = 0

Throw(c, S, P) ==
  LET s == call[c].ses
      S1 == Retire(S, s)
      P1 == EvictFrom(P, s)
      again == [call EXCEPT ![c] = [call[c] EXCEPT !.attempt = @ + 1]]
  IN
  IF ~call[c].aborted /\ MayRestart(c, S) /\ StillAdmitted
  THEN GetOrCreate(c, S1, P1, again)
  ELSE /\ Finish(c, IF call[c].aborted THEN "unavailable"
                    ELSE IF ~MayRestart(c, S) THEN "failed" ELSE "stale")
       /\ sess' = S1 /\ pool' = P1
       /\ UNCHANGED made

-----------------------------------------------------------------------------
(* Calls: session.diagnose.                                                *)

\* Await ready, then arm the waiter and issue the didOpen write.
Open(c) ==
  LET s == call[c].ses
      u == CallUri[c]
      r == sess[s]
      doc == [uri |-> u, ver |-> r.ver[u] + 1, text |-> call[c].text]
  IN
  /\ call[c].pc = "boot" /\ ~call[c].aborted
  /\ r.boot = "ready" /\ ~r.poisoned
  /\ sess' = [sess EXCEPT ![s] =
                [r EXCEPT !.ver = [r.ver EXCEPT ![u] = doc.ver], !.waiter = c,
                          !.opened = FALSE, !.pre = {}, !.batch = {},
                          !.out = "none", !.recv = r.recv \cup {doc}]]
  /\ call' = [call EXCEPT ![c].pc = "opening"]
  /\ UNCHANGED <<content, queue, pool, made, admission, dispose>>

BootFailed(c) ==
  LET s == call[c].ses IN
  /\ call[c].pc = "boot" /\ ~call[c].aborted
  /\ sess[s].boot = "failed" \/ (sess[s].boot = "ready" /\ sess[s].poisoned)
  /\ Throw(c, sess, pool)
  /\ UNCHANGED <<content, queue, admission, dispose>>

\* The didOpen write succeeded: a publication that raced it counts now.
OpenWritten(c) ==
  LET s == call[c].ses
      r == sess[s]
      flush == r.pre # {} /\ r.out = "none"
  IN
  /\ call[c].pc = "opening" /\ ~call[c].aborted
  /\ sess' = [sess EXCEPT ![s] =
                [r EXCEPT !.opened = TRUE, !.pre = {},
                          !.batch = IF flush THEN r.pre ELSE r.batch,
                          !.accepted = r.accepted \/ flush]]
  /\ call' = [call EXCEPT ![c].pc = "waiting"]
  /\ UNCHANGED <<content, queue, pool, made, admission, dispose>>

\* A failed write poisons a session that is not closing.
PoisonOpen(s) == IF sess[s].closing THEN sess ELSE Poison(sess, s)

OpenWriteFails(c) ==
  LET s == call[c].ses IN
  /\ call[c].pc = "opening" /\ ~call[c].aborted
  /\ Throw(c, PoisonOpen(s), EvictFrom(pool, s))
  /\ UNCHANGED <<content, queue, admission, dispose>>

\* Aborted before the document was open: nothing to close.
GiveUpOpening(c) ==
  /\ call[c].pc \in {"boot", "opening"} /\ call[c].aborted
  /\ Return(c, "unavailable", sess, pool)
  /\ UNCHANGED <<content, queue, admission, dispose>>

\* A rejected waiter makes session.diagnose throw; never a result.
Rejects(s) == sess[s].out = "error"

\* The waiter settled: an open document is closed, unless the session is
\* closing already or the deadline passed while it was open.
FinishWait(c) ==
  LET s == call[c].ses
      o == sess[s].out
  IN
  /\ call[c].pc = "waiting" /\ o # "none"
  /\ \/ Rejects(s) /\ Throw(c, sess, pool)
     \/ /\ ~Rejects(s) /\ IsClosing(sess[s])
        /\ Return(c, o, sess, pool)
     \/ /\ ~Rejects(s) /\ ~IsClosing(sess[s]) /\ call[c].aborted
        /\ Return(c, IF o = "ok" THEN "failed" ELSE o,
                  Poison(sess, s), EvictFrom(pool, s))
     \/ /\ ~Rejects(s) /\ ~IsClosing(sess[s]) /\ ~call[c].aborted
        /\ call' = [call EXCEPT ![c].pc = "closing"]
        /\ UNCHANGED <<pool, sess, made>>
  /\ UNCHANGED <<content, queue, admission, dispose>>

CloseWritten(c) ==
  /\ call[c].pc = "closing" /\ ~call[c].aborted
  /\ Return(c, IF sess[call[c].ses].out = "ok" THEN "ok" ELSE "unavailable", sess, pool)
  /\ UNCHANGED <<content, queue, admission, dispose>>

\* The didClose write failed or was abandoned: the session is poisoned.
CloseFails(c) ==
  LET s == call[c].ses
      o == IF ~call[c].aborted /\ sess[s].out = "ok" THEN "failed"
           ELSE "unavailable"
  IN
  /\ call[c].pc = "closing"
  /\ Return(c, o, Poison(sess, s), EvictFrom(pool, s))
  /\ UNCHANGED <<content, queue, admission, dispose>>

\* The caller's signal: deadline, caller cancellation or plugin cleanup.
\* It settles the armed waiter and fails a handshake this call started.
Abort(c) ==
  LET s == call[c].ses
      r == sess[s]
  IN
  /\ call[c].pc # "settled" /\ ~call[c].aborted
  /\ call' = [call EXCEPT ![c].aborted = TRUE]
  /\ sess' = IF s = 0 THEN sess
             ELSE [sess EXCEPT ![s] =
                     [r EXCEPT !.out = IF r.waiter = c
                                       THEN Settle(r, "unavailable") ELSE r.out,
                               !.boot = IF r.owner = c /\ r.boot \in {"initializing", "greeting"}
                                        THEN "failed" ELSE r.boot]]
  /\ UNCHANGED <<content, queue, pool, made, admission, dispose>>

-----------------------------------------------------------------------------
(* Sessions: bootstrap, the server's output, timers, teardown.             *)

\* resolveExecutable settled and the process is spawned, even for a session
\* already retired; the initialize request of a closing session is rejected.
Spawn(s) ==
  /\ sess[s].boot = "resolving" /\ ~call[sess[s].owner].aborted
  /\ sess' = [sess EXCEPT ![s] =
                [@ EXCEPT !.proc = "alive",
                          !.boot = IF sess[s].closing THEN "failed" ELSE "initializing"]]
  /\ UNCHANGED <<content, call, queue, pool, made, admission, dispose>>

InitializeOk(s) ==
  /\ sess[s].boot = "initializing" /\ sess[s].proc = "alive"
  /\ sess' = [sess EXCEPT ![s].boot = "greeting"]
  /\ UNCHANGED <<content, call, queue, pool, made, admission, dispose>>

InitializedWritten(s) ==
  /\ sess[s].boot = "greeting"
  /\ sess' = [sess EXCEPT ![s].boot = "ready"]
  /\ UNCHANGED <<content, call, queue, pool, made, admission, dispose>>

\* No executable, spawn failure, an error or malformed initialize result.
BootFails(s) ==
  /\ sess[s].boot \in {"resolving", "initializing"}
  /\ sess' = [sess EXCEPT ![s].boot = "failed"]
  /\ UNCHANGED <<content, call, queue, pool, made, admission, dispose>>

\* The initialized notification could not be written.
GreetingFails(s) ==
  /\ sess[s].boot = "greeting"
  /\ LET S == [sess EXCEPT ![s].boot = "failed"]
     IN  sess' = IF sess[s].closing THEN S ELSE Poison(S, s)
  /\ pool' = EvictFrom(pool, s)
  /\ UNCHANGED <<content, call, queue, made, admission, dispose>>

\* The exit of a closing process is part of its teardown.
Crash(s) ==
  /\ sess[s].proc = "alive" /\ ~sess[s].closing
  /\ sess' = Poison([sess EXCEPT ![s].proc = "exited"], s)
  /\ pool' = EvictFrom(pool, s)
  /\ UNCHANGED <<content, call, queue, made, admission, dispose>>

\* A frame, a response or a publication breaks the protocol.  It tells nothing
\* to a closing session that no call uses.
Malformed(s) ==
  /\ sess[s].proc = "alive" /\ ~sess[s].poisoned
  /\ sess[s].closing => \E c \in Calls : call[c].ses = s
  /\ sess' = Poison(sess, s)
  /\ pool' = EvictFrom(pool, s)
  /\ UNCHANGED <<content, call, queue, made, admission, dispose>>

\* Exact-URI correlation: publications for other documents are ignored.
SameDocument(s, d) == d.uri = CallUri[sess[s].waiter]

BugDeliver(r, d) == [r EXCEPT !.batch = {d}, !.accepted = TRUE]

\* Only a written didOpen accepts; an earlier publication is buffered.
Deliver(r, d) ==
  IF r.opened THEN [r EXCEPT !.batch = {d}, !.accepted = TRUE]
              ELSE [r EXCEPT !.pre = {d}]

\* The server publishes its result for a document it was sent, at any later
\* time and any number of times.  A versioned one is matched by version (an
\* older one is ignored); a versionless one is trusted on a first open only,
\* and retires the session after this call.
Publish(s, d, versioned) ==
  LET r == sess[s]
      current == r.ver[CallUri[r.waiter]]
  IN
  /\ r.proc = "alive" /\ r.td # "done"
  /\ r.waiter # NoCall /\ r.out = "none"
  /\ d \in r.recv /\ SameDocument(s, d)
  /\ \/ /\ versioned /\ d.ver >= current
        /\ sess' = [sess EXCEPT ![s] = Deliver(r, d)]
        /\ UNCHANGED pool
     \/ /\ ~versioned
        /\ LET trusted == [sess EXCEPT ![s] = [Deliver(r, d) EXCEPT !.retire = TRUE]]
           IN  sess' = IF current = 1 THEN trusted ELSE Poison(sess, s)
        /\ pool' = IF current = 1 THEN pool ELSE EvictFrom(pool, s)
  /\ UNCHANGED <<content, call, queue, made, admission, dispose>>

\* The timer runs from the didOpen write: silence reads as a clean document.
BugQuietTimer(s) ==
  /\ sess[s].waiter # NoCall /\ sess[s].out = "none" /\ sess[s].opened
  /\ sess' = [sess EXCEPT ![s].out = "ok"]
  /\ UNCHANGED <<content, call, queue, pool, made, admission, dispose>>

\* settleMs passed since the last accepted batch.
QuietTimer(s) ==
  /\ sess[s].waiter # NoCall /\ sess[s].out = "none" /\ sess[s].batch # {}
  /\ sess' = [sess EXCEPT ![s].out = "ok"]
  /\ UNCHANGED <<content, call, queue, pool, made, admission, dispose>>

BugNoStartup(s) == TRUE
BugHandshake(s) == sess[s].boot \in {"greeting", "ready"}

\* The teardown waits for a process that is still being spawned.
StartupOwned(s) == sess[s].boot # "resolving"

TeardownDone(s) ==
  /\ sess[s].td = "running" /\ StartupOwned(s)
  /\ sess' = [sess EXCEPT ![s] =
                [@ EXCEPT !.td = "done", !.recv = {}, !.pre = {},
                          !.proc = IF sess[s].proc = "alive" THEN "exited"
                                   ELSE sess[s].proc]]
  /\ UNCHANGED <<content, call, queue, pool, made, admission, dispose>>

-----------------------------------------------------------------------------
(* Disposal.                                                               *)

StopAdmission ==
  /\ admission
  /\ admission' = FALSE
  /\ UNCHANGED <<content, call, queue, pool, sess, made, dispose>>

DisposeBegin ==
  /\ dispose = "none"
  /\ admission' = FALSE
  /\ dispose' = "waiting"
  /\ pool' = [k \in Keys |-> 0]
  /\ sess' = [s \in Sessions |-> IF \E k \in Keys : pool[k] = s
                                 THEN StartTeardown(sess, s)[s] ELSE sess[s]]
  /\ UNCHANGED <<content, call, queue, made>>

\* The wait for the queues is bounded by shutdownTimeoutMs, so only the
\* retired teardowns hold disposal back.
DisposeDone ==
  /\ dispose = "waiting"
  /\ \A s \in Sessions : sess[s].td # "running"
  /\ dispose' = "done"
  /\ UNCHANGED <<content, call, queue, pool, sess, made, admission>>

AllQuiet ==
  /\ \A c \in Calls : call[c].pc = "settled"
  /\ dispose = "done"
  /\ UNCHANGED vars

-----------------------------------------------------------------------------
CallStep(c) ==
  \/ Diagnose(c) \/ GiveUpQueued(c) \/ StartRun(c) \/ Stat(c) \/ ReadFails(c)
  \/ ReadAndAcquire(c) \/ Open(c) \/ BootFailed(c) \/ OpenWritten(c)
  \/ OpenWriteFails(c) \/ GiveUpOpening(c) \/ FinishWait(c)
  \/ CloseWritten(c) \/ CloseFails(c) \/ Abort(c)

SessionStep(s) ==
  \/ Spawn(s) \/ InitializeOk(s) \/ InitializedWritten(s) \/ BootFails(s)
  \/ GreetingFails(s) \/ Crash(s) \/ Malformed(s)
  \/ \E d \in sess[s].recv, versioned \in BOOLEAN : Publish(s, d, versioned)
  \/ QuietTimer(s) \/ TeardownDone(s)

Dispose == StopAdmission \/ DisposeBegin \/ DisposeDone

Next ==
  \/ \E u \in Uris : Write(u)
  \/ \E c \in Calls : CallStep(c)
  \/ \E s \in 1..made : SessionStep(s)
  \/ Dispose
  \/ AllQuiet

Spec == Init /\ [][Next]_vars

-----------------------------------------------------------------------------
(* Fairness.  JavaScript runs every ready callback, a write callback or a  *)
(* resolver settles, and a caller's signal fires at its deadline; nothing  *)
(* makes the server answer, publish or crash.                              *)

CallProgress(c) ==
  \/ GiveUpQueued(c) \/ StartRun(c) \/ Stat(c) \/ ReadFails(c)
  \/ ReadAndAcquire(c) \/ Open(c) \/ BootFailed(c) \/ OpenWritten(c)
  \/ OpenWriteFails(c) \/ GiveUpOpening(c) \/ FinishWait(c)
  \/ CloseWritten(c) \/ CloseFails(c)

Deadline(c) == call[c].pc # "idle" /\ Abort(c)

SpawnSettles(s) == Spawn(s) \/ (sess[s].boot = "resolving" /\ BootFails(s))

Fairness ==
  /\ \A c \in Calls : WF_vars(CallProgress(c)) /\ WF_vars(Deadline(c))
  /\ \A s \in Sessions : WF_vars(s <= made /\ SpawnSettles(s))
                         /\ WF_vars(s <= made /\ TeardownDone(s))
  /\ WF_vars(DisposeDone)

FairSpec == Spec /\ Fairness

-----------------------------------------------------------------------------
(* Properties.                                                             *)

Serving == {"stat", "read", "boot", "opening", "waiting", "closing"}

\* At most one call of a key is between its start and its result, also after
\* a caller in the middle of the queue gave up (enqueue, runDiagnosis).
Serial ==
  \A c, d \in Calls :
    /\ c # d /\ CallKey[c] = CallKey[d]
    /\ call[c].pc \in Serving
    => call[d].pc \notin Serving

\* An ok outcome shows what the server computed from the very text this call
\* read, never a result for another document or another call's text, however
\* late the server publishes (handlePublish, runDiagnosis's rotation).
OwnText ==
  \A c \in Calls : call[c].out = "ok" =>
    \E d \in call[c].shown : /\ call[c].shown = {d}
                             /\ d.uri = CallUri[c] /\ d.text = call[c].text

\* No process is ever asked to open one URI twice, so version 1 and "first
\* open" hold in every waiter (hasOpenedUri).
NeverReopened == \A s \in Sessions, u \in Uris : sess[s].ver[u] <= 1

\* Every process that lives, or may yet be spawned, belongs to the pool slot
\* of its key or to a running teardown: none is orphaned by rotation,
\* restart, poison, abort or disposal (evictIfCurrent, startSessionTeardown).
Owned ==
  \A s \in Sessions :
    sess[s].proc = "alive" \/ sess[s].boot = "resolving"
      => pool[CallKey[sess[s].owner]] = s \/ sess[s].td = "running"

\* A resolved dispose() leaves no process behind, not even one whose spawn
\* was under way when it began (performDispose, teardown).
DisposedMeansGone ==
  dispose = "done" =>
    \A s \in Sessions : sess[s].proc # "alive" /\ sess[s].boot # "resolving"

\* Once disposal took its snapshot of the pool no session is created
\* (the admission checks of runDiagnosis after each await).
NoSessionAfterDispose == [][dispose # "none" => made' = made]_vars

\* A transport failure of the first session surfaces only after its didOpen
\* was written: one that happens earlier always gets the restart, even if
\* the server had already published (preOpenBatch, acceptedPublication).
EarlyFailureRestarts ==
  [][\A c \in Calls :
       call[c].out = "none" /\ call'[c].out = "failed" /\ call[c].attempt = 0
         => call[c].pc \in {"waiting", "closing"}]_vars

\* Every admitted call settles, whatever the server does.
CallsSettle == \A c \in Calls : call[c].pc # "idle" ~> call[c].pc = "settled"

\* dispose() resolves.
DisposeResolves == dispose # "none" ~> dispose = "done"

\* The service its clients see: the stage of a call, and the calls that were
\* queued before it and have no result yet.
Stage(c) ==
  CASE call[c].pc = "idle" -> "idle" [] call[c].pc = "queued" -> "asked"
    [] call[c].pc = "settled" -> "settled" [] OTHER -> "served"

Before(q, d, c) == \E j \in 1..Len(q) : q[j] = c /\ \E i \in 1..(j - 1) : q[i] = d

Ahead(c) ==
  IF call[c].pc # "queued" THEN {}
  ELSE {d \in Calls : call[d].pc # "settled" /\ Before(queue[CallKey[c]], d, c)}

Service == INSTANCE DiagnosisService WITH
  open <- admission, stage <- [c \in Calls |-> Stage(c)],
  ahead <- [c \in Calls |-> Ahead(c)], outcome <- [c \in Calls |-> call[c].out]

\* The runtime serves the calls of a key alone and in their order, although
\* callers in the middle of the queue give up, answers only calls it served,
\* and begins no service once admission was stopped (enqueue, runDiagnosis).
Implements == Service!Spec

=============================================================================
