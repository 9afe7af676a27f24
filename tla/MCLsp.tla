---------------------------------- MODULE MCLsp ----------------------------------
(* The language-server side: the runtime's pool with three calls on one    *)
(* document, the decoder of the messages a server sends, the search of the *)
(* workspace root a call is routed by, and the texts the model reads.      *)
(* They share no state, so that a behaviour is about one of them and the   *)
(* others stay as they start.                                              *)
EXTENDS LspPool, FiniteSets, TLC

CONSTANTS c1, c2, c3, u1, k1,
  MaxStream, MaxHeader, MaxBody,   \* of the decoder
  Depth, MarkerWrites              \* of the search for a root

ASSUME LspLimits ==
  /\ MaxStream \in Nat /\ MaxHeader \in Nat /\ MaxBody \in Nat
  /\ Depth \in Nat /\ MarkerWrites \in Nat

VARIABLE which   \* the component this behaviour is about

SameUri == [c \in Calls |-> u1]
OneKey  == [c \in Calls |-> k1]
\* Of the three calls at most one is aborted; lsp_pool_live aborts both of its calls.
MaxAborts == 1
FewAborts == Cardinality({c \in Calls : call[c].aborted}) <= MaxAborts
\* Paths with a line break, an astral character and one above the surrogates;
\* two of them are the same on one line.
Paths == (1 :> <<98, 10>>) @@ (2 :> <<55357, 56832>>) @@ (3 :> <<65281>>) @@ (4 :> <<98, 32>>)
FileOrders == {<<1>>, <<2, 3>>, <<3, 2>>, <<1, 4>>, <<4, 1>>}
Raw(l, e, s, m) == [line |-> l, end |-> e, severity |-> s, message |-> m]
First == {Raw(0, 0, 1, <<97, 13, 10, 55357, 56832>>), Raw(0, 1, 1, <<97, 8232, 55357>>),
          Raw(0, 0, 1, <<65281, 10, 13>>)}
Batches == {<<>>, <<Raw(1, 1, 0, <<97>>)>>} \cup {<<r>> : r \in First} \cup {<<r, s>> : r, s \in First}
           \cup {<<Raw(1, 0, 1, <<97>>)>>, <<Raw(0, 2, 1, <<97>>)>>, <<Raw(0, 0, 5, <<97>>)>>}
Settings == {[max |-> 1, cap |-> 100, clean |-> FALSE], [max |-> 2, cap |-> 16, clean |-> TRUE],
             [max |-> 3, cap |-> 13, clean |-> FALSE], [max |-> 3, cap |-> 2, clean |-> TRUE]}
\* The calls are interchangeable.
Symmetric == Permutations(Calls)

Bytes == {"r", "1", "x"}

VARIABLES frame_stream, frame_at, frame_buffer, frame_got, frame_failed
frame_vars == <<frame_stream, frame_at, frame_buffer, frame_got, frame_failed>>
Framing == INSTANCE LspFraming WITH
  stream <- frame_stream, at <- frame_at, buffer <- frame_buffer,
  got <- frame_got, failed <- frame_failed

VARIABLES root_fallback, root_session, root_marked, root_at, root_level,
          root_found, root_aborted, root_root, root_seen, root_writes
root_vars == <<root_fallback, root_session, root_marked, root_at, root_level,
               root_found, root_aborted, root_root, root_seen, root_writes>>
Root == INSTANCE LspWorkspace WITH
  MaxWrites <- MarkerWrites,
  fallback <- root_fallback, session <- root_session, marked <- root_marked,
  at <- root_at, level <- root_level, found <- root_found,
  aborted <- root_aborted, root <- root_root, seen <- root_seen,
  writes <- root_writes

VARIABLES text_config, text_candidates, text_eligible, text_entries,
          text_next, text_report
text_vars == <<text_config, text_candidates, text_eligible, text_entries,
               text_next, text_report>>
Text == INSTANCE LspRender WITH
  Orders <- FileOrders, PathOf <- Paths, Published <- Batches,
  Configs <- Settings,
  config <- text_config, candidates <- text_candidates,
  eligible <- text_eligible, entries <- text_entries, next <- text_next,
  report <- text_report

-----------------------------------------------------------------------------
\* Every component starts; only one of them goes on.
Subjects == {"pool", "frame", "root", "text"}

AllInit ==
  /\ which \in Subjects
  /\ IF which = "frame" THEN TRUE ELSE frame_stream = [i \in 1..MaxStream |-> "x"]
  /\ IF which = "root" THEN TRUE ELSE root_fallback = "never" /\ root_session = 0 /\ root_marked = {}
  /\ IF which = "text" THEN TRUE ELSE text_config = [max |-> 1, cap |-> 100, clean |-> FALSE]
  /\ IF which = "text" THEN TRUE ELSE text_candidates = <<1>>
  /\ Init /\ Framing!Init /\ Root!Init /\ Text!Init

AllNext ==
  \/ which = "pool" /\ Next /\ FewAborts' /\ UNCHANGED <<which, frame_vars, root_vars, text_vars>>
  \/ which = "frame" /\ Framing!Next /\ UNCHANGED <<which, vars, root_vars, text_vars>>
  \/ which = "root" /\ Root!Next /\ UNCHANGED <<which, vars, frame_vars, text_vars>>
  \/ which = "text" /\ Text!Next /\ UNCHANGED <<which, vars, frame_vars, root_vars>>

all == <<which, vars, frame_vars, root_vars, text_vars>>
AllSpec == AllInit /\ [][AllNext]_all

-----------------------------------------------------------------------------
\* The decoder's types, and its promise: however a server's bytes arrive in
\* chunks, they give the same messages and the same end, and what waits for
\* more stays within the limits (MessageDecoder.push).
FramesSound ==
  which = "frame" => Framing!TypeOK /\ Framing!ChunkingIsInvisible /\ Framing!RetainedIsBounded

\* The search's types, and its promise: the root is the nearest marked level
\* a probe saw, or the session root the caller allows; an aborted search gives
\* none (resolveWorkspaceRoot).
NearestRoot ==
  /\ Root!NoRootOnceAborted
  /\ [](which = "root" => Root!TypeOK /\ Root!NearestRoot)

\* The texts: what is normalised renders, in an order that neither the order of
\* the mutations nor the server's shows through, within the limits, and the
\* notice and the tool agree (normalizeDiagnostic, renderDiagnostics,
\* renderResult).
NoticeFaithful ==
  which = "text" => /\ Text!TypeOK /\ Text!NeverFailsLoud /\ Text!OrderIsInvisible
                    /\ Text!WithinLimits /\ Text!SameLines
=============================================================================
