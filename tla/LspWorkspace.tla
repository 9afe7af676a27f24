--------------------------- MODULE LspWorkspace ----------------------------
(***************************************************************************)
(* Which directory a language server is started in for a file              *)
(* (workspace-root.js): the session's workspace, or the nearest directory  *)
(* above the file that holds a project marker.  Every probe is an await in  *)
(* which markers come and go, the file system refuses to answer or the     *)
(* caller aborts.  The directories are the levels above the file, 1 the    *)
(* file system's root and Depth the file's own.                            *)
(***************************************************************************)
EXTENDS Naturals

CONSTANTS Depth,       \* levels above the file
          MaxWrites    \* bound on markers that come and go

Levels == 1..Depth
None == 0
Fallbacks == {"always", "if-contained", "never"}   \* SessionFallback

VARIABLES fallback, session,   \* the caller's, its session root (None: outside)
          marked,              \* levels that hold a marker
          at,                  \* where resolveWorkspaceRoot is
          level,               \* of the walk
          found,               \* the level of the marker that was seen
          aborted,             \* signal.aborted
          root,                \* what it returned
          seen, writes         \* history: levels a probe saw unmarked or got no answer for

vars == <<fallback, session, marked, at, level, found, aborted, root, seen, writes>>

Static == UNCHANGED <<fallback, session, marked, aborted, writes>>
Return(r) == /\ root' = r /\ at' = "done"
             /\ UNCHANGED <<level, found, seen>> /\ Static
Goto(l) == at' = l /\ UNCHANGED <<level, found, root, seen>> /\ Static

\* resolveDirectory: a directory that answers, unless the signal aborted.
BugAnswers(ok) == ok
Answers(ok) == ok /\ ~aborted

\* resolveSessionFallback, first or last.
Contained == session # None
SessionRoot(ok) ==
  IF fallback # "never" /\ Answers(ok) /\ (fallback = "always" \/ Contained)
  THEN IF Contained THEN session ELSE Depth + 1 ELSE None

First(ok) ==
  /\ at = "first"
  /\ IF SessionRoot(ok) # None THEN Return(SessionRoot(ok))
     ELSE IF aborted THEN Goto("last") ELSE Goto("walk")

\* markerExists for the markers of one level; any of them is enough.
Probe(ok) ==
  /\ at = "walk" /\ level # None
  /\ IF level \in marked /\ Answers(ok)
     THEN /\ found' = level /\ at' = "resolve" /\ UNCHANGED <<level, seen>>
     ELSE /\ level' = level - 1 /\ seen' = seen \cup {level}
          /\ UNCHANGED <<at, found>>
  /\ UNCHANGED root /\ Static

\* The marked directory itself has to resolve; the walk does not go on above.
Resolve(ok) ==
  /\ at = "resolve"
  /\ IF Answers(ok) THEN Return(found) ELSE Goto("last")

WalkedUp == at = "walk" /\ level = None /\ Goto("last")

Last(ok) ==
  /\ at = "last"
  /\ Return(IF fallback = "if-contained" THEN None ELSE SessionRoot(ok))

Abort == /\ ~aborted /\ at # "done" /\ aborted' = TRUE
         /\ UNCHANGED <<fallback, session, marked, at, level, found, root, seen, writes>>
Write(l) ==
  /\ writes < MaxWrites /\ writes' = writes + 1
  /\ marked' = IF l \in marked THEN marked \ {l} ELSE marked \cup {l}
  /\ UNCHANGED <<fallback, session, at, level, found, aborted, root, seen>>

Init ==
  /\ fallback \in Fallbacks /\ session \in {None} \cup Levels /\ marked \in SUBSET Levels
  /\ at = IF fallback = "if-contained" THEN "first" ELSE "walk"
  /\ level = Depth /\ found = None /\ aborted = FALSE /\ root = None
  /\ seen = {} /\ writes = 0

Next ==
  \/ \E ok \in BOOLEAN : First(ok) \/ Probe(ok) \/ Resolve(ok) \/ Last(ok)
  \/ WalkedUp \/ Abort \/ \E l \in Levels : Write(l)
Spec == Init /\ [][Next]_vars

---------------------------------------------------------------------------
TypeOK ==
  /\ fallback \in Fallbacks /\ session \in 0..Depth /\ marked \subseteq Levels
  /\ at \in {"first", "walk", "resolve", "last", "done"} /\ level \in 0..Depth
  /\ found \in 0..Depth /\ aborted \in BOOLEAN /\ root \in 0..Depth + 1
  /\ seen \subseteq Levels /\ writes \in 0..MaxWrites

\* The server of a file never gets the root of an outer project while an inner
\* one answered, and no session root that does not hold the file unless the
\* caller asked for it whatever it holds.
NearestRoot ==
  at = "done" /\ root # None =>
    \/ fallback # "never" /\ root = session
    \/ fallback = "always" /\ session = None /\ root = Depth + 1
    \/ root = found /\ \A l \in root + 1..Depth : l \in seen

\* An aborted call gets no root: the probes that were cut short look like
\* missing markers, and the walk must not take a directory further up for the
\* project, nor fall back to the session.
NoRootOnceAborted == [][aborted /\ at # "done" => root' = None]_vars
=============================================================================
