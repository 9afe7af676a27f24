----------------------------- MODULE LspRender -----------------------------
(***************************************************************************)
(* What the model reads of the diagnostics: the normalisation of a         *)
(* server's publication (runtime.js), the order of the files (render.js    *)
(* and the coordinator), and the two texts, the notice after a write       *)
(* (render.js) and the answer of lsp_diagnostics (tool.js).                *)
(*                                                                         *)
(* A string is the sequence of its UTF-16 code units.  Fixed wording is    *)
(* one unit; code and source are strings like the message, and left out.   *)
(***************************************************************************)
EXTENDS Integers, Sequences, SequencesExt, FiniteSets, TLC

CONSTANTS Orders,      \* the orders in which the mutations of a call were seen
          PathOf,      \* the display path of each file, a string
          Published,   \* the publications a server may send, as it orders them
          Configs      \* the settings [max, cap, clean]

NL == 10   CR == 13   Space == 32   Unknown == 65533   \* U+FFFD
Breaks   == {NL, 8232, 8233}
High     == 55296..56319
Low      == 56320..57343
Control(u) == u \in 0..31 \/ u \in 127..159
MaxPos   == 2          \* stands for MAX_SAFE_INTEGER
Marker   == <<8230, 46, 46>>   \* the truncation mark, shortened

VARIABLES config,      \* of the plugin
          candidates,  \* the changed files, in the order of their mutations
          eligible,    \* the same in the order of the diagnoses, <<>> before
          entries,     \* what the renderer gets
          next,        \* the file whose diagnosis is due
          report       \* the notice [text, count, files], or Nothing

vars == <<config, candidates, eligible, entries, next, report>>

Nothing == [text |-> <<>>, count |-> 0, files |-> 0]

---------------------------------------------------------------------------
(* Strings.                                                                *)

PairAt(s, i) == i < Len(s) /\ s[i] \in High /\ s[i + 1] \in Low

\* Array.from and codePointAt: a pair of surrogates is one point.
BugPoints(s) == s
Points(s) ==
  LET from[i \in 1..Len(s) + 1] ==
        CASE i > Len(s) -> <<>>
          [] PairAt(s, i) -> <<65536 + (s[i] - 55296) * 1024 + (s[i + 1] - 56320)>> \o from[i + 2]
          [] OTHER -> <<s[i]>> \o from[i + 1]
  IN from[1]

\* join: the units of a sequence of points.
Units(ps) ==
  LET from[i \in 1..Len(ps) + 1] ==
        CASE i > Len(ps) -> <<>>
          [] i <= Len(ps) /\ ps[i] >= 65536 ->
               <<55296 + ((ps[i] - 65536) \div 1024), 56320 + ((ps[i] - 65536) % 1024)>> \o from[i + 1]
          [] OTHER -> <<ps[i]>> \o from[i + 1]
  IN from[1]

\* One line, without control characters and lone surrogates.
SanitizeToSingleLine(s) ==
  LET from[i \in 1..Len(s) + 1] ==
        CASE i > Len(s) -> <<>>
          [] i < Len(s) /\ s[i] = CR /\ s[i + 1] = NL -> <<Space>> \o from[i + 2]
          [] PairAt(s, i) -> <<s[i], s[i + 1]>> \o from[i + 2]
          [] OTHER -> <<CASE s[i] \in Breaks \cup {CR} -> Space
                          [] s[i] \notin Breaks \cup {CR} /\ (Control(s[i]) \/ s[i] \in High \/ s[i] \in Low) -> Unknown
                          [] OTHER -> s[i]>> \o from[i + 1]
  IN from[1]

\* The tool's own rule: a run of breaks is one space.
SingleLine(s) ==
  LET break(i) == i <= Len(s) /\ s[i] \in Breaks \cup {CR}
      from[i \in 1..Len(s) + 1] ==
        CASE i > Len(s) -> <<>>
          [] break(i) -> (IF break(i + 1) THEN <<>> ELSE <<Space>>) \o from[i + 1]
          [] OTHER -> <<s[i]>> \o from[i + 1]
  IN from[1]

\* Before in the order of code points, a prefix first.
Before(p, q) ==
  \E n \in 0..Len(p) : /\ n < Len(q) /\ SubSeq(p, 1, n) = SubSeq(q, 1, n)
                       /\ n < Len(p) => p[n + 1] < q[n + 1]

\* The cap counts points and never ends inside a pair.
Capped(text, ps, cap) ==
  IF Len(ps) <= cap THEN text
  ELSE IF cap >= Len(Marker) THEN Units(SubSeq(ps, 1, cap - Len(Marker))) \o Marker
  ELSE SubSeq(Marker, 1, cap)

ApplyCharCap(text, cap) == Capped(text, Points(text), cap)

Join(ss, sep) ==
  LET upto[i \in 0..Len(ss)] ==
        CASE i = 0 -> <<>> [] i = 1 -> ss[1] [] OTHER -> upto[i - 1] \o sep \o ss[i]
  IN upto[Len(ss)]

---------------------------------------------------------------------------
(* A publication: every diagnostic is read, or the answer is malformed.    *)

\* normalizeRange, normalizePosition, normalizeSeverity.
Readable(raw) ==
  /\ raw.line \in 0..MaxPos - 1 /\ raw.end \in 0..MaxPos - 1 /\ raw.end >= raw.line
  /\ raw.severity \in 0..4

\* An absent severity, 0 here, is the last rank.
NormalizeDiagnostic(raw) ==
  [line |-> raw.line, end |-> raw.end,
   rank |-> IF raw.severity = 0 THEN 4 ELSE raw.severity - 1,
   message |-> SanitizeToSingleLine(raw.message)]

Entry(f, kind, ds) == [file |-> f, path |-> SanitizeToSingleLine(PathOf[f]),
                       kind |-> kind, diagnostics |-> ds]

\* What the coordinator makes of a publication.
EntryOf(f, batch) ==
  IF \E i \in DOMAIN batch : ~Readable(batch[i]) THEN Entry(f, "malformed response", <<>>)
  ELSE IF batch = <<>> THEN Entry(f, "clean", <<>>)
  ELSE Entry(f, "diagnostics", [i \in DOMAIN batch |-> NormalizeDiagnostic(batch[i])])

---------------------------------------------------------------------------
(* The orders.  -1 stands between two columns, before every character.     *)

CompareDiagnostics(a, b) ==
  LET Key(d) == <<d.line, d.rank>> \o Points(d.message) \o <<-1, d.end>>
  IN Before(Key(a), Key(b))

\* A file's key is its number.
CompareEligibleTargets(a, b) ==
  Before(Points(a.path) \o <<-1, a.file>>, Points(b.path) \o <<-1, b.file>>)

---------------------------------------------------------------------------
(* The texts.                                                              *)

RenderDiagnosticLine(d, message) == <<45, 48 + d.rank, 49 + d.line, 49 + d.end>> \o message

Slice(ds, n) == SubSeq(ds, 1, IF n < Len(ds) THEN n ELSE Len(ds))
Kept(e, budget) == Slice(SortSeq(e.diagnostics, CompareDiagnostics), budget)

Lines(ds, messages) ==
  Join([i \in DOMAIN ds |-> RenderDiagnosticLine(ds[i], messages[i])], <<NL>>)

\* One section a file, in order, until the budget of lines is used up.
Left(left, kept) == left - Len(kept)

Section(before, e, kept, head) ==
  CASE e.kind = "diagnostics" /\ kept = <<>> -> before
    [] e.kind = "diagnostics" /\ kept # <<>> ->
         LET messages == [i \in DOMAIN kept |-> SanitizeToSingleLine(kept[i].message)] IN
         [left |-> Left(before.left, kept), count |-> before.count + Len(kept),
          sections |-> Append(before.sections, head \o Lines(kept, messages))]
    [] OTHER ->
         [before EXCEPT !.sections = Append(@, head \o <<IF e.kind = "clean" THEN 67 ELSE 85>>)]

Sections(targets, max) ==
  LET upto[i \in 0..Len(targets)] ==
        IF i = 0 THEN [left |-> max, sections |-> <<>>, count |-> 0]
        ELSE Section(upto[i - 1], targets[i], Kept(targets[i], upto[i - 1].left),
                     <<70>> \o SanitizeToSingleLine(targets[i].path) \o <<NL>>)
  IN upto[Len(targets)]

\* The renderer checks what it is given and throws; the coordinator then
\* leaves the call as it is.
Loud == [Nothing EXCEPT !.files = -1]
Reasons == {"malformed response", "timeout"}

AssertDiagnostic(d) ==
  /\ d.line \in 0..MaxPos - 1 /\ d.end \in 0..MaxPos - 1 /\ d.end >= d.line
  /\ d.rank \in 0..4

AssertEntry(e) ==
  CASE e.kind = "diagnostics" -> \A i \in DOMAIN e.diagnostics : AssertDiagnostic(e.diagnostics[i])
    [] e.kind # "diagnostics" -> e.kind \in {"clean"} \cup Reasons /\ e.diagnostics = <<>>

Notice(all, c) ==
  IF all.sections = <<>> THEN Nothing
  ELSE [text |-> ApplyCharCap(<<84, NL>> \o Join(all.sections, <<NL, NL>>)
                   \o IF all.count > 0 THEN <<NL, NL, 65>> ELSE <<>>, c.cap),
        count |-> all.count, files |-> Len(all.sections)]

RenderDiagnostics(es, c) ==
  LET shown == SelectSeq(es, LAMBDA e : c.clean \/ e.kind # "clean") IN
  IF \E i \in DOMAIN es : ~AssertEntry(es[i]) THEN Loud
  ELSE Notice(Sections(SortSeq(shown, CompareEligibleTargets), c.max), c)

\* The tool's answer about one file.
Body(e, kept) ==
  CASE e.kind = "diagnostics" ->
         Lines(kept, [i \in DOMAIN kept |-> SingleLine(kept[i].message)])
           \o LET omitted == Len(e.diagnostics) - Len(kept)
              IN IF omitted > 0 THEN <<NL, 48 + omitted>> ELSE <<>>
    [] e.kind = "clean" -> <<67>>
    [] OTHER -> <<85>>

RenderResult(e, c) ==
  ApplyCharCap(<<84, NL, 70>> \o SingleLine(e.path) \o <<NL>> \o Body(e, Kept(e, c.max)), c.cap)

---------------------------------------------------------------------------
(* The call: the files are put in order, diagnosed one after the other and *)
(* rendered.                                                               *)

Init ==
  /\ config \in Configs /\ candidates \in Orders
  /\ eligible = <<>> /\ entries = <<>> /\ next = 0 /\ report = Nothing

Scheduled(cs) == SortSeq([i \in DOMAIN cs |-> Entry(cs[i], "eligible", <<>>)],
                         CompareEligibleTargets)

Schedule ==
  /\ next = 0 /\ next' = 1 /\ eligible' = Scheduled(candidates)
  /\ UNCHANGED <<config, candidates, entries, report>>

Diagnose ==
  /\ next \in DOMAIN eligible /\ next' = next + 1
  /\ \/ \E batch \in Published : entries' = Append(entries, EntryOf(eligible[next].file, batch))
     \/ UNCHANGED entries    \* stale, or the file changed since
  /\ UNCHANGED <<config, candidates, eligible, report>>

\* The deadline first: every file that is still current is reported as timed
\* out, whatever was diagnosed.
Deadline ==
  /\ next \in 1..Len(eligible) + 1 /\ next' = Len(eligible) + 1
  /\ \E current \in SUBSET {e.file : e \in Range(eligible)} :
       entries' = SelectSeq([i \in DOMAIN eligible |-> Entry(eligible[i].file, "timeout", <<>>)],
                            LAMBDA e : e.file \in current)
  /\ UNCHANGED <<config, candidates, eligible, report>>

Render ==
  /\ next = Len(eligible) + 1 /\ next > 1 /\ next' = Len(eligible) + 2
  /\ report' = RenderDiagnostics(entries, config)
  /\ UNCHANGED <<config, candidates, eligible, entries>>

Ended == next = Len(eligible) + 2 /\ next > 2 /\ UNCHANGED vars

Next == Schedule \/ Diagnose \/ Deadline \/ Render \/ Ended

Spec == Init /\ [][Next]_vars

---------------------------------------------------------------------------
(* Properties.                                                             *)

Rendered == next = Len(eligible) + 2 /\ next > 2

TypeOK ==
  /\ config \in Configs /\ candidates \in Orders
  /\ next \in 0..Len(eligible) + 2
  /\ Len(eligible) \in {0, Len(candidates)} /\ Len(entries) <= Len(eligible)
  /\ report.count \in Nat /\ report.files \in -1..Len(entries)

\* What the runtime normalised passes every check of the renderer, which
\* throws otherwise (assertDiagnostic, assertRange, assertEntry).
NeverFailsLoud == report # Loud

Reordered(s) == {[i \in DOMAIN s |-> s[p[i]]] : p \in Permutations(DOMAIN s)}

\* The text does not depend on the order in which the files changed nor on
\* the one in which the server listed its diagnostics
\* (compareEligibleTargets, compareDiagnostics).
OrderIsInvisible ==
  /\ next > 0 => \A cs \in Reordered(candidates) : eligible = Scheduled(cs)
  /\ Rendered => \A es \in Reordered(entries) :
       report = RenderDiagnostics([i \in DOMAIN es |->
                  [es[i] EXCEPT !.diagnostics = [j \in DOMAIN @ |-> @[Len(@) + 1 - j]]]], config)

Total(es) == Cardinality({p \in (DOMAIN es) \X (1..4) : p[2] <= Len(es[p[1]].diagnostics)})
Breaking(text) == {i \in DOMAIN text : text[i] \in Breaks \cup {CR}}
WellFormed(text) ==
  \A i \in DOMAIN text : /\ text[i] \in High => PairAt(text, i)
                         /\ text[i] \in Low => i > 1 /\ PairAt(text, i - 1)

\* The notice shows as many diagnostics as its budget allows and no more, as
\* many lines as that makes whatever the strings hold, never more points than
\* its cap, and never half a pair (renderDiagnostics, applyCharCap).
WithinLimits ==
  Rendered =>
    LET total == Total(entries)
        statuses == Cardinality({i \in DOMAIN entries : entries[i].kind # "diagnostics"
                                    /\ (config.clean \/ entries[i].kind # "clean")})
        Shaped(whole) ==
          whole # Nothing =>
            Cardinality(Breaking(whole.text)) =
              1 + report.count + statuses + 2 * (report.files - 1)
                + IF report.count > 0 THEN 2 ELSE 0
    IN /\ report.count = IF config.max < total THEN config.max ELSE total
       /\ Len(Points(report.text)) <= config.cap
       /\ WellFormed(report.text)
       /\ Shaped(RenderDiagnostics(entries, [config EXCEPT !.cap = 1000]))

\* The tool shows of a file what a notice about it alone shows, and tells how
\* many it left out (renderResult).
Agree(e, notice, answer) ==
  LET omitted == Len(e.diagnostics) - notice.count IN
  answer = SubSeq(notice.text, 1, Len(notice.text) - IF notice.count > 0 THEN 3 ELSE 0)
             \o IF omitted > 0 THEN <<NL, 48 + omitted>> ELSE <<>>
Clipped(answer) == WellFormed(answer) /\ Len(Points(answer)) <= config.cap

SameLines ==
  Rendered => \A e \in Range(entries) :
    LET c == [config EXCEPT !.cap = 1000, !.clean = TRUE]
    IN /\ Clipped(RenderResult(e, config))
       /\ Agree(e, RenderDiagnostics(<<e>>, c), RenderResult(e, c))
=============================================================================
