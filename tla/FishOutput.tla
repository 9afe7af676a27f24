----------------------------- MODULE FishOutput -----------------------------
(***************************************************************************)
(* What a persistent fish command answers (executeCommand, commandOutput   *)
(* and partialOutput of persistent.js): the command prints between two     *)
(* markers into a terminal whose scrollback forgets, while the tool polls, *)
(* reads the scrollback page by page, and keeps the increments of its      *)
(* sends for the case that the start marker is gone.                       *)
(*                                                                         *)
(* Text is modelled by where it stands: an output is a sequence of         *)
(* positions of the tape, on which a token is a line, the start marker, or *)
(* one half of the end marker's line, which may arrive in two pieces.      *)
(***************************************************************************)
EXTENDS Naturals, Sequences, FiniteSetsExt

CONSTANTS MaxLines,    \* the scrollback's capacity
          PageLines,   \* lines of one read
          Screen,      \* lines of the viewport
          MaxTape      \* bound on what is printed

Tokens == {"old", "start", "line", "end", "status"}

VARIABLES tape,      \* everything printed, oldest first
          sent,      \* the wrapped command was submitted
          seen,      \* how much of the tape the sends have reported
          fallback,  \* the increments kept, or the viewport
          cutoff,    \* fallbackTruncated
          exited,    \* the shell is gone
          answer

vars == <<tape, sent, seen, fallback, cutoff, exited, answer>>

Upto == Len(tape)
Nothing == [kind |-> "none", text |-> <<>>, incomplete |-> FALSE, upto |-> 0]

TypeOK ==
  /\ tape \in Seq(Tokens) /\ Upto <= MaxTape /\ sent \in BOOLEAN /\ seen \in 0..Upto
  /\ fallback \in Seq(1..Upto) /\ cutoff \in BOOLEAN /\ exited \in BOOLEAN
  /\ answer.kind \in {"none", "complete", "partial", "timeout", "aborted", "exited"}

\* The terminal still shows what an earlier command left.
Init ==
  /\ tape \in {<<>>, <<"old", "old">>} /\ sent = FALSE /\ seen = Upto
  /\ fallback = <<>> /\ cutoff = FALSE /\ exited = FALSE /\ answer = Nothing

---------------------------------------------------------------------------
(* The terminal.                                                           *)

Printed(t) == \E i \in 1..Upto : tape[i] = t

\* The shell prints the markers around the command, whose background jobs
\* may print at any time.
MayPrint ==
  CASE ~Printed("start") -> {"start"}
    [] Printed("end") /\ ~Printed("status") -> {"line", "status"}
    [] Printed("status") -> {"line"}
    [] OTHER -> {"line", "end"}

ShellPrints ==
  /\ sent /\ ~exited /\ answer = Nothing /\ Upto < MaxTape
  /\ \E t \in MayPrint :
       /\ t = "line" /\ Printed("end") /\ ~Printed("status") => tape[Upto] # "end"
       /\ tape' = Append(tape, t)
  /\ UNCHANGED <<sent, seen, fallback, cutoff, exited, answer>>

ShellExits ==
  /\ sent /\ ~exited /\ answer = Nothing /\ exited' = TRUE
  /\ UNCHANGED <<tape, sent, seen, fallback, cutoff, answer>>

\* A run of positions.
Run(from, to) == [i \in 1..(IF to < from THEN 0 ELSE to - from + 1) |-> from + i - 1]

\* The lines a read of the scrollback may still return.
TotalLines == Min({Upto, MaxLines})

\* session.read: `count` lines, those before the newest `offset`.
LineEnd(offset, count) == Min({TotalLines, offset + count})
Page(offset, count) == Run(Upto - LineEnd(offset, count) + 1, Upto - offset)

---------------------------------------------------------------------------
(* Reading the scrollback.                                                 *)

Latest == Page(0, PageLines)

\* Back through the pages, each put before what was read already.
BugNextOffset(offset) == LineEnd(offset, PageLines) + 1
NextOffset(offset) == LineEnd(offset, PageLines)

RetainedScrollback ==
  LET back[offset \in 0..(TotalLines + 1)] ==
        IF offset >= TotalLines THEN <<>>
        ELSE LET page == Page(offset, PageLines) IN
             IF page = <<>> THEN <<>> ELSE back[NextOffset(offset)] \o page
  IN  back[NextOffset(0)] \o Latest

Last(text, t) == Max({0} \cup {i \in 1..Len(text) : tape[text[i]] = t})
After(text, i) == SubSeq(text, i + 1, Len(text))

\* The end marker counts once its status and newline have arrived.
HasStatus(text) ==
  LET e == Last(text, "end") IN e > 0 /\ e < Len(text) /\ tape[text[e + 1]] = "status"

CommandOutput(text) ==
  LET e == Last(text, "end")
      s == Last(SubSeq(text, 1, e), "start") IN
  [kind |-> "complete", text |-> SubSeq(text, s + 1, e - 1), incomplete |-> s = 0, upto |-> Upto]

\* What there is so far; the increments when the scrollback lost the start.
PartialOutput(kind, text, more, cut) ==
  LET s == Last(text, "start")
      fs == Last(more, "start")
      kept == After(more, fs)
      e == Last(kept, "end") IN
  IF s > 0 THEN [kind |-> kind, text |-> After(text, s), incomplete |-> FALSE, upto |-> Upto]
  ELSE [kind |-> kind, text |-> IF e = 0 THEN kept ELSE SubSeq(kept, 1, e - 1),
        incomplete |-> cut \/ fs = 0, upto |-> Upto]

---------------------------------------------------------------------------
(* executeCommand.                                                         *)

\* The first turn submits the wrapped command.
Submit ==
  /\ ~sent /\ sent' = TRUE
  /\ UNCHANGED <<tape, seen, fallback, cutoff, exited, answer>>

\* A send has settled: its increment is kept, possibly cut at its front; one
\* without any leaves the viewport.
Increment(lost) == Run(seen + 1 + lost, Upto)

\* What one turn makes of it, in the order of its checks.
Turn ==
  /\ sent /\ answer = Nothing
  /\ \E lost \in {0} \cup {l \in {1} : seen + 1 < Upto} :
     \E now \in {"open", "timeout", "aborted"}, reason \in {"stdin_read", "other"} :
       LET delta == Increment(lost)
           more == IF delta # <<>> THEN fallback \o delta
                   ELSE Page(0, Screen)
           cut == cutoff \/ lost > 0
           text == RetainedScrollback
           partial(kind) == PartialOutput(kind, text, more, cut) IN
       /\ seen' = Upto /\ fallback' = more /\ cutoff' = cut
       /\ answer' =
            CASE now = "timeout" -> partial("timeout")
              [] now = "aborted" -> [Nothing EXCEPT !.kind = "aborted"]
              [] now = "open" /\ Last(Latest, "end") > 0 /\ HasStatus(text) -> CommandOutput(text)
              [] now = "open" /\ ~(Last(Latest, "end") > 0 /\ HasStatus(text)) /\ exited ->
                   partial("exited")
              [] now = "open" /\ ~(Last(Latest, "end") > 0 /\ HasStatus(text)) /\ ~exited
                   /\ reason = "stdin_read" -> partial("partial")
              [] OTHER -> Nothing
  /\ UNCHANGED <<tape, sent, exited>>

\* The next turn finds that the shell has exited.
SeesExit ==
  /\ sent /\ answer = Nothing /\ exited
  /\ answer' = PartialOutput("exited", RetainedScrollback, fallback, cutoff)
  /\ UNCHANGED <<tape, sent, seen, fallback, cutoff, exited>>

Answered == answer # Nothing /\ UNCHANGED vars

Next == ShellPrints \/ ShellExits \/ Submit \/ Turn \/ SeesExit \/ Answered

Spec == Init /\ [][Next]_vars

---------------------------------------------------------------------------
(* Properties.                                                             *)

\* Where the command's own text begins on the tape.
Begin == Max({0} \cup {i \in 1..Upto : tape[i] = "start"})
Finish == Max({0} \cup {i \in 1..Upto : tape[i] = "end"})

Contiguous(text) == \A i \in 1..(Len(text) - 1) : text[i + 1] = text[i] + 1

\* A complete answer is exactly what stands between the markers, or a tail of
\* it that says so, however the pages cut it (commandOutput,
\* retainedScrollback).
CompleteIsExact ==
  answer.kind = "complete" =>
    /\ \E from \in Begin..(Finish - 1) :
         answer.text = Run(from + 1, Finish - 1) /\ (from # Begin => answer.incomplete)

\* A partial answer that is not marked as incomplete begins where the command
\* began, and nothing is missing or doubled inside (partialOutput).
PartialIsHonest ==
  answer.kind \in {"partial", "timeout", "exited"} /\ ~answer.incomplete =>
    /\ Contiguous(answer.text)
    /\ answer.text # <<>> => answer.text[1] = Begin + 1

\* An earlier command's text is never part of an answer that claims to be whole.
NothingOld == answer.incomplete \/ \A i \in 1..Len(answer.text) : tape[answer.text[i]] # "old"
=============================================================================
