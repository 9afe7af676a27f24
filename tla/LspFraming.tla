---------------------------- MODULE LspFraming -----------------------------
(***************************************************************************)
(* The decoder of the language server's output (framing.js): the bytes     *)
(* arrive in chunks of any size, and every message body that is complete is *)
(* handed on, in order, until a frame breaks a bound and the transport is   *)
(* failed.  A byte is "r" (half a terminator), "1" (a header that declares  *)
(* one more body byte) or "x" (in a header a field, of which it may have    *)
(* one; in a body what makes it no valid UTF-8 or JSON).  A header without  *)
(* "1" declares no length.                                                  *)
(***************************************************************************)
EXTENDS Naturals, Sequences, SequencesExt

CONSTANTS Bytes, MaxStream,     \* what the server may write, and how much of it
          MaxHeader, MaxBody    \* MAX_HEADER_BYTES, maxMessageBytes

VARIABLES stream,    \* what the server writes in all
          at,        \* how much of it has arrived
          buffer,    \* the decoder's
          got,       \* the messages handed on
          failed     \* push threw: the session is poisoned

vars == <<stream, at, buffer, got, failed>>

Terminator == <<"r", "r">>
\* indexOf, as the length of the header text; Len(b) when there is none.
TextLength(b) ==
  LET ends == {i \in 1..Len(b) - 1 : b[i] = Terminator[1] /\ b[i + 1] = Terminator[2]} IN
  IF ends = {} THEN Len(b) ELSE (CHOOSE i \in ends : \A j \in ends : i <= j) - 1

Count(b, x) == Cardinality({i \in DOMAIN b : b[i] = x})

\* parseContentLength.
Declares(text) == Count(text, "1")
BadHeader(text) == Count(text, "1") = 0 \/ Count(text, "x") > 1

\* The cap counts the header block with its terminator.
BugTooLong(text) == Len(text) > MaxHeader
TooLong(text) == Len(text) + Len(Terminator) > MaxHeader

\* MessageDecoder.next: one step on a buffer, which waits for more, throws,
\* or takes one body off the front.
Wait(b) == [is |-> "wait", body |-> <<>>, rest |-> b]
Throw == [is |-> "throw", body |-> <<>>, rest |-> <<>>]
Take(body, rest) == [is |-> "take", body |-> body, rest |-> rest]
Step(b) ==
  LET text == SubSeq(b, 1, TextLength(b))
      start == Len(text) + Len(Terminator)
      end == start + Declares(text)
      body == SubSeq(b, start + 1, end)
      refused == TooLong(text) \/ BadHeader(text) \/ Declares(text) > MaxBody
  IN IF TextLength(b) = Len(b) THEN IF Len(b) > MaxHeader THEN Throw ELSE Wait(b)
     ELSE IF refused THEN Throw
     ELSE IF Len(b) < end THEN Wait(b)
     ELSE IF Contains(body, "x") THEN Throw
     ELSE Take(body, SubSeq(b, end + 1, Len(b)))

\* push: as many steps as there are whole messages; a throw loses the
\* messages of this chunk and clears the buffer.
Again(d) ==
  LET s == Step(d.rest) IN
  IF d.is # "take" THEN d
  ELSE [is |-> s.is, rest |-> s.rest,
        got |-> CASE s.is = "wait" -> d.got
                  [] s.is = "throw" -> <<>>
                  [] s.is = "take" -> Append(d.got, s.body)]

\* No message is empty, so that the loop is over after as many rounds.
Drain(b) ==
  LET drained[i \in 0..Len(b) + 1] ==
        IF i = 0 THEN [is |-> "take", rest |-> b, got |-> <<>>] ELSE Again(drained[i - 1])
  IN drained[Len(b) + 1]

Push(n) ==
  /\ ~failed /\ n \in 1..Len(stream) - at
  /\ at' = at + n
  /\ LET d == Drain(buffer \o SubSeq(stream, at + 1, at + n)) IN
       /\ buffer' = d.rest /\ failed' = (d.is = "throw") /\ got' = got \o d.got
  /\ UNCHANGED stream

Init ==
  /\ stream \in TupleOf(Bytes, MaxStream)
  /\ at = 0 /\ buffer = <<>> /\ got = <<>> /\ failed = FALSE

Next == \E n \in 1..MaxStream : Push(n)
Spec == Init /\ [][Next]_vars

---------------------------------------------------------------------------
(* What is right, said of the whole stream: a stream is its frames, one     *)
(* after the other, read from the left one byte at a time.                  *)

\* A byte at a time, with a state of its own: the header so far, or the body
\* so far and the bytes still to come.
AtHeader(bytes, out) == [mode |-> "header", bytes |-> bytes, left |-> 0, out |-> out]
InBody(bytes, left, out) == [mode |-> "body", bytes |-> bytes, left |-> left, out |-> out]
Bad(out) == [mode |-> "bad", bytes |-> <<>>, left |-> 0, out |-> out]
EndOfHeader(text, out) ==
  IF BadHeader(text) \/ Declares(text) > MaxBody THEN Bad(out)
  ELSE InBody(<<>>, Declares(text), out)
Read(x, r) ==
  LET more == Append(r.bytes, x) IN
  CASE r.mode = "bad" -> r
    [] r.mode = "body" ->
         IF r.left > 1 THEN InBody(more, r.left - 1, r.out)
         ELSE IF Contains(more, "x") THEN Bad(r.out)
         ELSE AtHeader(<<>>, Append(r.out, more))
    [] r.mode = "header" ->
         IF Len(r.bytes) = MaxHeader THEN Bad(r.out)
         ELSE IF IsSuffix(Terminator, more)
              THEN EndOfHeader(SubSeq(more, 1, Len(more) - Len(Terminator)), r.out)
         ELSE AtHeader(more, r.out)
\* After the first i bytes of the stream.
reader[i \in 0..Len(stream)] ==
  IF i = 0 THEN AtHeader(<<>>, <<>>) ELSE Read(stream[i], reader[i - 1])

TypeOK ==
  /\ at \in 0..MaxStream /\ failed \in BOOLEAN
  /\ \A i \in DOMAIN got : got[i] \in BoundedSeq(Bytes, MaxBody)

\* How the stream is cut into chunks changes nothing: the decoder fails on
\* exactly the bytes a byte-by-byte reader rejects, also when a header block
\* is cut inside its terminator at the cap; until then it has handed on the
\* same messages, and after a failure at most a prefix of them.
ChunkingIsInvisible ==
  LET r == reader[at] IN
  /\ failed <=> r.mode = "bad"
  /\ IF failed THEN IsPrefix(got, r.out) ELSE got = r.out

\* What waits in the buffer is never more than one header block and one body.
RetainedIsBounded == Len(buffer) <= MaxHeader + MaxBody
=============================================================================
