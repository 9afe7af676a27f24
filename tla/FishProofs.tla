---------------------------- MODULE FishProofs ----------------------------
(***************************************************************************)
(* For any managers, calls, modes and shells: a shell runs under the mode  *)
(* of its session, nothing runs after the end of its manager or agent, and *)
(* a command told of a reset is right.  What a command answers is what it  *)
(* printed, for any scrollback and pages.  The policies of a Fish host     *)
(* settle as FishPolicyProofs proves of any.                               *)
(***************************************************************************)
EXTENDS MCFish, FiniteSetTheorems, SequenceTheorems, TLAPS

---------------------------------------------------------------------------
(* Induction without a parameter: a set that contains 0 and is closed      *)
(* under successor contains Nat.                                           *)
LEMMA Inductive ==
  ASSUME NEW S, 0 \in S, \A n \in Nat : n \in S => n + 1 \in S
  PROVE  Nat \subseteq S
<1> SUFFICES ASSUME NEW n \in Nat, n \notin S PROVE FALSE
  OBVIOUS
<1>1. PICK A : A = {i \in 0..n : i \in S}
  OBVIOUS
<1>2. IsFiniteSet(A) /\ IsFiniteSet(A \ {0}) /\ Cardinality(A) \in Nat
      /\ Cardinality(A \ {0}) = Cardinality(A) - 1
  <2>1. A \in SUBSET (0..n) /\ IsFiniteSet(0..n) /\ 0 \in A
    BY <1>1, FS_Interval
  <2>2. IsFiniteSet(A)
    BY <2>1, FS_Subset
  <2> QED BY <2>1, <2>2, FS_RemoveElement, FS_CardinalityType
<1>3. PICK f : f = [i \in A |-> i + 1]
  OBVIOUS
<1>4. f \in Injection(A, A \ {0})
  <2>1. \A i \in A : i \in Nat /\ i + 1 \in A \ {0}
    BY <1>1
  <2> QED BY <1>3, <2>1 DEF Injection, IsInjective
<1> QED BY <1>2, <1>4, FS_Injection

\* A bounded set of numbers has a largest, and a smallest of two is one of them.
LEMMA Largest ==
  ASSUME NEW n \in Nat, NEW S, S \subseteq 0..n, 0 \in S
  PROVE  Output!Max(S) \in S /\ \A y \in S : Output!Max(S) >= y
<1>1. PICK T : T = {k \in Nat : \E x \in S : \A y \in S : y <= k => y <= x}
  OBVIOUS
<1>2. 0 \in T
  BY <1>1
<1>3. ASSUME NEW k \in Nat, k \in T PROVE k + 1 \in T
  <2>1. PICK x \in S : \A y \in S : y <= k => y <= x
    BY <1>1, <1>3
  <2>2. CASE k + 1 \in S
    BY <1>1, <2>2
  <2>3. CASE k + 1 \notin S
    <3>1. \A y \in S : y <= k + 1 => y <= x
      BY <2>1, <2>3
    <3> QED BY <1>1, <3>1
  <2> QED BY <2>2, <2>3
<1>4. n \in T
  BY <1>2, <1>3, Inductive
<1>5. \E x \in S : \A y \in S : x >= y
  <2>1. PICK x \in S : \A y \in S : y <= n => y <= x
    BY <1>1, <1>4
  <2>2. \A y \in S : x >= y
    BY <2>1
  <2> QED BY <2>2
<1> QED BY <1>5 DEF Output!Max

LEMMA Smaller ==
  ASSUME NEW a \in Nat, NEW b \in Nat
  PROVE  Output!Min({a, b}) = IF a <= b THEN a ELSE b
<1>1. \E x \in {a, b} : \A y \in {a, b} : x =< y
  OBVIOUS
<1>2. Output!Min({a, b}) \in {a, b} /\ \A y \in {a, b} : Output!Min({a, b}) =< y
  BY <1>1 DEF Output!Min
<1> QED BY <1>2

---------------------------------------------------------------------------
(* Runs of positions.                                                      *)
LEMMA RunIs ==
  ASSUME NEW a \in Nat, NEW b \in Nat, a <= b
  PROVE  /\ Output!Run(a + 1, b) \in Seq((a + 1)..b) /\ Output!Run(a + 1, b) \in Seq(Nat)
         /\ Len(Output!Run(a + 1, b)) = b - a
         /\ \A i \in 1..(b - a) : Output!Run(a + 1, b)[i] = a + i
<1>1. PICK r : r = Output!Run(a + 1, b)
  OBVIOUS
<1>2. r = [i \in 1..(b - a) |-> a + i]
  <2>1. (IF b < a + 1 THEN 0 ELSE b - (a + 1) + 1) = b - a
    OBVIOUS
  <2>2. \A i \in 1..(b - a) : (a + 1) + i - 1 = a + i
    OBVIOUS
  <2> QED BY <1>1, <2>1, <2>2 DEF Output!Run
<1>3. b - a \in Nat /\ \A i \in 1..(b - a) : a + i \in (a + 1)..b
  OBVIOUS
<1>4. r \in Seq((a + 1)..b) /\ Len(r) = b - a
  BY <1>2, <1>3
<1>5. r \in Seq(Nat)
  <2>1. \A i \in 1..(b - a) : a + i \in Nat
    OBVIOUS
  <2> QED BY <1>2, <1>3, <2>1
<1> QED BY <1>1, <1>2, <1>4, <1>5

LEMMA RunJoin ==
  ASSUME NEW a \in Nat, NEW b \in Nat, NEW c \in Nat, a <= b, b <= c
  PROVE  Output!Run(a + 1, b) \o Output!Run(b + 1, c) = Output!Run(a + 1, c)
<1>1. PICK p : p = Output!Run(a + 1, b)
  OBVIOUS
<1>2. PICK q : q = Output!Run(b + 1, c)
  OBVIOUS
<1>3. PICK r : r = Output!Run(a + 1, c)
  OBVIOUS
<1>4. p \in Seq(Nat) /\ Len(p) = b - a /\ \A i \in 1..(b - a) : p[i] = a + i
  BY <1>1, RunIs
<1>5. q \in Seq(Nat) /\ Len(q) = c - b /\ \A i \in 1..(c - b) : q[i] = b + i
  BY <1>2, RunIs
<1>6. a <= c
  OBVIOUS
<1>7. r \in Seq(Nat) /\ Len(r) = c - a /\ \A i \in 1..(c - a) : r[i] = a + i
  BY <1>3, <1>6, RunIs
<1>8. PICK z : z = p \o q
  OBVIOUS
<1>9. z \in Seq(Nat) /\ Len(z) = Len(p) + Len(q)
      /\ \A i \in 1..(Len(p) + Len(q)) : z[i] = IF i <= Len(p) THEN p[i] ELSE q[i - Len(p)]
  BY <1>4, <1>5, <1>8, ConcatProperties
<1>10. Len(z) = c - a
  BY <1>4, <1>5, <1>9
<1>11. \A i \in 1..(c - a) : z[i] = a + i
  <2> SUFFICES ASSUME NEW i \in 1..(c - a) PROVE z[i] = a + i
    OBVIOUS
  <2>1. CASE i <= b - a
    <3>1. z[i] = p[i]
      BY <1>4, <1>5, <1>9, <2>1
    <3> QED BY <3>1, <1>4, <2>1
  <2>2. CASE i > b - a
    <3>1. z[i] = q[i - (b - a)]
      BY <1>4, <1>5, <1>9, <2>2
    <3>2. i - (b - a) \in 1..(c - b)
      BY <2>2
    <3>3. q[i - (b - a)] = b + (i - (b - a))
      BY <3>2, <1>5
    <3> QED BY <3>1, <3>3
  <2> QED BY <2>1, <2>2
<1>12. z = r
  BY <1>7, <1>9, <1>10, <1>11, SeqEqual
<1> QED BY <1>1, <1>2, <1>3, <1>8, <1>12

LEMMA RunCut ==
  ASSUME NEW a \in Nat, NEW b \in Nat, a <= b, NEW m \in Nat, NEW n \in Nat, m <= n, n <= b - a
  PROVE  SubSeq(Output!Run(a + 1, b), m + 1, n) = Output!Run(a + m + 1, a + n)
<1>1. PICK p : p = Output!Run(a + 1, b)
  OBVIOUS
<1>2. p \in Seq(Nat) /\ Len(p) = b - a /\ \A i \in 1..(b - a) : p[i] = a + i
  BY <1>1, RunIs
<1>3. PICK c : c = a + m
  OBVIOUS
<1>4. PICK d : d = a + n
  OBVIOUS
<1>5. c \in Nat /\ d \in Nat /\ c <= d
  BY <1>3, <1>4
<1>6. PICK r : r = Output!Run(c + 1, d)
  OBVIOUS
<1>7. r \in Seq(Nat) /\ Len(r) = d - c /\ \A i \in 1..(d - c) : r[i] = c + i
  BY <1>5, <1>6, RunIs
<1>8. PICK s : s = SubSeq(p, m + 1, n)
  OBVIOUS
<1>9. s \in Seq(Nat) /\ Len(s) = n - m /\ \A i \in 1..(n - m) : s[i] = p[m + i]
  BY <1>2, <1>8
<1>10. \A i \in 1..(n - m) : p[m + i] = a + (m + i)
  BY <1>2
<1>11. \A i \in 1..(n - m) : s[i] = r[i]
  BY <1>3, <1>4, <1>7, <1>9, <1>10
<1>12. Len(s) = Len(r)
  BY <1>3, <1>4, <1>7, <1>9
<1>13. s = r
  BY <1>7, <1>9, <1>11, <1>12, <1>3, <1>4, SeqEqual
<1> QED BY <1>1, <1>8, <1>13, <1>6, <1>3, <1>4

LEMMA RunTail ==
  ASSUME NEW a \in Nat, NEW b \in Nat, a <= b, NEW m \in Nat, m <= b - a
  PROVE  SubSeq(Output!Run(a + 1, b), m + 1, Len(Output!Run(a + 1, b))) = Output!Run(a + m + 1, b)
<1>1. PICK n \in Nat : n = b - a
  OBVIOUS
<1>2. m <= n /\ n <= b - a
  BY <1>1
<1>3. SubSeq(Output!Run(a + 1, b), m + 1, n) = Output!Run(a + m + 1, a + n)
  BY <1>2, RunCut
<1>4. Len(Output!Run(a + 1, b)) = n
  BY <1>1, RunIs
<1>5. a + n = b
  BY <1>1
<1> QED BY <1>3, <1>4, <1>5

LEMMA RunFront ==
  ASSUME NEW a \in Nat, NEW b \in Nat, a <= b, NEW n \in Nat, n <= b - a, NEW c, c = a + n
  PROVE  SubSeq(Output!Run(a + 1, b), 1, n) = Output!Run(a + 1, c)
<1>1. PICK m \in Nat : m = 0
  OBVIOUS
<1>2. m <= n
  BY <1>1
<1>3. SubSeq(Output!Run(a + 1, b), m + 1, n) = Output!Run(a + m + 1, a + n)
  BY <1>2, RunCut
<1>4. m + 1 = 1 /\ a + m + 1 = a + 1
  BY <1>1
<1> QED BY <1>3, <1>4

---------------------------------------------------------------------------
(* The pages put together are the retained part of the tape.               *)
LEMMA LineCounts ==
  ASSUME Output!Upto \in Nat
  PROVE  /\ Output!TotalLines \in 0..Output!Upto
         /\ \A offset \in 0..Output!TotalLines, count \in Nat :
              /\ Output!LineEnd(offset, count) \in offset..Output!TotalLines
              /\ Output!LineEnd(offset, count) = offset => count = 0 \/ offset = Output!TotalLines
<1>1. Output!TotalLines = IF Output!Upto <= MaxLines THEN Output!Upto ELSE MaxLines
  BY Smaller, OutputLimits DEF Output!TotalLines
<1>2. Output!TotalLines \in 0..Output!Upto
  BY <1>1, OutputLimits
<1>3. ASSUME NEW offset \in 0..Output!TotalLines, NEW count \in Nat
      PROVE  /\ Output!LineEnd(offset, count) \in offset..Output!TotalLines
             /\ Output!LineEnd(offset, count) = offset => count = 0 \/ offset = Output!TotalLines
  <2>1. Output!TotalLines \in Nat /\ offset + count \in Nat
    BY <1>2
  <2>2. Output!LineEnd(offset, count) = IF Output!TotalLines <= offset + count THEN Output!TotalLines ELSE offset + count
    BY <2>1, Smaller DEF Output!LineEnd
  <2> QED BY <2>1, <2>2
<1> QED BY <1>2, <1>3

\* Whole(n): what is retained up to the newest n lines.
WholeFrom(offset) == Output!Run(Output!Upto - Output!TotalLines + 1, Output!Upto - offset)
BackFrom(offset) == IF offset < Output!TotalLines THEN WholeFrom(offset) ELSE <<>>

LEMMA PageIs ==
  ASSUME Output!Upto \in Nat, NEW offset \in 0..Output!TotalLines, NEW count \in Nat
  PROVE  /\ Output!Upto - Output!LineEnd(offset, count) \in Nat /\ Output!Upto - offset \in Nat
         /\ Output!Upto - Output!LineEnd(offset, count) <= Output!Upto - offset
         /\ Output!Page(offset, count) = Output!Run(Output!Upto - Output!LineEnd(offset, count) + 1, Output!Upto - offset)
         /\ Output!Page(offset, count) = <<>> <=> Output!LineEnd(offset, count) = offset
<1>1. Output!TotalLines \in 0..Output!Upto /\ Output!LineEnd(offset, count) \in offset..Output!TotalLines
  BY LineCounts
<1>2. PICK a : a = Output!Upto - Output!LineEnd(offset, count)
  OBVIOUS
<1>3. PICK b : b = Output!Upto - offset
  OBVIOUS
<1>4. a \in Nat /\ b \in Nat /\ a <= b
  <2>1. PICK e : e = Output!LineEnd(offset, count)
    OBVIOUS
  <2>2. PICK t : t = Output!TotalLines
    OBVIOUS
  <2>3. t \in 0..Output!Upto /\ e \in offset..t /\ offset \in 0..t /\ a = Output!Upto - e
    BY <1>1, <1>2, <2>1, <2>2
  <2> QED BY <2>3, <1>3
<1>5. Output!Page(offset, count) = Output!Run(a + 1, b)
  BY <1>2, <1>3 DEF Output!Page
<1>6. Output!Run(a + 1, b) \in Seq(Nat) /\ Len(Output!Run(a + 1, b)) = b - a
  BY <1>4, RunIs
<1>7. Output!Run(a + 1, b) = <<>> <=> b - a = 0
  BY <1>6, EmptySeq
<1>8. b - a = 0 <=> Output!LineEnd(offset, count) = offset
  <2>1. PICK e : e = Output!LineEnd(offset, count)
    OBVIOUS
  <2>2. PICK t : t = Output!TotalLines
    OBVIOUS
  <2>3. t \in 0..Output!Upto /\ e \in offset..t /\ offset \in 0..t /\ a = Output!Upto - e
    BY <1>1, <1>2, <2>1, <2>2
  <2>4. b - a = 0 <=> e = offset
    BY <2>3, <1>3
  <2> QED BY <2>1, <2>4
<1> QED BY <1>2, <1>3, <1>4, <1>5, <1>7, <1>8

\* One page put before what is newer.
LEMMA PageBefore ==
  ASSUME Output!Upto \in Nat, NEW offset \in 0..Output!TotalLines, offset < Output!TotalLines
  PROVE  Output!Page(offset, PageLines) # <<>>
         /\ BackFrom(Output!NextOffset(offset)) \o Output!Page(offset, PageLines) = WholeFrom(offset)
<1>1. Output!TotalLines \in 0..Output!Upto /\ PageLines \in Nat /\ PageLines # 0
  BY LineCounts, OutputLimits
<1>2. PICK next : next = Output!LineEnd(offset, PageLines)
  OBVIOUS
<1>3. next \in offset..Output!TotalLines /\ next # offset
  BY <1>1, <1>2, LineCounts
<1>4. PICK a : a = Output!Upto - Output!TotalLines
  OBVIOUS
<1>5. PICK b : b = Output!Upto - next
  OBVIOUS
<1>6. PICK c : c = Output!Upto - offset
  OBVIOUS
<1>7. a \in Nat /\ b \in Nat /\ c \in Nat /\ a <= b /\ b <= c
  BY <1>1, <1>3, <1>4, <1>5, <1>6
<1>8. Output!Page(offset, PageLines) = Output!Run(b + 1, c) /\ Output!Page(offset, PageLines) # <<>>
  BY <1>1, <1>2, <1>3, <1>5, <1>6, PageIs
<1>9. BackFrom(Output!NextOffset(offset)) = Output!Run(a + 1, b)
  <2>1. CASE next < Output!TotalLines
    BY <2>1, <1>2, <1>4, <1>5 DEF BackFrom, Output!NextOffset, WholeFrom
  <2>2. CASE ~(next < Output!TotalLines)
    <3>1. next = Output!TotalLines /\ a = b
      BY <2>2, <1>1, <1>3, <1>4, <1>5
    <3>2. Output!Run(a + 1, b) = <<>>
      BY <3>1, <1>7, RunIs, EmptySeq
    <3> QED BY <2>2, <3>2, <1>2 DEF BackFrom, Output!NextOffset
  <2> QED BY <2>1, <2>2
<1>10. Output!Run(a + 1, b) \o Output!Run(b + 1, c) = Output!Run(a + 1, c)
  BY <1>7, RunJoin
<1>11. Output!Run(a + 1, c) = WholeFrom(offset)
  BY <1>4, <1>6 DEF WholeFrom
<1> QED BY <1>8, <1>9, <1>10, <1>11

LEMMA Retained ==
  ASSUME Output!Upto \in Nat
  PROVE  Output!RetainedScrollback = Output!Run(Output!Upto - Output!TotalLines + 1, Output!Upto)
<1>1. Output!TotalLines \in 0..Output!Upto /\ PageLines \in Nat
  BY LineCounts, OutputLimits
<1>2. PICK N : N = Output!TotalLines
  OBVIOUS
<1>3. PICK D : D = 0..(N + 1)
  OBVIOUS
<1> DEFINE
     Body(b, offset) == IF offset >= N THEN <<>>
                        ELSE IF Output!Page(offset, PageLines) = <<>> THEN <<>>
                        ELSE b[Output!NextOffset(offset)] \o Output!Page(offset, PageLines)
     back == CHOOSE b : b = [offset \in D |-> Body(b, offset)]
<1>4. Output!RetainedScrollback = back[Output!NextOffset(0)] \o Output!Latest
  BY <1>2, <1>3 DEF Output!RetainedScrollback
<1>5. \A offset \in 0..N : Output!NextOffset(offset) \in offset..N
  BY <1>1, <1>2, LineCounts DEF Output!NextOffset
<1>6. PICK w : w = [offset \in D |-> BackFrom(offset)]
  OBVIOUS
<1>7. w = [offset \in D |-> Body(w, offset)]
  <2> SUFFICES ASSUME NEW offset \in D PROVE BackFrom(offset) = Body(w, offset)
    BY <1>6
  <2>1. CASE offset >= N
    <3>1. ~(offset < N)
      BY <2>1, <1>1, <1>2, <1>3
    <3> QED BY <2>1, <3>1, <1>2 DEF BackFrom
  <2>2. CASE ~(offset >= N)
    <3>1. offset \in 0..Output!TotalLines /\ offset < Output!TotalLines
      BY <1>1, <1>2, <1>3, <2>2
    <3>2. Output!NextOffset(offset) \in D
      BY <1>1, <1>2, <1>3, <1>5, <3>1
    <3>3. w[Output!NextOffset(offset)] = BackFrom(Output!NextOffset(offset))
      BY <3>2, <1>6
    <3>4. Output!Page(offset, PageLines) # <<>> /\ BackFrom(Output!NextOffset(offset)) \o Output!Page(offset, PageLines) = WholeFrom(offset)
      BY <3>1, PageBefore
    <3>5. BackFrom(offset) = WholeFrom(offset)
      BY <3>1 DEF BackFrom
    <3> QED BY <2>2, <3>3, <3>4, <3>5
  <2> QED BY <2>1, <2>2
<1>8. back = [offset \in D |-> Body(back, offset)]
  BY <1>7
<1>9. PICK T : T = {k \in Nat : \A offset \in D : offset >= N - k => back[offset] = BackFrom(offset)}
  OBVIOUS
<1>10. PICK f : f = back
  OBVIOUS
<1>11. \A offset \in D : f[offset] = Body(f, offset)
  BY <1>8, <1>10
<1> HIDE DEF back
<1>12. 0 \in T
  <2> SUFFICES ASSUME NEW offset \in D, offset >= N - 0 PROVE f[offset] = BackFrom(offset)
    BY <1>9, <1>10
  <2>1. offset >= N /\ ~(offset < Output!TotalLines)
    BY <1>1, <1>2, <1>3
  <2> QED BY <2>1, <1>11 DEF BackFrom
<1>13. ASSUME NEW k \in Nat, k \in T PROVE k + 1 \in T
  <2> SUFFICES ASSUME NEW offset \in D, offset >= N - (k + 1) PROVE f[offset] = BackFrom(offset)
    BY <1>9, <1>10
  <2>1. CASE offset >= N
    <3>1. ~(offset < Output!TotalLines)
      BY <1>1, <1>2, <1>3, <2>1
    <3> QED BY <2>1, <3>1, <1>11 DEF BackFrom
  <2>2. CASE ~(offset >= N)
    <3>1. offset \in 0..Output!TotalLines /\ offset < Output!TotalLines
      BY <1>1, <1>2, <1>3, <2>2
    <3>2. Output!Page(offset, PageLines) # <<>> /\ BackFrom(Output!NextOffset(offset)) \o Output!Page(offset, PageLines) = WholeFrom(offset)
      BY <3>1, PageBefore
    <3>3. Output!NextOffset(offset) \in offset..N /\ Output!NextOffset(offset) # offset
      <4>1. Output!NextOffset(offset) # offset
        BY <3>1, <3>2, <1>1, PageIs DEF Output!NextOffset
      <4> QED BY <4>1, <1>5, <3>1, <1>2
    <3>4. Output!NextOffset(offset) \in D /\ Output!NextOffset(offset) >= N - k
      BY <3>1, <3>3, <1>1, <1>2, <1>3
    <3>5. f[Output!NextOffset(offset)] = BackFrom(Output!NextOffset(offset))
      BY <3>4, <1>9, <1>10, <1>13
    <3>6. f[offset] = f[Output!NextOffset(offset)] \o Output!Page(offset, PageLines)
      BY <1>11, <2>2, <3>2
    <3>7. BackFrom(offset) = WholeFrom(offset)
      BY <3>1 DEF BackFrom
    <3> QED BY <3>2, <3>5, <3>6, <3>7
  <2> QED BY <2>1, <2>2
<1>14. N \in T
  BY <1>1, <1>2, <1>12, <1>13, Inductive
<1>15. \A offset \in D : f[offset] = BackFrom(offset)
  BY <1>1, <1>2, <1>3, <1>9, <1>10, <1>14
<1>16. BackFrom(Output!NextOffset(0)) \o Output!Latest = Output!Run(Output!Upto - Output!TotalLines + 1, Output!Upto)
  <2>1. CASE 0 < Output!TotalLines
    <3>1. 0 \in 0..Output!TotalLines
      BY <1>1
    <3>2. BackFrom(Output!NextOffset(0)) \o Output!Page(0, PageLines) = WholeFrom(0)
      BY <3>1, <2>1, PageBefore
    <3>3. Output!Upto - 0 = Output!Upto
      OBVIOUS
    <3> QED BY <3>2, <3>3 DEF Output!Latest, WholeFrom
  <2>2. CASE ~(0 < Output!TotalLines)
    <3>1. Output!TotalLines = 0 /\ 0 \in 0..Output!TotalLines
      BY <2>2, <1>1
    <3>2. Output!LineEnd(0, PageLines) = 0
      BY <3>1, <1>1, LineCounts
    <3>3. Output!Page(0, PageLines) = <<>>
      BY <3>1, <3>2, <1>1, PageIs
    <3>4. BackFrom(Output!NextOffset(0)) = <<>>
      BY <3>1, <3>2, <2>2 DEF BackFrom, Output!NextOffset
    <3>5. Output!Run(Output!Upto + 1, Output!Upto) = <<>>
      BY RunIs, EmptySeq
    <3>6. Output!Upto - Output!TotalLines = Output!Upto
      BY <3>1
    <3>7. <<>> \o <<>> = <<>>
      OBVIOUS
    <3> QED BY <3>3, <3>4, <3>5, <3>6, <3>7 DEF Output!Latest
  <2> QED BY <2>1, <2>2
<1>17. Output!NextOffset(0) \in D
  BY <1>1, <1>2, <1>3, <1>5
<1> QED BY <1>4, <1>10, <1>15, <1>16, <1>17

---------------------------------------------------------------------------
(* The markers on the tape.                                                *)
OnTape(i, t) == i \in 1..Output!Upto /\ output_tape[i] = t

\* Each marker once, the start first, what an earlier command left before it.
Marked ==
  /\ \A i, j \in 1..Output!Upto : output_tape[i] = "start" /\ output_tape[j] = "start" => i = j
  /\ \A i, j \in 1..Output!Upto : output_tape[i] = "end" /\ output_tape[j] = "end" => i = j
  /\ \A i, j \in 1..Output!Upto : output_tape[i] = "start" /\ output_tape[j] \in {"end", "status"} => i < j
  /\ \A i, j \in 1..Output!Upto : output_tape[i] = "start" /\ output_tape[j] = "old" => j < i
  /\ Output!Printed("end") \/ Output!Printed("status") => Output!Printed("start")
  /\ Output!Printed("status") => Output!Printed("end")

\* What was kept of the sends, when nothing was cut from it, is one piece.
Piece(text, upto) == \E b \in 0..upto : text = Output!Run(b + 1, upto)

Honest(a) ==
  /\ a.kind \in {"partial", "timeout", "exited"} /\ ~a.incomplete =>
       /\ Output!Contiguous(a.text)
       /\ a.text # <<>> => a.text[1] = Output!Begin + 1
  /\ a.incomplete \/ \A i \in 1..Len(a.text) : output_tape[a.text[i]] # "old"
  /\ a.kind = "complete" =>
       \E from \in Output!Begin..(Output!Finish - 1) : a.text = Output!Run(from + 1, Output!Finish - 1) /\ (from # Output!Begin => a.incomplete)

OutputInv == Output!TypeOK /\ Marked /\ (~output_cutoff => Piece(output_fallback, output_seen)) /\ Honest(output_answer)

LEMMA Markers ==
  ASSUME output_tape \in Seq(Output!Tokens), Marked
  PROVE  /\ Output!Begin \in 0..Output!Upto /\ Output!Finish \in 0..Output!Upto
         /\ Output!Begin > 0 => output_tape[Output!Begin] = "start"
         /\ \A i \in 1..Output!Upto : output_tape[i] = "start" => i = Output!Begin
         /\ \A i \in 1..Output!Upto : output_tape[i] = "end" => i = Output!Finish
<1>1. Output!Upto \in Nat
  BY DEF Output!Upto
<1>2. PICK S : S = {0} \cup {i \in 1..Output!Upto : output_tape[i] = "start"}
  OBVIOUS
<1>3. PICK E : E = {0} \cup {i \in 1..Output!Upto : output_tape[i] = "end"}
  OBVIOUS
<1>4. Output!Begin = Output!Max(S) /\ Output!Finish = Output!Max(E)
  BY <1>2, <1>3 DEF Output!Begin, Output!Finish
<1>5. S \subseteq 0..Output!Upto /\ 0 \in S /\ E \subseteq 0..Output!Upto /\ 0 \in E
  BY <1>1, <1>2, <1>3
<1>6. Output!Begin \in S /\ \A y \in S : Output!Begin >= y
  BY <1>1, <1>4, <1>5, Largest
<1>7. Output!Finish \in E /\ \A y \in E : Output!Finish >= y
  BY <1>1, <1>4, <1>5, Largest
<1>8. Output!Begin > 0 => output_tape[Output!Begin] = "start" /\ Output!Begin \in 1..Output!Upto
  BY <1>1, <1>2, <1>6
<1>9. Output!Finish > 0 => output_tape[Output!Finish] = "end" /\ Output!Finish \in 1..Output!Upto
  BY <1>1, <1>3, <1>7
<1>10. ASSUME NEW i \in 1..Output!Upto, output_tape[i] = "start" PROVE i = Output!Begin
  <2>1. i \in S /\ Output!Begin >= i /\ Output!Begin \in 0..Output!Upto
    BY <1>2, <1>5, <1>6, <1>10
  <2>2. Output!Begin > 0
    BY <2>1, <1>1
  <2> QED BY <2>2, <1>8, <1>10 DEF Marked
<1>11. ASSUME NEW i \in 1..Output!Upto, output_tape[i] = "end" PROVE i = Output!Finish
  <2>1. i \in E /\ Output!Finish >= i /\ Output!Finish \in 0..Output!Upto
    BY <1>3, <1>5, <1>7, <1>11
  <2>2. Output!Finish > 0
    BY <2>1, <1>1
  <2> QED BY <2>2, <1>9, <1>11 DEF Marked
<1> QED BY <1>5, <1>6, <1>7, <1>8, <1>10, <1>11

LEMMA LastIs ==
  ASSUME NEW n \in Nat, NEW text \in Seq(1..n), NEW t
  PROVE  /\ Output!Last(text, t) \in 0..Len(text)
         /\ Output!Last(text, t) > 0 => output_tape[text[Output!Last(text, t)]] = t
         /\ \A i \in 1..Len(text) : output_tape[text[i]] = t => i <= Output!Last(text, t)
<1>1. PICK S : S = {0} \cup {i \in 1..Len(text) : output_tape[text[i]] = t}
  OBVIOUS
<1>2. Output!Last(text, t) = Output!Max(S)
  BY <1>1 DEF Output!Last
<1>3. Len(text) \in Nat /\ S \subseteq 0..Len(text) /\ 0 \in S
  BY <1>1
<1>4. Output!Last(text, t) \in S /\ \A y \in S : Output!Last(text, t) >= y
  BY <1>2, <1>3, Largest
<1> QED BY <1>1, <1>3, <1>4

\* The last marker of a run is where the marker stands.
LEMMA LastOfRun ==
  ASSUME Output!Upto \in Nat, NEW a \in Nat, NEW b \in 0..Output!Upto, a <= b, NEW t
  PROVE  /\ Output!Last(Output!Run(a + 1, b), t) \in 0..(b - a)
         /\ Output!Last(Output!Run(a + 1, b), t) > 0 => OnTape(a + Output!Last(Output!Run(a + 1, b), t), t)
         /\ \A i \in (a + 1)..b : output_tape[i] = t => i <= a + Output!Last(Output!Run(a + 1, b), t)
<1>1. PICK r : r = Output!Run(a + 1, b)
  OBVIOUS
<1>2. r \in Seq((a + 1)..b) /\ Len(r) = b - a /\ \A i \in 1..(b - a) : r[i] = a + i
  BY <1>1, RunIs
<1>3. r \in Seq(1..Output!Upto)
  <2>1. (a + 1)..b \subseteq 1..Output!Upto
    OBVIOUS
  <2>2. \A i \in 1..Len(r) : r[i] \in 1..Output!Upto
    BY <1>2, <2>1, ElementOfSeq
  <2> QED BY <1>2, <2>2, IsASeq
<1>4. PICK l : l = Output!Last(r, t)
  OBVIOUS
<1>5. /\ l \in 0..Len(r)
      /\ l > 0 => output_tape[r[l]] = t
      /\ \A i \in 1..Len(r) : output_tape[r[i]] = t => i <= l
  BY <1>3, <1>4, LastIs
<1>6. l \in 0..(b - a)
  BY <1>2, <1>5
<1>7. l > 0 => OnTape(a + l, t)
  <2> SUFFICES ASSUME l > 0 PROVE OnTape(a + l, t)
    OBVIOUS
  <2>1. l \in 1..(b - a) /\ r[l] = a + l
    BY <1>2, <1>6
  <2>2. a + l \in 1..Output!Upto
    BY <2>1
  <2> QED BY <2>1, <2>2, <1>5 DEF OnTape
<1>8. ASSUME NEW i \in (a + 1)..b, output_tape[i] = t PROVE i <= a + l
  <2>1. i - a \in 1..(b - a)
    OBVIOUS
  <2>2. r[i - a] = a + (i - a)
    BY <2>1, <1>2
  <2>3. r[i - a] = i
    BY <2>2
  <2>4. i - a <= l
    BY <2>1, <2>3, <1>2, <1>5, <1>8
  <2> QED BY <2>4, <1>6
<1> QED BY <1>1, <1>4, <1>6, <1>7, <1>8

---------------------------------------------------------------------------
(* What an answer says, when it is given.                                  *)

\* The text of a run after what is known to be no older than the start.
LEMMA RunIsNew ==
  ASSUME output_tape \in Seq(Output!Tokens), Marked, Output!Upto \in Nat, Output!Begin > 0,
         NEW a \in Nat, a >= Output!Begin, NEW b \in 0..Output!Upto, a <= b
  PROVE  \A i \in 1..Len(Output!Run(a + 1, b)) : output_tape[Output!Run(a + 1, b)[i]] # "old"
<1>0. PICK r : r = Output!Run(a + 1, b)
  OBVIOUS
<1>b. b \in Nat
  OBVIOUS
<1>r. Len(r) = b - a /\ \A i \in 1..(b - a) : r[i] = a + i
  BY <1>0, <1>b, RunIs
<1> SUFFICES ASSUME NEW i \in 1..(b - a) PROVE output_tape[a + i] # "old"
  BY <1>0, <1>r
<1>1. Output!Begin \in 0..Output!Upto /\ output_tape[Output!Begin] = "start"
  BY Markers
<1>2. Output!Begin \in 1..Output!Upto /\ a + i \in 1..Output!Upto /\ Output!Begin < a + i
  BY <1>1
<1> QED BY <1>1, <1>2 DEF Marked

LEMMA RunContiguous ==
  ASSUME NEW a \in Nat, NEW b \in Nat, a <= b
  PROVE  Output!Contiguous(Output!Run(a + 1, b)) /\ (Output!Run(a + 1, b) # <<>> => Output!Run(a + 1, b)[1] = a + 1)
<1>1. PICK r : r = Output!Run(a + 1, b)
  OBVIOUS
<1>2. r \in Seq(Nat) /\ Len(r) = b - a /\ \A i \in 1..(b - a) : r[i] = a + i
  BY <1>1, RunIs
<1>3. ASSUME NEW i \in 1..(Len(r) - 1) PROVE r[i + 1] = r[i] + 1
  <2>1. i \in 1..(b - a) /\ i + 1 \in 1..(b - a)
    BY <1>2
  <2>2. r[i] = a + i /\ r[i + 1] = a + (i + 1)
    BY <1>2, <2>1
  <2> QED BY <2>2
<1>4. r # <<>> => 1 \in 1..(b - a)
  BY <1>2, EmptySeq
<1> QED BY <1>1, <1>2, <1>3, <1>4 DEF Output!Contiguous

LEMMA CompleteHonest ==
  ASSUME Output!TypeOK, Marked, Output!HasStatus(Output!RetainedScrollback)
  PROVE  Honest(Output!CommandOutput(Output!RetainedScrollback))
<1>1. Output!Upto \in Nat /\ output_tape \in Seq(Output!Tokens)
  BY DEF Output!TypeOK, Output!Upto
<1>2. PICK a : a = Output!Upto - Output!TotalLines
  OBVIOUS
<1>3. a \in 0..Output!Upto /\ a \in Nat /\ a <= Output!Upto /\ Output!Upto \in 0..Output!Upto
  <2>1. PICK t : t = Output!TotalLines
    OBVIOUS
  <2>2. t \in 0..Output!Upto /\ a = Output!Upto - t
    BY <1>1, <1>2, <2>1, LineCounts
  <2> QED BY <1>1, <2>2
<1>4. PICK text : text = Output!Run(a + 1, Output!Upto)
  OBVIOUS
<1>5. Output!RetainedScrollback = text
  BY <1>1, <1>2, <1>4, Retained
<1>6. PICK e : e = Output!Last(text, "end")
  OBVIOUS
<1>7. e \in 1..(Output!Upto - a) /\ OnTape(a + e, "end")
  <2>1. e \in 0..(Output!Upto - a) /\ (e > 0 => OnTape(a + e, "end"))
    BY <1>1, <1>3, <1>4, <1>6, LastOfRun
  <2>2. e > 0
    BY <1>5, <1>6 DEF Output!HasStatus
  <2> QED BY <2>1, <2>2
<1>8. Output!Finish = a + e
  BY <1>1, <1>7, Markers DEF OnTape
<1>9. PICK b : b = a + e
  OBVIOUS
<1>10. b \in 0..Output!Upto /\ a <= b /\ b = Output!Finish /\ e = b - a
  BY <1>1, <1>3, <1>7, <1>8, <1>9
<1>11. SubSeq(text, 1, e) = Output!Run(a + 1, b)
  <2>1. e \in Nat /\ e <= Output!Upto - a
    BY <1>7
  <2> QED BY <1>1, <1>3, <1>4, <1>9, <2>1, RunFront
<1>12. PICK s : s = Output!Last(Output!Run(a + 1, b), "start")
  OBVIOUS
<1>13. /\ s \in 0..(b - a) /\ (s > 0 => OnTape(a + s, "start"))
       /\ \A i \in (a + 1)..b : output_tape[i] = "start" => i <= a + s
  BY <1>1, <1>3, <1>10, <1>12, LastOfRun
<1>14. s < e
  <2> SUFFICES ASSUME s >= e PROVE FALSE
    BY <1>7, <1>13
  <2>1. s = e /\ s > 0
    BY <1>7, <1>10, <1>13
  <2> QED BY <2>1, <1>7, <1>13 DEF OnTape
<1>15. PICK from : from = a + s
  OBVIOUS
<1>16. SubSeq(text, s + 1, e - 1) = Output!Run(from + 1, Output!Finish - 1)
  <2>1. s \in Nat /\ e - 1 \in Nat /\ s <= e - 1 /\ e - 1 <= Output!Upto - a /\ a \in Nat /\ a <= Output!Upto
    BY <1>1, <1>3, <1>7, <1>13, <1>14
  <2>2. SubSeq(Output!Run(a + 1, Output!Upto), s + 1, e - 1) = Output!Run(a + s + 1, a + (e - 1))
    BY <1>1, <2>1, RunCut
  <2>3. a + s + 1 = from + 1 /\ a + (e - 1) = Output!Finish - 1
    BY <1>7, <1>8, <1>15, <2>1
  <2> QED BY <1>4, <2>2, <2>3
<1>17. Output!Begin \in 0..Output!Upto /\ (Output!Begin > 0 => output_tape[Output!Begin] = "start")
  BY <1>1, Markers
<1>18. from \in Output!Begin..(Output!Finish - 1) /\ (s > 0 => from = Output!Begin)
  <2>1. from \in Nat /\ from <= Output!Finish - 1
    BY <1>3, <1>8, <1>13, <1>14, <1>15, <1>7
  <2>2. s > 0 => from = Output!Begin
    BY <1>1, <1>13, <1>15, Markers DEF OnTape
  <2>3. Output!Begin <= from
    <3> SUFFICES ASSUME Output!Begin > from PROVE FALSE
      BY <2>1, <1>17
    <3>1. Output!Begin \in 1..Output!Upto /\ output_tape[Output!Begin] = "start"
      BY <1>17, <2>1
    <3>2. Output!Begin < Output!Finish
      BY <3>1, <1>7, <1>8 DEF OnTape, Marked
    <3>3. Output!Begin \in (a + 1)..b
      BY <3>1, <3>2, <1>3, <1>10, <1>13, <1>15
    <3>4. Output!Begin <= a + s
      BY <3>1, <3>3, <1>13
    <3> QED BY <3>4, <1>15, <1>17, <2>1
  <2> QED BY <2>1, <2>2, <2>3, <1>17, <1>10
<1>19. PICK out : out = Output!CommandOutput(Output!RetainedScrollback)
  OBVIOUS
<1>20. out.kind = "complete" /\ out.text = Output!Run(from + 1, Output!Finish - 1) /\ out.incomplete = (s = 0)
  BY <1>5, <1>6, <1>11, <1>12, <1>16, <1>19 DEF Output!CommandOutput
<1>21. out.incomplete \/ \A i \in 1..Len(out.text) : output_tape[out.text[i]] # "old"
  <2>1. CASE s = 0
    BY <2>1, <1>20
  <2>2. CASE s # 0
    <3>1. from = Output!Begin /\ Output!Begin > 0 /\ Output!Begin \in Nat
      BY <2>2, <1>13, <1>15, <1>17, <1>18, <1>3
    <3>2. Output!Finish - 1 \in 0..Output!Upto /\ from <= Output!Finish - 1
      <4>1. Output!Finish \in 0..Output!Upto /\ Output!Finish \in Int /\ Output!Upto \in Nat
        BY <1>10, <1>1
      <4>2. from <= Output!Finish - 1
        BY <1>18
      <4> QED BY <4>1, <4>2, <3>1
    <3>3. \A i \in 1..Len(Output!Run(from + 1, Output!Finish - 1)) : output_tape[Output!Run(from + 1, Output!Finish - 1)[i]] # "old"
      BY <1>1, <3>1, <3>2, RunIsNew
    <3> QED BY <1>20, <3>3
  <2> QED BY <2>1, <2>2
<1>22. from # Output!Begin => out.incomplete
  <2>1. from # Output!Begin => s = 0
    BY <1>13, <1>18
  <2> QED BY <2>1, <1>20
<1>23. Honest(out)
  BY <1>18, <1>20, <1>21, <1>22 DEF Honest
<1> QED BY <1>19, <1>23

LEMMA PartialHonest ==
  ASSUME Output!TypeOK, Marked, NEW more \in Seq(1..Output!Upto), NEW cut \in BOOLEAN,
         NEW upto \in 0..Output!Upto, ~cut => Piece(more, upto),
         NEW kind \in {"partial", "timeout", "exited"}
  PROVE  Honest(Output!PartialOutput(kind, Output!RetainedScrollback, more, cut))
<1>1. Output!Upto \in Nat /\ output_tape \in Seq(Output!Tokens) /\ Output!Upto \in 0..Output!Upto
  BY DEF Output!TypeOK, Output!Upto
<1>2. PICK a : a = Output!Upto - Output!TotalLines
  OBVIOUS
<1>3. a \in Nat /\ a <= Output!Upto
  <2>1. PICK t : t = Output!TotalLines
    OBVIOUS
  <2>2. t \in 0..Output!Upto /\ a = Output!Upto - t
    BY <1>1, <1>2, <2>1, LineCounts
  <2> QED BY <1>1, <2>2
<1>4. PICK text : text = Output!Run(a + 1, Output!Upto)
  OBVIOUS
<1>5. Output!RetainedScrollback = text
  BY <1>1, <1>2, <1>4, Retained
<1>6. PICK s : s = Output!Last(text, "start")
  OBVIOUS
<1>7. s \in 0..(Output!Upto - a) /\ (s > 0 => OnTape(a + s, "start"))
  BY <1>1, <1>3, <1>4, <1>6, LastOfRun
<1>8. PICK out : out = Output!PartialOutput(kind, text, more, cut)
  OBVIOUS
<1>9. Output!Begin \in 0..Output!Upto /\ \A i \in 1..Output!Upto : output_tape[i] = "start" => i = Output!Begin
  BY <1>1, Markers
<1>10. CASE s > 0
  <2>1. a + s = Output!Begin /\ Output!Begin > 0 /\ Output!Begin \in Nat /\ Output!Begin <= Output!Upto
    BY <1>1, <1>3, <1>7, <1>9, <1>10 DEF OnTape
  <2>2. SubSeq(text, s + 1, Len(text)) = Output!Run(Output!Begin + 1, Output!Upto)
    <3>1. s \in Nat /\ s <= Output!Upto - a /\ Output!Begin = a + s
      BY <1>1, <1>3, <1>7, <2>1
    <3>2. SubSeq(Output!Run(a + 1, Output!Upto), s + 1, Len(Output!Run(a + 1, Output!Upto))) = Output!Run(a + s + 1, Output!Upto)
      BY <1>1, <1>3, <3>1, RunTail
    <3> QED BY <1>4, <3>1, <3>2
  <2>3. out.kind = kind /\ out.text = Output!Run(Output!Begin + 1, Output!Upto) /\ out.incomplete = FALSE
    BY <1>6, <1>8, <1>10, <2>2 DEF Output!PartialOutput, Output!After
  <2>4. Output!Contiguous(Output!Run(Output!Begin + 1, Output!Upto)) /\ (Output!Run(Output!Begin + 1, Output!Upto) # <<>> => Output!Run(Output!Begin + 1, Output!Upto)[1] = Output!Begin + 1)
    BY <1>1, <2>1, RunContiguous
  <2>5. \A i \in 1..Len(Output!Run(Output!Begin + 1, Output!Upto)) : output_tape[Output!Run(Output!Begin + 1, Output!Upto)[i]] # "old"
    <3>1. Output!Begin >= Output!Begin
      BY <2>1
    <3> QED BY <1>1, <2>1, <3>1, RunIsNew
  <2> QED BY <1>5, <1>8, <2>3, <2>4, <2>5 DEF Honest
<1>11. CASE ~(s > 0)
  <2>1. PICK fs : fs = Output!Last(more, "start")
    OBVIOUS
  <2>2. PICK kept : kept = SubSeq(more, fs + 1, Len(more))
    OBVIOUS
  <2>3. PICK e : e = Output!Last(kept, "end")
    OBVIOUS
  <2>4. out.kind = kind /\ out.text = (IF e = 0 THEN kept ELSE SubSeq(kept, 1, e - 1))
        /\ out.incomplete = (cut \/ fs = 0)
    BY <1>6, <1>8, <1>11, <2>1, <2>2, <2>3 DEF Output!PartialOutput, Output!After
  <2>5. CASE cut \/ fs = 0
    <3>1. out.incomplete = TRUE
      BY <2>4, <2>5
    <3> QED BY <1>5, <1>8, <2>4, <3>1 DEF Honest
  <2>6. CASE ~cut /\ fs # 0
    <3>1. PICK b \in 0..upto : more = Output!Run(b + 1, upto)
      BY <2>6 DEF Piece
    <3>2. b \in Nat /\ b <= upto /\ upto \in Nat /\ upto <= Output!Upto
      BY <3>1, <1>1
    <3>3. fs \in 0..(upto - b) /\ (fs > 0 => OnTape(b + fs, "start"))
      BY <1>1, <2>1, <3>1, <3>2, LastOfRun
    <3>4. fs > 0 /\ b + fs = Output!Begin /\ Output!Begin > 0 /\ Output!Begin \in Nat /\ Output!Begin <= upto
      BY <1>9, <2>6, <3>2, <3>3 DEF OnTape
    <3>5. kept = Output!Run(Output!Begin + 1, upto)
      <4>1. fs \in Nat /\ fs <= upto - b /\ Output!Begin = b + fs
        BY <3>3, <3>4
      <4>2. SubSeq(Output!Run(b + 1, upto), fs + 1, Len(Output!Run(b + 1, upto))) = Output!Run(b + fs + 1, upto)
        BY <3>2, <4>1, RunTail
      <4> QED BY <2>2, <3>1, <4>1, <4>2
    <3>6. e \in 0..(upto - Output!Begin)
      BY <1>1, <2>3, <3>2, <3>4, <3>5, LastOfRun
    <3>7. PICK c \in Nat : c = IF e = 0 THEN upto ELSE Output!Begin + (e - 1)
      <4>1. CASE e = 0
        BY <4>1, <3>2
      <4>2. CASE e # 0
        BY <4>2, <3>2, <3>4, <3>6
      <4> QED BY <4>1, <4>2
    <3>8. Output!Begin <= c /\ c <= upto /\ c \in 0..Output!Upto
      <4>1. CASE e = 0
        BY <4>1, <3>2, <3>4, <3>7, <1>1
      <4>2. CASE e # 0
        <5>1. c = Output!Begin + (e - 1) /\ e \in 1..(upto - Output!Begin)
          BY <4>2, <3>2, <3>4, <3>6, <3>7
        <5> QED BY <5>1, <3>2, <3>4, <1>1
      <4> QED BY <4>1, <4>2
    <3>9. out.text = Output!Run(Output!Begin + 1, c)
      <4>1. CASE e = 0
        BY <4>1, <2>4, <3>5, <3>7
      <4>2. CASE e # 0
        <5>1. PICK n \in Nat : n = e - 1
          BY <4>2, <3>6, <3>2, <3>4
        <5>2. n <= upto - Output!Begin /\ c = Output!Begin + n
          BY <5>1, <3>6, <3>7, <3>4, <3>2, <4>2
        <5>3. SubSeq(Output!Run(Output!Begin + 1, upto), 1, n) = Output!Run(Output!Begin + 1, c)
          BY <3>2, <3>4, <5>1, <5>2, RunFront
        <5> QED BY <2>4, <3>5, <4>2, <5>1, <5>3
      <4> QED BY <4>1, <4>2
    <3>10. Output!Contiguous(Output!Run(Output!Begin + 1, c)) /\ (Output!Run(Output!Begin + 1, c) # <<>> => Output!Run(Output!Begin + 1, c)[1] = Output!Begin + 1)
      BY <3>4, <3>8, RunContiguous
    <3>11. \A i \in 1..Len(Output!Run(Output!Begin + 1, c)) : output_tape[Output!Run(Output!Begin + 1, c)[i]] # "old"
      <4>1. Output!Begin >= Output!Begin
        BY <3>4
      <4> QED BY <1>1, <3>4, <3>8, <4>1, RunIsNew
    <3> QED BY <1>5, <1>8, <2>4, <3>9, <3>10, <3>11 DEF Honest
  <2> QED BY <2>5, <2>6
<1> QED BY <1>7, <1>10, <1>11

---------------------------------------------------------------------------
(* Every step keeps it.                                                    *)
LEMMA InitOutput == ASSUME Output!Init PROVE OutputInv
<1>1. output_tape \in Seq(Output!Tokens) /\ Output!Upto \in 0..2 /\ \A i \in 1..Output!Upto : output_tape[i] = "old"
  <2>1. CASE output_tape = <<>>
    BY <2>1 DEF Output!Upto
  <2>2. CASE output_tape = <<"old", "old">>
    BY <2>2 DEF Output!Upto, Output!Tokens
  <2> QED BY <2>1, <2>2 DEF Output!Init
<1>2. Output!TypeOK
  <2>1. <<>> \in Seq(1..Output!Upto) /\ Output!Upto \in 0..Output!Upto
    BY <1>1
  <2>2. Output!Upto <= MaxTape
    BY <1>1, OutputLimits
  <2>3. output_seen \in 0..Output!Upto /\ output_fallback \in Seq(1..Output!Upto)
    BY <2>1 DEF Output!Init
  <2>4. output_answer.kind = "none" /\ output_sent = FALSE /\ output_cutoff = FALSE /\ output_exited = FALSE
    BY DEF Output!Init, Output!Nothing
  <2> QED BY <1>1, <2>2, <2>3, <2>4 DEF Output!TypeOK
<1>3. Marked
  BY <1>1 DEF Marked, Output!Printed
<1>4. Piece(output_fallback, output_seen)
  <2>1. Output!Run(output_seen + 1, output_seen) = <<>>
    BY <1>1, RunIs, EmptySeq DEF Output!Init
  <2>2. output_seen \in 0..output_seen
    BY <1>1 DEF Output!Init
  <2> QED BY <2>1, <2>2 DEF Piece, Output!Init
<1>5. Honest(output_answer)
  BY DEF Honest, Output!Init, Output!Nothing
<1> QED BY <1>2, <1>3, <1>4, <1>5 DEF OutputInv

LEMMA PrintsMarked ==
  ASSUME output_tape \in Seq(Output!Tokens), Marked, NEW t \in Output!MayPrint, output_tape' = Append(output_tape, t)
  PROVE  Marked'
<1>1. Output!Upto \in Nat /\ Output!Upto' = Output!Upto + 1 /\ output_tape'[Output!Upto + 1] = t /\ \A i \in 1..Output!Upto : output_tape'[i] = output_tape[i]
  BY DEF Output!Upto
<1>2. t \in {"start", "line", "end", "status"}
      /\ (t = "start" => ~Output!Printed("start")) /\ (t # "start" => Output!Printed("start"))
      /\ (t = "end" => ~Output!Printed("end") /\ ~Output!Printed("status")) /\ (t = "status" => Output!Printed("end"))
  BY DEF Output!MayPrint, Marked
<1>p. \A u \in {"start", "end", "status"}, i \in 1..Output!Upto : output_tape[i] = u => Output!Printed(u)
  BY DEF Output!Printed
<1>3. \A u \in {"start", "end", "status"} : Output!Printed(u)' <=> Output!Printed(u) \/ t = u
  <2> SUFFICES ASSUME NEW u \in {"start", "end", "status"} PROVE Output!Printed(u)' <=> Output!Printed(u) \/ t = u
    OBVIOUS
  <2>1. ASSUME Output!Printed(u)' PROVE Output!Printed(u) \/ t = u
    <3>1. PICK i \in 1..Output!Upto' : output_tape'[i] = u
      BY <2>1 DEF Output!Printed
    <3>2. i \in 1..Output!Upto \/ i = Output!Upto + 1
      BY <1>1
    <3> QED BY <1>1, <1>p, <3>1, <3>2
  <2>2. ASSUME Output!Printed(u) PROVE Output!Printed(u)'
    <3>1. PICK i \in 1..Output!Upto : output_tape[i] = u
      BY <2>2 DEF Output!Printed
    <3>2. i \in 1..Output!Upto'
      BY <1>1, <3>1
    <3>3. output_tape'[i] = output_tape[i] /\ output_tape[i] = u
      BY <1>1, <3>1
    <3> QED BY <3>2, <3>3 DEF Output!Printed
  <2>3. ASSUME t = u PROVE Output!Printed(u)'
    <3>1. Output!Upto + 1 \in 1..Output!Upto' /\ output_tape'[Output!Upto + 1] = u
      BY <1>1, <2>3
    <3> QED BY <3>1 DEF Output!Printed
  <2> QED BY <2>1, <2>2, <2>3
<1>4. \A i \in 1..Output!Upto' : i \in 1..Output!Upto \/ i = Output!Upto + 1
  BY <1>1
<1>5. \A i, j \in 1..Output!Upto' : output_tape'[i] = "start" /\ output_tape'[j] = "start" => i = j
  <2> SUFFICES ASSUME NEW i \in 1..Output!Upto', NEW j \in 1..Output!Upto', output_tape'[i] = "start", output_tape'[j] = "start"
               PROVE  i = j
    OBVIOUS
  <2>1. CASE i \in 1..Output!Upto /\ j \in 1..Output!Upto
    BY <2>1, <1>1 DEF Marked
  <2>2. CASE i = Output!Upto + 1 \/ j = Output!Upto + 1
    <3>1. t = "start" /\ ~Output!Printed("start")
      BY <2>2, <1>1, <1>2
    <3>2. i \notin 1..Output!Upto /\ j \notin 1..Output!Upto
      BY <3>1, <1>1, <1>p
    <3> QED BY <3>2, <1>4
  <2> QED BY <2>1, <2>2, <1>4
<1>6. \A i, j \in 1..Output!Upto' : output_tape'[i] = "end" /\ output_tape'[j] = "end" => i = j
  <2> SUFFICES ASSUME NEW i \in 1..Output!Upto', NEW j \in 1..Output!Upto', output_tape'[i] = "end", output_tape'[j] = "end"
               PROVE  i = j
    OBVIOUS
  <2>1. CASE i \in 1..Output!Upto /\ j \in 1..Output!Upto
    BY <2>1, <1>1 DEF Marked
  <2>2. CASE i = Output!Upto + 1 \/ j = Output!Upto + 1
    <3>1. t = "end" /\ ~Output!Printed("end")
      BY <2>2, <1>1, <1>2
    <3>2. i \notin 1..Output!Upto /\ j \notin 1..Output!Upto
      BY <3>1, <1>1, <1>p
    <3> QED BY <3>2, <1>4
  <2> QED BY <2>1, <2>2, <1>4
<1>7. \A i, j \in 1..Output!Upto' : output_tape'[i] = "start" /\ output_tape'[j] \in {"end", "status"} => i < j
  <2> SUFFICES ASSUME NEW i \in 1..Output!Upto', NEW j \in 1..Output!Upto', output_tape'[i] = "start", output_tape'[j] \in {"end", "status"}
               PROVE  i < j
    OBVIOUS
  <2>1. CASE i \in 1..Output!Upto
    <3>1. CASE j \in 1..Output!Upto
      <4>1. output_tape[i] = "start" /\ output_tape[j] \in {"end", "status"}
        BY <2>1, <3>1, <1>1
      <4> QED BY <2>1, <3>1, <4>1 DEF Marked
    <3>2. CASE j = Output!Upto + 1
      BY <2>1, <3>2, <1>1
    <3> QED BY <3>1, <3>2, <1>4
  <2>2. CASE i = Output!Upto + 1
    <3>1. t = "start" /\ j \in 1..Output!Upto
      BY <2>2, <1>1, <1>4
    <3>2. Output!Printed("end") \/ Output!Printed("status")
      BY <3>1, <1>1 DEF Output!Printed
    <3> QED BY <3>1, <3>2, <1>2 DEF Marked
  <2> QED BY <2>1, <2>2, <1>4
<1>8. \A i, j \in 1..Output!Upto' : output_tape'[i] = "start" /\ output_tape'[j] = "old" => j < i
  <2> SUFFICES ASSUME NEW i \in 1..Output!Upto', NEW j \in 1..Output!Upto', output_tape'[i] = "start", output_tape'[j] = "old"
               PROVE  j < i
    OBVIOUS
  <2>1. j \in 1..Output!Upto
    BY <1>1, <1>2, <1>4
  <2>2. CASE i \in 1..Output!Upto
    <3>1. output_tape[i] = "start" /\ output_tape[j] = "old"
      BY <2>1, <2>2, <1>1
    <3> QED BY <2>1, <2>2, <3>1 DEF Marked
  <2>3. CASE i = Output!Upto + 1
    BY <2>1, <2>3, <1>1
  <2> QED BY <2>2, <2>3, <1>4
<1>9. (Output!Printed("end")' \/ Output!Printed("status")' => Output!Printed("start")') /\ (Output!Printed("status")' => Output!Printed("end")')
  BY <1>2, <1>3 DEF Marked
<1> QED BY <1>5, <1>6, <1>7, <1>8, <1>9 DEF Marked, Output!Printed

LEMMA PrintsStep == ASSUME OutputInv, Output!ShellPrints PROVE OutputInv'
<1>1. PICK t \in Output!MayPrint : output_tape' = Append(output_tape, t)
  BY DEF Output!ShellPrints
<1>2. t \in Output!Tokens
  BY DEF Output!MayPrint, Output!Tokens
<1>3. output_tape \in Seq(Output!Tokens) /\ Output!Upto \in Nat /\ Output!Upto' = Output!Upto + 1 /\ output_tape' \in Seq(Output!Tokens)
  BY <1>1, <1>2 DEF OutputInv, Output!TypeOK, Output!Upto
<1>4. Marked'
  BY <1>1, <1>3, PrintsMarked DEF OutputInv
<1>5. Output!TypeOK'
  <2>1. Output!Upto' <= MaxTape /\ output_seen' \in 0..Output!Upto'
    BY <1>3, OutputLimits DEF OutputInv, Output!TypeOK, Output!ShellPrints
  <2>2. output_fallback \in Seq(1..Output!Upto) /\ 1..Output!Upto \subseteq 1..Output!Upto'
    BY <1>3 DEF OutputInv, Output!TypeOK
  <2>3. output_fallback' \in Seq(1..Output!Upto')
    BY <2>2, SeqMonotonic DEF Output!ShellPrints
  <2> QED BY <1>3, <2>1, <2>3 DEF Output!TypeOK, OutputInv, Output!ShellPrints
<1>6. ~output_cutoff' => Piece(output_fallback', output_seen')
  BY DEF OutputInv, Output!ShellPrints
<1>7. Honest(output_answer)'
  BY DEF Output!ShellPrints, Honest, Output!Nothing
<1> QED BY <1>4, <1>5, <1>6, <1>7 DEF OutputInv, Piece, Output!Run

\* Nothing but the flags of the command changes.
LEMMA FlagsStep ==
  ASSUME OutputInv, UNCHANGED <<output_tape, output_seen, output_fallback, output_cutoff, output_answer>>,
         output_sent' \in BOOLEAN, output_exited' \in BOOLEAN
  PROVE  OutputInv'
<1>1. Output!Upto' = Output!Upto /\ Output!Begin' = Output!Begin /\ Output!Finish' = Output!Finish
  BY DEF Output!Upto, Output!Begin, Output!Finish
<1>2. Output!TypeOK'
  BY <1>1 DEF OutputInv, Output!TypeOK
<1>3. Marked'
  BY <1>1 DEF OutputInv, Marked, Output!Printed
<1>4. ~output_cutoff' => Piece(output_fallback', output_seen')
  BY DEF OutputInv
<1>5. Honest(output_answer)'
  BY <1>1 DEF OutputInv, Honest
<1> QED BY <1>2, <1>3, <1>4, <1>5 DEF OutputInv, Piece

\* An answer is given on the tape as it is.
LEMMA AnswerStep ==
  ASSUME OutputInv, UNCHANGED <<output_tape, output_sent, output_exited>>, Honest(output_answer'),
         output_answer'.kind \in {"none", "complete", "partial", "timeout", "aborted", "exited"},
         output_seen' \in 0..Output!Upto, output_fallback' \in Seq(1..Output!Upto), output_cutoff' \in BOOLEAN,
         ~output_cutoff' => Piece(output_fallback', output_seen')
  PROVE  OutputInv'
<1>1. Output!Upto' = Output!Upto /\ Output!Begin' = Output!Begin /\ Output!Finish' = Output!Finish
  BY DEF Output!Upto, Output!Begin, Output!Finish
<1>2. Output!TypeOK'
  BY <1>1 DEF OutputInv, Output!TypeOK
<1>3. Marked'
  BY <1>1 DEF OutputInv, Marked, Output!Printed
<1>4. Honest(output_answer)'
  BY <1>1 DEF Honest
<1> QED BY <1>2, <1>3, <1>4 DEF OutputInv, Piece

LEMMA SeesExitStep == ASSUME OutputInv, Output!SeesExit PROVE OutputInv'
<1>1. /\ output_fallback \in Seq(1..Output!Upto) /\ output_cutoff \in BOOLEAN /\ output_seen \in 0..Output!Upto
      /\ Output!TypeOK /\ Marked /\ (~output_cutoff => Piece(output_fallback, output_seen))
  BY DEF OutputInv, Output!TypeOK
<1>2. Honest(Output!PartialOutput("exited", Output!RetainedScrollback, output_fallback, output_cutoff))
  BY <1>1, PartialHonest
<1>3. Output!PartialOutput("exited", Output!RetainedScrollback, output_fallback, output_cutoff).kind = "exited"
  BY DEF Output!PartialOutput
<1>4. output_answer' = Output!PartialOutput("exited", Output!RetainedScrollback, output_fallback, output_cutoff)
      /\ UNCHANGED <<output_tape, output_sent, output_seen, output_fallback, output_cutoff, output_exited>>
  BY DEF Output!SeesExit
<1>5. Honest(output_answer') /\ output_answer'.kind = "exited"
  BY <1>2, <1>3, <1>4
<1> QED BY <1>1, <1>4, <1>5, AnswerStep

\* What is kept of a send is one piece with what was kept before.
LEMMA KeptPiece ==
  ASSUME OutputInv, NEW lost \in {0, 1}, lost = 1 => output_seen + 1 < Output!Upto,
         NEW more, more = IF Output!Increment(lost) # <<>> THEN output_fallback \o Output!Increment(lost) ELSE Output!Page(0, Screen)
  PROVE  more \in Seq(1..Output!Upto) /\ (~(output_cutoff \/ lost > 0) => Piece(more, Output!Upto))
<1>1. Output!Upto \in Nat /\ output_seen \in 0..Output!Upto /\ output_seen \in Nat /\ output_seen <= Output!Upto /\ output_fallback \in Seq(1..Output!Upto)
      /\ (~output_cutoff => Piece(output_fallback, output_seen)) /\ Output!Upto \in 0..Output!Upto
  BY DEF OutputInv, Output!TypeOK, Output!Upto
<1>2. PICK s : s = output_seen + lost
  OBVIOUS
<1>3. s \in Nat /\ s <= Output!Upto
  BY <1>1, <1>2
<1>4. Output!Increment(lost) = Output!Run(s + 1, Output!Upto)
  <2>1. output_seen + 1 + lost = s + 1
    BY <1>1, <1>2
  <2> QED BY <2>1 DEF Output!Increment
<1>5. Output!Run(s + 1, Output!Upto) \in Seq(1..Output!Upto)
  <2>1. Output!Run(s + 1, Output!Upto) \in Seq((s + 1)..Output!Upto)
    BY <1>1, <1>3, RunIs
  <2>2. (s + 1)..Output!Upto \subseteq 1..Output!Upto
    BY <1>1, <1>3
  <2> QED BY <2>1, <2>2, SeqMonotonic
<1>6. CASE Output!Increment(lost) # <<>>
  <2>1. more = output_fallback \o Output!Run(s + 1, Output!Upto)
    BY <1>4, <1>6
  <2>2. more \in Seq(1..Output!Upto)
    BY <1>1, <1>5, <2>1, ConcatProperties
  <2>3. ASSUME ~(output_cutoff \/ lost > 0) PROVE Piece(more, Output!Upto)
    <3>1. ~output_cutoff /\ lost = 0
      BY <2>3
    <3>s. s = output_seen
      BY <3>1, <1>1, <1>2
    <3>2. PICK b \in 0..output_seen : output_fallback = Output!Run(b + 1, output_seen)
      BY <3>1, <1>1 DEF Piece
    <3>3. b \in Nat /\ b <= output_seen /\ b \in 0..Output!Upto
      BY <3>2, <1>1
    <3>4. Output!Run(b + 1, output_seen) \o Output!Run(output_seen + 1, Output!Upto) = Output!Run(b + 1, Output!Upto)
      BY <3>3, <1>1, RunJoin
    <3>5. more = Output!Run(b + 1, Output!Upto)
      BY <2>1, <3>s, <3>2, <3>4
    <3> QED BY <3>3, <3>5 DEF Piece
  <2> QED BY <2>2, <2>3
<1>7. CASE Output!Increment(lost) = <<>>
  <2>1. PICK b : b = Output!Upto - Output!LineEnd(0, Screen)
    OBVIOUS
  <2>2. 0 \in 0..Output!TotalLines /\ Screen \in Nat
    <3>1. PICK t : t = Output!TotalLines
      OBVIOUS
    <3>2. t \in 0..Output!Upto
      BY <1>1, <3>1, LineCounts
    <3> QED BY <1>1, <3>1, <3>2, OutputLimits
  <2>3. b \in Nat /\ b <= Output!Upto - 0 /\ Output!Page(0, Screen) = Output!Run(b + 1, Output!Upto - 0)
    BY <1>1, <2>1, <2>2, PageIs
  <2>4. b \in 0..Output!Upto /\ b <= Output!Upto /\ Output!Upto - 0 = Output!Upto
    BY <1>1, <2>3
  <2>5. more = Output!Run(b + 1, Output!Upto)
    BY <1>7, <2>3, <2>4
  <2>6. Output!Run(b + 1, Output!Upto) \in Seq((b + 1)..Output!Upto)
    BY <1>1, <2>3, <2>4, RunIs
  <2>7. (b + 1)..Output!Upto \subseteq 1..Output!Upto
    BY <1>1, <2>4
  <2>8. Output!Run(b + 1, Output!Upto) \in Seq(1..Output!Upto)
    BY <2>6, <2>7, SeqMonotonic
  <2> QED BY <2>4, <2>5, <2>8 DEF Piece
<1> QED BY <1>6, <1>7

LEMMA TurnStep == ASSUME OutputInv, Output!Turn PROVE OutputInv'
<1>1. PICK lost \in {0} \cup {l \in {1} : output_seen + 1 < Output!Upto},
           now \in {"open", "timeout", "aborted"}, reason \in {"stdin_read", "other"} :
       LET delta == Output!Increment(lost)
           more == IF delta # <<>> THEN output_fallback \o delta
                   ELSE Output!Page(0, Screen)
           cut == output_cutoff \/ lost > 0
           text == Output!RetainedScrollback
           partial(kind) == Output!PartialOutput(kind, text, more, cut) IN
       /\ output_seen' = Output!Upto /\ output_fallback' = more /\ output_cutoff' = cut
       /\ output_answer' =
            CASE now = "timeout" -> partial("timeout")
              [] now = "aborted" -> [Output!Nothing EXCEPT !.kind = "aborted"]
              [] now = "open" /\ Output!Last(Output!Latest, "end") > 0 /\ Output!HasStatus(text) -> Output!CommandOutput(text)
              [] now = "open" /\ ~(Output!Last(Output!Latest, "end") > 0 /\ Output!HasStatus(text)) /\ output_exited ->
                   partial("exited")
              [] now = "open" /\ ~(Output!Last(Output!Latest, "end") > 0 /\ Output!HasStatus(text)) /\ ~output_exited
                   /\ reason = "stdin_read" -> partial("partial")
              [] OTHER -> Output!Nothing
  BY DEF Output!Turn
<1>2. lost \in {0, 1} /\ (lost = 1 => output_seen + 1 < Output!Upto)
  BY <1>1
<1>3. PICK more : more = IF Output!Increment(lost) # <<>> THEN output_fallback \o Output!Increment(lost) ELSE Output!Page(0, Screen)
  OBVIOUS
<1>4. PICK cut : cut = (output_cutoff \/ lost > 0)
  OBVIOUS
<1>5. output_seen' = Output!Upto /\ output_fallback' = more /\ output_cutoff' = cut /\ cut \in BOOLEAN
  BY <1>1, <1>3, <1>4
<1>6. more \in Seq(1..Output!Upto) /\ (~(output_cutoff \/ lost > 0) => Piece(more, Output!Upto))
  BY <1>2, <1>3, KeptPiece
<1>7. ~cut => Piece(more, Output!Upto)
  BY <1>4, <1>6
<1>8. Output!TypeOK /\ Marked /\ Output!Upto \in 0..Output!Upto
  BY DEF OutputInv, Output!TypeOK, Output!Upto
<1>9. PICK partial : partial = [kind \in {"partial", "timeout", "exited"} |->
                                 Output!PartialOutput(kind, Output!RetainedScrollback, more, cut)]
  OBVIOUS
<1>10. \A kind \in {"partial", "timeout", "exited"} : Honest(partial[kind]) /\ partial[kind].kind = kind
  <2> SUFFICES ASSUME NEW kind \in {"partial", "timeout", "exited"}
               PROVE  /\ Honest(Output!PartialOutput(kind, Output!RetainedScrollback, more, cut))
                      /\ Output!PartialOutput(kind, Output!RetainedScrollback, more, cut).kind = kind
    BY <1>9
  <2>1. Honest(Output!PartialOutput(kind, Output!RetainedScrollback, more, cut))
    BY <1>5, <1>6, <1>7, <1>8, PartialHonest
  <2>2. Output!PartialOutput(kind, Output!RetainedScrollback, more, cut).kind = kind
    BY DEF Output!PartialOutput
  <2> QED BY <2>1, <2>2
<1>11. Output!HasStatus(Output!RetainedScrollback) => Honest(Output!CommandOutput(Output!RetainedScrollback))
  BY <1>8, CompleteHonest
<1>12. Output!CommandOutput(Output!RetainedScrollback).kind = "complete"
  BY DEF Output!CommandOutput
<1>13. PICK none : none = [Output!Nothing EXCEPT !.kind = "aborted"]
  OBVIOUS
<1>14. none.kind = "aborted" /\ Honest(none) /\ Output!Nothing.kind = "none" /\ Honest(Output!Nothing)
  BY <1>13 DEF Output!Nothing, Honest
<1>15. PICK ends : ends = (Output!Last(Output!Latest, "end") > 0 /\ Output!HasStatus(Output!RetainedScrollback))
  OBVIOUS
<1>16. output_answer' =
            CASE now = "timeout" -> partial["timeout"]
              [] now = "aborted" -> none
              [] now = "open" /\ ends -> Output!CommandOutput(Output!RetainedScrollback)
              [] now = "open" /\ ~ends /\ output_exited -> partial["exited"]
              [] now = "open" /\ ~ends /\ ~output_exited /\ reason = "stdin_read" -> partial["partial"]
              [] OTHER -> Output!Nothing
  BY <1>1, <1>3, <1>4, <1>9, <1>13, <1>15
<1>17. \/ output_answer' \in {partial["timeout"], partial["exited"], partial["partial"], none, Output!Nothing}
       \/ output_answer' = Output!CommandOutput(Output!RetainedScrollback) /\ Output!HasStatus(Output!RetainedScrollback)
  BY <1>15, <1>16
<1>18. Honest(output_answer') /\ output_answer'.kind \in {"none", "complete", "partial", "timeout", "aborted", "exited"}
  BY <1>10, <1>11, <1>12, <1>14, <1>17
<1>19. UNCHANGED <<output_tape, output_sent, output_exited>>
  BY DEF Output!Turn
<1> QED BY <1>5, <1>6, <1>7, <1>8, <1>18, <1>19, AnswerStep

LEMMA NextOutput == ASSUME OutputInv, [Output!Next]_output_vars PROVE OutputInv'
<1>1. CASE Output!ShellPrints
  BY <1>1, PrintsStep
<1>2. CASE Output!ShellExits \/ Output!Submit \/ Output!Answered \/ UNCHANGED output_vars
  <2>1. UNCHANGED <<output_tape, output_seen, output_fallback, output_cutoff, output_answer>> /\ output_sent' \in BOOLEAN /\ output_exited' \in BOOLEAN
    BY <1>2 DEF Output!ShellExits, Output!Submit, Output!Answered, Output!vars, output_vars, OutputInv, Output!TypeOK
  <2> QED BY <2>1, FlagsStep
<1>3. CASE Output!Turn
  BY <1>3, TurnStep
<1>4. CASE Output!SeesExit
  BY <1>4, SeesExitStep
<1> QED BY <1>1, <1>2, <1>3, <1>4 DEF Output!Next

LEMMA OutputHolds == ASSUME OutputInv PROVE Output!TypeOK /\ Output!CompleteIsExact /\ Output!PartialIsHonest /\ Output!NothingOld
BY DEF OutputInv, Honest, Output!CompleteIsExact, Output!PartialIsHonest, Output!NothingOld

\* In every behaviour, for any scrollback, page, viewport and tape: a complete
\* answer is exactly what stands between the markers, or a tail of it that says
\* so; a partial one that claims to be whole begins with the command's text and
\* misses nothing inside (commandOutput, partialOutput, retainedScrollback).
THEOREM OutputKept == AllSpec => []OutputHonest
<1>1. AllInit => OutputInv
  BY InitOutput DEF AllInit
<1>2. OutputInv /\ [AllNext]_all => OutputInv'
  BY NextOutput DEF AllNext, all, output_vars
<1>3. OutputInv => OutputHonest
  BY OutputHolds DEF OutputHonest
<1> QED BY <1>1, <1>2, <1>3, PTL DEF AllSpec

---------------------------------------------------------------------------
(* The sessions. *)
USE ShellAssumption

Runs(s) == shell[s].proc = "open" /\ shell[s].failed = "no"

\* The phases of the first command of a line, its turn once begun.
Active == {"getting", "loop", "sent", "reset"}
Waiting == Active \cup {"queued"}

\* A manager's line: its unsettled commands, each once, and only the first
\* one may have begun.
LineOf(m) ==
  /\ line[m] \in Seq(Calls)
  /\ \A i \in 1..Len(line[m]) :
       /\ cmd[line[m][i]].at = m
       /\ cmd[line[m][i]].pc \in (IF i = 1 THEN Waiting ELSE {"queued"})
  /\ \A i, j \in 1..Len(line[m]) : i # j => line[m][i] # line[m][j]

Lined(c) ==
  cmd[c].pc \in Waiting =>
    /\ cmd[c].at \in Managers
    /\ \E i \in 1..Len(line[cmd[c].at]) : line[cmd[c].at][i] = c

LineInv ==
  /\ line \in [Managers -> Seq(Calls)]
  /\ \A m \in Managers : LineOf(m)
  /\ \A c \in Calls : Lined(c)

\* A creation belongs to the command that waits for it.
Created(s) ==
  /\ shell[s].step # "none" =>
       shell[s].by \in Calls /\ shell[s].at \in checkers /\ shell[s].mode \in Modes
  /\ shell[s].step = "none" => shell[s].proc = "none" /\ shell[s].failed = "no"
  /\ shell[s].step \in Unsettled =>
       LET o == cmd[shell[s].by] IN
       o.pc = "getting" /\ o.shell = s /\ o.at = shell[s].at
  /\ shell[s].step \in Unsettled \ {"reset"} => pending[shell[s].at] = s
  /\ shell[s].step \in {"confine", "spawn"} =>
       shell[s].proc = "none" /\ shell[s].failed = "no"

Holds(c) ==
  /\ cmd[c].shell # 0 =>
       shell[cmd[c].shell].step # "none" /\ shell[cmd[c].shell].at = cmd[c].at
  /\ cmd[c].pc \in Active => cmd[c].shell # 0
  /\ cmd[c].pc = "idle" => cmd[c].shell = 0 /\ cmd[c].out = "none"

CreateInv ==
  /\ \A s \in Shells : Created(s)
  /\ \A c \in Calls : Holds(c)
  /\ \A m \in Managers :
       pending[m] # 0 => shell[pending[m]].step # "none" /\ shell[pending[m]].at = m

\* A manager's published shell is the only one of it that runs, and the one
\* it closes.
LiveOf(m) ==
  /\ live[m] # 0 =>
       /\ shell[live[m]].at = m
       /\ shell[live[m]].step \notin {"none", "confine", "spawn", "startup", "cleanup"}
  /\ closing[m] # 0 => closing[m] = live[m]

\* Somebody waits for every close, and a shell nobody asks for does not run.
Closes(m) ==
  /\ closing[m] # 0 =>
       \/ \E c \in Calls : cmd[c].at = m /\ cmd[c].pc = "reset"
       \/ \E s \in Shells : shell[s].at = m /\ shell[s].step = "reset"
       \/ disposal[m] = "reset" \/ cleanup[m] = "reset"
  /\ pending[m] = 0 /\ closing[m] = 0 /\ live[m] # 0 => ~Runs(live[m])

Published(s) ==
  LET m == shell[s].at IN
  /\ Runs(s) /\ shell[s].step \notin {"startup", "cleanup"} => live[m] = s
  /\ shell[s].step = "init" => live[m] = s /\ closing[m] = 0
  /\ shell[s].step = "reset" => closing[m] # 0
  /\ shell[s].step \in {"confine", "spawn", "startup"} /\ ~Aborted(s) =>
       closing[m] = 0 /\ (live[m] = 0 \/ ~Runs(live[m]))

Resetting(c) ==
  cmd[c].pc = "reset" => closing[cmd[c].at] # 0 /\ pending[cmd[c].at] = 0

LiveInv ==
  /\ \A m \in Managers : LiveOf(m) /\ Closes(m)
  /\ \A s \in Shells : Published(s)
  /\ \A c \in Calls : Resetting(c)

\* Every shell that is made or runs has the mode of the session.
ModeInv ==
  \A s \in Shells : shell[s].step \in Unsettled \/ Runs(s) => shell[s].mode = mode

\* The end of a manager or of the agent leaves no creation that goes on, and
\* when it has returned no shell.
Ended(m) ==
  /\ disposal[m] = "reset" \/ cleanup[m] = "reset" => closing[m] # 0
  /\ disposal[m] \in {"reset", "done"} =>
       \A s \in Shells : shell[s].at = m =>
         shell[s].step \notin {"spawn", "startup", "cleanup", "init"}
  /\ cleanup[m] \in {"reset", "done"} => Creating(m) = {}
  /\ disposal[m] = "done" \/ cleanup[m] = "done" =>
       \A s \in Shells : shell[s].at = m => ~Runs(s)

EndInv == \A m \in Managers : Ended(m)

\* Nobody gets the shell of a command that was told of a reset.
Fresh(c) ==
  /\ cmd[c].out # "none" => cmd[c].pc = "done"
  /\ cmd[c].out = "reset" =>
       /\ cmd[c].shell # 0 /\ pending[cmd[c].at] # cmd[c].shell
       /\ \A d \in Calls \ {c} :
            cmd[d].at = cmd[c].at /\ cmd[d].shell = cmd[c].shell =>
              cmd[d].pc \notin {"getting", "loop", "sent"}

FreshInv == \A c \in Calls : Fresh(c)

\* The types, the lines apart.
CallTypes ==
  [pc : {"idle", "queued", "getting", "loop", "sent", "reset", "done"},
   at : Managers \cup {0}, cut : BOOLEAN, shell : 0..MaxShells, then : Outs, out : Outs]
ShellTypes ==
  [by : Calls \cup {"nobody"}, at : Managers \cup {0},
   step : {"none", "confine", "spawn", "startup", "cleanup", "init", "reset", "ready", "failed"},
   proc : {"none", "open", "exited", "closed"},
   mode : Modes \cup {"none"}, cut : BOOLEAN, failed : {"no", "startup", "close"}]
ManagerTypes ==
  /\ pending \in [Managers -> 0..MaxShells] /\ live \in [Managers -> 0..MaxShells]
  /\ closing \in [Managers -> 0..MaxShells]
  /\ disposal \in [Managers -> {"none", "creating", "reset", "done"}]
  /\ cleanup \in [Managers -> {"none", "installed", "creating", "reset", "done"}]
Types ==
  /\ mode \in Modes /\ checkers \subseteq Managers /\ fails \in 0..MaxFails
  /\ cmd \in [Calls -> CallTypes] /\ shell \in [Shells -> ShellTypes]
  /\ ManagerTypes /\ ownerLive \in BOOLEAN

ShellInv ==
  Types /\ LineInv /\ CreateInv /\ LiveInv /\ ModeInv /\ EndInv /\ FreshInv

\* Whoever has begun stands first in the line of its manager, alone.
LEMMA First ==
  ASSUME LineInv, NEW c \in Calls,
         cmd[c].pc \in Active \/ (cmd[c].pc = "queued" /\ Head(line[cmd[c].at]) = c)
  PROVE  /\ cmd[c].at \in Managers /\ Len(line[cmd[c].at]) > 0 /\ line[cmd[c].at][1] = c
         /\ \A d \in Calls \ {c} : cmd[d].at = cmd[c].at => cmd[d].pc \notin Active
<1>1. /\ cmd[c].at \in Managers
      /\ \E i \in 1..Len(line[cmd[c].at]) : line[cmd[c].at][i] = c
  BY DEF LineInv, Lined, Active, Waiting
<1>2. LineOf(cmd[c].at)
  BY <1>1 DEF LineInv
<1>3. Len(line[cmd[c].at]) > 0 /\ line[cmd[c].at][1] = c
  BY <1>1, <1>2 DEF LineOf, Active
<1>4. ASSUME NEW d \in Calls \ {c}, cmd[d].at = cmd[c].at, cmd[d].pc \in Active
      PROVE  FALSE
  <2>1. PICK i \in 1..Len(line[cmd[c].at]) : line[cmd[c].at][i] = d
    BY <1>4 DEF LineInv, Lined, Waiting
  <2>2. i # 1
    BY <1>3, <1>4, <2>1
  <2>. QED BY <1>2, <1>4, <2>1, <2>2 DEF LineOf, Active
<1>. QED BY <1>1, <1>3, <1>4

LEMMA TypesHold == ShellInv => TypeOK
<1>. SUFFICES ASSUME ShellInv PROVE TypeOK
  OBVIOUS
<1>1. ASSUME NEW m \in Managers, NEW c \in ToSet(line[m])
      PROVE  c \in Calls /\ cmd[c].at = m
  <2>1. line[m] \in Seq(Calls) /\ LineOf(m)
    BY DEF ShellInv, LineInv
  <2>2. PICK i \in 1..Len(line[m]) : line[m][i] = c
    BY <2>1 DEF ToSet
  <2>. QED BY <2>1, <2>2 DEF LineOf
<1>. QED BY <1>1 DEF ShellInv, Types, CallTypes, ShellTypes, ManagerTypes, TypeOK

LEMMA InitShells == Init => ShellInv
<1>. SUFFICES ASSUME Init PROVE ShellInv
  OBVIOUS
<1>1. /\ \A c \in Calls : /\ cmd[c].pc = "idle" /\ cmd[c].at = 0 /\ cmd[c].cut = FALSE
                          /\ cmd[c].shell = 0 /\ cmd[c].out = "none"
      /\ \A m \in Managers : /\ line[m] = <<>> /\ pending[m] = 0 /\ live[m] = 0
                             /\ closing[m] = 0 /\ disposal[m] = "none" /\ cleanup[m] = "none"
  BY DEF Init
<1>2. \A s \in Shells : /\ shell[s].step = "none" /\ shell[s].proc = "none"
                        /\ shell[s].failed = "no" /\ shell[s].at = 0
  BY DEF Init, NoShell
<1>3. Types
  BY DEF Init, NoShell, Types, CallTypes, ShellTypes, ManagerTypes, Outs
<1>4. LineInv
  BY <1>1 DEF Init, LineInv, LineOf, Lined, Waiting, Active
<1>5. CreateInv
  BY <1>1, <1>2 DEF CreateInv, Created, Holds, Active, Unsettled
<1>6. LiveInv /\ ModeInv /\ EndInv /\ FreshInv
  BY <1>1, <1>2 DEF LiveInv, LiveOf, Closes, Published, Resetting, ModeInv, EndInv, Ended, FreshInv, Fresh,
                    Runs, Unsettled
<1>. QED BY <1>3, <1>4, <1>5, <1>6 DEF ShellInv

-----------------------------------------------------------------------------
(* Steps of one command that leave its manager alone.                      *)

SameShells == UNCHANGED <<mode, checkers, shell, pending, live, closing, disposal, cleanup>>

\* The command goes on in its turn.
Turns(c, o) ==
  \/ o.pc = cmd[c].pc /\ o.shell = cmd[c].shell
  \/ {o.pc, cmd[c].pc} \subseteq {"loop", "sent"} /\ o.shell = cmd[c].shell
  \/ /\ cmd[c].pc = "queued" /\ Head(line[cmd[c].at]) = c
     /\ o.pc = "getting" /\ o.shell = pending[cmd[c].at] /\ o.shell # 0
  \/ /\ cmd[c].pc = "getting" /\ shell[cmd[c].shell].step \notin Unsettled
     /\ o.pc = "loop" /\ o.shell = cmd[c].shell

LEMMA GoesOn ==
  ASSUME ShellInv, SameShells, UNCHANGED <<line, ownerLive, fails>>, NEW c \in Calls,
         NEW o \in CallTypes, cmd' = [cmd EXCEPT ![c] = o], Turns(c, o),
         o.at = cmd[c].at, cmd[c].cut => o.cut, o.out = cmd[c].out
  PROVE  ShellInv'
<1>1. /\ \A d \in Calls : /\ cmd'[d].at = cmd[d].at /\ (cmd[d].cut => cmd'[d].cut)
                          /\ cmd'[d].out = cmd[d].out
                          /\ d # c => cmd'[d] = cmd[d]
      /\ cmd'[c] = o
  BY DEF ShellInv, Types
<1>2. Types'
  BY DEF ShellInv, Types, ManagerTypes, SameShells
<1>3. LineInv'
  <2>1. ASSUME NEW m \in Managers PROVE LineOf(m)'
    <3>1. LineOf(m) /\ line[m] \in Seq(Calls)
      BY DEF ShellInv, LineInv
    <3>2. o.pc # cmd[c].pc /\ cmd[c].at = m => Len(line[m]) > 0 /\ line[m][1] = c
      BY First DEF ShellInv, Turns, Active
    <3>3. o.pc # cmd[c].pc => cmd[c].pc \in Waiting /\ o.pc \in Waiting
      BY DEF Turns, Waiting, Active
    <3>. QED BY <1>1, <3>1, <3>2, <3>3 DEF LineOf
  <2>2. ASSUME NEW d \in Calls PROVE Lined(d)'
    BY <1>1 DEF ShellInv, LineInv, Lined, Turns, Waiting, Active
  <2>. QED BY <2>1, <2>2 DEF ShellInv, LineInv
<1>4. CreateInv'
  <2>1. ASSUME NEW s \in Shells PROVE Created(s)'
    <3>1. Created(s)
      BY DEF ShellInv, CreateInv
    <3>2. shell[s].step \in Unsettled =>
            LET q == cmd'[shell[s].by] IN q.pc = "getting" /\ q.shell = s /\ q.at = shell[s].at
      BY <1>1, <3>1 DEF Created, Turns
    <3>. QED BY <3>1, <3>2 DEF Created, SameShells
  <2>2. ASSUME NEW d \in Calls PROVE Holds(d)'
    <3>1. CASE d # c
      BY <1>1, <3>1 DEF ShellInv, CreateInv, Holds, SameShells
    <3>2. CASE d = c /\ o.shell = cmd[c].shell
      <4>1. (o.pc \in Active => o.shell # 0) /\ (o.pc = "idle" => cmd[c].pc = "idle")
        BY <3>2 DEF Turns, Active, ShellInv, CreateInv, Holds
      <4>. QED BY <1>1, <3>2, <4>1 DEF ShellInv, CreateInv, Holds, SameShells
    <3>3. CASE d = c /\ o.shell # cmd[c].shell
      <4>1. o.shell = pending[cmd[c].at] /\ o.shell # 0 /\ cmd[c].at \in Managers
        BY <3>3 DEF Turns, ShellInv, LineInv, Lined, Waiting
      <4>2. shell[o.shell].step # "none" /\ shell[o.shell].at = cmd[c].at
        BY <4>1 DEF ShellInv, CreateInv
      <4>3. cmd'[d] = o /\ shell' = shell /\ o.at = cmd[c].at /\ o.pc = "getting"
        BY <1>1, <3>3 DEF SameShells, Turns
      <4>. QED BY <4>1, <4>2, <4>3 DEF Holds
    <3>. QED BY <3>1, <3>2, <3>3
  <2>. QED BY <2>1, <2>2 DEF ShellInv, CreateInv, SameShells
<1>5. LiveInv'
  <2>1. \A s \in Shells : shell[s].step # "none" /\ Aborted(s) => Aborted(s)'
    BY <1>1 DEF ShellInv, CreateInv, Created, Aborted, Disposing, SameShells
  <2>2. ASSUME NEW s \in Shells PROVE Published(s)'
    BY <2>1 DEF ShellInv, LiveInv, Published, Runs, SameShells
  <2>3. ASSUME NEW d \in Calls PROVE Resetting(d)'
    BY <1>1 DEF ShellInv, LiveInv, Resetting, Turns, SameShells
  <2>4. ASSUME NEW m \in Managers PROVE Closes(m)'
    <3>1. Closes(m)
      BY DEF ShellInv, LiveInv
    <3>2. \A d \in Calls : cmd[d].pc = "reset" => cmd'[d].pc = "reset"
      BY <1>1 DEF Turns
    <3>. QED BY <1>1, <3>1, <3>2 DEF Closes, Runs, SameShells
  <2>. QED BY <2>2, <2>3, <2>4 DEF ShellInv, LiveInv, LiveOf, SameShells
<1>6. ModeInv' /\ EndInv'
  BY DEF ShellInv, ModeInv, EndInv, Ended, Creating, Runs, SameShells
<1>7. FreshInv'
  <2>. SUFFICES ASSUME NEW d \in Calls PROVE Fresh(d)'
    BY DEF FreshInv
  <2>1. Fresh(d)
    BY DEF ShellInv, FreshInv
  <2>2. cmd[d].out # "none" => cmd'[d].pc = "done" /\ cmd'[d].shell = cmd[d].shell
    BY <1>1, <2>1 DEF Fresh, Turns
  <2>. QED BY <1>1, <2>1, <2>2 DEF Fresh, Turns, SameShells
<1>. QED BY <1>2, <1>3, <1>4, <1>5, <1>6, <1>7 DEF ShellInv

\* The command that issues a creation is the only one of its manager at work.
LEMMA OneCreation ==
  ASSUME ShellInv, NEW s \in Shells, shell[s].step \in Unsettled, NEW c \in Calls,
         cmd[c].at = shell[s].at,
         cmd[c].pc \in Active \/ (cmd[c].pc = "queued" /\ Head(line[cmd[c].at]) = c)
  PROVE  c = shell[s].by /\ cmd[c].pc = "getting" /\ cmd[c].shell = s
<1>1. /\ shell[s].by \in Calls /\ cmd[shell[s].by].pc = "getting"
      /\ cmd[shell[s].by].shell = s /\ cmd[shell[s].by].at = shell[s].at
  BY DEF ShellInv, CreateInv, Created, Unsettled
<1>2. c = shell[s].by
  BY <1>1, First DEF ShellInv, Active
<1>. QED BY <1>1, <1>2

-----------------------------------------------------------------------------
(* Steps that end the turn of a command, or begin its reset.               *)

\* What no step of a command changes.
Outside == UNCHANGED <<mode, checkers, shell, live, disposal, cleanup, ownerLive, fails>>

\* Command c has begun its turn, or may; its creation, if any, has settled.
AtTurn(c) ==
  \/ cmd[c].pc = "queued" /\ Head(line[cmd[c].at]) = c
  \/ cmd[c].pc = "getting" /\ shell[cmd[c].shell].step \notin Unsettled
  \/ cmd[c].pc \in {"loop", "sent"}

LEMMA NoCreation ==
  ASSUME ShellInv, NEW c \in Calls, AtTurn(c), NEW s \in Shells, shell[s].at = cmd[c].at
  PROVE  shell[s].step \notin Unsettled
BY OneCreation DEF AtTurn, Active

\* One command changes: what the others keep.
LEMMA CallChanges ==
  ASSUME ShellInv, NEW c \in Calls, NEW o \in CallTypes, cmd' = [cmd EXCEPT ![c] = o]
  PROVE  /\ cmd'[c] = o /\ cmd' \in [Calls -> CallTypes]
         /\ \A d \in Calls \ {c} : cmd'[d] = cmd[d]
BY DEF ShellInv, Types

\* The first of a line leaves it.
LEMMA LeaveLine ==
  ASSUME LineInv, NEW m \in Managers, NEW c \in Calls, Len(line[m]) > 0, line[m][1] = c,
         line' = [line EXCEPT ![m] = Tail(@)], cmd'[c].pc = "done",
         \A d \in Calls \ {c} : cmd'[d] = cmd[d]
  PROVE  LineInv'
<1>1. /\ line \in [Managers -> Seq(Calls)] /\ Tail(line[m]) \in Seq(Calls)
      /\ line' \in [Managers -> Seq(Calls)] /\ line'[m] = Tail(line[m])
      /\ \A k \in Managers \ {m} : line'[k] = line[k]
  <2>1. line \in [Managers -> Seq(Calls)] /\ line[m] \in Seq(Calls)
    BY DEF LineInv
  <2>2. Tail(line[m]) \in Seq(Calls)
    BY <2>1
  <2>. QED BY <2>1, <2>2
<1>2. ASSUME NEW k \in Managers PROVE LineOf(k)'
  <2>1. LineOf(k) /\ line[k] \in Seq(Calls)
    BY DEF LineInv
  <2>2. CASE k # m
    <3>1. cmd[c].at = m
      BY DEF LineInv, LineOf
    <3>2. \A i \in 1..Len(line[k]) : line[k][i] \in Calls \ {c}
      BY <2>1, <2>2, <3>1 DEF LineOf
    <3>. QED BY <1>1, <2>1, <2>2, <3>2 DEF LineOf
  <2>3. CASE k = m
    <3>1. Len(line'[k]) = Len(line[k]) - 1
      BY <1>1, <2>3
    <3>2. ASSUME NEW i \in 1..Len(line'[k])
          PROVE  line'[k][i] = line[k][i + 1] /\ i + 1 \in 1..Len(line[k]) /\ i + 1 # 1
      BY <1>1, <2>1, <2>3, <3>1
    <3>3. ASSUME NEW i \in 1..Len(line[k]), i # 1
          PROVE  /\ line[k][i] \in Calls \ {c}
                 /\ cmd[line[k][i]].at = k /\ cmd[line[k][i]].pc = "queued"
      <4>1. line[k][i] # line[k][1] /\ line[k][i] \in Calls
        BY <2>1, <2>3, <3>3 DEF LineOf
      <4>2. cmd[line[k][i]].at = k /\ cmd[line[k][i]].pc = "queued"
        BY <2>1, <3>3 DEF LineOf
      <4>. QED BY <2>3, <4>1, <4>2
    <3>4. ASSUME NEW i \in 1..Len(line'[k])
          PROVE  cmd'[line'[k][i]].at = k /\ cmd'[line'[k][i]].pc = "queued"
      <4>1. /\ line'[k][i] = line[k][i + 1] /\ line[k][i + 1] \in Calls \ {c}
            /\ cmd[line[k][i + 1]].at = k /\ cmd[line[k][i + 1]].pc = "queued"
        BY <3>2, <3>3
      <4>. QED BY <4>1
    <3>5. ASSUME NEW i \in 1..Len(line'[k]), NEW j \in 1..Len(line'[k]), i # j
          PROVE  line'[k][i] # line'[k][j]
      <4>1. /\ line'[k][i] = line[k][i + 1] /\ i + 1 \in 1..Len(line[k])
            /\ line'[k][j] = line[k][j + 1] /\ j + 1 \in 1..Len(line[k])
        BY <3>2
      <4>2. i + 1 # j + 1
        BY <3>1, <3>5, <2>1
      <4>. QED BY <2>1, <4>1, <4>2 DEF LineOf
    <3>. QED BY <1>1, <3>4, <3>5 DEF LineOf, Waiting
  <2>. QED BY <2>2, <2>3
<1>3. ASSUME NEW d \in Calls PROVE Lined(d)'
  <2>1. CASE d = c \/ cmd[d].pc \notin Waiting
    BY <2>1 DEF Lined, Waiting, Active
  <2>2. CASE d # c /\ cmd[d].pc \in Waiting
    <3>1. cmd'[d] = cmd[d] /\ cmd[d].at \in Managers
      BY <2>2 DEF LineInv, Lined
    <3>2. PICK i \in 1..Len(line[cmd[d].at]) : line[cmd[d].at][i] = d
      BY <2>2 DEF LineInv, Lined
    <3>3. CASE cmd[d].at # m
      BY <1>1, <3>1, <3>2, <3>3 DEF Lined
    <3>4. CASE cmd[d].at = m
      <4>1. i # 1 /\ line[m] \in Seq(Calls)
        BY <1>1, <2>2, <3>2, <3>4
      <4>2. i - 1 \in 1..Len(Tail(line[m])) /\ Tail(line[m])[i - 1] = d
        BY <3>2, <3>4, <4>1
      <4>3. line'[cmd'[d].at] = Tail(line[m])
        BY <1>1, <3>1, <3>4
      <4>. QED BY <3>1, <4>2, <4>3 DEF Lined
    <3>. QED BY <3>3, <3>4
  <2>. QED BY <2>1, <2>2
<1>. QED BY <1>1, <1>2, <1>3 DEF LineInv

LEMMA TurnCreate ==
  ASSUME ShellInv, Outside, NEW c \in Calls, AtTurn(c), NEW o \in CallTypes,
         cmd' = [cmd EXCEPT ![c] = o], o.pc \in {"reset", "done"},
         o.at = cmd[c].at, o.shell = cmd[c].shell, o.pc = "reset" => cmd[c].pc \in Active,
         \A m \in Managers : pending'[m] = pending[m] \/ (m = cmd[c].at /\ pending'[m] = 0)
  PROVE  CreateInv'
<1>1. ASSUME NEW s \in Shells PROVE Created(s)'
  <2>1. shell[s].step \in Unsettled => shell[s].by # c /\ shell[s].at # cmd[c].at
    BY NoCreation DEF ShellInv, CreateInv, Created
  <2>2. shell[s].step # "none" => shell[s].at \in Managers
    BY DEF ShellInv, Types, CreateInv, Created
  <2>3. Created(s) /\ shell' = shell /\ checkers' = checkers
    BY DEF ShellInv, CreateInv, Outside
  <2>4. CASE shell[s].step \in Unsettled
    <3>1. /\ shell[s].by \in Calls \ {c} /\ shell[s].at \in Managers /\ shell[s].at # cmd[c].at
          /\ shell[s].step # "none"
      BY <2>1, <2>2, <2>3, <2>4 DEF Created, Unsettled
    <3>2. cmd'[shell[s].by] = cmd[shell[s].by]
      BY <3>1, CallChanges
    <3>3. pending'[shell[s].at] = pending[shell[s].at]
      BY <3>1
    <3>. QED BY <2>3, <3>2, <3>3 DEF Created
  <2>5. CASE shell[s].step \notin Unsettled
    BY <2>3, <2>5 DEF Created, Unsettled
  <2>. QED BY <2>4, <2>5
<1>2. ASSUME NEW d \in Calls PROVE Holds(d)'
  BY CallChanges DEF ShellInv, CreateInv, Holds, Outside, Active
<1>. QED BY <1>1, <1>2 DEF ShellInv, CreateInv, Outside

LEMMA TurnEnds ==
  ASSUME ShellInv, Outside, NEW c \in Calls, AtTurn(c), NEW o \in CallTypes,
         cmd' = [cmd EXCEPT ![c] = o], Leave(c), o.pc = "done",
         o.at = cmd[c].at, o.shell = cmd[c].shell, cmd[c].cut => o.cut,
         closing' = closing, NEW x \in {pending[cmd[c].at], 0},
         x = pending[cmd[c].at] \/ live[cmd[c].at] = 0,
         pending' = [pending EXCEPT ![cmd[c].at] = x],
         o.out = "reset" => x = 0 /\ cmd[c].pc \in Active
  PROVE  ShellInv'
<1>. DEFINE m == cmd[c].at
<1>1. /\ m \in Managers /\ Len(line[m]) > 0 /\ line[m][1] = c
      /\ \A d \in Calls \ {c} : cmd[d].at = m => cmd[d].pc \notin Active
  BY First DEF ShellInv, AtTurn, Active
<1>2. /\ \A k \in Managers : pending'[k] = pending[k] \/ (k = m /\ pending'[k] = 0)
      /\ pending'[m] = x
  BY <1>1 DEF ShellInv, Types, ManagerTypes
<1>3. Types'
  <2>1. pending[m] \in 0..MaxShells /\ pending \in [Managers -> 0..MaxShells]
    BY <1>1 DEF ShellInv, Types, ManagerTypes
  <2>2. 0 \in 0..MaxShells
    OBVIOUS
  <2>3. x \in 0..MaxShells
    BY <2>1, <2>2
  <2>. QED BY <2>1, <2>3, CallChanges DEF ShellInv, Types, ManagerTypes, Outside
<1>4. LineInv'
  BY <1>1, CallChanges, LeaveLine DEF Leave, ShellInv
<1>5. CreateInv'
  BY <1>2, TurnCreate
<1>6. LiveInv'
  <2>1. \A s \in Shells : shell[s].step # "none" /\ Aborted(s) => Aborted(s)'
    BY CallChanges DEF ShellInv, CreateInv, Created, Aborted, Disposing, Outside
  <2>2. ASSUME NEW s \in Shells PROVE Published(s)'
    BY <2>1 DEF ShellInv, LiveInv, Published, Runs, Outside
  <2>3. ASSUME NEW d \in Calls PROVE Resetting(d)'
    <3>1. cmd'[d].pc = "reset" => cmd'[d] = cmd[d] /\ cmd[d].at \in Managers
      BY CallChanges DEF ShellInv, LineInv, Lined, Waiting, Active
    <3>. QED BY <1>2, <3>1 DEF ShellInv, LiveInv, Resetting
  <2>4. ASSUME NEW k \in Managers PROVE Closes(k)'
    <3>1. Closes(k)
      BY DEF ShellInv, LiveInv
    <3>2. \A d \in Calls : cmd[d].pc = "reset" => cmd'[d] = cmd[d]
      BY CallChanges DEF AtTurn
    <3>3. pending'[k] = pending[k] \/ live[k] = 0
      BY <1>2
    <3>. QED BY <3>1, <3>2, <3>3 DEF Closes, Runs, Outside
  <2>. QED BY <2>2, <2>3, <2>4 DEF ShellInv, LiveInv, LiveOf, Outside
<1>7. ModeInv' /\ EndInv'
  BY DEF ShellInv, ModeInv, EndInv, Ended, Creating, Runs, Outside
<1>8. FreshInv'
  <2>. SUFFICES ASSUME NEW d \in Calls PROVE Fresh(d)'
    BY DEF FreshInv
  <2>1. CASE d = c
    <3>1. o.out = "reset" => o.shell # 0 /\ pending'[m] = 0
      BY <1>2 DEF ShellInv, CreateInv, Holds
    <3>2. cmd'[d] = o
      BY <2>1, CallChanges
    <3>3. \A e \in Calls \ {c} : cmd'[e].at = m => cmd'[e].pc \notin Active
      BY <1>1, CallChanges
    <3>. QED BY <2>1, <3>1, <3>2, <3>3 DEF Fresh, Active
  <2>2. CASE d # c
    <3>1. Fresh(d) /\ cmd'[d] = cmd[d] /\ \A e \in Calls : cmd'[e].at = cmd[e].at /\ cmd'[e].shell = cmd[e].shell
      BY <2>2, CallChanges DEF ShellInv, FreshInv
    <3>2. \A e \in Calls : cmd'[e].pc = cmd[e].pc \/ cmd'[e].pc = "done"
      BY CallChanges
    <3>3. cmd[d].at = m \/ pending'[cmd[d].at] = pending[cmd[d].at]
      BY <1>1 DEF ShellInv, Types, ManagerTypes
    <3>. QED BY <1>2, <3>1, <3>2, <3>3 DEF Fresh
  <2>. QED BY <2>1, <2>2
<1>. QED BY <1>3, <1>4, <1>5, <1>6, <1>7, <1>8 DEF ShellInv

\* What reset() does: no creation is cached any more, and a published shell
\* is being closed.
LEMMA ResetFacts ==
  ASSUME ShellInv, NEW m \in Managers, Reset(m)
  PROVE  /\ pending' \in [Managers -> 0..MaxShells] /\ closing' \in [Managers -> 0..MaxShells]
         /\ pending'[m] = 0 /\ closing'[m] = live[m]
         /\ \A k \in Managers \ {m} : pending'[k] = pending[k] /\ closing'[k] = closing[k]
<1>1. /\ pending \in [Managers -> 0..MaxShells] /\ closing \in [Managers -> 0..MaxShells]
      /\ live[m] \in 0..MaxShells
  BY DEF ShellInv, Types, ManagerTypes
<1>2. 0 \in 0..MaxShells
  OBVIOUS
<1>3. pending' = [pending EXCEPT ![m] = 0]
  BY DEF Reset
<1>4. closing' = [closing EXCEPT ![m] = live[m]]
  BY <1>1 DEF Reset, Close, ShellInv, LiveInv, LiveOf
<1>. QED BY <1>1, <1>2, <1>3, <1>4

\* What holds of the shells after a reset of a manager that creates none.
LEMMA ResetLive ==
  ASSUME ShellInv, NEW m \in Managers, Reset(m), UNCHANGED <<shell, live>>,
         \A s \in Shells : shell[s].at = m => shell[s].step \notin Unsettled,
         \A s \in Shells : shell[s].step # "none" /\ Aborted(s) => Aborted(s)'
  PROVE  /\ \A k \in Managers : LiveOf(k)'
         /\ \A s \in Shells : Published(s)'
<1>1. /\ closing'[m] = live[m] /\ pending'[m] = 0
      /\ \A k \in Managers \ {m} : closing'[k] = closing[k]
  BY ResetFacts
<1>2. ASSUME NEW k \in Managers PROVE LiveOf(k)'
  BY <1>1 DEF ShellInv, LiveInv, LiveOf
<1>3. ASSUME NEW s \in Shells PROVE Published(s)'
  <2>1. Published(s)
    BY DEF ShellInv, LiveInv
  <2>2. CASE shell[s].at = m
    BY <1>1, <2>1, <2>2 DEF Published, Runs, Unsettled
  <2>3. CASE shell[s].at # m
    <3>1. shell[s].step # "none" => shell[s].at \in Managers
      BY DEF ShellInv, CreateInv, Created, Types
    <3>2. shell[s].step # "none" => closing'[shell[s].at] = closing[shell[s].at]
      BY <1>1, <2>3, <3>1
    <3>3. shell[s].step = "none" => ~Runs(s)
      BY DEF ShellInv, CreateInv, Created, Runs
    <3>. QED BY <2>1, <3>2, <3>3 DEF Published, Runs
  <2>. QED BY <2>2, <2>3
<1>. QED BY <1>2, <1>3

\* A command resets its manager and waits for the close.
LEMMA TurnResets ==
  ASSUME ShellInv, Outside, NEW c \in Calls, AtTurn(c), cmd[c].pc \in {"loop", "sent"},
         NEW o \in CallTypes, cmd' = [cmd EXCEPT ![c] = o], UNCHANGED line,
         o.pc = "reset", o.at = cmd[c].at, o.shell = cmd[c].shell, o.cut = cmd[c].cut,
         o.out = cmd[c].out, live[cmd[c].at] # 0, Reset(cmd[c].at)
  PROVE  ShellInv'
<1>. DEFINE m == cmd[c].at
<1>1. /\ m \in Managers /\ line[m][1] = c
      /\ \A d \in Calls \ {c} : cmd[d].at = m => cmd[d].pc \notin Active
  BY First DEF ShellInv, AtTurn, Active
<1>2. /\ pending' \in [Managers -> 0..MaxShells] /\ closing' \in [Managers -> 0..MaxShells]
      /\ pending'[m] = 0 /\ closing'[m] = live[m]
      /\ \A k \in Managers \ {m} : pending'[k] = pending[k] /\ closing'[k] = closing[k]
  BY <1>1, ResetFacts
<1>3. Types'
  BY <1>2, CallChanges DEF ShellInv, Types, ManagerTypes, Outside
<1>4. LineInv'
  <2>1. ASSUME NEW k \in Managers PROVE LineOf(k)'
    <3>1. LineOf(k) /\ line[k] \in Seq(Calls)
      BY DEF ShellInv, LineInv
    <3>2. ASSUME NEW i \in 1..Len(line[k])
          PROVE  /\ cmd'[line[k][i]].at = k
                 /\ cmd'[line[k][i]].pc \in (IF i = 1 THEN Waiting ELSE {"queued"})
      <4>1. line[k][i] \in Calls
        BY <3>1
      <4>2. line[k][i] = c => i = 1
        BY <1>1, <3>1, <3>2 DEF LineOf
      <4>. QED BY <3>1, <4>1, <4>2, CallChanges DEF LineOf, Waiting, Active
    <3>. QED BY <3>1, <3>2 DEF LineOf
  <2>2. ASSUME NEW d \in Calls PROVE Lined(d)'
    BY CallChanges DEF ShellInv, LineInv, Lined, Waiting, Active
  <2>. QED BY <2>1, <2>2 DEF ShellInv, LineInv
<1>5. CreateInv'
  BY <1>2, TurnCreate DEF Active
<1>6. LiveInv'
  <2>1. \A s \in Shells : shell[s].step # "none" /\ Aborted(s) => Aborted(s)'
    BY CallChanges DEF ShellInv, CreateInv, Created, Aborted, Disposing, Outside
  <2>2. \A s \in Shells : shell[s].at = m => shell[s].step \notin Unsettled
    BY NoCreation
  <2>3. /\ \A k \in Managers : LiveOf(k)'
        /\ \A s \in Shells : Published(s)'
    BY <1>1, <2>1, <2>2, ResetLive DEF Outside
  <2>4. ASSUME NEW d \in Calls PROVE Resetting(d)'
    <3>1. CASE d = c
      BY <1>2, <3>1, CallChanges DEF Resetting
    <3>2. CASE d # c
      <4>1. cmd'[d] = cmd[d] /\ Resetting(d)
        BY <3>2, CallChanges DEF ShellInv, LiveInv
      <4>2. cmd[d].pc = "reset" => cmd[d].at \in Managers \ {m}
        BY <1>1, <3>2, First DEF ShellInv, Active
      <4>. QED BY <1>2, <4>1, <4>2 DEF Resetting
    <3>. QED BY <3>1, <3>2
  <2>5. ASSUME NEW k \in Managers PROVE Closes(k)'
    <3>1. Closes(k)
      BY DEF ShellInv, LiveInv
    <3>2. cmd'[c] = o /\ \A d \in Calls : cmd[d].pc = "reset" => cmd'[d] = cmd[d]
      BY CallChanges DEF AtTurn
    <3>3. CASE k = m
      BY <1>2, <3>2, <3>3 DEF Closes
    <3>4. CASE k # m
      BY <1>2, <3>1, <3>2, <3>4 DEF Closes, Runs, Outside
    <3>. QED BY <3>3, <3>4
  <2>. QED BY <2>3, <2>4, <2>5 DEF LiveInv
<1>7. ModeInv'
  BY DEF ShellInv, ModeInv, Runs, Outside
<1>8. EndInv'
  BY <1>1, <1>2 DEF ShellInv, EndInv, Ended, Creating, Runs, Outside
<1>9. FreshInv'
  <2>. SUFFICES ASSUME NEW d \in Calls PROVE Fresh(d)'
    BY DEF FreshInv
  <2>1. Fresh(d) /\ cmd'[d].out = cmd[d].out /\ (cmd[d].out # "none" => cmd'[d] = cmd[d])
    BY CallChanges DEF ShellInv, FreshInv, Fresh
  <2>2. cmd[d].out = "reset" => pending'[cmd[d].at] # cmd[d].shell
    <3>1. cmd[d].at \in Managers => pending'[cmd[d].at] \in {pending[cmd[d].at], 0}
      BY <1>2
    <3>2. cmd[d].at \notin Managers => pending'[cmd[d].at] = pending[cmd[d].at]
      BY <1>1 DEF Reset, ShellInv, Types, ManagerTypes
    <3>. QED BY <2>1, <3>1, <3>2 DEF Fresh
  <2>3. \A e \in Calls : /\ cmd'[e].at = cmd[e].at /\ cmd'[e].shell = cmd[e].shell
                         /\ cmd'[e].pc = cmd[e].pc \/ cmd'[e].pc = "reset"
    BY CallChanges
  <2>. QED BY <2>1, <2>2, <2>3 DEF Fresh
<1>. QED BY <1>3, <1>4, <1>5, <1>6, <1>7, <1>8, <1>9 DEF ShellInv

\* A command joins the line of its manager.
LEMMA Issues == ASSUME ShellInv, NEW c \in Calls, Issue(c) PROVE ShellInv'
<1>1. PICK m \in Managers :
        /\ cmd' = [cmd EXCEPT ![c].pc = "queued", ![c].at = m]
        /\ line' = [line EXCEPT ![m] = Append(@, c)]
  BY DEF Issue
<1>2. /\ cmd' \in [Calls -> CallTypes] /\ \A d \in Calls \ {c} : cmd'[d] = cmd[d]
      /\ cmd'[c].pc = "queued" /\ cmd'[c].at = m /\ cmd'[c].cut = cmd[c].cut
      /\ cmd'[c].shell = cmd[c].shell /\ cmd'[c].out = cmd[c].out
  <2>. DEFINE o == [cmd[c] EXCEPT !.pc = "queued", !.at = m]
  <2>1. /\ o \in CallTypes /\ o.pc = "queued" /\ o.at = m
        /\ o.cut = cmd[c].cut /\ o.shell = cmd[c].shell /\ o.out = cmd[c].out
    BY DEF ShellInv, Types, CallTypes
  <2>2. cmd' = [cmd EXCEPT ![c] = o]
    BY <1>1 DEF ShellInv, Types
  <2>. HIDE DEF o
  <2>. QED BY <2>1, <2>2, CallChanges
<1>3. cmd[c].pc = "idle" /\ cmd[c].shell = 0 /\ cmd[c].out = "none"
  BY DEF Issue, ShellInv, CreateInv, Holds
<1>4. UNCHANGED <<mode, checkers, shell, pending, live, closing, disposal, cleanup, ownerLive, fails>>
  BY DEF Issue
<1>5. Types'
  BY <1>2, <1>4 DEF ShellInv, Types, ManagerTypes
<1>6. LineInv'
  <2>1. /\ line' \in [Managers -> Seq(Calls)] /\ line'[m] = Append(line[m], c)
        /\ \A k \in Managers \ {m} : line'[k] = line[k]
    BY <1>1 DEF ShellInv, LineInv
  <2>2. ASSUME NEW k \in Managers PROVE LineOf(k)'
    <3>1. LineOf(k) /\ line[k] \in Seq(Calls)
      BY DEF ShellInv, LineInv
    <3>2. \A i \in 1..Len(line[k]) : line[k][i] \in Calls \ {c}
      BY <1>3, <3>1 DEF LineOf, Waiting, Active
    <3>3. CASE k # m
      <4>1. line'[k] = line[k] /\ \A i \in 1..Len(line[k]) : cmd'[line[k][i]] = cmd[line[k][i]]
        BY <1>2, <2>1, <3>2, <3>3
      <4>. QED BY <3>1, <4>1 DEF LineOf
    <3>4. CASE k = m
      <4>1. /\ Len(line'[k]) = Len(line[k]) + 1 /\ line'[k][Len(line[k]) + 1] = c
            /\ \A i \in 1..Len(line[k]) : line'[k][i] = line[k][i]
        BY <2>1, <3>1, <3>4
      <4>2. ASSUME NEW i \in 1..Len(line'[k])
            PROVE  /\ cmd'[line'[k][i]].at = k
                   /\ cmd'[line'[k][i]].pc \in (IF i = 1 THEN Waiting ELSE {"queued"})
        <5>1. CASE i \in 1..Len(line[k])
          <6>1. line'[k][i] = line[k][i] /\ cmd'[line[k][i]] = cmd[line[k][i]]
            BY <1>2, <3>2, <4>1, <5>1
          <6>. QED BY <3>1, <5>1, <6>1 DEF LineOf
        <5>2. CASE i = Len(line[k]) + 1
          BY <1>2, <3>4, <4>1, <5>2 DEF Waiting
        <5>. QED BY <3>1, <4>1, <5>1, <5>2
      <4>3. ASSUME NEW i \in 1..Len(line'[k]), NEW j \in 1..Len(line'[k]), i # j
            PROVE  line'[k][i] # line'[k][j]
        <5>1. \A l \in 1..Len(line'[k]) : l \in 1..Len(line[k]) \/ l = Len(line[k]) + 1
          BY <3>1, <4>1
        <5>. QED BY <3>1, <3>2, <4>1, <4>3, <5>1 DEF LineOf
      <4>. QED BY <2>1, <4>2, <4>3 DEF LineOf
    <3>. QED BY <3>3, <3>4
  <2>3. ASSUME NEW d \in Calls PROVE Lined(d)'
    <3>1. CASE d = c
      <4>1. Len(line[m]) + 1 \in 1..Len(line'[m]) /\ line'[m][Len(line[m]) + 1] = c
        BY <2>1 DEF ShellInv, LineInv
      <4>. QED BY <1>2, <3>1, <4>1 DEF Lined
    <3>2. CASE d # c /\ cmd[d].pc \in Waiting
      <4>1. cmd'[d] = cmd[d] /\ cmd[d].at \in Managers
        BY <1>2, <3>2 DEF ShellInv, LineInv, Lined
      <4>2. PICK i \in 1..Len(line[cmd[d].at]) : line[cmd[d].at][i] = d
        BY <3>2 DEF ShellInv, LineInv, Lined
      <4>3. i \in 1..Len(line'[cmd[d].at]) /\ line'[cmd[d].at][i] = d
        <5>1. CASE cmd[d].at # m
          BY <2>1, <4>1, <4>2, <5>1
        <5>2. CASE cmd[d].at = m
          <6>1. line[m] \in Seq(Calls)
            BY DEF ShellInv, LineInv
          <6>. QED BY <2>1, <4>2, <5>2, <6>1
        <5>. QED BY <5>1, <5>2
      <4>. QED BY <4>1, <4>3 DEF Lined
    <3>3. CASE d # c /\ cmd[d].pc \notin Waiting
      BY <1>2, <3>3 DEF Lined
    <3>. QED BY <3>1, <3>2, <3>3
  <2>. QED BY <2>1, <2>2, <2>3 DEF LineInv
<1>7. CreateInv'
  <2>1. ASSUME NEW s \in Shells PROVE Created(s)'
    <3>1. Created(s)
      BY DEF ShellInv, CreateInv
    <3>2. shell[s].step \in Unsettled => cmd'[shell[s].by] = cmd[shell[s].by]
      BY <1>2, <1>3, <3>1 DEF Created, Unsettled
    <3>. QED BY <1>4, <3>1, <3>2 DEF Created
  <2>2. ASSUME NEW d \in Calls PROVE Holds(d)'
    BY <1>2, <1>3, <1>4 DEF ShellInv, CreateInv, Holds, Active
  <2>. QED BY <1>4, <2>1, <2>2 DEF ShellInv, CreateInv
<1>8. LiveInv'
  <2>1. \A s \in Shells : shell[s].step # "none" /\ Aborted(s) => Aborted(s)'
    BY <1>2, <1>4 DEF ShellInv, CreateInv, Created, Aborted, Disposing
  <2>2. ASSUME NEW s \in Shells PROVE Published(s)'
    BY <1>4, <2>1 DEF ShellInv, LiveInv, Published, Runs
  <2>3. ASSUME NEW d \in Calls PROVE Resetting(d)'
    BY <1>2, <1>4 DEF ShellInv, LiveInv, Resetting
  <2>4. ASSUME NEW k \in Managers PROVE Closes(k)'
    <3>1. Closes(k) /\ \A d \in Calls : cmd[d].pc = "reset" => cmd'[d] = cmd[d]
      BY <1>2, <1>3 DEF ShellInv, LiveInv
    <3>. QED BY <1>4, <3>1 DEF Closes, Runs
  <2>. QED BY <1>4, <2>2, <2>3, <2>4 DEF ShellInv, LiveInv, LiveOf
<1>9. ModeInv' /\ EndInv'
  BY <1>4 DEF ShellInv, ModeInv, EndInv, Ended, Creating, Runs
<1>10. FreshInv'
  <2>. SUFFICES ASSUME NEW d \in Calls PROVE Fresh(d)'
    BY DEF FreshInv
  <2>1. Fresh(d)
    BY DEF ShellInv, FreshInv
  <2>2. CASE d = c
    BY <1>2, <1>3, <2>2 DEF Fresh
  <2>3. CASE d # c
    <3>1. cmd'[d] = cmd[d] /\ pending' = pending /\ cmd'[c].pc = "queued"
      BY <1>2, <1>4, <2>3
    <3>. QED BY <1>2, <2>1, <3>1 DEF Fresh
  <2>. QED BY <2>2, <2>3
<1>. QED BY <1>5, <1>6, <1>7, <1>8, <1>9, <1>10 DEF ShellInv

\* A command reserves a creation.
LEMMA Reserves == ASSUME ShellInv, NEW c \in Calls, GetNew(c) PROVE ShellInv'
<1>. DEFINE m == cmd[c].at
<1>1. /\ cmd[c].pc = "queued" /\ Head(line[m]) = c /\ cmd[c].cut = FALSE /\ pending[m] = 0
      /\ cleanup[m] \in {"installed", "none"}
  BY DEF GetNew, Turn, ShellInv, Types, CallTypes
<1>2. PICK s \in Shells :
        /\ shell[s].step = "none"
        /\ shell' = [shell EXCEPT ![s] = [NoShell EXCEPT !.by = c, !.at = m, !.step = "confine",
                                                         !.mode = mode]]
        /\ pending' = [pending EXCEPT ![m] = s]
        /\ cmd' = [cmd EXCEPT ![c].pc = "getting", ![c].shell = s]
  BY DEF GetNew
<1>3. /\ UNCHANGED <<mode, line, live, closing, disposal, ownerLive, fails>>
      /\ cleanup' = [cleanup EXCEPT ![m] = "installed"] /\ checkers' = checkers \cup {m}
  BY DEF GetNew, Fencing
<1>4. /\ m \in Managers /\ line[m][1] = c
      /\ \A d \in Calls \ {c} : cmd[d].at = m => cmd[d].pc \notin Active
  BY <1>1, First DEF ShellInv
<1>5. /\ cmd' \in [Calls -> CallTypes] /\ \A d \in Calls \ {c} : cmd'[d] = cmd[d]
      /\ cmd'[c].pc = "getting" /\ cmd'[c].shell = s /\ cmd'[c].at = m
      /\ cmd'[c].cut = FALSE /\ cmd'[c].out = cmd[c].out
  <2>1. s \in 0..MaxShells
    BY DEF Shells
  <2>. DEFINE o == [cmd[c] EXCEPT !.pc = "getting", !.shell = s]
  <2>2. cmd' = [cmd EXCEPT ![c] = o] /\ cmd[c] \in CallTypes /\ cmd \in [Calls -> CallTypes]
    BY <1>2 DEF ShellInv, Types
  <2>3. o \in CallTypes /\ o.pc = "getting" /\ o.shell = s /\ o.at = m
        /\ o.cut = cmd[c].cut /\ o.out = cmd[c].out
    BY <2>1, <2>2 DEF CallTypes
  <2>. HIDE DEF o
  <2>. QED BY <1>1, <2>2, <2>3
<1>6. /\ \A t \in Shells \ {s} : shell'[t] = shell[t]
      /\ shell'[s].by = c /\ shell'[s].at = m /\ shell'[s].step = "confine"
      /\ shell'[s].proc = "none" /\ shell'[s].mode = mode /\ shell'[s].failed = "no"
  BY <1>2 DEF NoShell, ShellInv, Types
<1>7. /\ pending' \in [Managers -> 0..MaxShells] /\ pending'[m] = s
      /\ \A k \in Managers \ {m} : pending'[k] = pending[k] /\ cleanup'[k] = cleanup[k]
      /\ cleanup'[m] = "installed"
      /\ cleanup' \in [Managers -> {"none", "installed", "creating", "reset", "done"}]
  <2>1. s \in 0..MaxShells
    BY DEF Shells
  <2>. QED BY <1>2, <1>3, <1>4, <2>1 DEF ShellInv, Types, ManagerTypes
<1>8. \A t \in Shells : shell[t].step \in Unsettled => shell[t].at # m /\ shell[t].by # c
  <2>. SUFFICES ASSUME NEW t \in Shells, shell[t].step \in Unsettled
                PROVE  shell[t].at # m /\ shell[t].by # c
    OBVIOUS
  <2>1. shell[t].at # m
    BY <1>1, OneCreation
  <2>2. cmd[shell[t].by].pc = "getting"
    BY DEF ShellInv, CreateInv, Created
  <2>. QED BY <1>1, <2>1, <2>2
<1>9. /\ \A d \in Calls : cmd[d].shell # s
      /\ \A k \in Managers : pending[k] # s /\ live[k] # s
      /\ s # 0 /\ s \in Shells
  <2>1. s # 0
    BY DEF Shells
  <2>2. \A d \in Calls : cmd[d].shell # s
    BY <1>2, <2>1 DEF ShellInv, CreateInv, Holds
  <2>3. \A k \in Managers : pending[k] # s
    BY <1>2, <2>1 DEF ShellInv, CreateInv
  <2>4. \A k \in Managers : live[k] # s
    BY <1>2, <2>1 DEF ShellInv, LiveInv, LiveOf
  <2>. QED BY <2>1, <2>2, <2>3, <2>4
<1>10. Types'
  <2>1. shell' \in [Shells -> ShellTypes]
    <3>1. [NoShell EXCEPT !.by = c, !.at = m, !.step = "confine", !.mode = mode] \in ShellTypes
      BY <1>4 DEF NoShell, ShellTypes, ShellInv, Types
    <3>. QED BY <1>2, <3>1 DEF ShellInv, Types
  <2>. QED BY <1>3, <1>4, <1>5, <1>7, <2>1 DEF ShellInv, Types, ManagerTypes
<1>11. LineInv'
  <2>1. ASSUME NEW k \in Managers PROVE LineOf(k)'
    <3>1. LineOf(k) /\ line[k] \in Seq(Calls)
      BY DEF ShellInv, LineInv
    <3>2. ASSUME NEW i \in 1..Len(line[k])
          PROVE  /\ cmd'[line[k][i]].at = k
                 /\ cmd'[line[k][i]].pc \in (IF i = 1 THEN Waiting ELSE {"queued"})
      <4>1. line[k][i] \in Calls
        BY <3>1
      <4>2. line[k][i] = c => i = 1 /\ k = m
        BY <1>4, <3>1, <3>2 DEF LineOf
      <4>. QED BY <1>5, <3>1, <4>1, <4>2 DEF LineOf, Waiting, Active
    <3>. QED BY <1>3, <3>1, <3>2 DEF LineOf
  <2>2. ASSUME NEW d \in Calls PROVE Lined(d)'
    BY <1>1, <1>3, <1>5 DEF ShellInv, LineInv, Lined, Waiting, Active
  <2>. QED BY <1>3, <2>1, <2>2 DEF ShellInv, LineInv
<1>12. CreateInv'
  <2>1. ASSUME NEW t \in Shells PROVE Created(t)'
    <3>1. CASE t = s
      BY <1>3, <1>5, <1>6, <1>7, <3>1 DEF Created, Unsettled, ShellInv, Types
    <3>2. CASE t # s
      <4>1. Created(t) /\ shell'[t] = shell[t]
        BY <1>6, <3>2 DEF ShellInv, CreateInv
      <4>2. shell[t].step # "none" => shell[t].at \in Managers
        BY <4>1 DEF Created, ShellInv, Types
      <4>3. shell[t].step \in Unsettled =>
              cmd'[shell[t].by] = cmd[shell[t].by] /\ pending'[shell[t].at] = pending[shell[t].at]
        BY <1>5, <1>7, <1>8, <4>1, <4>2 DEF Created, Unsettled
      <4>. QED BY <1>3, <4>1, <4>3 DEF Created
    <3>. QED BY <3>1, <3>2
  <2>2. ASSUME NEW d \in Calls PROVE Holds(d)'
    <3>1. CASE d = c
      BY <1>5, <1>6, <1>9, <3>1 DEF Holds
    <3>2. CASE d # c
      <4>1. Holds(d) /\ cmd'[d] = cmd[d] /\ cmd[d].shell \in 0..MaxShells
        BY <1>5, <3>2 DEF ShellInv, CreateInv, Types, CallTypes
      <4>2. cmd[d].shell # 0 => shell'[cmd[d].shell] = shell[cmd[d].shell]
        BY <1>6, <1>9, <4>1 DEF Shells
      <4>. QED BY <4>1, <4>2 DEF Holds
    <3>. QED BY <3>1, <3>2
  <2>3. ASSUME NEW k \in Managers, pending'[k] # 0
        PROVE  shell'[pending'[k]].step # "none" /\ shell'[pending'[k]].at = k
    <3>1. CASE k = m
      BY <1>6, <1>7, <3>1
    <3>2. CASE k # m
      <4>1. pending'[k] = pending[k] /\ pending[k] \in Shells \ {s}
        BY <1>7, <1>9, <2>3, <3>2 DEF ShellInv, Types, ManagerTypes, Shells
      <4>. QED BY <1>6, <2>3, <4>1 DEF ShellInv, CreateInv
    <3>. QED BY <3>1, <3>2
  <2>. QED BY <2>1, <2>2, <2>3 DEF CreateInv
<1>13. \A k \in Managers : live[k] # 0 => shell'[live[k]] = shell[live[k]]
  BY <1>6, <1>9 DEF ShellInv, Types, ManagerTypes, Shells
<1>14. LiveInv'
  <2>1. ASSUME NEW t \in Shells PROVE Published(t)'
    <3>1. CASE t = s
      <4>1. ~Aborted(s)' => disposal[m] = "none"
        BY <1>3, <1>6 DEF Aborted, Disposing
      <4>2. disposal[m] = "none" => closing[m] = 0
        <5>1. Closes(m)
          BY <1>4 DEF ShellInv, LiveInv
        <5>2. ASSUME NEW d \in Calls, cmd[d].at = m, cmd[d].pc = "reset" PROVE FALSE
          BY <1>1, <1>4, <5>2 DEF Active
        <5>. QED BY <1>1, <1>8, <5>1, <5>2 DEF Closes, Unsettled
      <4>3. closing[m] = 0 => live[m] = 0 \/ ~Runs(live[m])
        BY <1>1, <1>4 DEF ShellInv, LiveInv, Closes
      <4>4. live' = live /\ closing' = closing
            /\ (live[m] # 0 => shell'[live[m]] = shell[live[m]])
        BY <1>3, <1>4, <1>13
      <4>5. shell'[s].at = m /\ shell'[s].proc = "none" /\ shell'[s].step = "confine"
        BY <1>6
      <4>. QED BY <3>1, <4>1, <4>2, <4>3, <4>4, <4>5 DEF Published, Runs
    <3>2. CASE t # s
      <4>1. Published(t) /\ shell'[t] = shell[t]
        BY <1>6, <3>2 DEF ShellInv, LiveInv
      <4>2. shell[t].step # "none" => shell[t].at \in Managers /\ (Aborted(t) => Aborted(t)')
        <5>1. shell[t].step # "none" => shell[t].at \in Managers /\ shell[t].by \in Calls
          BY DEF ShellInv, Types, CreateInv, Created
        <5>2. \A d \in Calls : cmd'[d].cut = cmd[d].cut
          BY <1>1, <1>5
        <5>. QED BY <1>3, <4>1, <5>1, <5>2 DEF Aborted, Disposing
      <4>3. shell[t].step = "none" => ~Runs(t)'
        BY <4>1 DEF ShellInv, CreateInv, Created, Runs
      <4>4. Runs(t)' <=> Runs(t)
        BY <4>1 DEF Runs
      <4>5. shell[t].step # "none" /\ live[shell[t].at] # 0 =>
              (Runs(live[shell[t].at])' <=> Runs(live[shell[t].at]))
        BY <1>3, <1>13, <4>1, <4>2 DEF Runs
      <4>. QED BY <1>3, <4>1, <4>2, <4>3, <4>4, <4>5 DEF Published
    <3>. QED BY <3>1, <3>2
  <2>2. ASSUME NEW d \in Calls PROVE Resetting(d)'
    <3>1. cmd'[d].pc = "reset" => cmd'[d] = cmd[d] /\ cmd[d].at \in Managers \ {m}
      BY <1>4, <1>5 DEF ShellInv, LineInv, Lined, Waiting, Active
    <3>2. Resetting(d) /\ closing' = closing
      BY <1>3 DEF ShellInv, LiveInv
    <3>. QED BY <1>7, <3>1, <3>2 DEF Resetting
  <2>3. ASSUME NEW k \in Managers PROVE LiveOf(k)'
    BY <1>3, <1>13 DEF ShellInv, LiveInv, LiveOf
  <2>4. ASSUME NEW k \in Managers PROVE Closes(k)'
    <3>1. Closes(k) /\ \A d \in Calls : cmd[d].pc = "reset" => cmd'[d] = cmd[d]
      BY <1>1, <1>5 DEF ShellInv, LiveInv
    <3>2. \A t \in Shells : shell[t].step = "reset" => shell'[t] = shell[t]
      BY <1>2, <1>6
    <3>3. CASE k = m
      <4>1. cleanup[m] # "reset"
        BY <1>1
      <4>. QED BY <1>3, <1>7, <1>9, <3>1, <3>2, <3>3, <4>1 DEF Closes
    <3>4. CASE k # m
      <4>1. live[k] # 0 => (Runs(live[k])' <=> Runs(live[k]))
        BY <1>3, <1>13 DEF Runs
      <4>. QED BY <1>3, <1>7, <3>1, <3>2, <3>4, <4>1 DEF Closes
    <3>. QED BY <3>3, <3>4
  <2>. QED BY <2>1, <2>2, <2>3, <2>4 DEF LiveInv
<1>15. ModeInv'
  BY <1>3, <1>6 DEF ShellInv, ModeInv, Runs
<1>16. EndInv'
  <2>. SUFFICES ASSUME NEW k \in Managers PROVE Ended(k)'
    BY DEF EndInv
  <2>1. Ended(k) /\ UNCHANGED <<disposal, closing>>
    BY <1>3 DEF ShellInv, EndInv
  <2>2. \A t \in Shells : t # s => shell'[t] = shell[t]
    BY <1>6
  <2>3. ~Runs(s)'
    BY <1>6 DEF Runs
  <2>4. CASE k = m
    BY <1>1, <1>6, <1>7, <2>1, <2>2, <2>3, <2>4 DEF Ended, Runs
  <2>5. CASE k # m
    <3>1. Creating(k)' = Creating(k)
      BY <1>2, <1>6, <2>2, <2>5 DEF Creating, Unsettled
    <3>2. \A t \in Shells : shell'[t].at = k => shell'[t] = shell[t]
      BY <1>6, <2>2, <2>5
    <3>. QED BY <1>7, <2>1, <2>5, <3>1, <3>2 DEF Ended, Runs
  <2>. QED BY <2>4, <2>5
<1>17. FreshInv'
  <2>. SUFFICES ASSUME NEW d \in Calls PROVE Fresh(d)'
    BY DEF FreshInv
  <2>1. Fresh(d) /\ Fresh(c)
    BY DEF ShellInv, FreshInv
  <2>2. CASE d = c
    BY <1>1, <1>5, <2>1, <2>2 DEF Fresh
  <2>3. CASE d # c
    <3>1. cmd'[d] = cmd[d] /\ cmd[d].shell # s
      BY <1>5, <1>9, <2>3
    <3>2. pending'[cmd[d].at] \in {pending[cmd[d].at], s}
      BY <1>2, <1>4, <1>7 DEF ShellInv, Types, ManagerTypes
    <3>. QED BY <1>5, <2>1, <2>3, <3>1, <3>2 DEF Fresh
  <2>. QED BY <2>2, <2>3
<1>. QED BY <1>10, <1>11, <1>12, <1>14, <1>15, <1>16, <1>17 DEF ShellInv

-----------------------------------------------------------------------------
(* Steps of a creation.                                                    *)

\* The managers of the creations, and one that has begun.
LEMMA CreatedAt ==
  ASSUME ShellInv, NEW s \in Shells, shell[s].step # "none"
  PROVE  /\ shell[s].at \in Managers /\ shell[s].by \in Calls /\ s # 0 /\ s \in 0..MaxShells
         /\ shell[s].step \in Unsettled => s \in Creating(shell[s].at)
<1>1. shell[s].at \in Managers /\ shell[s].by \in Calls
  BY DEF ShellInv, Types, CreateInv, Created
<1>2. s # 0 /\ s \in 0..MaxShells
  BY DEF Shells
<1>3. shell[s].step \in Unsettled => s \in Creating(shell[s].at)
  BY DEF Creating
<1>. QED BY <1>1, <1>2, <1>3

\* A step of the process, or of its creation, that the manager does not see.
Moves(s, r) ==
  \/ shell[s].step = "confine" /\ r.step = "spawn" /\ r.proc = shell[s].proc /\ ~Aborted(s)
  \/ shell[s].step = "spawn" /\ r.step = "startup" /\ r.proc = "open"
  \/ shell[s].step = "startup" /\ r.step = "cleanup" /\ r.proc = shell[s].proc
  \/ shell[s].step = "init" /\ r.step = "ready" /\ r.proc = shell[s].proc
  \/ Runs(s) /\ r.step = shell[s].step /\ r.proc = "exited"

LEMMA ProcessMoves ==
  ASSUME ShellInv, NEW s \in Shells, NEW r \in ShellTypes, shell' = [shell EXCEPT ![s] = r],
         UNCHANGED <<creation, pending, live, closing, fails>>, Moves(s, r),
         r.by = shell[s].by, r.at = shell[s].at, r.mode = shell[s].mode, r.cut = shell[s].cut,
         r.failed = shell[s].failed
  PROVE  ShellInv'
<1>1. /\ shell'[s] = r /\ \A t \in Shells \ {s} : shell'[t] = shell[t]
      /\ shell' \in [Shells -> ShellTypes]
  BY DEF ShellInv, Types
<1>2. /\ UNCHANGED <<mode, checkers, line, cmd, disposal, cleanup, ownerLive>>
      /\ UNCHANGED <<pending, live, closing, fails>>
  BY DEF creation
<1>3. shell[s].step # "none" /\ r.step # "none"
  BY DEF Moves, Runs, ShellInv, CreateInv, Created
<1>4. /\ shell[s].at \in Managers /\ shell[s].by \in Calls /\ s # 0
      /\ shell[s].step \in Unsettled => s \in Creating(shell[s].at)
  BY <1>3, CreatedAt
<1>5. \A t \in Shells : Aborted(t)' <=> Aborted(t)
  BY <1>1, <1>2 DEF Aborted, Disposing
<1>6. shell[s].step = "spawn" => \A m \in Managers : live[m] # s
  BY <1>4 DEF ShellInv, LiveInv, LiveOf
<1>7. \A t \in Shells : Runs(t)' => Runs(t) \/ (t = s /\ shell[s].step = "spawn")
  BY <1>1 DEF Moves, Runs, ShellInv, CreateInv, Created
<1>8. \A m \in Managers : live[m] # 0 => live[m] \in Shells /\ (Runs(live[m])' => Runs(live[m]))
  <2>. SUFFICES ASSUME NEW m \in Managers, live[m] # 0
                PROVE  live[m] \in Shells /\ (Runs(live[m])' => Runs(live[m]))
    OBVIOUS
  <2>1. live[m] \in Shells
    BY DEF ShellInv, Types, ManagerTypes, Shells
  <2>2. shell'[live[m]].proc = "open" /\ shell'[live[m]].failed = "no" => Runs(live[m])
    BY <1>6, <1>7, <2>1 DEF Runs
  <2>. QED BY <1>2, <2>1, <2>2 DEF Runs
<1>9. Types' /\ LineInv' /\ FreshInv'
  BY <1>1, <1>2 DEF ShellInv, Types, ManagerTypes, LineInv, LineOf, Lined, FreshInv, Fresh
<1>10. CreateInv'
  <2>1. ASSUME NEW t \in Shells PROVE Created(t)'
    BY <1>1, <1>2, <1>3 DEF ShellInv, CreateInv, Created, Moves, Runs, Unsettled
  <2>2. \A t \in Shells : shell'[t].at = shell[t].at /\ (shell[t].step # "none" => shell'[t].step # "none")
    BY <1>1, <1>3
  <2>3. ASSUME NEW d \in Calls PROVE Holds(d)'
    <3>1. Holds(d) /\ cmd' = cmd /\ cmd[d].shell \in 0..MaxShells
      BY <1>2 DEF ShellInv, CreateInv, Types, CallTypes
    <3>. QED BY <2>2, <3>1 DEF Holds, Shells
  <2>4. ASSUME NEW m \in Managers, pending'[m] # 0
        PROVE  shell'[pending'[m]].step # "none" /\ shell'[pending'[m]].at = m
    <3>1. pending' = pending /\ pending[m] \in Shells
      BY <1>2, <2>4 DEF ShellInv, Types, ManagerTypes, Shells
    <3>. QED BY <2>2, <2>4, <3>1 DEF ShellInv, CreateInv
  <2>. QED BY <2>1, <2>3, <2>4 DEF CreateInv
<1>11. LiveInv'
  <2>1. ASSUME NEW m \in Managers PROVE LiveOf(m)'
    <3>1. LiveOf(m) /\ live' = live /\ closing' = closing
      BY <1>2 DEF ShellInv, LiveInv
    <3>2. live[m] # 0 => live[m] \in Shells
      BY <1>8
    <3>. QED BY <1>1, <3>1, <3>2 DEF LiveOf, Moves
  <2>2. ASSUME NEW m \in Managers PROVE Closes(m)'
    <3>1. /\ Closes(m) /\ UNCHANGED <<pending, live, closing, disposal, cleanup, cmd>>
      BY <1>2 DEF ShellInv, LiveInv
    <3>2. \A t \in Shells : shell[t].step = "reset" /\ shell[t].at = m
                              => shell'[t].step = "reset" /\ shell'[t].at = m
      BY <1>1 DEF Moves
    <3>3. live[m] # 0 /\ ~Runs(live[m]) => ~(shell'[live[m]].proc = "open" /\ shell'[live[m]].failed = "no")
      BY <1>2, <1>8 DEF Runs
    <3>. QED BY <3>1, <3>2, <3>3 DEF Closes, Runs
  <2>3. ASSUME NEW t \in Shells PROVE Published(t)'
    <3>1. /\ Published(t) /\ UNCHANGED <<live, closing>> /\ shell'[t].at = shell[t].at
      BY <1>1, <1>2 DEF ShellInv, LiveInv
    <3>2. CASE shell[t].step = "none"
      <4>1. shell'[t] = shell[t] /\ shell[t].proc = "none"
        BY <1>1, <1>3, <3>2 DEF ShellInv, CreateInv, Created
      <4>. QED BY <3>2, <4>1 DEF Published, Runs
    <3>3. CASE shell[t].step # "none"
      <4>1. shell[t].at \in Managers
        BY <3>3, CreatedAt
      <4>2. live[shell[t].at] # 0 /\ ~Runs(live[shell[t].at])
              => ~(shell'[live[shell[t].at]].proc = "open" /\ shell'[live[shell[t].at]].failed = "no")
        BY <1>2, <1>8, <4>1 DEF Runs
      <4>3. CASE t = s
        BY <1>1, <1>5, <1>7, <3>1, <4>2, <4>3 DEF Published, Runs, Moves
      <4>4. CASE t # s
        <5>1. shell'[t] = shell[t]
          BY <1>1, <4>4
        <5>. QED BY <1>5, <3>1, <4>2, <5>1 DEF Published, Runs
      <4>. QED BY <4>3, <4>4
    <3>. QED BY <3>2, <3>3
  <2>4. \A d \in Calls : Resetting(d)'
    BY <1>2 DEF ShellInv, LiveInv, Resetting
  <2>. QED BY <2>1, <2>2, <2>3, <2>4 DEF LiveInv
<1>12. ModeInv'
  BY <1>1, <1>2 DEF ShellInv, ModeInv, Moves, Runs, Unsettled
<1>13. EndInv'
  <2>. SUFFICES ASSUME NEW m \in Managers PROVE Ended(m)'
    BY DEF EndInv
  <2>1. Ended(m) /\ UNCHANGED <<disposal, cleanup, closing>>
    BY <1>2 DEF ShellInv, EndInv
  <2>2. disposal[m] \in {"reset", "done"} => \A t \in Shells : shell'[t].at = m =>
          shell'[t].step \notin {"spawn", "startup", "cleanup", "init"}
    BY <1>1, <2>1 DEF Ended, Moves, Aborted, Disposing
  <2>3. \A t \in Shells : shell'[t].at = shell[t].at
                         /\ (shell'[t].step \in Unsettled => shell[t].step \in Unsettled)
    BY <1>1 DEF Moves, Unsettled
  <2>4. cleanup[m] \in {"reset", "done"} => Creating(m)' = {}
    BY <2>1, <2>3 DEF Ended, Creating
  <2>5. disposal[m] = "done" \/ cleanup[m] = "done" => \A t \in Shells : shell'[t].at = m => ~Runs(t)'
    <3>. SUFFICES ASSUME disposal[m] = "done" \/ cleanup[m] = "done", NEW t \in Shells,
                         shell'[t].at = m, Runs(t)'
                  PROVE  FALSE
      OBVIOUS
    <3>1. ~Runs(t) /\ shell[t].at = m
      BY <2>1, <2>3 DEF Ended
    <3>2. t = s /\ shell[s].step = "spawn"
      BY <1>7, <3>1
    <3>3. disposal[m] # "done"
      BY <2>1, <3>1, <3>2 DEF Ended
    <3>4. s \in Creating(m)
      BY <1>4, <3>1, <3>2 DEF Unsettled
    <3>. QED BY <2>1, <3>3, <3>4 DEF Ended
  <2>. QED BY <2>1, <2>2, <2>4, <2>5 DEF Ended
<1>. QED BY <1>9, <1>10, <1>11, <1>12, <1>13 DEF ShellInv

\* A manager publishes the shell it made.
LEMMA Publishes == ASSUME ShellInv, NEW s \in Shells, StartupDone(s) PROVE ShellInv'
<1>. DEFINE m == shell[s].at
<1>1. /\ shell[s].step = "startup" /\ ~Aborted(s)
      /\ shell' = [shell EXCEPT ![s].step = "init"] /\ live' = [live EXCEPT ![m] = s]
      /\ UNCHANGED <<creation, pending, closing, fails>>
  BY DEF StartupDone
<1>2. /\ UNCHANGED <<mode, checkers, line, cmd, disposal, cleanup, ownerLive>>
      /\ UNCHANGED <<pending, closing, fails>>
  BY <1>1 DEF creation
<1>3. /\ m \in Managers /\ s # 0 /\ s \in 0..MaxShells /\ s \in Creating(m) /\ pending[m] = s
  BY <1>1, CreatedAt DEF ShellInv, CreateInv, Created, Unsettled
<1>4. /\ \A t \in Shells \ {s} : shell'[t] = shell[t]
      /\ shell'[s].step = "init" /\ shell' \in [Shells -> ShellTypes]
      /\ \A t \in Shells : /\ shell'[t].by = shell[t].by /\ shell'[t].at = shell[t].at
                           /\ shell'[t].proc = shell[t].proc /\ shell'[t].mode = shell[t].mode
                           /\ shell'[t].cut = shell[t].cut /\ shell'[t].failed = shell[t].failed
  BY <1>1 DEF ShellInv, Types, ShellTypes
<1>5. /\ live'[m] = s /\ \A k \in Managers \ {m} : live'[k] = live[k]
      /\ live' \in [Managers -> 0..MaxShells]
  BY <1>1, <1>3 DEF ShellInv, Types, ManagerTypes
<1>6. closing[m] = 0 /\ (live[m] = 0 \/ ~Runs(live[m]))
  BY <1>1 DEF ShellInv, LiveInv, Published
<1>7. \A t \in Shells \ {s} : shell[t].at = m => shell[t].step \notin Unsettled \ {"reset"}
  BY <1>3 DEF ShellInv, CreateInv, Created
<1>8. \A t \in Shells : (Aborted(t)' <=> Aborted(t)) /\ (Runs(t)' <=> Runs(t))
  BY <1>2, <1>4 DEF Aborted, Disposing, Runs
<1>9. Types' /\ LineInv' /\ FreshInv'
  BY <1>2, <1>4, <1>5 DEF ShellInv, Types, ManagerTypes, LineInv, LineOf, Lined, FreshInv, Fresh
<1>10. CreateInv'
  <2>1. ASSUME NEW t \in Shells PROVE Created(t)'
    BY <1>1, <1>2, <1>4 DEF ShellInv, CreateInv, Created, Unsettled
  <2>2. \A t \in Shells : shell'[t].at = shell[t].at /\ (shell[t].step # "none" => shell'[t].step # "none")
    BY <1>4
  <2>3. ASSUME NEW d \in Calls PROVE Holds(d)'
    <3>1. Holds(d) /\ cmd' = cmd /\ cmd[d].shell \in 0..MaxShells
      BY <1>2 DEF ShellInv, CreateInv, Types, CallTypes
    <3>. QED BY <2>2, <3>1 DEF Holds, Shells
  <2>4. ASSUME NEW k \in Managers, pending'[k] # 0
        PROVE  shell'[pending'[k]].step # "none" /\ shell'[pending'[k]].at = k
    <3>1. pending' = pending /\ pending[k] \in Shells
      BY <1>2, <2>4 DEF ShellInv, Types, ManagerTypes, Shells
    <3>. QED BY <2>2, <2>4, <3>1 DEF ShellInv, CreateInv
  <2>. QED BY <2>1, <2>3, <2>4 DEF CreateInv
<1>11. \A k \in Managers \ {m} : live[k] # 0 => live[k] \in Shells \ {s}
  BY <1>3 DEF ShellInv, LiveInv, LiveOf, Types, ManagerTypes, Shells
<1>12. LiveInv'
  <2>1. ASSUME NEW k \in Managers PROVE LiveOf(k)'
    <3>1. CASE k = m
      BY <1>2, <1>4, <1>5, <1>6, <3>1 DEF LiveOf
    <3>2. CASE k # m
      <4>1. LiveOf(k) /\ closing' = closing /\ live'[k] = live[k]
        BY <1>2, <1>5, <3>2 DEF ShellInv, LiveInv
      <4>2. live[k] # 0 => shell'[live[k]] = shell[live[k]]
        BY <1>4, <1>11, <3>2
      <4>. QED BY <4>1, <4>2 DEF LiveOf
    <3>. QED BY <3>1, <3>2
  <2>2. ASSUME NEW k \in Managers PROVE Closes(k)'
    <3>1. CASE k = m
      BY <1>2, <1>3, <1>6, <3>1 DEF Closes
    <3>2. CASE k # m
      <4>1. /\ Closes(k) /\ UNCHANGED <<pending, closing, disposal, cleanup, cmd>>
            /\ live'[k] = live[k]
        BY <1>2, <1>5, <3>2 DEF ShellInv, LiveInv
      <4>2. \A t \in Shells : shell[t].step = "reset" => shell'[t] = shell[t]
        BY <1>1, <1>4
      <4>3. live[k] # 0 => shell'[live[k]] = shell[live[k]]
        BY <1>4, <1>11, <3>2
      <4>. QED BY <4>1, <4>2, <4>3 DEF Closes, Runs
    <3>. QED BY <3>1, <3>2
  <2>3. ASSUME NEW t \in Shells PROVE Published(t)'
    <3>1. Published(t) /\ closing' = closing
      BY <1>2 DEF ShellInv, LiveInv
    <3>2. CASE t = s
      <4>1. shell'[t].step = "init" /\ shell'[t].at = m
        BY <1>4, <3>2
      <4>. QED BY <1>5, <1>6, <3>1, <3>2, <4>1 DEF Published
    <3>3. CASE t # s /\ shell[t].at = m
      <4>1. shell'[t] = shell[t] /\ shell[t].step \notin Unsettled \ {"reset"}
        BY <1>4, <1>7, <3>3
      <4>2. ~Runs(t)
        <5>1. t # 0
          BY DEF Shells
        <5>2. Runs(t) => live[m] = t
          BY <3>1, <3>3, <4>1 DEF Published, Unsettled
        <5>. QED BY <1>6, <5>1, <5>2
      <4>. QED BY <3>1, <3>3, <4>1, <4>2 DEF Published, Runs, Unsettled
    <3>4. CASE t # s /\ shell[t].at # m
      <4>1. shell'[t] = shell[t]
        BY <1>4, <3>4
      <4>2. CASE shell[t].step = "none"
        BY <4>1, <4>2 DEF Published, Runs, ShellInv, CreateInv, Created
      <4>3. CASE shell[t].step # "none"
        <5>1. live'[shell[t].at] = live[shell[t].at]
          BY <1>5, <3>4, <4>3, CreatedAt
        <5>2. live[shell[t].at] # 0 => shell'[live[shell[t].at]] = shell[live[shell[t].at]]
          BY <1>4, <1>11, <3>4, <4>3, CreatedAt
        <5>. QED BY <1>8, <3>1, <4>1, <5>1, <5>2 DEF Published, Runs
      <4>. QED BY <4>2, <4>3
    <3>. QED BY <3>2, <3>3, <3>4
  <2>4. \A d \in Calls : Resetting(d)'
    BY <1>2 DEF ShellInv, LiveInv, Resetting
  <2>. QED BY <2>1, <2>2, <2>3, <2>4 DEF LiveInv
<1>13. ModeInv'
  BY <1>1, <1>2, <1>4, <1>8 DEF ShellInv, ModeInv, Unsettled
<1>14. EndInv'
  <2>. SUFFICES ASSUME NEW k \in Managers PROVE Ended(k)'
    BY DEF EndInv
  <2>1. Ended(k) /\ UNCHANGED <<disposal, cleanup, closing>>
    BY <1>2 DEF ShellInv, EndInv
  <2>2. k = m => disposal[k] = "none"
    BY <1>1 DEF Aborted, Disposing
  <2>3. Creating(k)' = Creating(k)
    BY <1>1, <1>4 DEF Creating, Unsettled
  <2>4. \A t \in Shells : shell'[t].at = shell[t].at /\ (shell[t].at = k /\ k # m => shell'[t] = shell[t])
    BY <1>4
  <2>. QED BY <1>8, <2>1, <2>2, <2>3, <2>4 DEF Ended
<1>. QED BY <1>9, <1>10, <1>12, <1>13, <1>14 DEF ShellInv

\* A creation fails, and its manager is reset.
LEMMA Fails ==
  ASSUME ShellInv, NEW s \in Shells, NEW r \in ShellTypes, Fail(s, r),
         UNCHANGED <<creation, live>>, fails' \in 0..MaxFails,
         r.by = shell[s].by, r.at = shell[s].at, r.mode = shell[s].mode, r.cut = shell[s].cut,
         shell[s].step \in {"confine", "spawn", "cleanup", "init"},
         \/ r.proc = shell[s].proc /\ r.failed = shell[s].failed /\ shell[s].step # "cleanup"
         \/ ~(r.proc = "open" /\ r.failed = "no")
  PROVE  ShellInv'
<1>. DEFINE m == shell[s].at
            q == [r EXCEPT !.step = IF live[m] = 0 THEN "failed" ELSE "reset"]
<1>1. /\ UNCHANGED <<mode, checkers, line, cmd, disposal, cleanup, ownerLive>>
      /\ live' = live
  BY DEF creation
<1>2. /\ m \in Managers /\ s # 0 /\ s \in 0..MaxShells /\ s \in Creating(m) /\ pending[m] = s
      /\ shell[s].step # "none"
  BY CreatedAt DEF ShellInv, CreateInv, Created, Unsettled
<1>3. /\ q.by = shell[s].by /\ q.at = m /\ q.mode = shell[s].mode /\ q.cut = shell[s].cut
      /\ q.proc = r.proc /\ q.failed = r.failed /\ q \in ShellTypes
      /\ q.step = IF live[m] = 0 THEN "failed" ELSE "reset"
  BY DEF ShellTypes
<1>4. shell' = [shell EXCEPT ![s] = q] /\ Reset(m)
  BY DEF Fail
<1>. HIDE DEF q
<1>5. /\ shell'[s] = q /\ \A t \in Shells \ {s} : shell'[t] = shell[t]
      /\ shell' \in [Shells -> ShellTypes]
  BY <1>3, <1>4 DEF ShellInv, Types
<1>6. /\ pending' \in [Managers -> 0..MaxShells] /\ closing' \in [Managers -> 0..MaxShells]
      /\ pending'[m] = 0 /\ closing'[m] = live[m]
      /\ \A k \in Managers \ {m} : pending'[k] = pending[k] /\ closing'[k] = closing[k]
  BY <1>2, <1>4, ResetFacts
<1>7. \A t \in Shells \ {s} : shell[t].at = m => shell[t].step \notin Unsettled \ {"reset"}
  BY <1>2 DEF ShellInv, CreateInv, Created
<1>8. \A t \in Shells : /\ Aborted(t)' <=> Aborted(t)
                        /\ Runs(t)' => Runs(t)
                        /\ t # s => (Runs(t) => Runs(t)')
                        /\ shell'[t].at = shell[t].at
                        /\ shell[t].step # "none" <=> shell'[t].step # "none"
                        /\ shell'[t].step \in Unsettled => shell[t].step \in Unsettled
  <2>1. (r.proc = shell[s].proc /\ r.failed = shell[s].failed) \/ ~(r.proc = "open" /\ r.failed = "no")
    OBVIOUS
  <2>. QED BY <1>1, <1>2, <1>3, <1>5, <2>1 DEF Aborted, Disposing, Runs, Unsettled
<1>9. \A k \in Managers : closing[k] # 0 => closing'[k] # 0
  BY <1>2, <1>6 DEF ShellInv, LiveInv, LiveOf
<1>10. Types' /\ LineInv'
  BY <1>1, <1>5, <1>6 DEF ShellInv, Types, ManagerTypes, LineInv, LineOf, Lined
<1>11. CreateInv'
  <2>1. ASSUME NEW t \in Shells PROVE Created(t)'
    <3>1. Created(t)
      BY DEF ShellInv, CreateInv
    <3>2. CASE t = s
      BY <1>1, <1>3, <1>5, <3>1, <3>2 DEF Created, Unsettled
    <3>3. CASE t # s
      <4>1. shell[t].step \in Unsettled \ {"reset"} => pending'[shell[t].at] = pending[shell[t].at]
        <5>1. shell[t].step # "none" => shell[t].at \in Managers
          BY CreatedAt
        <5>. QED BY <1>6, <1>7, <3>3, <5>1 DEF Unsettled
      <4>. QED BY <1>1, <1>5, <3>1, <3>3, <4>1 DEF Created
    <3>. QED BY <3>2, <3>3
  <2>2. ASSUME NEW d \in Calls PROVE Holds(d)'
    <3>1. Holds(d) /\ cmd' = cmd /\ cmd[d].shell \in 0..MaxShells
      BY <1>1 DEF ShellInv, CreateInv, Types, CallTypes
    <3>. QED BY <1>8, <3>1 DEF Holds, Shells
  <2>3. ASSUME NEW k \in Managers, pending'[k] # 0
        PROVE  shell'[pending'[k]].step # "none" /\ shell'[pending'[k]].at = k
    <3>1. pending'[k] = pending[k] /\ pending[k] \in Shells
      BY <1>6, <2>3 DEF ShellInv, Types, ManagerTypes, Shells
    <3>. QED BY <1>8, <2>3, <3>1 DEF ShellInv, CreateInv
  <2>. QED BY <2>1, <2>2, <2>3 DEF CreateInv
<1>12. \A k \in Managers : live[k] # 0 => live[k] \in Shells
  BY DEF ShellInv, Types, ManagerTypes, Shells
<1>13. LiveInv'
  <2>1. ASSUME NEW k \in Managers PROVE LiveOf(k)'
    <3>1. LiveOf(k)
      BY DEF ShellInv, LiveInv
    <3>2. live[k] # 0 => shell'[live[k]].at = k /\ shell'[live[k]].step \notin
                             {"none", "confine", "spawn", "startup", "cleanup"}
      BY <1>3, <1>5, <1>8, <1>12, <3>1 DEF LiveOf
    <3>3. closing'[k] # 0 => closing'[k] = live[k]
      BY <1>6, <3>1 DEF LiveOf
    <3>. QED BY <1>1, <3>2, <3>3 DEF LiveOf
  <2>2. ASSUME NEW k \in Managers PROVE Closes(k)'
    <3>1. CASE k = m
      BY <1>1, <1>3, <1>5, <1>6, <3>1 DEF Closes
    <3>2. CASE k # m
      <4>1. /\ Closes(k) /\ UNCHANGED <<disposal, cleanup, cmd, live>>
            /\ pending'[k] = pending[k] /\ closing'[k] = closing[k]
        BY <1>1, <1>6, <3>2 DEF ShellInv, LiveInv
      <4>2. \A t \in Shells : shell[t].step = "reset" => shell'[t] = shell[t]
        BY <1>5
      <4>3. live[k] # 0 /\ ~Runs(live[k])
              => ~(shell'[live[k]].proc = "open" /\ shell'[live[k]].failed = "no")
        BY <1>8, <1>12 DEF Runs
      <4>. QED BY <4>1, <4>2, <4>3 DEF Closes, Runs
    <3>. QED BY <3>1, <3>2
  <2>3. ASSUME NEW t \in Shells PROVE Published(t)'
    <3>1. Published(t) /\ live' = live
      BY <1>1 DEF ShellInv, LiveInv
    <3>2. CASE t = s
      <4>1. Runs(s)' => shell[s].step = "init"
        <5>1. shell'[s].proc = r.proc /\ shell'[s].failed = r.failed
          BY <1>3, <1>5
        <5>2. shell[s].step \in {"confine", "spawn"} => shell[s].proc = "none"
          BY DEF ShellInv, CreateInv, Created
        <5>. QED BY <5>1, <5>2 DEF Runs
      <4>2. shell'[s].at = m /\ shell'[s].step = IF live[m] = 0 THEN "failed" ELSE "reset"
        BY <1>3, <1>5
      <4>. QED BY <1>6, <3>1, <3>2, <4>1, <4>2 DEF Published
    <3>3. CASE t # s /\ shell[t].at = m
      <4>1. shell'[t] = shell[t] /\ shell[t].step \notin Unsettled \ {"reset"}
        BY <1>5, <1>7, <3>3
      <4>. QED BY <1>2, <1>9, <3>1, <3>3, <4>1 DEF Published, Runs, Unsettled
    <3>4. CASE t # s /\ shell[t].at # m
      <4>1. shell'[t] = shell[t]
        BY <1>5, <3>4
      <4>2. CASE shell[t].step = "none"
        BY <4>1, <4>2 DEF Published, Runs, ShellInv, CreateInv, Created
      <4>3. CASE shell[t].step # "none"
        <5>1. closing'[shell[t].at] = closing[shell[t].at] /\ shell[t].at \in Managers
          BY <1>6, <3>4, <4>3, CreatedAt
        <5>2. live[shell[t].at] # 0 /\ ~Runs(live[shell[t].at])
              => ~(shell'[live[shell[t].at]].proc = "open" /\ shell'[live[shell[t].at]].failed = "no")
          BY <1>8, <1>12, <5>1 DEF Runs
        <5>. QED BY <1>8, <3>1, <4>1, <5>1, <5>2 DEF Published, Runs
      <4>. QED BY <4>2, <4>3
    <3>. QED BY <3>2, <3>3, <3>4
  <2>4. ASSUME NEW d \in Calls PROVE Resetting(d)'
    <3>1. cmd[d].pc = "reset" => cmd[d].at \in Managers
      BY DEF ShellInv, LineInv, Lined, Waiting, Active
    <3>2. Resetting(d) /\ cmd' = cmd
      BY <1>1 DEF ShellInv, LiveInv
    <3>. QED BY <1>6, <1>9, <3>1, <3>2 DEF Resetting
  <2>. QED BY <2>1, <2>2, <2>3, <2>4 DEF LiveInv
<1>14. ModeInv'
  BY <1>1, <1>3, <1>5, <1>8 DEF ShellInv, ModeInv
<1>15. EndInv'
  <2>. SUFFICES ASSUME NEW k \in Managers PROVE Ended(k)'
    BY DEF EndInv
  <2>1. Ended(k) /\ UNCHANGED <<disposal, cleanup>>
    BY <1>1 DEF ShellInv, EndInv
  <2>2. disposal[k] \in {"reset", "done"} => \A t \in Shells : shell'[t].at = k =>
          shell'[t].step \notin {"spawn", "startup", "cleanup", "init"}
    BY <1>3, <1>5, <1>8, <2>1 DEF Ended
  <2>3. cleanup[k] \in {"reset", "done"} => Creating(k)' = {}
    BY <1>8, <2>1 DEF Ended, Creating
  <2>. QED BY <1>8, <1>9, <2>1, <2>2, <2>3 DEF Ended
<1>16. FreshInv'
  <2>. SUFFICES ASSUME NEW d \in Calls PROVE Fresh(d)'
    BY DEF FreshInv
  <2>1. Fresh(d) /\ cmd' = cmd
    BY <1>1 DEF ShellInv, FreshInv
  <2>2. pending'[cmd[d].at] = pending[cmd[d].at] \/ pending'[cmd[d].at] = 0
    BY <1>2, <1>4 DEF Reset, ShellInv, Types, ManagerTypes
  <2>. QED BY <2>1, <2>2 DEF Fresh
<1>. QED BY <1>10, <1>11, <1>13, <1>14, <1>15, <1>16 DEF ShellInv

-----------------------------------------------------------------------------
(* The end of a close.                                                     *)

LEMMA Settles ==
  ASSUME ShellInv, NEW m \in Managers, NEW ok \in BOOLEAN, Settle(m, ok),
         fails' \in 0..MaxFails, live' = IF ok THEN [live EXCEPT ![m] = 0] ELSE live
  PROVE  ShellInv'
<1>. DEFINE resetting == {c \in Calls : cmd[c].at = m /\ cmd[c].pc = "reset"}
            z == closing[m]
<1>1. /\ UNCHANGED <<mode, checkers, pending, ownerLive>>
      /\ closing' = [closing EXCEPT ![m] = 0]
      /\ line' = [line EXCEPT ![m] = IF resetting = {} THEN @ ELSE Tail(@)]
      /\ disposal' = [disposal EXCEPT ![m] = Returned(@)]
      /\ cleanup' = [cleanup EXCEPT ![m] = Returned(@)]
  BY DEF Settle
<1>2. /\ z # 0 /\ z = live[m] /\ z \in Shells /\ shell[z].at = m
      /\ shell[z].step \notin {"none", "confine", "spawn", "startup", "cleanup"}
  BY DEF Settle, ShellInv, LiveInv, LiveOf, Types, ManagerTypes, Shells
<1>3. /\ cmd' \in [Calls -> CallTypes]
      /\ \A c \in Calls : /\ cmd'[c].at = cmd[c].at /\ cmd'[c].shell = cmd[c].shell
                          /\ cmd'[c].cut = cmd[c].cut
                          /\ c \notin resetting => cmd'[c] = cmd[c]
                          /\ c \in resetting => cmd'[c].pc = "done"
  <2>. DEFINE end(c) == IF ok THEN cmd[c].then ELSE "failed"
  <2>1. cmd' = [c \in Calls |-> IF c \in resetting THEN Finished(cmd[c], end(c)) ELSE cmd[c]]
    BY DEF Settle
  <2>2. \A c \in Calls : cmd[c] \in CallTypes /\ end(c) \in Outs
    BY DEF ShellInv, Types, CallTypes, Outs
  <2>. HIDE DEF end, resetting
  <2>3. \A c \in Calls : LET f == Finished(cmd[c], end(c)) IN
          /\ f \in CallTypes /\ f.at = cmd[c].at /\ f.shell = cmd[c].shell
          /\ f.cut = cmd[c].cut /\ f.pc = "done"
    BY <2>2 DEF Finished, CallTypes
  <2>. QED BY <2>1, <2>2, <2>3
<1>4. /\ shell' \in [Shells -> ShellTypes]
      /\ \A t \in Shells : /\ shell'[t].by = shell[t].by /\ shell'[t].at = shell[t].at
                           /\ shell'[t].mode = shell[t].mode /\ shell'[t].cut = shell[t].cut
                           /\ shell'[t].step = IF shell[t].step = "reset" /\ shell[t].at = m
                                               THEN "failed" ELSE shell[t].step
                           /\ t # z => shell'[t].proc = shell[t].proc /\ shell'[t].failed = shell[t].failed
                           /\ t # z /\ shell[t].at # m => shell'[t] = shell[t]
      /\ shell'[z].proc = "closed" \/ shell'[z].failed = "close"
  <2>. DEFINE r(t) == IF shell[t].step = "reset" /\ shell[t].at = m
                      THEN [shell[t] EXCEPT !.step = "failed"] ELSE shell[t]
  <2>1. shell' = [t \in Shells |-> IF t # z THEN r(t)
                                   ELSE IF ok THEN [r(t) EXCEPT !.proc = "closed"]
                                   ELSE [r(t) EXCEPT !.failed = "close"]]
    BY DEF Settle
  <2>2. \A t \in Shells : /\ r(t) \in ShellTypes /\ r(t).by = shell[t].by /\ r(t).at = shell[t].at
                          /\ r(t).mode = shell[t].mode /\ r(t).cut = shell[t].cut
                          /\ r(t).proc = shell[t].proc /\ r(t).failed = shell[t].failed
                          /\ r(t).step = IF shell[t].step = "reset" /\ shell[t].at = m
                                         THEN "failed" ELSE shell[t].step
                          /\ shell[t].at # m => r(t) = shell[t]
    BY DEF ShellInv, Types, ShellTypes
  <2>. HIDE DEF r
  <2>3. /\ \A t \in Shells \ {z} : shell'[t] = r(t)
        /\ shell'[z] = IF ok THEN [r(z) EXCEPT !.proc = "closed"] ELSE [r(z) EXCEPT !.failed = "close"]
    BY <1>2, <2>1
  <2>4. LET q == shell'[z] IN
        /\ q \in ShellTypes /\ q.by = r(z).by /\ q.at = r(z).at /\ q.step = r(z).step
        /\ q.mode = r(z).mode /\ q.cut = r(z).cut /\ (q.proc = "closed" \/ q.failed = "close")
    BY <1>2, <2>2, <2>3 DEF ShellTypes
  <2>5. \A t \in Shells : shell'[t] \in ShellTypes
    BY <1>2, <2>2, <2>3, <2>4
  <2>. QED BY <1>2, <2>1, <2>2, <2>3, <2>4, <2>5
<1>5. \A c \in resetting : /\ \A d \in Calls \ {c} : cmd[d].at = m => cmd[d].pc \notin Active
                           /\ resetting = {c} /\ Len(line[m]) > 0 /\ line[m][1] = c
  <2>. SUFFICES ASSUME NEW c \in resetting
                PROVE  /\ \A d \in Calls \ {c} : cmd[d].at = m => cmd[d].pc \notin Active
                       /\ resetting = {c} /\ Len(line[m]) > 0 /\ line[m][1] = c
    OBVIOUS
  <2>1. /\ \A d \in Calls \ {c} : cmd[d].at = m => cmd[d].pc \notin Active
        /\ Len(line[m]) > 0 /\ line[m][1] = c
    BY First DEF ShellInv, Active
  <2>2. \A d \in resetting : d = c
    BY <2>1 DEF Active
  <2>. QED BY <2>1, <2>2
<1>. HIDE DEF z
<1>6. /\ closing'[m] = 0 /\ \A k \in Managers \ {m} : closing'[k] = closing[k]
      /\ closing' \in [Managers -> 0..MaxShells]
      /\ live' \in [Managers -> 0..MaxShells] /\ live'[m] \in {z, 0}
      /\ \A k \in Managers \ {m} : live'[k] = live[k]
  <2>1. 0 \in 0..MaxShells /\ closing \in [Managers -> 0..MaxShells] /\ live \in [Managers -> 0..MaxShells]
    BY DEF ShellInv, Types, ManagerTypes
  <2>. QED BY <1>1, <1>2, <2>1
<1>7. /\ \A k \in Managers \ {m} : disposal'[k] = disposal[k] /\ cleanup'[k] = cleanup[k]
      /\ disposal'[m] = Returned(disposal[m]) /\ cleanup'[m] = Returned(cleanup[m])
      /\ disposal' \in [Managers -> {"none", "creating", "reset", "done"}]
      /\ cleanup' \in [Managers -> {"none", "installed", "creating", "reset", "done"}]
  BY <1>1 DEF ShellInv, Types, ManagerTypes, Returned
<1>8. \A t \in Shells : /\ Runs(t)' => Runs(t) /\ t # z
                        /\ shell[t].step # "none" /\ Aborted(t) => Aborted(t)'
  <2>1. \A k \in Managers : disposal[k] # "none" => disposal'[k] # "none"
    BY <1>7 DEF Returned
  <2>2. ASSUME NEW t \in Shells, shell[t].step # "none", Aborted(t) PROVE Aborted(t)'
    <3>1. shell[t].by \in Calls /\ shell[t].at \in Managers
      BY <2>2, CreatedAt
    <3>. QED BY <1>3, <1>4, <2>1, <2>2, <3>1 DEF Aborted, Disposing
  <2>3. \A t \in Shells : Runs(t)' => Runs(t) /\ t # z
    BY <1>4 DEF Runs
  <2>. QED BY <2>2, <2>3
<1>9. Types'
  BY <1>1, <1>3, <1>4, <1>6, <1>7 DEF ShellInv, Types, ManagerTypes
<1>10. LineInv'
  <2>1. CASE resetting = {}
    <3>1. line' = line /\ \A c \in Calls : cmd'[c] = cmd[c]
      BY <1>1, <1>3, <2>1 DEF ShellInv, LineInv
    <3>. QED BY <3>1 DEF ShellInv, LineInv, LineOf, Lined
  <2>2. CASE resetting # {}
    <3>1. PICK c \in resetting : TRUE
      BY <2>2
    <3>2. c \in Calls /\ Len(line[m]) > 0 /\ line[m][1] = c /\ cmd'[c].pc = "done"
          /\ line' = [line EXCEPT ![m] = Tail(@)] /\ \A d \in Calls \ {c} : cmd'[d] = cmd[d]
      BY <1>1, <1>3, <1>5, <2>2, <3>1
    <3>. QED BY <3>2, LeaveLine DEF ShellInv
  <2>. QED BY <2>1, <2>2
<1>11. CreateInv'
  <2>1. ASSUME NEW t \in Shells PROVE Created(t)'
    <3>1. Created(t)
      BY DEF ShellInv, CreateInv
    <3>2. shell'[t].step \in Unsettled =>
            shell[t].step \in Unsettled /\ cmd'[shell[t].by] = cmd[shell[t].by]
      BY <1>3, <1>4, <3>1 DEF Created, Unsettled
    <3>3. shell[t].step \in {"none", "confine", "spawn"} => t # z
      BY <1>2
    <3>. QED BY <1>1, <1>4, <3>1, <3>2, <3>3 DEF Created, Unsettled
  <2>2. \A t \in Shells : shell'[t].at = shell[t].at /\ (shell[t].step # "none" => shell'[t].step # "none")
    BY <1>4
  <2>3. ASSUME NEW d \in Calls PROVE Holds(d)'
    <3>1. Holds(d) /\ cmd[d].shell \in 0..MaxShells
      BY DEF ShellInv, CreateInv, Types, CallTypes
    <3>2. d \in resetting => cmd'[d].pc = "done"
      BY <1>3
    <3>. QED BY <1>3, <2>2, <3>1, <3>2 DEF Holds, Shells, Active
  <2>4. ASSUME NEW k \in Managers, pending'[k] # 0
        PROVE  shell'[pending'[k]].step # "none" /\ shell'[pending'[k]].at = k
    <3>1. pending' = pending /\ pending[k] \in Shells
      BY <1>1, <2>4 DEF ShellInv, Types, ManagerTypes, Shells
    <3>. QED BY <2>2, <2>4, <3>1 DEF ShellInv, CreateInv
  <2>. QED BY <2>1, <2>3, <2>4 DEF CreateInv
<1>12. \A k \in Managers \ {m} : live[k] # 0 => live[k] \in Shells /\ shell'[live[k]] = shell[live[k]]
  <2>. SUFFICES ASSUME NEW k \in Managers \ {m}, live[k] # 0
                PROVE  live[k] \in Shells /\ shell'[live[k]] = shell[live[k]]
    OBVIOUS
  <2>1. live[k] \in Shells /\ shell[live[k]].at = k
    BY DEF ShellInv, LiveInv, LiveOf, Types, ManagerTypes, Shells
  <2>. QED BY <1>2, <1>4, <2>1
<1>13. LiveInv'
  <2>1. ASSUME NEW k \in Managers PROVE LiveOf(k)'
    <3>1. CASE k = m
      BY <1>2, <1>4, <1>6, <3>1 DEF LiveOf
    <3>2. CASE k # m
      BY <1>6, <1>12, <3>2 DEF ShellInv, LiveInv, LiveOf
    <3>. QED BY <3>1, <3>2
  <2>2. ASSUME NEW k \in Managers PROVE Closes(k)'
    <3>1. CASE k = m
      <4>1. ~(shell'[z].proc = "open" /\ shell'[z].failed = "no")
        BY <1>4
      <4>. QED BY <1>6, <3>1, <4>1 DEF Closes, Runs
    <3>2. CASE k # m
      <4>1. /\ Closes(k) /\ pending' = pending /\ closing'[k] = closing[k] /\ live'[k] = live[k]
            /\ disposal'[k] = disposal[k] /\ cleanup'[k] = cleanup[k]
        BY <1>1, <1>6, <1>7, <3>2 DEF ShellInv, LiveInv
      <4>2. \A c \in Calls : cmd[c].at = k => cmd'[c] = cmd[c]
        BY <1>3, <3>2
      <4>3. \A t \in Shells : shell[t].at = k => shell'[t] = shell[t]
        BY <1>2, <1>4, <3>2
      <4>4. live[k] # 0 => shell'[live[k]] = shell[live[k]]
        BY <1>12, <3>2
      <4>. QED BY <4>1, <4>2, <4>3, <4>4 DEF Closes, Runs
    <3>. QED BY <3>1, <3>2
  <2>3. ASSUME NEW t \in Shells PROVE Published(t)'
    <3>1. Published(t) /\ shell'[t].at = shell[t].at
      BY <1>4 DEF ShellInv, LiveInv
    <3>2. CASE shell[t].at = m
      <4>1. Runs(t) /\ shell[t].step \notin {"startup", "cleanup"} => t = z
        BY <1>2, <3>1, <3>2 DEF Published
      <4>2. shell[t].step # "init" /\ shell'[t].step # "reset"
            /\ (shell[t].step \in {"confine", "spawn", "startup"} => Aborted(t)')
        <5>1. closing[m] # 0
          BY <1>2 DEF z
        <5>. QED BY <1>4, <1>8, <3>1, <3>2, <5>1 DEF Published
      <4>3. shell'[t].step \in {shell[t].step, "failed"} /\ (shell'[t].step # shell[t].step => shell[t].step = "reset")
        BY <1>4
      <4>. QED BY <1>8, <3>1, <3>2, <4>1, <4>2, <4>3 DEF Published
    <3>3. CASE shell[t].at # m
      <4>1. shell'[t] = shell[t]
        BY <1>2, <1>4, <3>3
      <4>2. CASE shell[t].step = "none"
        BY <4>1, <4>2 DEF Published, Runs, ShellInv, CreateInv, Created
      <4>3. CASE shell[t].step # "none"
        <5>1. /\ closing'[shell[t].at] = closing[shell[t].at] /\ live'[shell[t].at] = live[shell[t].at]
              /\ live[shell[t].at] # 0 => shell'[live[shell[t].at]] = shell[live[shell[t].at]]
          BY <1>6, <1>12, <3>3, <4>3, CreatedAt
        <5>. QED BY <1>8, <3>1, <4>1, <4>3, <5>1 DEF Published, Runs
      <4>. QED BY <4>2, <4>3
    <3>. QED BY <3>2, <3>3
  <2>4. ASSUME NEW d \in Calls PROVE Resetting(d)'
    <3>1. cmd'[d].pc = "reset" => cmd'[d] = cmd[d] /\ cmd[d].at \in Managers \ {m}
      <4>1. cmd[d].pc = "reset" => cmd[d].at \in Managers
        BY DEF ShellInv, LineInv, Lined, Waiting, Active
      <4>. QED BY <1>3, <4>1
    <3>2. Resetting(d) /\ pending' = pending
      BY <1>1 DEF ShellInv, LiveInv
    <3>. QED BY <1>6, <3>1, <3>2 DEF Resetting
  <2>. QED BY <2>1, <2>2, <2>3, <2>4 DEF LiveInv
<1>14. ModeInv'
  BY <1>1, <1>4, <1>8 DEF ShellInv, ModeInv, Unsettled
<1>15. EndInv'
  <2>. SUFFICES ASSUME NEW k \in Managers PROVE Ended(k)'
    BY DEF EndInv
  <2>1. Ended(k)
    BY DEF ShellInv, EndInv
  <2>2. \A t \in Shells : /\ shell'[t].at = shell[t].at
                          /\ shell'[t].step \in {shell[t].step, "failed"}
                          /\ shell'[t].step \in Unsettled => shell[t].step \in Unsettled
    BY <1>4 DEF Unsettled
  <2>3. CASE k = m
    <3>1. /\ disposal'[m] \in {"reset", "done"} => disposal[m] \in {"reset", "done"}
          /\ cleanup'[m] \in {"reset", "done"} => cleanup[m] \in {"reset", "done"}
          /\ disposal'[m] # "reset" /\ cleanup'[m] # "reset"
      BY <1>7 DEF Returned
    <3>2. cleanup'[m] \in {"reset", "done"} => Creating(m)' = {}
      BY <2>1, <2>2, <2>3, <3>1 DEF Ended, Creating
    <3>3. ASSUME disposal'[m] = "done" \/ cleanup'[m] = "done", NEW t \in Shells,
                 shell'[t].at = m, Runs(t)'
          PROVE  FALSE
      <4>1. Runs(t) /\ t # z /\ shell[t].at = m
        BY <1>8, <2>2, <3>3
      <4>2. shell[t].step \in {"startup", "cleanup"}
        BY <1>2, <4>1 DEF ShellInv, LiveInv, Published
      <4>3. t \in Creating(m)
        BY <4>1, <4>2 DEF Creating, Unsettled
      <4>. QED BY <2>1, <2>3, <3>1, <3>3, <4>1, <4>2, <4>3 DEF Ended
    <3>4. disposal'[m] \in {"reset", "done"} => \A t \in Shells : shell'[t].at = m =>
            shell'[t].step \notin {"spawn", "startup", "cleanup", "init"}
      BY <2>1, <2>2, <2>3, <3>1 DEF Ended
    <3>. QED BY <2>3, <3>1, <3>2, <3>3, <3>4 DEF Ended
  <2>4. CASE k # m
    <3>1. \A t \in Shells : shell[t].at = k => shell'[t] = shell[t]
      BY <1>2, <1>4, <2>4
    <3>2. Creating(k)' = Creating(k)
      BY <2>2, <3>1 DEF Creating
    <3>3. /\ closing'[k] = closing[k] /\ disposal'[k] = disposal[k] /\ cleanup'[k] = cleanup[k]
      BY <1>6, <1>7, <2>4
    <3>. QED BY <2>1, <2>2, <3>1, <3>2, <3>3 DEF Ended, Runs
  <2>. QED BY <2>3, <2>4
<1>16. FreshInv'
  <2>. SUFFICES ASSUME NEW d \in Calls PROVE Fresh(d)'
    BY DEF FreshInv
  <2>1. \A e \in Calls : /\ cmd'[e].at = cmd[e].at /\ cmd'[e].shell = cmd[e].shell
                         /\ cmd'[e].pc \in {cmd[e].pc, "done"}
    BY <1>3
  <2>2. CASE d \in resetting
    <3>1. cmd[d].at = m /\ cmd[d].pc = "reset" /\ cmd'[d].pc = "done"
      BY <1>3, <2>2
    <3>2. cmd[d].shell # 0 /\ pending'[m] = 0
      BY <1>1, <3>1 DEF ShellInv, CreateInv, Holds, Active, LiveInv, Resetting
    <3>3. \A e \in Calls \ {d} : cmd'[e].at = m => cmd'[e].pc \notin Active
      BY <1>5, <2>1, <2>2 DEF Active
    <3>. QED BY <2>1, <3>1, <3>2, <3>3 DEF Fresh, Active
  <2>3. CASE d \notin resetting
    <3>1. Fresh(d) /\ cmd'[d] = cmd[d] /\ pending' = pending
      BY <1>1, <1>3, <2>3 DEF ShellInv, FreshInv
    <3>. QED BY <2>1, <3>1 DEF Fresh
  <2>. QED BY <2>2, <2>3
<1>. QED BY <1>9, <1>10, <1>11, <1>13, <1>14, <1>15, <1>16 DEF ShellInv

-----------------------------------------------------------------------------
(* Removing the tool, the end of the agent, and the mode.                  *)

\* The reset at the end of a disposal or of the owner cleanup, when every
\* creation has settled.
LEMMA ManagerResets ==
  ASSUME ShellInv, NEW m \in Managers, Creating(m) = {},
         UNCHANGED <<mode, checkers, line, cmd, shell, live, ownerLive, fails>>,
         Reset(m) \/ (UNCHANGED <<pending, closing>> /\ live[m] = 0),
         NEW d, d = (IF live[m] = 0 THEN "done" ELSE "reset"),
         \/ /\ disposal[m] = "creating" /\ disposal' = [disposal EXCEPT ![m] = d]
            /\ cleanup' = cleanup
         \/ /\ cleanup[m] = "creating" /\ cleanup' = [cleanup EXCEPT ![m] = d]
            /\ disposal' = disposal
  PROVE  ShellInv'
<1>1. /\ pending' \in [Managers -> 0..MaxShells] /\ closing' \in [Managers -> 0..MaxShells]
      /\ closing'[m] = live[m] /\ (pending'[m] = 0 \/ live[m] = 0)
      /\ \A k \in Managers \ {m} : pending'[k] = pending[k] /\ closing'[k] = closing[k]
  <2>1. CASE Reset(m)
    BY <2>1, ResetFacts
  <2>2. CASE UNCHANGED <<pending, closing>> /\ live[m] = 0
    BY <2>2 DEF ShellInv, Types, ManagerTypes, LiveInv, LiveOf
  <2>. QED BY <2>1, <2>2
<1>2. /\ disposal' \in [Managers -> {"none", "creating", "reset", "done"}]
      /\ cleanup' \in [Managers -> {"none", "installed", "creating", "reset", "done"}]
      /\ \A k \in Managers \ {m} : disposal'[k] = disposal[k] /\ cleanup'[k] = cleanup[k]
      /\ \/ disposal[m] = "creating" /\ disposal'[m] = d /\ cleanup'[m] = cleanup[m]
         \/ cleanup[m] = "creating" /\ cleanup'[m] = d /\ disposal'[m] = disposal[m]
  BY DEF ShellInv, Types, ManagerTypes
<1>3. \A t \in Shells : shell[t].at = m => shell[t].step \notin Unsettled
  BY DEF Creating
<1>4. ASSUME NEW t \in Shells, shell[t].step # "none" PROVE Aborted(t)' <=> Aborted(t)
  <2>1. \A k \in Managers : disposal'[k] # "none" <=> disposal[k] # "none"
    BY <1>2
  <2>2. shell[t].at \in Managers
    BY <1>4, CreatedAt
  <2>. QED BY <2>1, <2>2 DEF Aborted, Disposing
<1>5. \A k \in Managers : pending'[k] \in {pending[k], 0}
  BY DEF Reset, ShellInv, Types, ManagerTypes
<1>6. Types' /\ LineInv'
  BY SMTT(20), <1>1, <1>2 DEF ShellInv, Types, ManagerTypes, LineInv, LineOf, Lined
<1>7. CreateInv'
  <2>1. ASSUME NEW t \in Shells PROVE Created(t)'
    <3>1. Created(t)
      BY DEF ShellInv, CreateInv
    <3>2. shell[t].step \in Unsettled => pending'[shell[t].at] = pending[shell[t].at]
      <4>1. shell[t].step \in Unsettled => shell[t].at \in Managers
        BY CreatedAt DEF Unsettled
      <4>. QED BY <1>1, <1>3, <4>1
    <3>. QED BY <3>1, <3>2 DEF Created
  <2>. QED BY <1>5, <2>1 DEF ShellInv, CreateInv, Holds
<1>8. LiveInv'
  <2>1. ASSUME NEW k \in Managers PROVE LiveOf(k)' /\ Closes(k)'
    <3>1. LiveOf(k) /\ Closes(k)
      BY DEF ShellInv, LiveInv
    <3>2. CASE k = m
      <4>1. LiveOf(k)'
        BY <1>1, <3>1, <3>2 DEF LiveOf
      <4>2. live[m] # 0 => disposal'[m] = "reset" \/ cleanup'[m] = "reset"
        BY <1>2
      <4>. QED BY <1>1, <3>2, <4>1, <4>2 DEF Closes
    <3>3. CASE k # m
      BY <1>1, <1>2, <3>1, <3>3 DEF LiveOf, Closes, Runs
    <3>. QED BY <3>2, <3>3
  <2>2. ASSUME NEW t \in Shells PROVE Published(t)'
    <3>1. Published(t)
      BY DEF ShellInv, LiveInv
    <3>2. CASE shell[t].at = m
      BY <1>3, <3>1, <3>2 DEF Published, Runs, Unsettled
    <3>3. CASE shell[t].step = "none"
      BY <3>3 DEF Published, Runs, ShellInv, CreateInv, Created
    <3>4. CASE shell[t].at # m /\ shell[t].step # "none"
      <4>1. closing'[shell[t].at] = closing[shell[t].at]
        BY <1>1, <3>4, CreatedAt
      <4>. QED BY <1>4, <3>1, <4>1 DEF Published, Runs
    <3>. QED BY <3>2, <3>3, <3>4
  <2>3. ASSUME NEW c \in Calls PROVE Resetting(c)'
    <3>1. cmd[c].pc = "reset" => cmd[c].at \in Managers
      BY DEF ShellInv, LineInv, Lined, Waiting, Active
    <3>2. Resetting(c) /\ (closing[m] # 0 => live[m] # 0)
      BY DEF ShellInv, LiveInv, LiveOf
    <3>. QED BY <1>1, <3>1, <3>2 DEF Resetting
  <2>. QED BY <2>1, <2>2, <2>3 DEF LiveInv
<1>9. ModeInv'
  BY DEF ShellInv, ModeInv, Runs
<1>10. EndInv'
  <2>. SUFFICES ASSUME NEW k \in Managers PROVE Ended(k)'
    BY DEF EndInv
  <2>1. Ended(k)
    BY DEF ShellInv, EndInv
  <2>2. CASE k = m
    <3>1. closing[m] # 0 => closing'[m] # 0
      BY <1>1 DEF ShellInv, LiveInv, LiveOf
    <3>2. live[m] = 0 => \A t \in Shells : shell[t].at = m => ~Runs(t)
      <4>. SUFFICES ASSUME live[m] = 0, NEW t \in Shells, shell[t].at = m, Runs(t) PROVE FALSE
        OBVIOUS
      <4>1. live[m] = t
        BY <1>3 DEF ShellInv, LiveInv, Published, Unsettled
      <4>. QED BY <4>1 DEF Shells
    <3>3. \A t \in Shells : shell[t].at = m =>
            shell[t].step \notin {"spawn", "startup", "cleanup", "init"}
      BY <1>3 DEF Unsettled
    <3>4. disposal'[m] = "reset" \/ cleanup'[m] = "reset" => closing'[m] # 0
      BY <1>1, <1>2, <2>1, <2>2, <3>1 DEF Ended
    <3>5. disposal'[m] = "done" \/ cleanup'[m] = "done" =>
            \A t \in Shells : shell[t].at = m => ~Runs(t)
      BY <1>2, <2>1, <2>2, <3>2 DEF Ended
    <3>. QED BY <2>2, <3>3, <3>4, <3>5 DEF Ended, Creating, Runs
  <2>3. CASE k # m
    BY <1>1, <1>2, <2>1, <2>3 DEF Ended, Creating, Runs
  <2>. QED BY <2>2, <2>3
<1>11. FreshInv'
  <2>. SUFFICES ASSUME NEW c \in Calls PROVE Fresh(c)'
    BY DEF FreshInv
  <2>1. Fresh(c)
    BY DEF ShellInv, FreshInv
  <2>2. cmd[c].shell # 0 => cmd[c].at \in Managers
    <3>1. cmd[c].shell # 0 => cmd[c].shell \in Shells
      BY DEF ShellInv, Types, CallTypes, Shells
    <3>. QED BY <3>1, CreatedAt DEF ShellInv, CreateInv, Holds
  <2>. QED BY <1>5, <2>1, <2>2 DEF Fresh
<1>. QED BY <1>6, <1>7, <1>8, <1>9, <1>10, <1>11 DEF ShellInv

\* A disposal begins: a creation that has not settled is aborted.
LEMMA DisposalBegins == ASSUME ShellInv, NEW m \in Managers, DisposeBegin(m) PROVE ShellInv'
<1>1. /\ UNCHANGED <<mode, checkers, line, cmd, shell, pending, live, closing, cleanup, ownerLive, fails>>
      /\ disposal[m] = "none" /\ disposal'[m] = "creating"
      /\ \A k \in Managers \ {m} : disposal'[k] = disposal[k]
      /\ disposal' \in [Managers -> {"none", "creating", "reset", "done"}]
  BY DEF DisposeBegin, ShellInv, Types, ManagerTypes
<1>2. ASSUME NEW t \in Shells, shell[t].step # "none", Aborted(t) PROVE Aborted(t)'
  <2>1. shell[t].at \in Managers
    BY <1>2, CreatedAt
  <2>. QED BY <1>1, <1>2, <2>1 DEF Aborted, Disposing
<1>3. Types' /\ LineInv' /\ CreateInv' /\ ModeInv' /\ FreshInv'
  BY SMTT(20), <1>1 DEF ShellInv, Types, ManagerTypes, LineInv, LineOf, Lined, CreateInv, Created, Holds,
              ModeInv, Runs, FreshInv, Fresh
<1>4. LiveInv'
  <2>1. ASSUME NEW k \in Managers PROVE LiveOf(k)' /\ Closes(k)'
    <3>1. LiveOf(k) /\ Closes(k)
      BY DEF ShellInv, LiveInv
    <3>2. disposal[k] = "reset" => disposal'[k] = "reset"
      BY <1>1
    <3>3. LiveOf(k)'
      BY <1>1, <3>1 DEF LiveOf
    <3>4. Closes(k)'
      BY <1>1, <3>1, <3>2 DEF Closes, Runs
    <3>. QED BY <3>3, <3>4
  <2>2. ASSUME NEW t \in Shells PROVE Published(t)'
    BY <1>1, <1>2 DEF ShellInv, LiveInv, Published, Runs
  <2>. QED BY <1>1, <2>1, <2>2 DEF ShellInv, LiveInv, Resetting
<1>5. EndInv'
  <2>. SUFFICES ASSUME NEW k \in Managers PROVE Ended(k)'
    BY DEF EndInv
  <2>. QED BY <1>1 DEF ShellInv, EndInv, Ended, Creating, Runs
<1>. QED BY <1>3, <1>4, <1>5 DEF ShellInv

\* The owner cleanup begins: the creations that have not settled are aborted.
LEMMA CleanupBegins == ASSUME ShellInv, NEW m \in Managers, CleanupBegin(m) PROVE ShellInv'
<1>1. /\ UNCHANGED <<mode, checkers, line, cmd, pending, live, closing, disposal, ownerLive, fails>>
      /\ cleanup[m] = "installed" /\ cleanup'[m] = "creating"
      /\ \A k \in Managers \ {m} : cleanup'[k] = cleanup[k]
      /\ cleanup' \in [Managers -> {"none", "installed", "creating", "reset", "done"}]
  BY DEF CleanupBegin, ShellInv, Types, ManagerTypes
<1>2. /\ shell' \in [Shells -> ShellTypes]
      /\ \A t \in Shells :
           /\ shell'[t].by = shell[t].by /\ shell'[t].at = shell[t].at
           /\ shell'[t].step = shell[t].step /\ shell'[t].proc = shell[t].proc
           /\ shell'[t].mode = shell[t].mode /\ shell'[t].failed = shell[t].failed
           /\ shell[t].cut => shell'[t].cut
  <2>. DEFINE cutoff == Creating(m)
  <2>1. shell' = [t \in Shells |-> IF t \in cutoff THEN [shell[t] EXCEPT !.cut = TRUE] ELSE shell[t]]
    BY DEF CleanupBegin
  <2>2. ASSUME NEW t \in Shells
        PROVE  LET q == [shell[t] EXCEPT !.cut = TRUE] IN
               /\ q \in ShellTypes /\ q.by = shell[t].by /\ q.at = shell[t].at
               /\ q.step = shell[t].step /\ q.proc = shell[t].proc
               /\ q.mode = shell[t].mode /\ q.failed = shell[t].failed /\ q.cut
    BY DEF ShellInv, Types, ShellTypes
  <2>3. \A t \in Shells : shell[t] \in ShellTypes
    BY DEF ShellInv, Types
  <2>. HIDE DEF cutoff
  <2>. QED BY <2>1, <2>2, <2>3
<1>3. \A t \in Shells : (Aborted(t) => Aborted(t)') /\ (Runs(t)' <=> Runs(t))
  BY <1>1, <1>2 DEF Aborted, Disposing, Runs
<1>4. Types' /\ LineInv' /\ FreshInv'
  BY SMTT(20), <1>1, <1>2 DEF ShellInv, Types, ManagerTypes, LineInv, LineOf, Lined, FreshInv, Fresh
<1>5. CreateInv'
  <2>1. ASSUME NEW t \in Shells PROVE Created(t)'
    BY <1>1, <1>2 DEF ShellInv, CreateInv, Created
  <2>2. ASSUME NEW d \in Calls PROVE Holds(d)'
    <3>1. Holds(d) /\ cmd' = cmd /\ cmd[d].shell \in 0..MaxShells
      BY <1>1 DEF ShellInv, CreateInv, Types, CallTypes
    <3>. QED BY <1>2, <3>1 DEF Holds, Shells
  <2>3. ASSUME NEW k \in Managers, pending'[k] # 0
        PROVE  shell'[pending'[k]].step # "none" /\ shell'[pending'[k]].at = k
    <3>1. pending' = pending /\ pending[k] \in Shells
      BY <1>1, <2>3 DEF ShellInv, Types, ManagerTypes, Shells
    <3>. QED BY <1>2, <2>3, <3>1 DEF ShellInv, CreateInv
  <2>. QED BY <2>1, <2>2, <2>3 DEF CreateInv
<1>6. \A k \in Managers : live[k] # 0 => live[k] \in Shells
  BY DEF ShellInv, Types, ManagerTypes, Shells
<1>7. LiveInv'
  <2>1. ASSUME NEW k \in Managers PROVE LiveOf(k)' /\ Closes(k)'
    <3>1. LiveOf(k) /\ Closes(k)
      BY DEF ShellInv, LiveInv
    <3>. QED BY <1>1, <1>2, <1>6, <3>1 DEF LiveOf, Closes, Runs
  <2>2. ASSUME NEW t \in Shells PROVE Published(t)'
    <3>1. Published(t)
      BY DEF ShellInv, LiveInv
    <3>2. CASE shell[t].step = "none"
      BY <1>2, <3>2 DEF Published, Runs, ShellInv, CreateInv, Created
    <3>3. CASE shell[t].step # "none"
      <4>1. shell[t].at \in Managers
        BY <3>3, CreatedAt
      <4>2. live[shell[t].at] # 0 /\ ~Runs(live[shell[t].at]) =>
              ~(shell'[live[shell[t].at]].proc = "open" /\ shell'[live[shell[t].at]].failed = "no")
        BY <1>2, <1>6, <4>1 DEF Runs
      <4>. QED BY <1>1, <1>2, <1>3, <3>1, <4>2 DEF Published, Runs
    <3>. QED BY <3>2, <3>3
  <2>. QED BY <1>1, <2>1, <2>2 DEF ShellInv, LiveInv, Resetting
<1>8. ModeInv'
  BY <1>1, <1>2, <1>3 DEF ShellInv, ModeInv
<1>9. EndInv'
  <2>. SUFFICES ASSUME NEW k \in Managers PROVE Ended(k)'
    BY DEF EndInv
  <2>1. Ended(k)
    BY DEF ShellInv, EndInv
  <2>2. Creating(k)' = Creating(k)
    BY <1>2 DEF Creating
  <2>. QED BY <1>1, <1>2, <1>3, <2>1, <2>2 DEF Ended
<1>. QED BY <1>4, <1>5, <1>7, <1>8, <1>9 DEF ShellInv

\* The fence is asked of every manager that ever made a shell.
LEMMA ModeChanges == ASSUME ShellInv, ChangeMode PROVE ShellInv'
<1>1. /\ UNCHANGED <<checkers, line, cmd, shell, pending, live, closing, disposal, cleanup, ownerLive, fails>>
      /\ mode' \in Modes /\ \A m \in checkers : ~HasActivity(m)
  BY DEF ChangeMode
<1>2. ASSUME NEW s \in Shells PROVE shell[s].step \notin Unsettled /\ ~Runs(s)
  <2>1. CASE shell[s].step = "none"
    BY <2>1 DEF ShellInv, CreateInv, Created, Runs, Unsettled
  <2>2. CASE shell[s].step # "none"
    <3>1. shell[s].at \in checkers
      BY <2>2 DEF ShellInv, CreateInv, Created
    <3>2. Creating(shell[s].at) = {} /\ live[shell[s].at] = 0
      BY <1>1, <3>1 DEF HasActivity
    <3>3. shell[s].step \notin Unsettled
      BY <2>2, <3>2, CreatedAt
    <3>4. Runs(s) => live[shell[s].at] = s
      BY <3>3 DEF ShellInv, LiveInv, Published, Unsettled
    <3>. QED BY <2>2, <3>2, <3>3, <3>4, CreatedAt
  <2>. QED BY <2>1, <2>2
<1>3. ModeInv'
  BY <1>1, <1>2 DEF ModeInv, Runs
<1>4. LiveInv' /\ EndInv'
  BY <1>1 DEF ShellInv, LiveInv, LiveOf, Closes, Published, Resetting, EndInv, Ended, Creating,
              Runs, Aborted, Disposing
<1>5. Types' /\ LineInv' /\ CreateInv' /\ FreshInv'
  BY <1>1 DEF ShellInv, Types, ManagerTypes, LineInv, LineOf, Lined, CreateInv, Created, Holds, FreshInv, Fresh
<1>. QED BY <1>3, <1>4, <1>5 DEF ShellInv

\* Steps that change no state of the sessions.
LEMMA Unmoved ==
  ASSUME ShellInv,
         UNCHANGED <<mode, checkers, line, cmd, shell, pending, live, closing, disposal, cleanup, fails>>,
         ownerLive' \in BOOLEAN
  PROVE  ShellInv'
<1>1. Types' /\ LineInv' /\ CreateInv' /\ FreshInv' /\ ModeInv'
  BY DEF ShellInv, Types, ManagerTypes, LineInv, LineOf, Lined, CreateInv, Created, Holds, FreshInv,
         Fresh, ModeInv, Runs
<1>2. LiveInv' /\ EndInv'
  BY DEF ShellInv, LiveInv, LiveOf, Closes, Published, Resetting, EndInv, Ended, Creating, Runs,
         Aborted, Disposing
<1>. QED BY <1>1, <1>2 DEF ShellInv

-----------------------------------------------------------------------------
(* Every step keeps the invariant.                                         *)

LEMMA AbortsGoOn ==
  ASSUME ShellInv, NEW c \in Calls, AbortCall(c) \/ Timeout(c) PROVE ShellInv'
<1>. DEFINE o == [cmd[c] EXCEPT !.cut = TRUE]
<1>1. cmd[c] \in CallTypes
  BY DEF ShellInv, Types
<1>2. /\ o \in CallTypes /\ o.at = cmd[c].at /\ o.pc = cmd[c].pc /\ o.shell = cmd[c].shell
      /\ o.out = cmd[c].out /\ o.cut
  BY <1>1 DEF CallTypes
<1>3. cmd' = [cmd EXCEPT ![c] = o] /\ SameShells /\ UNCHANGED <<line, ownerLive, fails>>
  BY DEF AbortCall, Timeout, SameShells
<1>. HIDE DEF o
<1>. QED BY <1>2, <1>3, GoesOn DEF Turns

LEMMA TurnsGoOn ==
  ASSUME ShellInv, NEW c \in Calls,
         \/ GetCached(c) \/ Send(c) \/ Pause(c)
         \/ GetSettles(c) /\ shell[cmd[c].shell].step = "ready"
  PROVE  ShellInv'
<1>1. cmd[c] \in CallTypes
  BY DEF ShellInv, Types
<1>2. SameShells /\ UNCHANGED <<line, ownerLive, fails>>
  BY DEF GetCached, Send, Pause, GetSettles, SameShells, command
<1>3. CASE GetCached(c)
  <2>. DEFINE o == [cmd[c] EXCEPT !.pc = "getting", !.shell = pending[cmd[c].at]]
  <2>1. cmd[c].at \in Managers /\ cmd[c].pc = "queued" /\ Head(line[cmd[c].at]) = c
        /\ pending[cmd[c].at] # 0 /\ pending[cmd[c].at] \in 0..MaxShells
    BY <1>3, First DEF GetCached, Turn, ShellInv, Types, ManagerTypes
  <2>2. /\ o \in CallTypes /\ o.at = cmd[c].at /\ o.pc = "getting" /\ o.shell = pending[cmd[c].at]
        /\ o.out = cmd[c].out /\ o.cut = cmd[c].cut
    BY <1>1, <2>1 DEF CallTypes
  <2>3. cmd' = [cmd EXCEPT ![c] = o]
    BY <1>3 DEF GetCached
  <2>. HIDE DEF o
  <2>4. Turns(c, o)
    BY <2>1, <2>2 DEF Turns
  <2>. QED BY <1>2, <2>2, <2>3, <2>4, GoesOn
<1>4. CASE ~GetCached(c)
  <2>1. PICK pc \in {"loop", "sent"} :
          /\ cmd' = [cmd EXCEPT ![c].pc = pc]
          /\ \/ cmd[c].pc \in {"loop", "sent"}
             \/ cmd[c].pc = "getting" /\ pc = "loop" /\ shell[cmd[c].shell].step = "ready"
    BY <1>4 DEF Send, Pause, GetSettles
  <2>. DEFINE o == [cmd[c] EXCEPT !.pc = pc]
  <2>2. /\ o \in CallTypes /\ o.at = cmd[c].at /\ o.pc = pc /\ o.shell = cmd[c].shell
        /\ o.out = cmd[c].out /\ o.cut = cmd[c].cut
    BY <1>1 DEF CallTypes
  <2>3. cmd' = [cmd EXCEPT ![c] = o]
    BY <2>1
  <2>. HIDE DEF o
  <2>4. Turns(c, o)
    BY <2>1, <2>2 DEF Turns, Unsettled
  <2>. QED BY <1>2, <2>2, <2>3, <2>4, GoesOn
<1>. QED BY <1>3, <1>4

\* A finished command, whose other fields stay.
LEMMA FinishedCall ==
  ASSUME ShellInv, NEW c \in Calls, NEW out \in Outs
  PROVE  LET o == Finished(cmd[c], out) IN
         /\ o \in CallTypes /\ o.at = cmd[c].at /\ o.pc = "done" /\ o.shell = cmd[c].shell
         /\ o.cut = cmd[c].cut /\ o.out = out
<1>1. cmd[c] \in CallTypes
  BY DEF ShellInv, Types
<1>. QED BY <1>1 DEF CallTypes, Finished

LEMMA TurnsEnd ==
  ASSUME ShellInv, NEW c \in Calls,
         \/ Refuse(c) \/ Answered(c)
         \/ GetSettles(c) /\ shell[cmd[c].shell].step = "failed"
  PROVE  ShellInv'
<1>1. PICK out \in {"failed", "answer"} : cmd' = [cmd EXCEPT ![c] = Finished(cmd[c], out)] /\ Leave(c)
  BY DEF Refuse, Answered, GetSettles
<1>2. AtTurn(c)
  BY DEF Refuse, Answered, GetSettles, AtTurn, Turn, Unsettled
<1>3. Outside /\ pending' = pending /\ closing' = closing
  BY DEF Refuse, Answered, GetSettles, Outside, command
<1>4. pending' = [pending EXCEPT ![cmd[c].at] = pending[cmd[c].at]]
  BY <1>3 DEF ShellInv, Types, ManagerTypes
<1>. DEFINE o == Finished(cmd[c], out)
<1>5. /\ o \in CallTypes /\ o.at = cmd[c].at /\ o.pc = "done" /\ o.shell = cmd[c].shell
      /\ o.cut = cmd[c].cut /\ o.out = out
  BY FinishedCall DEF Outs
<1>. HIDE DEF o
<1>6. cmd' = [cmd EXCEPT ![c] = o] /\ Leave(c)
  BY <1>1 DEF o
<1>. QED BY <1>2, <1>3, <1>4, <1>5, <1>6, TurnEnds

LEMMA TurnsReset ==
  ASSUME ShellInv, NEW c \in Calls, SeesExit(c) \/ SendFails(c) \/ Interrupted(c)
  PROVE  ShellInv'
<1>. DEFINE m == cmd[c].at
<1>1. PICK out \in {"reset", "failed"} : ResetThen(c, out)
  BY DEF SeesExit, SendFails, Interrupted
<1>2. cmd[c].pc \in {"loop", "sent"} /\ AtTurn(c)
  BY DEF SeesExit, SendFails, Interrupted, AtTurn
<1>3. Outside /\ m \in Managers
  BY <1>2, First DEF SeesExit, SendFails, Interrupted, Outside, command, ShellInv, Active
<1>4. CASE live[m] = 0
  <2>. DEFINE o == Finished(cmd[c], out)
  <2>1. /\ o \in CallTypes /\ o.at = cmd[c].at /\ o.pc = "done" /\ o.shell = cmd[c].shell
        /\ o.cut = cmd[c].cut /\ o.out = out
    BY FinishedCall DEF Outs
  <2>2. cmd' = [cmd EXCEPT ![c] = o] /\ Leave(c)
    BY <1>1, <1>4 DEF ResetThen
  <2>3. pending' = [pending EXCEPT ![m] = 0] /\ closing' = closing
    BY <1>1, <1>3, <1>4 DEF ResetThen, Reset, ShellInv, Types, ManagerTypes
  <2>. HIDE DEF o
  <2>4. cmd[c].pc \in Active
    BY <1>2 DEF Active
  <2>5. PICK x \in {pending[m], 0} : x = 0
    OBVIOUS
  <2>. QED BY <1>2, <1>3, <1>4, <2>1, <2>2, <2>3, <2>4, <2>5, TurnEnds
<1>5. CASE live[m] # 0
  <2>. DEFINE o == [cmd[c] EXCEPT !.pc = "reset", !.then = out]
  <2>1. cmd[c] \in CallTypes
    BY DEF ShellInv, Types
  <2>2. /\ o \in CallTypes /\ o.at = cmd[c].at /\ o.pc = "reset" /\ o.shell = cmd[c].shell
        /\ o.cut = cmd[c].cut /\ o.out = cmd[c].out
    BY <2>1 DEF CallTypes, Outs
  <2>3. cmd' = [cmd EXCEPT ![c] = o] /\ UNCHANGED line /\ Reset(m)
    BY <1>1, <1>5 DEF ResetThen
  <2>. HIDE DEF o
  <2>. QED BY <1>2, <1>3, <1>5, <2>2, <2>3, TurnResets
<1>. QED BY <1>4, <1>5

LEMMA CallSteps ==
  ASSUME ShellInv, NEW c \in Calls,
         Issue(c) \/ AbortCall(c) \/ Timeout(c) \/ CallStep(c) \/ Pause(c)
  PROVE  ShellInv'
<1>1. GetSettles(c) => shell[cmd[c].shell].step \in {"ready", "failed"}
  BY DEF GetSettles
<1>. QED BY <1>1, Issues, AbortsGoOn, TurnsGoOn, TurnsEnd, TurnsReset, Reserves DEF CallStep

LEMMA CreationSteps ==
  ASSUME ShellInv, NEW s \in Shells, CreationStep(s) \/ ShellExits(s) PROVE ShellInv'
<1>1. shell[s] \in ShellTypes /\ fails \in 0..MaxFails
  BY DEF ShellInv, Types
<1>2. CASE Confined(s) \/ Spawned(s) \/ StartupFails(s) \/ InitDone(s) \/ ShellExits(s)
  <2>1. PICK r \in ShellTypes : /\ shell' = [shell EXCEPT ![s] = r] /\ Moves(s, r)
                                /\ r.by = shell[s].by /\ r.at = shell[s].at /\ r.mode = shell[s].mode
                                /\ r.cut = shell[s].cut /\ r.failed = shell[s].failed
    <3>1. CASE Confined(s)
      <4>. DEFINE r == [shell[s] EXCEPT !.step = "spawn"]
      <4>1. shell' = [shell EXCEPT ![s] = r] /\ shell[s].step = "confine" /\ ~Aborted(s)
        BY <3>1 DEF Confined
      <4>2. r \in ShellTypes /\ r.step = "spawn" /\ r.proc = shell[s].proc /\ r.by = shell[s].by
            /\ r.at = shell[s].at /\ r.mode = shell[s].mode /\ r.cut = shell[s].cut
            /\ r.failed = shell[s].failed
        BY <1>1 DEF ShellTypes
      <4>. HIDE DEF r
      <4>. QED BY <4>1, <4>2 DEF Moves
    <3>2. CASE Spawned(s)
      <4>. DEFINE r == [shell[s] EXCEPT !.step = "startup", !.proc = "open"]
      <4>1. shell' = [shell EXCEPT ![s] = r] /\ shell[s].step = "spawn"
        BY <3>2 DEF Spawned
      <4>2. r \in ShellTypes /\ r.step = "startup" /\ r.proc = "open" /\ r.by = shell[s].by
            /\ r.at = shell[s].at /\ r.mode = shell[s].mode /\ r.cut = shell[s].cut
            /\ r.failed = shell[s].failed
        BY <1>1 DEF ShellTypes
      <4>. HIDE DEF r
      <4>. QED BY <4>1, <4>2 DEF Moves
    <3>3. CASE StartupFails(s)
      <4>. DEFINE r == [shell[s] EXCEPT !.step = "cleanup"]
      <4>1. shell' = [shell EXCEPT ![s] = r] /\ shell[s].step = "startup"
        BY <3>3 DEF StartupFails
      <4>2. r \in ShellTypes /\ r.step = "cleanup" /\ r.proc = shell[s].proc /\ r.by = shell[s].by
            /\ r.at = shell[s].at /\ r.mode = shell[s].mode /\ r.cut = shell[s].cut
            /\ r.failed = shell[s].failed
        BY <1>1 DEF ShellTypes
      <4>. HIDE DEF r
      <4>. QED BY <4>1, <4>2 DEF Moves
    <3>4. CASE InitDone(s)
      <4>. DEFINE r == [shell[s] EXCEPT !.step = "ready"]
      <4>1. shell' = [shell EXCEPT ![s] = r] /\ shell[s].step = "init"
        BY <3>4 DEF InitDone
      <4>2. r \in ShellTypes /\ r.step = "ready" /\ r.proc = shell[s].proc /\ r.by = shell[s].by
            /\ r.at = shell[s].at /\ r.mode = shell[s].mode /\ r.cut = shell[s].cut
            /\ r.failed = shell[s].failed
        BY <1>1 DEF ShellTypes
      <4>. HIDE DEF r
      <4>. QED BY <4>1, <4>2 DEF Moves
    <3>5. CASE ShellExits(s)
      <4>. DEFINE r == [shell[s] EXCEPT !.proc = "exited"]
      <4>1. shell' = [shell EXCEPT ![s] = r] /\ Runs(s)
        BY <3>5 DEF ShellExits, Runs
      <4>2. r \in ShellTypes /\ r.step = shell[s].step /\ r.proc = "exited" /\ r.by = shell[s].by
            /\ r.at = shell[s].at /\ r.mode = shell[s].mode /\ r.cut = shell[s].cut
            /\ r.failed = shell[s].failed
        BY <1>1 DEF ShellTypes
      <4>. HIDE DEF r
      <4>. QED BY <4>1, <4>2 DEF Moves
    <3>. QED BY <1>2, <3>1, <3>2, <3>3, <3>4, <3>5
  <2>2. UNCHANGED <<creation, pending, live, closing, fails>>
    BY <1>2 DEF Confined, Spawned, StartupFails, InitDone, ShellExits
  <2>. QED BY <2>1, <2>2, ProcessMoves
<1>3. CASE StartupDone(s)
  BY <1>3, Publishes
<1>4. CASE SpawnFails(s) \/ InitFails(s)
  <2>1. Fail(s, shell[s]) /\ UNCHANGED <<creation, live>> /\ fails' \in 0..MaxFails
        /\ shell[s].step \in {"confine", "spawn", "init"}
    BY <1>1, <1>4 DEF SpawnFails, InitFails
  <2>. QED BY <1>1, <2>1, Fails
<1>5. CASE CleanupOk(s) \/ CleanupFails(s)
  <2>1. PICK r \in ShellTypes : /\ Fail(s, r) /\ ~(r.proc = "open" /\ r.failed = "no")
                                /\ r.by = shell[s].by /\ r.at = shell[s].at /\ r.mode = shell[s].mode
                                /\ r.cut = shell[s].cut
    <3>1. CASE CleanupOk(s)
      <4>. DEFINE r == [shell[s] EXCEPT !.proc = "closed"]
      <4>1. Fail(s, r)
        BY <3>1 DEF CleanupOk
      <4>2. r \in ShellTypes /\ r.proc = "closed" /\ r.by = shell[s].by
            /\ r.at = shell[s].at /\ r.mode = shell[s].mode /\ r.cut = shell[s].cut
        BY <1>1 DEF ShellTypes
      <4>. HIDE DEF r
      <4>. QED BY <4>1, <4>2
    <3>2. CASE CleanupFails(s)
      <4>. DEFINE r == [shell[s] EXCEPT !.failed = "startup"]
      <4>1. Fail(s, r)
        BY <3>2 DEF CleanupFails
      <4>2. r \in ShellTypes /\ r.failed = "startup" /\ r.by = shell[s].by
            /\ r.at = shell[s].at /\ r.mode = shell[s].mode /\ r.cut = shell[s].cut
        BY <1>1 DEF ShellTypes
      <4>. HIDE DEF r
      <4>. QED BY <4>1, <4>2
    <3>. QED BY <1>5, <3>1, <3>2
  <2>2. UNCHANGED <<creation, live>> /\ fails' \in 0..MaxFails /\ shell[s].step = "cleanup"
    BY <1>1, <1>5 DEF CleanupOk, CleanupFails
  <2>. QED BY <2>1, <2>2, Fails
<1>. QED BY <1>2, <1>3, <1>4, <1>5 DEF CreationStep

LEMMA ManagerSteps ==
  ASSUME ShellInv, NEW m \in Managers, ManagerStep(m) \/ DisposeBegin(m) PROVE ShellInv'
<1>1. CASE CloseOk(m)
  <2>1. PICK ok \in BOOLEAN : ok
    OBVIOUS
  <2>2. Settle(m, ok) /\ fails' \in 0..MaxFails /\ live' = IF ok THEN [live EXCEPT ![m] = 0] ELSE live
    <3>1. ok = TRUE
      BY <2>1
    <3>. QED BY <1>1, <3>1 DEF CloseOk, ShellInv, Types
  <2>. QED BY <2>2, Settles
<1>2. CASE CloseFails(m)
  <2>1. PICK ok \in BOOLEAN : ~ok
    OBVIOUS
  <2>2. Settle(m, ok) /\ fails' \in 0..MaxFails /\ live' = IF ok THEN [live EXCEPT ![m] = 0] ELSE live
    <3>1. ok = FALSE
      BY <2>1
    <3>2. fails' \in 0..MaxFails
      BY <1>2 DEF CloseFails, ShellInv, Types
    <3>. QED BY <1>2, <3>1, <3>2 DEF CloseFails
  <2>. QED BY <2>2, Settles
<1>3. CASE DisposeReset(m)
  BY <1>3, ManagerResets DEF DisposeReset, SpawnsSettled
<1>4. CASE CleanupReset(m)
  BY <1>4, ManagerResets DEF CleanupReset, SpawnsSettled
<1>. QED BY <1>1, <1>2, <1>3, <1>4, CleanupBegins, DisposalBegins DEF ManagerStep

LEMMA NextShells == ShellInv /\ [Next]_vars => ShellInv'
<1>. SUFFICES ASSUME ShellInv, [Next]_vars PROVE ShellInv'
  OBVIOUS
<1>1. OwnerDisposed => ShellInv'
  BY Unmoved DEF OwnerDisposed
<1>2. Quiet \/ UNCHANGED vars => ShellInv'
  <2>1. ownerLive \in BOOLEAN
    BY DEF ShellInv, Types
  <2>. QED BY <2>1, Unmoved DEF Quiet, vars
<1>. QED BY <1>1, <1>2, CallSteps, CreationSteps, ManagerSteps, ModeChanges DEF Next

-----------------------------------------------------------------------------
(* The sessions in the program's run.                                      *)

\* Only a step of the sessions changes them.
LEMMA ShellsStep == [AllNext]_all => [Next]_vars
BY DEF AllNext, all, vars

\* The inductive invariant.
THEOREM ShellsKeep == AllSpec => []ShellInv
<1>1. AllInit => ShellInv
  BY InitShells DEF AllInit
<1>2. ShellInv /\ [AllNext]_all => ShellInv'
  BY NextShells, ShellsStep
<1>. QED BY <1>1, <1>2, PTL DEF AllSpec

\* A shell runs under the sandbox mode its agent's session has now, from the
\* confinement of its command line to its close (ensureSandboxModeFence,
\* hasActivity).
THEOREM ModeHolds == AllSpec => []ModeFenced
<1>1. ShellInv => ModeFenced
  BY DEF ShellInv, ModeInv, ModeFenced, Runs
<1>. QED BY <1>1, ShellsKeep, PTL

\* Nothing of a manager runs after its disposal or its agent's cleanup has
\* returned, and no later command gets the shell of one that was told of a
\* reset (dispose, ensureOwnerCleanup, reset).
THEOREM SessionsSound == AllSpec => []ShellsSound
<1>1. ShellInv => GoneAfterwards
  <2>. SUFFICES ASSUME ShellInv, NEW s \in Shells, Runs(s)
                PROVE  disposal[shell[s].at] # "done" /\ cleanup[shell[s].at] # "done"
    BY DEF GoneAfterwards, Runs
  <2>1. shell[s].at \in Managers
    BY CreatedAt DEF ShellInv, CreateInv, Created, Runs
  <2>. QED BY <2>1 DEF ShellInv, EndInv, Ended
<1>2. ShellInv => ResetMeansFresh
  BY DEF ShellInv, FreshInv, Fresh, ResetMeansFresh
<1>3. ShellInv => ShellsSound
  BY <1>1, <1>2, TypesHold DEF ShellsSound
<1>. QED BY <1>3, ShellsKeep, PTL

-----------------------------------------------------------------------------
(* One call of the one-shot tool.                                          *)

\* The mode a call carries, and the one its process runs in.
Carries ==
  /\ tool_pc \in {"idle", "approval", "go"} =>
       tool_proc = "none" /\ tool_job = "none" /\ tool_granted \in {0, tool_policy}
  /\ tool_pc \in {"idle", "approval"} => tool_granted = 0
  /\ tool_confines /\ tool_pc = "approval" => tool_policy = tool_asked /\ tool_args.wants # 0
  /\ tool_confines /\ (tool_pc \in {"go", "waits"} \/ tool_proc # "none") =>
       tool_policy = tool_asked \/ (tool_granted # 0 /\ tool_policy = tool_granted)
  /\ tool_proc \in {"runs", "exited", "killed", "expired"} => tool_ran = tool_policy

\* The job, its controller and the handle it holds.
JobTold ==
  /\ tool_cancelled \/ tool_adopted => tool_job # "none"
  /\ tool_job # "none" => tool_proc \notin {"none", "expired"}
  /\ tool_adopted => tool_proc \in {"runs", "exited", "killed"}
  /\ tool_cancelled /\ tool_adopted => tool_kills # "none"
  /\ tool_kills # "none" => tool_cancelled
  /\ tool_job # "none" /\ tool_proc = "killed" => tool_cancelled
  /\ Tool!Settled => tool_proc \notin {"preparing", "runs"}
  /\ tool_job = "killed" => tool_cancelled
  /\ tool_job = "completed" => tool_proc = "exited"

OneShotInv == Tool!TypeOK /\ Carries /\ JobTold

LEMMA InitOneShot == Tool!Init => OneShotInv
<1>. SUFFICES ASSUME Tool!Init PROVE OneShotInv
  OBVIOUS
<1>1. Tool!TypeOK
  <2>1. tool_aborted \in BOOLEAN /\ tool_cancelled \in BOOLEAN /\ tool_adopted \in BOOLEAN
    BY DEF Tool!Init
  <2>2. tool_switches \in 0..2
    BY DEF Tool!Init
  <2>3. /\ tool_confines \in BOOLEAN /\ tool_jobs \in BOOLEAN /\ tool_standing \in Tool!ToolModes
        /\ tool_args \in Tool!Args /\ tool_asked \in Tool!ToolModes
    BY DEF Tool!Init
  <2>4. tool_policy = 0 /\ tool_granted = 0 /\ tool_ran = 0 /\ tool_pc = "idle" /\ tool_job = "none"
        /\ tool_kills = "none" /\ tool_proc = "none" /\ tool_answer = "none"
    BY DEF Tool!Init
  <2>. QED BY <2>1, <2>2, <2>3, <2>4 DEF Tool!TypeOK
<1>2. Carries
  BY DEF Tool!Init, Carries
<1>3. JobTold
  BY DEF Tool!Init, JobTold, Tool!Settled
<1>. QED BY <1>1, <1>2, <1>3 DEF OneShotInv

LEMMA NextOneShot == OneShotInv /\ [Tool!Next]_tool_vars => OneShotInv'
<1>. SUFFICES ASSUME OneShotInv, [Tool!Next]_tool_vars PROVE OneShotInv'
  OBVIOUS
<1>. USE DEF OneShotInv, Tool!TypeOK, Carries, JobTold, Tool!Settled, Tool!world, Tool!work,
             Tool!Answer, Tool!ToolModes
<1>1. CASE Tool!Execute
  BY <1>1 DEF Tool!Execute, Tool!Args
<1>2. CASE Tool!Approval
  BY <1>2 DEF Tool!Approval, Tool!Widened, Tool!Args
<1>3. CASE Tool!Background
  BY <1>3 DEF Tool!Background
<1>4. CASE Tool!Foreground
  BY <1>4 DEF Tool!Foreground
<1>5. CASE Tool!ForegroundEnds
  BY <1>5 DEF Tool!ForegroundEnds
<1>6. CASE Tool!Cancel
  BY <1>6 DEF Tool!Cancel
<1>7. CASE Tool!Adopt
  BY <1>7 DEF Tool!Adopt, Tool!MadeGood
<1>8. CASE Tool!Unstarted
  BY <1>8 DEF Tool!Unstarted
<1>9. CASE Tool!SettleJob
  BY <1>9 DEF Tool!SettleJob, Tool!Over
<1>10. CASE Tool!Publish
  BY <1>10 DEF Tool!Publish
<1>11. CASE Tool!Rejects
  BY <1>11 DEF Tool!Rejects
<1>12. CASE Tool!Exits
  BY <1>12 DEF Tool!Exits, Tool!Signalled
<1>13. CASE Tool!Switch
  BY <1>13 DEF Tool!Switch
<1>14. CASE Tool!Abort
  BY <1>14 DEF Tool!Abort
<1>15. CASE Tool!Ended \/ UNCHANGED tool_vars
  BY <1>15 DEF Tool!Ended, Tool!vars, tool_vars
<1>. QED BY <1>1, <1>2, <1>3, <1>4, <1>5, <1>6, <1>7, <1>8, <1>9, <1>10, <1>11, <1>12, <1>13,
            <1>14, <1>15 DEF Tool!Next

\* A confined command runs in the mode the session had when it was called or
\* in the one its user granted, and a job tells what became of its process,
\* whenever it is cancelled (execute, processJob).
THEOREM CommandsKept == AllSpec => []CommandsConfined
<1>1. AllInit => OneShotInv
  BY InitOneShot DEF AllInit
<1>2. OneShotInv /\ [AllNext]_all => OneShotInv'
  BY NextOneShot DEF AllNext, all, tool_vars
<1>3. OneShotInv => CommandsConfined
  BY DEF OneShotInv, Carries, JobTold, CommandsConfined, Tool!NeverWider, Tool!JobsTell
<1>. QED BY <1>1, <1>2, <1>3, PTL DEF AllSpec
---------------------------------------------------------------------------
(* The policy: its theorem, carried over.                                  *)

PolicyP == INSTANCE FishPolicyProofs WITH
  Agents <- {a1, a2}, Presets <- PresetNames, Bash <- BashForms,
  Fish <- ShowsFish, Stubborn <- StubbornSecond,
  MaxEvents <- 4, MaxMeddles <- 1,
  preset <- policy_preset, listed <- policy_listed, known <- policy_known,
  mounted <- policy_mounted, regs <- policy_regs, own <- policy_own,
  live <- policy_live, installing <- policy_installing,
  removed <- policy_removed, reconciling <- policy_reconciling,
  again <- policy_again, stack <- policy_stack, events <- policy_events,
  meddles <- policy_meddles, missed <- policy_missed

LEMMA PolicyBehaves == AllSpec => PolicyP!Spec
<1>1. AllInit => PolicyP!Init
  BY DEF AllInit, Policy!Init, PolicyP!Init,
       Policy!Regs, PolicyP!Regs, Policy!Nothing, PolicyP!Nothing, Policy!P, PolicyP!P,
       Policy!Policies, PolicyP!Policies, Policy!ToSet, PolicyP!ToSet
<1>2. Policy!Next => PolicyP!Next
  <2>1. Policy!Probe => PolicyP!Probe
    BY DEF
       Policy!Probe, PolicyP!Probe, Policy!Top, PolicyP!Top, Policy!Last, PolicyP!Last,
       Policy!Comes, PolicyP!Comes, Policy!Works, PolicyP!Works, Policy!Is, PolicyP!Is,
       Policy!Below, PolicyP!Below, Policy!Front, PolicyP!Front, Policy!SeesBash, PolicyP!SeesBash,
       Policy!SeesFish, PolicyP!SeesFish, Policy!Wanted, PolicyP!Wanted, Policy!host, PolicyP!host, Policy!outer, PolicyP!outer,
       Policy!guards, PolicyP!guards
  <2>2. Policy!Add => PolicyP!Add
    BY DEF
       Policy!Add, PolicyP!Add, Policy!Top, PolicyP!Top, Policy!Last, PolicyP!Last,
       Policy!Works, PolicyP!Works, Policy!Is, PolicyP!Is, Policy!Refused, PolicyP!Refused,
       Policy!Below, PolicyP!Below, Policy!Front, PolicyP!Front, Policy!Change, PolicyP!Change,
       Policy!Notify, PolicyP!Notify, Policy!Policies, PolicyP!Policies, Policy!host, PolicyP!host, Policy!outer, PolicyP!outer,
       Policy!guards, PolicyP!guards
  <2>3. Policy!AddRefused => PolicyP!AddRefused
    BY DEF
       Policy!AddRefused, PolicyP!AddRefused, Policy!Top, PolicyP!Top, Policy!Last, PolicyP!Last,
       Policy!Works, PolicyP!Works, Policy!Is, PolicyP!Is, Policy!Refused, PolicyP!Refused,
       Policy!Below, PolicyP!Below, Policy!Front, PolicyP!Front,
       Policy!RolledBack, PolicyP!RolledBack, Policy!Reverse, PolicyP!Reverse,
       Policy!host, PolicyP!host, Policy!outer, PolicyP!outer, Policy!guards, PolicyP!guards
  <2>4. Policy!Drop => PolicyP!Drop
    BY DEF
       Policy!Drop, PolicyP!Drop, Policy!Top, PolicyP!Top, Policy!Last, PolicyP!Last,
       Policy!Works, PolicyP!Works, Policy!Is, PolicyP!Is, Policy!Below, PolicyP!Below,
       Policy!Front, PolicyP!Front, Policy!Change, PolicyP!Change, Policy!Notify, PolicyP!Notify,
       Policy!Policies, PolicyP!Policies, Policy!host, PolicyP!host, Policy!outer, PolicyP!outer, Policy!guards, PolicyP!guards
  <2>5. Policy!Uninstalled => PolicyP!Uninstalled
    BY DEF
       Policy!Uninstalled, PolicyP!Uninstalled, Policy!Comes, PolicyP!Comes,
       Policy!Works, PolicyP!Works, Policy!Is, PolicyP!Is, Policy!Top, PolicyP!Top,
       Policy!Last, PolicyP!Last, Policy!Below, PolicyP!Below, Policy!Front, PolicyP!Front,
       Policy!host, PolicyP!host, Policy!outer, PolicyP!outer, Policy!guards, PolicyP!guards
  <2>6. Policy!Installed => PolicyP!Installed
    BY DEF
       Policy!Installed, PolicyP!Installed, Policy!Top, PolicyP!Top, Policy!Last, PolicyP!Last,
       Policy!Comes, PolicyP!Comes, Policy!Works, PolicyP!Works, Policy!Is, PolicyP!Is,
       Policy!Reverse, PolicyP!Reverse, Policy!Nothing, PolicyP!Nothing,
       Policy!Below, PolicyP!Below, Policy!Front, PolicyP!Front, Policy!host, PolicyP!host, Policy!outer, PolicyP!outer
  <2>7. Policy!RoundInstalls => PolicyP!RoundInstalls
    BY DEF
       Policy!RoundInstalls, PolicyP!RoundInstalls, Policy!Top, PolicyP!Top,
       Policy!Last, PolicyP!Last, Policy!Is, PolicyP!Is, Policy!CallInstall, PolicyP!CallInstall,
       Policy!Skips, PolicyP!Skips, Policy!Nothing, PolicyP!Nothing, Policy!Below, PolicyP!Below,
       Policy!Front, PolicyP!Front, Policy!Work, PolicyP!Work, Policy!host, PolicyP!host, Policy!outer, PolicyP!outer
  <2>8. Policy!RoundEnds => PolicyP!RoundEnds
    BY DEF
       Policy!RoundEnds, PolicyP!RoundEnds, Policy!Top, PolicyP!Top, Policy!Last, PolicyP!Last,
       Policy!Is, PolicyP!Is, Policy!More, PolicyP!More, Policy!Below, PolicyP!Below,
       Policy!Front, PolicyP!Front, Policy!Round, PolicyP!Round, Policy!SetToSeq, PolicyP!SetToSeq,
       Policy!IsInjective, PolicyP!IsInjective, Policy!Cardinality, PolicyP!Cardinality,
       Policy!host, PolicyP!host, Policy!outer, PolicyP!outer
  <2>9. Policy!Unheard => PolicyP!Unheard
    BY DEF
       Policy!Unheard, PolicyP!Unheard, Policy!Is, PolicyP!Is, Policy!Top, PolicyP!Top,
       Policy!Last, PolicyP!Last, Policy!Below, PolicyP!Below, Policy!Front, PolicyP!Front,
       Policy!Heard, PolicyP!Heard, Policy!guards, PolicyP!guards
  <2>10. Policy!OnChange => PolicyP!OnChange
    BY DEF
       Policy!OnChange, PolicyP!OnChange, Policy!Top, PolicyP!Top, Policy!Last, PolicyP!Last,
       Policy!Is, PolicyP!Is, Policy!Below, PolicyP!Below, Policy!Front, PolicyP!Front,
       Policy!Heard, PolicyP!Heard, Policy!Round, PolicyP!Round, Policy!SetToSeq, PolicyP!SetToSeq,
       Policy!IsInjective, PolicyP!IsInjective, Policy!Cardinality, PolicyP!Cardinality,
       Policy!host, PolicyP!host, Policy!outer, PolicyP!outer
  <2>11. Policy!OnCreated => PolicyP!OnCreated
    BY DEF
       Policy!OnCreated, PolicyP!OnCreated, Policy!Top, PolicyP!Top, Policy!Last, PolicyP!Last,
       Policy!Is, PolicyP!Is, Policy!CallInstall, PolicyP!CallInstall, Policy!Skips, PolicyP!Skips,
       Policy!Nothing, PolicyP!Nothing, Policy!Below, PolicyP!Below, Policy!Front, PolicyP!Front,
       Policy!Work, PolicyP!Work, Policy!Heard, PolicyP!Heard, Policy!host, PolicyP!host, Policy!outer, PolicyP!outer
  <2>12. Policy!OnDisposed => PolicyP!OnDisposed
    BY DEF
       Policy!OnDisposed, PolicyP!OnDisposed, Policy!Top, PolicyP!Top, Policy!Last, PolicyP!Last,
       Policy!Is, PolicyP!Is, Policy!CallUninstall, PolicyP!CallUninstall,
       Policy!Nothing, PolicyP!Nothing, Policy!Below, PolicyP!Below, Policy!Front, PolicyP!Front,
       Policy!Work, PolicyP!Work, Policy!Heard, PolicyP!Heard, Policy!host, PolicyP!host, Policy!outer, PolicyP!outer
  <2>13. Policy!TeardownAgent => PolicyP!TeardownAgent
    BY DEF
       Policy!TeardownAgent, PolicyP!TeardownAgent, Policy!Top, PolicyP!Top,
       Policy!Last, PolicyP!Last, Policy!Is, PolicyP!Is,
       Policy!CallUninstall, PolicyP!CallUninstall, Policy!Nothing, PolicyP!Nothing,
       Policy!Below, PolicyP!Below, Policy!Front, PolicyP!Front, Policy!Work, PolicyP!Work,
       Policy!host, PolicyP!host, Policy!outer, PolicyP!outer
  <2>14. Policy!TeardownEnds => PolicyP!TeardownEnds
    BY DEF
       Policy!TeardownEnds, PolicyP!TeardownEnds, Policy!Is, PolicyP!Is, Policy!Top, PolicyP!Top,
       Policy!Last, PolicyP!Last, Policy!Below, PolicyP!Below, Policy!Front, PolicyP!Front,
       Policy!host, PolicyP!host, Policy!outer, PolicyP!outer, Policy!guards, PolicyP!guards
  <2>15. Policy!Meddle => PolicyP!Meddle
    BY DEF
       Policy!Meddle, PolicyP!Meddle, Policy!PassedBy, PolicyP!PassedBy,
       Policy!BegunFor, PolicyP!BegunFor, Policy!ToSet, PolicyP!ToSet,
       Policy!Is, PolicyP!Is, Policy!Top, PolicyP!Top,
       Policy!Last, PolicyP!Last, Policy!Change, PolicyP!Change, Policy!Notify, PolicyP!Notify,
       Policy!Policies, PolicyP!Policies, Policy!guards, PolicyP!guards
  <2>16. Policy!Idle => PolicyP!Idle
    BY DEF
       Policy!Idle, PolicyP!Idle, Policy!vars, PolicyP!vars
  <2>17. Policy!RegisterTerminals => PolicyP!RegisterTerminals
    BY DEF
       Policy!RegisterTerminals, PolicyP!RegisterTerminals, Policy!Event, PolicyP!Event,
       Policy!Change, PolicyP!Change, Policy!Notify, PolicyP!Notify,
       Policy!Policies, PolicyP!Policies
  <2>18. ASSUME NEW p PROVE Policy!Mount(p) => PolicyP!Mount(p)
    BY DEF
       Policy!Mount, PolicyP!Mount, Policy!Event, PolicyP!Event, Policy!Round, PolicyP!Round,
       Policy!SetToSeq, PolicyP!SetToSeq, Policy!IsInjective, PolicyP!IsInjective,
       Policy!Cardinality, PolicyP!Cardinality
  <2>19. ASSUME NEW p PROVE Policy!Unmount(p) => PolicyP!Unmount(p)
    BY DEF
       Policy!Unmount, PolicyP!Unmount, Policy!Event, PolicyP!Event,
       Policy!Teardown, PolicyP!Teardown, Policy!SetToSeq, PolicyP!SetToSeq,
       Policy!IsInjective, PolicyP!IsInjective, Policy!Cardinality, PolicyP!Cardinality
  <2>20. ASSUME NEW a PROVE Policy!Publish(a) => PolicyP!Publish(a)
    BY DEF
       Policy!Publish, PolicyP!Publish, Policy!Event, PolicyP!Event, Policy!P, PolicyP!P,
       Policy!ToSet, PolicyP!ToSet, Policy!Policies, PolicyP!Policies,
       Policy!Notify, PolicyP!Notify
  <2>21. ASSUME NEW a PROVE Policy!Dispose(a) => PolicyP!Dispose(a)
    BY DEF
       Policy!Dispose, PolicyP!Dispose, Policy!Event, PolicyP!Event, Policy!Notify, PolicyP!Notify,
       Policy!Policies, PolicyP!Policies
  <2>22. ASSUME NEW a PROVE Policy!SwitchPreset(a) => PolicyP!SwitchPreset(a)
    BY DEF
       Policy!SwitchPreset, PolicyP!SwitchPreset, Policy!Event, PolicyP!Event,
       Policy!Change, PolicyP!Change, Policy!Notify, PolicyP!Notify,
       Policy!Policies, PolicyP!Policies
  <2> QED BY <2>1, <2>2, <2>3, <2>4, <2>5, <2>6, <2>7, <2>8, <2>9, <2>10, <2>11, <2>12, <2>13, <2>14, <2>15, <2>16, <2>17, <2>18, <2>19, <2>20, <2>21, <2>22
       DEF Policy!Next, PolicyP!Next, Policy!Step, PolicyP!Step, Policy!P, PolicyP!P,
           Policy!Policies, PolicyP!Policies, Policy!ToSet, PolicyP!ToSet
<1>3. [AllNext]_all => [PolicyP!Next]_(PolicyP!vars)
  BY <1>2 DEF AllNext, all, policy_vars, PolicyP!vars
<1> QED BY <1>1, <1>3, PTL DEF AllSpec, PolicyP!Spec

LEMMA PolicyConfigured == PolicyP!Configured
<1>1. PolicyP!IsFiniteSet({a1, a2})
  <2>1. PolicyP!IsFiniteSet({})
    BY PolicyP!FS_EmptySet
  <2>2. PolicyP!IsFiniteSet({} \cup {a1})
    BY <2>1, PolicyP!FS_AddElement
  <2>3. PolicyP!IsFiniteSet(({} \cup {a1}) \cup {a2})
    BY <2>2, PolicyP!FS_AddElement
  <2>4. ({} \cup {a1}) \cup {a2} = {a1, a2}
    OBVIOUS
  <2> QED BY <2>3, <2>4
<1>2. StubbornSecond \in [{a1, a2} -> {"bash", "prompt", "no"}]
  BY DEF StubbornSecond
<1> QED BY <1>1, <1>2 DEF PolicyP!Configured, PresetNames

\* When a dispatch has ended, an agent the policies cover has exactly the
\* registrations its present preset asks for, or, if it was switched where no
\* install looks again, those of one preset or none (installFishPolicy,
\* mountDenyPolicy).
THEOREM PoliciesKept == AllSpec => []PolicySettled
<1>1. PolicyP!TypeOK /\ PolicyP!Settled => PolicySettled
  BY DEF PolicySettled, Policy!TypeOK, PolicyP!TypeOK, Policy!Settled, PolicyP!Settled,
         Policy!Serves, PolicyP!Serves, Policy!Covers, PolicyP!Covers, Policy!Swapped, PolicyP!Swapped,
         Policy!SwapOf, PolicyP!SwapOf, Policy!Terminals, PolicyP!Terminals,
         Policy!Has, PolicyP!Has, Policy!Swaps, PolicyP!Swaps,
         Policy!Regs, PolicyP!Regs, Policy!P, PolicyP!P, Policy!Policies, PolicyP!Policies,
         Policy!ToSet, PolicyP!ToSet, Policy!Wanted, PolicyP!Wanted
<1> QED BY <1>1, PolicyConfigured, PolicyBehaves, PolicyP!PoliciesSettle, PTL
===========================================================================
