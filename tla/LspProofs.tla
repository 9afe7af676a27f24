--------------------------- MODULE LspProofs ---------------------------
(* Theorems about three parts of the LSP plugin.  The pool, for any number *)
(* of calls, documents, keys and sessions: PoolInv, each session created   *)
(* so far is in the pool slot of its key or has a teardown.  The decoder,  *)
(* for any stream, cut anywhere: FrameInv, the buffer is the part of one   *)
(* frame that has come.  The search for a root, for any depth: RootInv.    *)
EXTENDS MCLsp, Sequences, SequenceTheorems, FiniteSetTheorems, TLAPS

-----------------------------------------------------------------------------
(* Induction over 0..N without a parameter: a set that contains 0 and is   *)
(* closed under successor contains Nat, for the set of its members up to n *)
(* cannot be injected into itself less one of them.                        *)
LEMMA Inductive ==
  ASSUME NEW S, 0 \in S, \A n \in Nat : n \in S => n + 1 \in S
  PROVE  Nat \subseteq S
<1> SUFFICES ASSUME NEW n \in Nat, n \notin S PROVE FALSE
  OBVIOUS
<1>1. PICK A : A = {i \in 0..n : i \in S}
  OBVIOUS
<1>2. IsFiniteSet(A) /\ IsFiniteSet(A \ {0}) /\ Cardinality(A) \in Nat
      /\ Cardinality(A \ {0}) = Cardinality(A) - 1
  <2>1. A \in SUBSET (0..n) /\ IsFiniteSet(0..n) /\ 0 \in A
    BY <1>1, FS_Interval
  <2>2. IsFiniteSet(A)
    BY <2>1, FS_Subset
  <2> QED BY <2>1, <2>2, FS_RemoveElement, FS_CardinalityType
<1>3. PICK f : f = [i \in A |-> i + 1]
  OBVIOUS
<1>4. f \in Injection(A, A \ {0})
  <2>1. \A i \in A : i \in Nat /\ i + 1 \in A \ {0}
    BY <1>1
  <2> QED BY <1>3, <2>1 DEF Injection, IsInjective
<1> QED BY <1>2, <1>4, FS_Injection

LEMMA InductiveTo ==
  ASSUME NEW N \in Nat, NEW S, 0 \in S, \A n \in 0..(N - 1) : n \in S => n + 1 \in S
  PROVE  0..N \subseteq S
<1>1. PICK T : T = S \cup {n \in Nat : n > N}
  OBVIOUS
<1>2. Nat \subseteq T
  <2>1. \A n \in Nat : n \in T => n + 1 \in T
    BY <1>1
  <2>2. 0 \in T
    BY <1>1
  <2> QED BY <2>1, <2>2, Inductive
<1> QED BY <1>1, <1>2

\* A recursion over 0..N has a solution.
Follows(f, x, G, N) == f[0] = x /\ \A i \in 1..N : f[i] = G[<<i, f[i - 1]>>]

LEMMA Iterates ==
  ASSUME NEW N \in Nat, NEW S, NEW x \in S, NEW G \in [(1..N) \X S -> S]
  PROVE  \E f \in [0..N -> S] : Follows(f, x, G, N)
<1>1. PICK T : T = {n \in Nat : n <= N => \E f \in [0..n -> S] : Follows(f, x, G, n)}
  OBVIOUS
<1>2. 0 \in T
  <2>1. PICK f : f = [i \in 0..0 |-> x]
    OBVIOUS
  <2>2. f \in [0..0 -> S] /\ f[0] = x /\ 1..0 = {}
    BY <2>1
  <2>3. Follows(f, x, G, 0)
    BY <2>2 DEF Follows
  <2> QED BY <1>1, <2>2, <2>3
<1>3. ASSUME NEW n \in Nat, n \in T PROVE n + 1 \in T
  <2> SUFFICES ASSUME n + 1 <= N
               PROVE \E f \in [0..(n + 1) -> S] : Follows(f, x, G, n + 1)
    BY <1>1, <1>3
  <2>1. PICK f \in [0..n -> S] : f[0] = x /\ \A i \in 1..n : f[i] = G[<<i, f[i - 1]>>]
    <3>1. PICK f \in [0..n -> S] : Follows(f, x, G, n)
      BY <1>1, <1>3
    <3> QED BY <3>1 DEF Follows
  <2>2. PICK g : g = [i \in 0..(n + 1) |-> IF i = n + 1 THEN G[<<n + 1, f[n]>>] ELSE f[i]]
    OBVIOUS
  <2>3. n \in 0..n /\ f[n] \in S /\ n + 1 \in 1..N /\ G[<<n + 1, f[n]>>] \in S
    BY <1>3, <2>1
  <2>4. g \in [0..(n + 1) -> S] /\ g[0] = x
    BY <1>3, <2>1, <2>2, <2>3
  <2>5. ASSUME NEW i \in 1..(n + 1) PROVE g[i] = G[<<i, g[i - 1]>>]
    <3>1. CASE i = n + 1
      <4>1. i - 1 = n /\ n \in 0..(n + 1) /\ n # n + 1 /\ i \in 0..(n + 1)
        BY <1>3, <3>1
      <4>2. g[i - 1] = f[n] /\ g[i] = G[<<n + 1, f[n]>>]
        BY <2>2, <3>1, <4>1
      <4> QED BY <3>1, <4>2
    <3>2. CASE i # n + 1
      <4>1. i \in 1..n /\ i \in 0..(n + 1) /\ i - 1 \in 0..(n + 1) /\ i - 1 # n + 1 /\ i - 1 \in 0..n
        BY <1>3, <3>2
      <4>2. g[i] = f[i] /\ g[i - 1] = f[i - 1]
        BY <2>2, <3>2, <4>1
      <4> QED BY <2>1, <4>1, <4>2
    <3> QED BY <3>1, <3>2
  <2>6. Follows(g, x, G, n + 1)
    BY <2>4, <2>5 DEF Follows
  <2> QED BY <2>4, <2>6
<1>4. N \in T
  BY <1>2, <1>3, Inductive
<1> QED BY <1>1, <1>4
Arriving ==
  /\ frame_stream \in [1..MaxStream -> Bytes]
  /\ MaxStream \in Nat /\ MaxHeader \in Nat /\ MaxBody \in Nat

\* The bytes from the one after a to c.
Cut(a, c) == SubSeq(frame_stream, a + 1, c)

LEMMA Cuts ==
  ASSUME Arriving, NEW a \in 0..MaxStream, NEW c \in a..MaxStream
  PROVE  /\ Cut(a, c) \in Seq(Bytes) /\ Len(Cut(a, c)) = c - a
         /\ \A i \in 1..(c - a) : Cut(a, c)[i] = frame_stream[a + i]
<1>1. \A i \in (a + 1)..c : frame_stream[i] \in Bytes
  BY DEF Arriving
<1>2. a \in Int /\ c \in Int /\ a + 1 \in Int
  OBVIOUS
<1> QED BY <1>1, <1>2, SubSeqProperties DEF Cut

LEMMA CutOfCut ==
  ASSUME Arriving, NEW a \in 0..MaxStream, NEW c \in a..MaxStream,
         NEW i \in 0..(c - a), NEW j \in i..(c - a)
  PROVE  SubSeq(Cut(a, c), i + 1, j) = Cut(a + i, a + j)
<1>1. a + i \in 0..MaxStream /\ a + j \in (a + i)..MaxStream /\ MaxStream \in Nat
  BY DEF Arriving
<1>2. /\ Cut(a + i, a + j) \in Seq(Bytes) /\ Len(Cut(a + i, a + j)) = j - i
      /\ \A k \in 1..(j - i) : Cut(a + i, a + j)[k] = frame_stream[a + i + k]
  <2>1. PICK p, q : p = a + i /\ q = a + j
    OBVIOUS
  <2>2. p \in 0..MaxStream /\ q \in p..MaxStream /\ q - p = j - i
    BY <1>1, <2>1
  <2>3. /\ Cut(p, q) \in Seq(Bytes) /\ Len(Cut(p, q)) = q - p
        /\ \A k \in 1..(q - p) : Cut(p, q)[k] = frame_stream[p + k]
    BY <2>2, Cuts
  <2> QED BY <2>1, <2>2, <2>3
<1>3. /\ Cut(a, c) \in Seq(Bytes) /\ Len(Cut(a, c)) = c - a
      /\ \A k \in 1..(c - a) : Cut(a, c)[k] = frame_stream[a + k]
  BY Cuts
<1>4. /\ SubSeq(Cut(a, c), i + 1, j) \in Seq(Bytes) /\ Len(SubSeq(Cut(a, c), i + 1, j)) = j - i
      /\ \A k \in 1..(j - i) : SubSeq(Cut(a, c), i + 1, j)[k] = Cut(a, c)[i + k]
  <2>1. \A k \in (i + 1)..j : Cut(a, c)[k] \in Bytes
    BY <1>1, <1>3, ElementOfSeq
  <2>2. i + 1 \in Int /\ j \in Int
    BY <1>1
  <2>3. /\ SubSeq(Cut(a, c), i + 1, j) \in Seq(Bytes)
        /\ Len(SubSeq(Cut(a, c), i + 1, j)) = IF i + 1 <= j THEN j - (i + 1) + 1 ELSE 0
        /\ \A k \in 1 .. j - (i + 1) + 1 : SubSeq(Cut(a, c), i + 1, j)[k] = Cut(a, c)[(i + 1) + k - 1]
    BY <2>1, <2>2, SubSeqProperties
  <2>4. j - (i + 1) + 1 = j - i /\ \A k \in 1..(j - i) : (i + 1) + k - 1 = i + k
    BY <1>1
  <2> QED BY <1>1, <2>3, <2>4
<1>5. \A k \in 1..(j - i) : k \in Int /\ i + k \in 1..(c - a) /\ a + (i + k) = a + i + k
  BY <1>1
<1>6. \A k \in 1..(j - i) : SubSeq(Cut(a, c), i + 1, j)[k] = Cut(a + i, a + j)[k]
  BY <1>2, <1>3, <1>4, <1>5
<1> QED BY <1>2, <1>4, <1>6, SeqEqual

LEMMA CutsJoin ==
  ASSUME Arriving, NEW a \in 0..MaxStream, NEW c \in a..MaxStream, NEW d \in c..MaxStream
  PROVE  Cut(a, c) \o Cut(c, d) = Cut(a, d)
<1>1. c \in 0..MaxStream /\ d \in a..MaxStream /\ MaxStream \in Nat
  BY DEF Arriving
<1>2. /\ Cut(a, d) \in Seq(Bytes) /\ Len(Cut(a, d)) = d - a
      /\ \A k \in 1..(d - a) : Cut(a, d)[k] = frame_stream[a + k]
  BY <1>1, Cuts
<1>6. /\ Cut(a, c) \in Seq(Bytes) /\ Len(Cut(a, c)) = c - a
      /\ \A k \in 1..(c - a) : Cut(a, c)[k] = frame_stream[a + k]
  BY Cuts
<1>7. /\ Cut(c, d) \in Seq(Bytes) /\ Len(Cut(c, d)) = d - c
      /\ \A k \in 1..(d - c) : Cut(c, d)[k] = frame_stream[c + k]
  BY <1>1, Cuts
<1>3. /\ Cut(a, c) \o Cut(c, d) \in Seq(Bytes)
      /\ Len(Cut(a, c) \o Cut(c, d)) = (c - a) + (d - c)
      /\ \A k \in 1..((c - a) + (d - c)) :
           (Cut(a, c) \o Cut(c, d))[k] = IF k <= c - a THEN Cut(a, c)[k] ELSE Cut(c, d)[k - (c - a)]
  <2>1. /\ Cut(a, c) \o Cut(c, d) \in Seq(Bytes)
        /\ Len(Cut(a, c) \o Cut(c, d)) = Len(Cut(a, c)) + Len(Cut(c, d))
        /\ \A k \in 1..(Len(Cut(a, c)) + Len(Cut(c, d))) : (Cut(a, c) \o Cut(c, d))[k] =
             IF k <= Len(Cut(a, c)) THEN Cut(a, c)[k] ELSE Cut(c, d)[k - Len(Cut(a, c))]
    BY <1>6, <1>7, ConcatProperties
  <2> QED BY <1>6, <1>7, <2>1
<1>4. (c - a) + (d - c) = d - a
  BY <1>1
<1>5. ASSUME NEW k \in 1..(d - a) PROVE (Cut(a, c) \o Cut(c, d))[k] = Cut(a, d)[k]
  <2>1. CASE k <= c - a
    BY <1>1, <1>2, <1>3, <1>4, <1>6, <2>1
  <2>2. CASE ~(k <= c - a)
    <3>1. k - (c - a) \in 1..(d - c) /\ c + (k - (c - a)) = a + k
      BY <1>1, <2>2
    <3> QED BY <1>2, <1>3, <1>4, <1>7, <2>2, <3>1
  <2> QED BY <2>1, <2>2
<1> QED BY <1>2, <1>3, <1>4, <1>5, SeqEqual

LEMMA CutGrows ==
  ASSUME Arriving, NEW a \in 0..MaxStream, NEW c \in a..MaxStream, c < MaxStream
  PROVE  Append(Cut(a, c), frame_stream[c + 1]) = Cut(a, c + 1)
<1>1. c + 1 \in a..MaxStream /\ MaxStream \in Nat /\ c + 1 - a = (c - a) + 1 /\ c - a \in Nat
      /\ c + 1 \in 1..MaxStream
  BY DEF Arriving
<1>2. /\ Cut(a, c + 1) \in Seq(Bytes) /\ Len(Cut(a, c + 1)) = (c - a) + 1
      /\ \A k \in 1..((c - a) + 1) : Cut(a, c + 1)[k] = frame_stream[a + k]
  <2>1. PICK q : q = c + 1
    OBVIOUS
  <2>2. q \in a..MaxStream /\ q - a = (c - a) + 1
    BY <1>1, <2>1
  <2>3. /\ Cut(a, q) \in Seq(Bytes) /\ Len(Cut(a, q)) = q - a
        /\ \A k \in 1..(q - a) : Cut(a, q)[k] = frame_stream[a + k]
    BY <2>2, Cuts
  <2> QED BY <2>1, <2>2, <2>3
<1>6. /\ Cut(a, c) \in Seq(Bytes) /\ Len(Cut(a, c)) = c - a
      /\ \A k \in 1..(c - a) : Cut(a, c)[k] = frame_stream[a + k]
  BY Cuts
<1>3. frame_stream[c + 1] \in Bytes /\ a + ((c - a) + 1) = c + 1
  BY <1>1 DEF Arriving
<1>4. /\ Append(Cut(a, c), frame_stream[c + 1]) \in Seq(Bytes)
      /\ Len(Append(Cut(a, c), frame_stream[c + 1])) = (c - a) + 1
      /\ \A k \in 1..((c - a) + 1) : Append(Cut(a, c), frame_stream[c + 1])[k] =
           IF k <= c - a THEN Cut(a, c)[k] ELSE frame_stream[c + 1]
  <2>1. PICK s, x : s = Cut(a, c) /\ x = frame_stream[c + 1]
    OBVIOUS
  <2>2. s \in Seq(Bytes) /\ x \in Bytes
    BY <1>3, <1>6, <2>1
  <2>3. /\ Append(s, x) \in Seq(Bytes) /\ Len(Append(s, x)) = Len(s) + 1
        /\ \A k \in 1..(Len(s) + 1) : Append(s, x)[k] = IF k <= Len(s) THEN s[k] ELSE x
    BY <2>2
  <2> QED BY <1>6, <2>1, <2>3
<1>5. \A k \in 1..((c - a) + 1) : Append(Cut(a, c), frame_stream[c + 1])[k] = Cut(a, c + 1)[k]
  <2> TAKE k \in 1..((c - a) + 1)
  <2>1. CASE k <= c - a
    BY <1>1, <1>2, <1>4, <1>6, <2>1
  <2>2. CASE ~(k <= c - a)
    <3>1. k = (c - a) + 1
      BY <1>1, <2>2
    <3> QED BY <1>1, <1>2, <1>3, <1>4, <3>1
  <2> QED BY <2>1, <2>2
<1> QED BY <1>2, <1>4, <1>5, SeqEqual

---------------------------------------------------------------------------
(* The reader, as a recursion that is defined.                             *)

States == [mode : {"header", "body", "bad"}, bytes : Seq(Bytes), left : Int, out : Seq(Seq(Bytes))]

LEMMA FunSeq ==
  ASSUME NEW T, NEW n \in Nat, NEW f \in [1..n -> T]
  PROVE  f \in Seq(T) /\ Len(f) = n
<1>1. f \in Seq(T)
  BY SeqDef
<1>2. Len(f) \in Nat /\ DOMAIN f = 1..Len(f)
  BY <1>1, LenProperties
<1>3. DOMAIN f = 1..n
  OBVIOUS
<1> QED BY <1>1, <1>2, <1>3

LEMMA CountNat ==
  ASSUME NEW b \in Seq(Bytes), NEW x
  PROVE  Framing!Count(b, x) \in Nat
<1>1. DOMAIN b = 1..Len(b) /\ Len(b) \in Nat
  OBVIOUS
<1>2. IsFiniteSet(1..Len(b))
  BY <1>1, FS_Interval
<1>3. {i \in DOMAIN b : b[i] = x} \subseteq 1..Len(b)
  BY <1>1
<1> QED BY <1>2, <1>3, FS_Subset, FS_CardinalityType DEF Framing!Count, Framing!Cardinality, Cardinality

LEMMA AllButTwo ==
  ASSUME NEW t \in Seq(Bytes)
  PROVE  SubSeq(t, 1, Len(t) - 2) \in Seq(Bytes)
<1>1. Len(t) \in Nat /\ \A i \in 1..(Len(t) - 2) : t[i] \in Bytes
  OBVIOUS
<1>2. 1 \in Int /\ Len(t) - 2 \in Int
  BY <1>1
<1> QED BY <1>1, <1>2, SubSeqProperties

LEMMA EndsInTerminator ==
  ASSUME NEW t \in Seq(Bytes)
  PROVE  Framing!IsSuffix(Framing!Terminator, t) <=> /\ Len(t) >= 2
                                     /\ t[Len(t) - 1] = "r" /\ t[Len(t)] = "r"
<1>1. PICK T : T = Bytes \cup {"r"}
  OBVIOUS
<1>2. PICK s, u : s = Framing!Reverse(Framing!Terminator) /\ u = Framing!Reverse(t)
  OBVIOUS
<1>3. s \in Seq(T) /\ Len(s) = 2 /\ s[1] = "r" /\ s[2] = "r"
  <2>1. Len(Framing!Terminator) = 2 /\ Framing!Terminator[1] = "r" /\ Framing!Terminator[2] = "r"
    BY DEF Framing!Terminator
  <2>2. s = [i \in 1..2 |-> Framing!Terminator[(2 - i) + 1]]
    BY <1>2, <2>1 DEF Framing!Reverse
  <2>3. s[1] = "r" /\ s[2] = "r"
    BY <2>1, <2>2
  <2>4. \A i \in 1..2 : s[i] \in T
    <3>1. \A i \in 1..2 : i = 1 \/ i = 2
      OBVIOUS
    <3> QED BY <1>1, <2>3, <3>1
  <2>5. s \in [1..2 -> T] /\ 2 \in Nat
    BY <2>2, <2>4
  <2> QED BY <2>3, <2>5, FunSeq
<1>4. Len(t) \in Nat /\ t \in [1..Len(t) -> Bytes]
  BY LenProperties
<1>5. u \in Seq(T) /\ Len(u) = Len(t) /\ \A i \in 1..Len(t) : u[i] = t[(Len(t) - i) + 1]
  <2>1. u = [i \in 1..Len(t) |-> t[(Len(t) - i) + 1]]
    BY <1>2 DEF Framing!Reverse
  <2>2. \A i \in 1..Len(t) : (Len(t) - i) + 1 \in 1..Len(t)
    BY <1>4
  <2>3. \A i \in 1..Len(t) : t[(Len(t) - i) + 1] \in T
    BY <1>1, <1>4, <2>2
  <2>4. u \in [1..Len(t) -> T]
    BY <2>1, <2>3
  <2>5. PICK n : n = Len(t)
    OBVIOUS
  <2>6. u \in Seq(T) /\ Len(u) = n
    <3>1. n \in Nat /\ u \in [1..n -> T]
      BY <1>4, <2>4, <2>5
    <3> QED BY <3>1, FunSeq
  <2> QED BY <2>1, <2>5, <2>6
<1>6. Framing!IsSuffix(Framing!Terminator, t) <=> 2 <= Len(t) /\ SubSeq(s, 1, 2) = SubSeq(u, 1, 2)
  BY <1>2, <1>3, <1>5 DEF Framing!IsSuffix, Framing!IsPrefix
<1>7. ASSUME Len(t) >= 2
      PROVE SubSeq(s, 1, 2) = SubSeq(u, 1, 2) <=> t[Len(t) - 1] = "r" /\ t[Len(t)] = "r"
  <2>1. \A i \in 1..2 : s[i] \in T /\ u[i] \in T /\ (i = 1 \/ i = 2)
    <3> TAKE i \in 1..2
    <3>1. i \in 1..Len(s) /\ i \in 1..Len(u) /\ (i = 1 \/ i = 2)
      BY <1>3, <1>4, <1>5, <1>7
    <3>2. s[i] \in T
      BY <1>3, <3>1, ElementOfSeq
    <3>3. u[i] \in T
      BY <1>5, <3>1, ElementOfSeq
    <3> QED BY <3>1, <3>2, <3>3
  <2>2. 1 \in Int /\ 2 \in Int
    OBVIOUS
  <2>3. /\ SubSeq(s, 1, 2) \in Seq(T) /\ Len(SubSeq(s, 1, 2)) = 2
        /\ \A i \in 1..2 : SubSeq(s, 1, 2)[i] = s[i]
    <3>1. /\ SubSeq(s, 1, 2) \in Seq(T) /\ Len(SubSeq(s, 1, 2)) = IF 1 <= 2 THEN 2 - 1 + 1 ELSE 0
          /\ \A i \in 1..2 - 1 + 1 : SubSeq(s, 1, 2)[i] = s[1 + i - 1]
      BY <2>1, <2>2, SubSeqProperties
    <3> QED BY <3>1
  <2>4. /\ SubSeq(u, 1, 2) \in Seq(T) /\ Len(SubSeq(u, 1, 2)) = 2
        /\ \A i \in 1..2 : SubSeq(u, 1, 2)[i] = u[i]
    <3>1. /\ SubSeq(u, 1, 2) \in Seq(T) /\ Len(SubSeq(u, 1, 2)) = IF 1 <= 2 THEN 2 - 1 + 1 ELSE 0
          /\ \A i \in 1..2 - 1 + 1 : SubSeq(u, 1, 2)[i] = u[1 + i - 1]
      BY <2>1, <2>2, SubSeqProperties
    <3> QED BY <3>1
  <2>5. u[1] = t[Len(t)] /\ u[2] = t[Len(t) - 1]
    <3>1. 1 \in 1..Len(t) /\ 2 \in 1..Len(t) /\ (Len(t) - 1) + 1 = Len(t)
          /\ (Len(t) - 2) + 1 = Len(t) - 1
      BY <1>4, <1>7
    <3> QED BY <1>5, <3>1
  <2>6. SubSeq(s, 1, 2) = SubSeq(u, 1, 2) <=> \A i \in 1..2 : SubSeq(s, 1, 2)[i] = SubSeq(u, 1, 2)[i]
    BY <2>3, <2>4, SeqEqual
  <2>7. (\A i \in 1..2 : SubSeq(s, 1, 2)[i] = SubSeq(u, 1, 2)[i]) <=> (u[1] = "r" /\ u[2] = "r")
    <3>1. 1 \in 1..2 /\ 2 \in 1..2
      OBVIOUS
    <3>2. SubSeq(s, 1, 2)[1] = "r" /\ SubSeq(s, 1, 2)[2] = "r" /\ SubSeq(u, 1, 2)[1] = u[1]
          /\ SubSeq(u, 1, 2)[2] = u[2]
      BY <1>3, <2>3, <2>4, <3>1
    <3> QED BY <2>1, <3>1, <3>2
  <2> QED BY <2>5, <2>6, <2>7
<1> QED BY <1>4, <1>6, <1>7

LEMMA StateTypes ==
  /\ \A b \in Seq(Bytes), o \in Seq(Seq(Bytes)) : Framing!AtHeader(b, o) \in States
  /\ \A b \in Seq(Bytes), l \in Int, o \in Seq(Seq(Bytes)) : Framing!InBody(b, l, o) \in States
  /\ \A o \in Seq(Seq(Bytes)) : Framing!Bad(o) \in States
<1>1. <<>> \in Seq(Bytes)
  OBVIOUS
<1> QED BY <1>1 DEF Framing!AtHeader, Framing!InBody, Framing!Bad, States

LEMMA ReadType ==
  ASSUME NEW x \in Bytes, NEW r \in States
  PROVE  Framing!Read(x, r) \in States
<1>1. /\ r.bytes \in Seq(Bytes) /\ r.out \in Seq(Seq(Bytes)) /\ r.left \in Int
      /\ r.mode \in {"header", "body", "bad"}
  BY DEF States
<1>2. PICK more : more = Append(r.bytes, x)
  OBVIOUS
<1>3. more \in Seq(Bytes) /\ <<>> \in Seq(Bytes) /\ Append(r.out, more) \in Seq(Seq(Bytes)) /\ r.left - 1 \in Int
  <2>1. more \in Seq(Bytes)
    BY <1>1, <1>2
  <2> QED BY <1>1, <2>1
<1>4. CASE r.mode = "bad"
  BY <1>4 DEF Framing!Read
<1>5. CASE r.mode = "body"
  <2>1. Framing!Read(x, r) = IF r.left > 1 THEN Framing!InBody(more, r.left - 1, r.out)
                     ELSE IF Framing!Contains(more, "x") THEN Framing!Bad(r.out)
                     ELSE Framing!AtHeader(<<>>, Append(r.out, more))
    BY <1>2, <1>5 DEF Framing!Read
  <2> QED BY <1>1, <1>3, <2>1, StateTypes
<1>6. CASE r.mode = "header"
  <2>1. PICK text : text = SubSeq(more, 1, Len(more) - Len(Framing!Terminator))
    OBVIOUS
  <2>2. Framing!Read(x, r) = IF Len(r.bytes) = MaxHeader THEN Framing!Bad(r.out)
                     ELSE IF Framing!IsSuffix(Framing!Terminator, more) THEN Framing!EndOfHeader(text, r.out)
                     ELSE Framing!AtHeader(more, r.out)
    BY <1>2, <1>6, <2>1 DEF Framing!Read
  <2>3. text \in Seq(Bytes)
    <3>1. Len(Framing!Terminator) = 2
      BY DEF Framing!Terminator
    <3>2. text = SubSeq(more, 1, Len(more) - 2)
      BY <2>1, <3>1
    <3>3. SubSeq(more, 1, Len(more) - 2) \in Seq(Bytes)
      BY <1>3, AllButTwo
    <3> QED BY <3>2, <3>3
  <2>4. Framing!Declares(text) \in Int
    BY <2>3, CountNat DEF Framing!Declares
  <2>5. Framing!EndOfHeader(text, r.out) = Framing!Bad(r.out) \/ Framing!EndOfHeader(text, r.out) = Framing!InBody(<<>>, Framing!Declares(text), r.out)
    BY DEF Framing!EndOfHeader
  <2> QED BY <1>1, <1>3, <2>2, <2>4, <2>5, StateTypes
<1> QED BY <1>1, <1>4, <1>5, <1>6

LEMMA ReaderDefined ==
  ASSUME Arriving
  PROVE  /\ Framing!reader[0] = Framing!AtHeader(<<>>, <<>>)
         /\ \A i \in 1..MaxStream : Framing!reader[i] = Framing!Read(frame_stream[i], Framing!reader[i - 1])
<1>1. Len(frame_stream) = MaxStream /\ MaxStream \in Nat /\ \A i \in 1..MaxStream : frame_stream[i] \in Bytes
  BY DEF Arriving
<1>2. PICK G : G = [p \in (1..MaxStream) \X States |-> Framing!Read(frame_stream[p[1]], p[2])]
  OBVIOUS
<1>3. G \in [(1..MaxStream) \X States -> States]
  <2>1. \A p \in (1..MaxStream) \X States : p[1] \in 1..MaxStream /\ p[2] \in States
    OBVIOUS
  <2>2. \A p \in (1..MaxStream) \X States : Framing!Read(frame_stream[p[1]], p[2]) \in States
    BY <1>1, <2>1, ReadType
  <2> QED BY <1>2, <2>2
<1>4. PICK first : first = Framing!AtHeader(<<>>, <<>>) /\ first \in States
  <2>1. <<>> \in Seq(Bytes) /\ <<>> \in Seq(Seq(Bytes))
    OBVIOUS
  <2>2. Framing!AtHeader(<<>>, <<>>) \in States
    BY <2>1, StateTypes
  <2> QED BY <2>2
<1>5. PICK f \in [0..MaxStream -> States] :
        f[0] = first /\ \A i \in 1..MaxStream : f[i] = G[<<i, f[i - 1]>>]
  <2>1. PICK f \in [0..MaxStream -> States] : Follows(f, first, G, MaxStream)
    BY <1>1, <1>3, <1>4, Iterates
  <2> QED BY <2>1 DEF Follows
<1>6. \A i \in 1..MaxStream : f[i] = Framing!Read(frame_stream[i], f[i - 1])
  <2> TAKE i \in 1..MaxStream
  <2>1. i - 1 \in 0..MaxStream
    BY <1>1
  <2>2. PICK r : r = f[i - 1]
    OBVIOUS
  <2>3. r \in States /\ f[i] = G[<<i, r>>]
    BY <1>5, <2>1, <2>2
  <2>4. <<i, r>> \in (1..MaxStream) \X States /\ <<i, r>>[1] = i /\ <<i, r>>[2] = r
    BY <2>3
  <2> QED BY <1>2, <2>2, <2>3, <2>4
<1>7. f = [i \in 0..Len(frame_stream) |-> IF i = 0 THEN first ELSE Framing!Read(frame_stream[i], f[i - 1])]
  <2>1. \A i \in 0..MaxStream : i = 0 \/ i \in 1..MaxStream
    BY <1>1
  <2>2. \A i \in 0..MaxStream : f[i] = IF i = 0 THEN first ELSE Framing!Read(frame_stream[i], f[i - 1])
    BY <1>5, <1>6, <2>1
  <2> QED BY <1>1, <1>5, <2>2
<1>8. Framing!reader = [i \in 0..Len(frame_stream) |-> IF i = 0 THEN first ELSE Framing!Read(frame_stream[i], Framing!reader[i - 1])]
  BY <1>4, <1>7, Zenon DEF Framing!reader
<1> QED
  <2>1. 0 \in 0..Len(frame_stream) /\ \A i \in 1..MaxStream : i \in 0..Len(frame_stream) /\ i # 0
    BY <1>1
  <2> QED BY <1>4, <1>8, <2>1

---------------------------------------------------------------------------
(* What the reader does with one frame.                                    *)

LEMMA ReadHeader ==
  ASSUME NEW x, NEW t, NEW o
  PROVE  /\ Len(t) = MaxHeader => Framing!Read(x, Framing!AtHeader(t, o)) = Framing!Bad(o)
         /\ Len(t) # MaxHeader /\ ~Framing!IsSuffix(Framing!Terminator, Append(t, x))
              => Framing!Read(x, Framing!AtHeader(t, o)) = Framing!AtHeader(Append(t, x), o)
         /\ Len(t) # MaxHeader /\ Framing!IsSuffix(Framing!Terminator, Append(t, x))
              => Framing!Read(x, Framing!AtHeader(t, o)) =
                   Framing!EndOfHeader(SubSeq(Append(t, x), 1, Len(Append(t, x)) - 2), o)
<1>1. PICK r, more : r = Framing!AtHeader(t, o) /\ more = Append(t, x)
  OBVIOUS
<1>2. r.mode = "header" /\ r.bytes = t /\ r.out = o /\ Len(Framing!Terminator) = 2
  BY <1>1 DEF Framing!AtHeader, Framing!Terminator
<1>3. Framing!Read(x, r) = IF Len(t) = MaxHeader THEN Framing!Bad(o)
                   ELSE IF Framing!IsSuffix(Framing!Terminator, more)
                        THEN Framing!EndOfHeader(SubSeq(more, 1, Len(more) - 2), o)
                   ELSE Framing!AtHeader(more, o)
  BY <1>1, <1>2 DEF Framing!Read
<1> QED BY <1>1, <1>3

LEMMA ReadBody ==
  ASSUME NEW x, NEW b, NEW l, NEW o
  PROVE  /\ l > 1 => Framing!Read(x, Framing!InBody(b, l, o)) = Framing!InBody(Append(b, x), l - 1, o)
         /\ ~(l > 1) /\ Framing!Contains(Append(b, x), "x") => Framing!Read(x, Framing!InBody(b, l, o)) = Framing!Bad(o)
         /\ ~(l > 1) /\ ~Framing!Contains(Append(b, x), "x")
              => Framing!Read(x, Framing!InBody(b, l, o)) = Framing!AtHeader(<<>>, Append(o, Append(b, x)))
<1>1. PICK r, more : r = Framing!InBody(b, l, o) /\ more = Append(b, x)
  OBVIOUS
<1>2. r.mode = "body" /\ r.bytes = b /\ r.left = l /\ r.out = o
  BY <1>1 DEF Framing!InBody
<1>3. Framing!Read(x, r) = IF l > 1 THEN Framing!InBody(more, l - 1, o)
                   ELSE IF Framing!Contains(more, "x") THEN Framing!Bad(o)
                   ELSE Framing!AtHeader(<<>>, Append(o, more))
  BY <1>1, <1>2 DEF Framing!Read
<1> QED BY <1>1, <1>3

LEMMA BadStays ==
  ASSUME Arriving, NEW i \in 0..MaxStream, NEW j \in i..MaxStream, Framing!reader[i].mode = "bad"
  PROVE  Framing!reader[j] = Framing!reader[i]
<1>1. MaxStream \in Nat /\ j - i \in Nat
  BY DEF Arriving
<1>2. PICK S : S = {n \in 0..(j - i) : Framing!reader[i + n] = Framing!reader[i]}
  OBVIOUS
<1>3. 0 \in S
  BY <1>1, <1>2
<1>4. ASSUME NEW n \in 0..((j - i) - 1), n \in S PROVE n + 1 \in S
  <2>1. /\ i + (n + 1) \in 1..MaxStream /\ i + (n + 1) - 1 = i + n /\ n + 1 \in 0..(j - i)
    BY <1>1
  <2>2. Framing!reader[i + (n + 1)] = Framing!Read(frame_stream[i + (n + 1)], Framing!reader[i + n])
    BY <2>1, ReaderDefined
  <2>3. Framing!reader[i + n] = Framing!reader[i]
    BY <1>2, <1>4
  <2>4. Framing!reader[i + (n + 1)] = Framing!reader[i]
    BY <2>2, <2>3 DEF Framing!Read
  <2> QED BY <1>2, <2>1, <2>4
<1>5. j - i \in S
  BY <1>1, <1>3, <1>4, InductiveTo
<1>6. i + (j - i) = j
  BY <1>1
<1> QED BY <1>2, <1>5, <1>6

\* No terminator within the n bytes after a.
Unended(a, n) == \A i \in 1..(n - 1) : ~(frame_stream[a + i] = "r" /\ frame_stream[a + (i + 1)] = "r")

LEMMA CutEmpty ==
  ASSUME Arriving, NEW a \in 0..MaxStream
  PROVE  Cut(a, a) = <<>>
<1>1. a \in a..MaxStream /\ a - a = 0
  BY DEF Arriving
<1>2. Cut(a, a) \in Seq(Bytes) /\ Len(Cut(a, a)) = a - a
  BY <1>1, Cuts
<1> QED BY <1>1, <1>2, EmptySeq

LEMMA HeaderRead ==
  ASSUME Arriving, NEW a \in 0..MaxStream, NEW o, Framing!reader[a] = Framing!AtHeader(<<>>, o),
         NEW n \in 0..(MaxStream - a), n <= MaxHeader, Unended(a, n)
  PROVE  Framing!reader[a + n] = Framing!AtHeader(Cut(a, a + n), o)
<1>1. MaxStream \in Nat /\ MaxHeader \in Nat
  BY DEF Arriving
<1>2. PICK S : S = {m \in 0..n : Framing!reader[a + m] = Framing!AtHeader(Cut(a, a + m), o)}
  OBVIOUS
<1>3. 0 \in S
  <2>1. a + 0 = a /\ 0 \in 0..n
    BY <1>1
  <2> QED BY <1>2, <2>1, CutEmpty
<1>4. ASSUME NEW m \in 0..(n - 1), m \in S PROVE m + 1 \in S
  <2>1. PICK c : c = a + m
    OBVIOUS
  <2>2. /\ c \in a..MaxStream /\ c < MaxStream /\ c + 1 \in 1..MaxStream /\ c + 1 - 1 = c
        /\ c + 1 = a + (m + 1) /\ m + 1 \in 0..n /\ c - a = m /\ m # MaxHeader
        /\ c + 1 \in a..MaxStream /\ c + 1 - a = m + 1 /\ m \in Nat
    BY <1>1, <2>1
  <2>3. Framing!reader[c + 1] = Framing!Read(frame_stream[c + 1], Framing!AtHeader(Cut(a, c), o))
    <3>1. Framing!reader[c] = Framing!AtHeader(Cut(a, c), o)
      BY <1>2, <1>4, <2>1
    <3> QED BY <2>2, <3>1, ReaderDefined
  <2>4. Cut(a, c) \in Seq(Bytes) /\ Len(Cut(a, c)) = m
    BY <2>2, Cuts
  <2>5. Append(Cut(a, c), frame_stream[c + 1]) = Cut(a, c + 1)
    BY <2>2, CutGrows
  <2>6. /\ Cut(a, c + 1) \in Seq(Bytes) /\ Len(Cut(a, c + 1)) = m + 1
        /\ \A k \in 1..(m + 1) : Cut(a, c + 1)[k] = frame_stream[a + k]
    <3>1. PICK q : q = c + 1
      OBVIOUS
    <3>2. /\ Cut(a, q) \in Seq(Bytes) /\ Len(Cut(a, q)) = q - a
          /\ \A k \in 1..(q - a) : Cut(a, q)[k] = frame_stream[a + k]
      BY <2>2, <3>1, Cuts
    <3> QED BY <2>2, <3>1, <3>2
  <2>7. ~Framing!IsSuffix(Framing!Terminator, Cut(a, c + 1))
    <3>1. SUFFICES ASSUME m + 1 >= 2, Cut(a, c + 1)[m] = "r", Cut(a, c + 1)[m + 1] = "r"
                   PROVE FALSE
      <4>1. (m + 1) - 1 = m
        BY <2>2
      <4> QED BY <2>6, <4>1, EndsInTerminator
    <3>2. m \in 1..(n - 1) /\ m \in 1..(m + 1) /\ m + 1 \in 1..(m + 1)
      BY <2>2, <3>1
    <3> QED BY <2>6, <3>1, <3>2 DEF Unended
  <2>8. Framing!reader[c + 1] = Framing!AtHeader(Cut(a, c + 1), o)
    <3>1. PICK t, x : t = Cut(a, c) /\ x = frame_stream[c + 1]
      OBVIOUS
    <3>2. Append(t, x) = Cut(a, c + 1) /\ Len(t) # MaxHeader /\ ~Framing!IsSuffix(Framing!Terminator, Append(t, x))
      BY <2>2, <2>4, <2>5, <2>7, <3>1
    <3>3. Framing!Read(x, Framing!AtHeader(t, o)) = Framing!AtHeader(Append(t, x), o)
      BY <3>2, ReadHeader
    <3> QED BY <2>3, <3>1, <3>2, <3>3
  <2> QED BY <1>2, <2>2, <2>8
<1>5. n \in Nat /\ n \in 0..n
  BY <1>1
<1>6. 0..n \subseteq S
  BY <1>3, <1>4, <1>5, InductiveTo
<1> QED BY <1>2, <1>5, <1>6

LEMMA HeaderTooLong ==
  ASSUME Arriving, NEW a \in 0..MaxStream, NEW o, Framing!reader[a] = Framing!AtHeader(<<>>, o),
         NEW e \in a..MaxStream, e > a + MaxHeader, Unended(a, MaxHeader)
  PROVE  Framing!reader[e].mode = "bad" /\ Framing!reader[e].out = o
<1>1. PICK c : c = a + MaxHeader
  OBVIOUS
<1>2. /\ MaxStream \in Nat /\ MaxHeader \in Nat /\ MaxHeader \in 0..(MaxStream - a) /\ MaxHeader <= MaxHeader
      /\ c \in a..MaxStream /\ c - a = MaxHeader /\ c + 1 \in 1..MaxStream /\ c + 1 - 1 = c
      /\ c + 1 \in 0..MaxStream /\ e \in (c + 1)..MaxStream
  BY <1>1 DEF Arriving
<1>3. Framing!reader[c] = Framing!AtHeader(Cut(a, c), o)
  BY <1>1, <1>2, HeaderRead
<1>4. Len(Cut(a, c)) = MaxHeader
  BY <1>2, Cuts
<1>5. Framing!reader[c + 1] = Framing!Read(frame_stream[c + 1], Framing!reader[c])
  BY <1>2, ReaderDefined
<1>6. Framing!reader[c + 1] = Framing!Bad(o)
  <2>1. PICK t, x : t = Cut(a, c) /\ x = frame_stream[c + 1]
    OBVIOUS
  <2>2. Framing!Read(x, Framing!AtHeader(t, o)) = Framing!Bad(o)
    BY <1>4, <2>1, ReadHeader
  <2> QED BY <1>3, <1>5, <2>1, <2>2
<1>7. Framing!reader[c + 1].mode = "bad" /\ Framing!reader[c + 1].out = o
  BY <1>6 DEF Framing!Bad
<1> QED BY <1>2, <1>7, BadStays

\* The header block of n bytes and a terminator, within the cap.
LEMMA HeaderEnd ==
  ASSUME Arriving, NEW a \in 0..MaxStream, NEW o, Framing!reader[a] = Framing!AtHeader(<<>>, o),
         NEW n \in 0..(MaxStream - a), n + 2 <= MaxHeader, n + 2 <= MaxStream - a, Unended(a, n + 1),
         frame_stream[a + (n + 1)] = "r", frame_stream[a + (n + 2)] = "r",
         NEW h, h = Cut(a, a + n)
  PROVE  /\ Framing!BadHeader(h) \/ Framing!Declares(h) > MaxBody
              => Framing!reader[a + (n + 2)].mode = "bad" /\ Framing!reader[a + (n + 2)].out = o
         /\ ~(Framing!BadHeader(h) \/ Framing!Declares(h) > MaxBody)
              => Framing!reader[a + (n + 2)] = Framing!InBody(<<>>, Framing!Declares(h), o)
<1>1. PICK c, d : c = a + (n + 1) /\ d = a + (n + 2)
  OBVIOUS
<1>2. /\ MaxStream \in Nat /\ MaxHeader \in Nat /\ n + 1 \in 0..(MaxStream - a) /\ n + 1 <= MaxHeader
      /\ n + 1 # MaxHeader /\ c \in a..MaxStream /\ c < MaxStream /\ c - a = n + 1 /\ c + 1 = d
      /\ d \in 1..MaxStream /\ d - 1 = c /\ d \in a..MaxStream /\ d - a = n + 2
      /\ n + 1 \in 1..(n + 2) /\ n + 2 \in 1..(n + 2) /\ n + 2 >= 2 /\ (n + 2) - 1 = n + 1
      /\ (n + 2) - 2 = n /\ 0 \in 0..(n + 2) /\ n \in 0..(n + 2) /\ a + 0 = a /\ 0 + 1 = 1
      /\ n \in 0..(d - a) /\ 0 \in 0..(d - a)
  BY <1>1 DEF Arriving
<1>3. Framing!reader[c] = Framing!AtHeader(Cut(a, c), o)
  BY <1>1, <1>2, HeaderRead
<1>4. Cut(a, c) \in Seq(Bytes) /\ Len(Cut(a, c)) = n + 1
  BY <1>2, Cuts
<1>5. Framing!reader[d] = Framing!Read(frame_stream[d], Framing!AtHeader(Cut(a, c), o))
  BY <1>2, <1>3, ReaderDefined
<1>6. Append(Cut(a, c), frame_stream[d]) = Cut(a, d)
  BY <1>2, CutGrows
<1>7. /\ Cut(a, d) \in Seq(Bytes) /\ Len(Cut(a, d)) = n + 2
      /\ Cut(a, d)[n + 1] = "r" /\ Cut(a, d)[n + 2] = "r"
  <2>1. /\ Cut(a, d) \in Seq(Bytes) /\ Len(Cut(a, d)) = d - a
        /\ \A k \in 1..(d - a) : Cut(a, d)[k] = frame_stream[a + k]
    BY <1>2, Cuts
  <2> QED BY <1>2, <2>1
<1>8. Framing!IsSuffix(Framing!Terminator, Cut(a, d))
  BY <1>2, <1>7, EndsInTerminator
<1>9. Framing!reader[d] = Framing!EndOfHeader(SubSeq(Cut(a, d), 1, Len(Cut(a, d)) - 2), o)
  <2>1. PICK t, x, more : t = Cut(a, c) /\ x = frame_stream[d] /\ more = Cut(a, d)
    OBVIOUS
  <2>2. more = Append(t, x) /\ Len(t) # MaxHeader /\ Framing!IsSuffix(Framing!Terminator, more)
    BY <1>2, <1>4, <1>6, <1>8, <2>1
  <2>3. Framing!Read(x, Framing!AtHeader(t, o)) = Framing!EndOfHeader(SubSeq(more, 1, Len(more) - 2), o)
    BY <2>2, ReadHeader
  <2> QED BY <1>5, <2>1, <2>3
<1>10. h = SubSeq(Cut(a, d), 1, Len(Cut(a, d)) - 2)
  <2>1. n \in 0..(d - a)
    BY <1>2
  <2>2. PICK i : i = 0
    OBVIOUS
  <2>3. i \in 0..(d - a) /\ n \in i..(d - a) /\ a + i = a /\ i + 1 = 1
    BY <1>2, <2>2
  <2>4. SubSeq(Cut(a, d), i + 1, n) = Cut(a + i, a + n)
    BY <1>2, <2>3, CutOfCut
  <2> QED BY <1>2, <1>7, <2>3, <2>4
<1>11. Framing!reader[a + (n + 2)] = Framing!EndOfHeader(h, o)
  BY <1>1, <1>9, <1>10
<1> QED BY <1>11 DEF Framing!EndOfHeader, Framing!Bad

LEMMA BodyRead ==
  ASSUME Arriving, NEW s \in 0..MaxStream, NEW o, NEW D \in Nat,
         Framing!reader[s] = Framing!InBody(<<>>, D, o),
         NEW n \in 0..(MaxStream - s), n < D
  PROVE  Framing!reader[s + n] = Framing!InBody(Cut(s, s + n), D - n, o)
<1>1. MaxStream \in Nat
  BY DEF Arriving
<1>2. PICK S : S = {m \in 0..n : Framing!reader[s + m] = Framing!InBody(Cut(s, s + m), D - m, o)}
  OBVIOUS
<1>3. 0 \in S
  <2>1. s + 0 = s /\ 0 \in 0..n /\ D - 0 = D
    BY <1>1
  <2> QED BY <1>2, <2>1, CutEmpty
<1>4. ASSUME NEW m \in 0..(n - 1), m \in S PROVE m + 1 \in S
  <2>1. PICK c : c = s + m
    OBVIOUS
  <2>2. /\ c \in s..MaxStream /\ c < MaxStream /\ c + 1 \in 1..MaxStream /\ c + 1 - 1 = c
        /\ c + 1 = s + (m + 1) /\ m + 1 \in 0..n /\ D - m > 1 /\ D - m - 1 = D - (m + 1)
    BY <1>1, <2>1
  <2>3. Framing!reader[c + 1] = Framing!Read(frame_stream[c + 1], Framing!InBody(Cut(s, c), D - m, o))
    <3>1. Framing!reader[c] = Framing!InBody(Cut(s, c), D - m, o)
      BY <1>2, <1>4, <2>1
    <3> QED BY <2>2, <3>1, ReaderDefined
  <2>4. Append(Cut(s, c), frame_stream[c + 1]) = Cut(s, c + 1)
    BY <2>2, CutGrows
  <2>5. Framing!reader[c + 1] = Framing!InBody(Cut(s, c + 1), D - m - 1, o)
    <3>1. PICK b, x, l, more : b = Cut(s, c) /\ x = frame_stream[c + 1] /\ l = D - m /\ more = Cut(s, c + 1)
      OBVIOUS
    <3>2. Framing!Read(x, Framing!InBody(b, l, o)) = Framing!InBody(more, l - 1, o)
      <4>1. more = Append(b, x) /\ l > 1
        BY <2>2, <2>4, <3>1
      <4> QED BY <4>1, ReadBody
    <3> QED BY <2>3, <3>1, <3>2
  <2> QED BY <1>2, <2>2, <2>5
<1>5. n \in Nat /\ n \in 0..n
  BY <1>1
<1>6. 0..n \subseteq S
  BY <1>3, <1>4, <1>5, InductiveTo
<1> QED BY <1>2, <1>5, <1>6

LEMMA BodyEnd ==
  ASSUME Arriving, NEW s \in 0..MaxStream, NEW o, NEW D \in Nat, D > 0,
         Framing!reader[s] = Framing!InBody(<<>>, D, o), s + D <= MaxStream
  PROVE  /\ Framing!Contains(Cut(s, s + D), "x")
              => Framing!reader[s + D].mode = "bad" /\ Framing!reader[s + D].out = o
         /\ ~Framing!Contains(Cut(s, s + D), "x")
              => Framing!reader[s + D] = Framing!AtHeader(<<>>, Append(o, Cut(s, s + D)))
<1>1. PICK n, c, d : n = D - 1 /\ c = s + n /\ d = s + D
  OBVIOUS
<1>2. /\ MaxStream \in Nat /\ n \in 0..(MaxStream - s) /\ n < D /\ c \in s..MaxStream /\ c < MaxStream
      /\ c + 1 = d /\ d \in 1..MaxStream /\ d - 1 = c /\ D - n = 1
  BY <1>1 DEF Arriving
<1>3. Framing!reader[c] = Framing!InBody(Cut(s, c), 1, o)
  <2>1. Framing!reader[s + n] = Framing!InBody(Cut(s, s + n), D - n, o)
    BY <1>2, BodyRead
  <2> QED BY <1>1, <1>2, <2>1
<1>4. Framing!reader[d] = Framing!Read(frame_stream[d], Framing!InBody(Cut(s, c), 1, o))
  BY <1>2, <1>3, ReaderDefined
<1>5. Append(Cut(s, c), frame_stream[d]) = Cut(s, d)
  BY <1>2, CutGrows
<1>6. /\ Framing!Contains(Cut(s, d), "x") => Framing!reader[d] = Framing!Bad(o)
      /\ ~Framing!Contains(Cut(s, d), "x") => Framing!reader[d] = Framing!AtHeader(<<>>, Append(o, Cut(s, d)))
  <2>1. PICK b, x, l, more : b = Cut(s, c) /\ x = frame_stream[d] /\ l = 1 /\ more = Cut(s, d)
    OBVIOUS
  <2>2. more = Append(b, x) /\ ~(l > 1)
    BY <1>2, <1>5, <2>1
  <2>3. /\ Framing!Contains(more, "x") => Framing!Read(x, Framing!InBody(b, l, o)) = Framing!Bad(o)
        /\ ~Framing!Contains(more, "x") => Framing!Read(x, Framing!InBody(b, l, o)) = Framing!AtHeader(<<>>, Append(o, more))
    BY <2>2, ReadBody
  <2> QED BY <1>4, <2>1, <2>3
<1>7. Framing!Bad(o).mode = "bad" /\ Framing!Bad(o).out = o
  BY DEF Framing!Bad
<1> QED BY <1>1, <1>6, <1>7

---------------------------------------------------------------------------
(* One step of the decoder on a buffer that starts with a frame.           *)

LEMMA TextEnds ==
  ASSUME Arriving, NEW a \in 0..MaxStream, NEW e \in a..MaxStream, NEW b, b = Cut(a, e)
  PROVE  /\ b \in Seq(Bytes) /\ Len(b) = e - a
         /\ Framing!TextLength(b) \in 0..(e - a)
         /\ Framing!TextLength(b) = Len(b) => Unended(a, e - a)
         /\ Framing!TextLength(b) # Len(b) =>
              /\ Framing!TextLength(b) + 2 <= e - a
              /\ Unended(a, Framing!TextLength(b) + 1)
              /\ frame_stream[a + (Framing!TextLength(b) + 1)] = "r" /\ frame_stream[a + (Framing!TextLength(b) + 2)] = "r"
<1>1. b \in Seq(Bytes) /\ Len(b) = e - a /\ \A k \in 1..(e - a) : b[k] = frame_stream[a + k]
  BY Cuts
<1>2. PICK ends : ends = {i \in 1..(Len(b) - 1) : b[i] = Framing!Terminator[1] /\ b[i + 1] = Framing!Terminator[2]}
  OBVIOUS
<1>3. e - a \in Nat /\ e \in Int /\ a \in Int
  BY DEF Arriving
<1>4. ends = {i \in 1..((e - a) - 1) : frame_stream[a + i] = "r" /\ frame_stream[a + (i + 1)] = "r"}
  <2>1. Framing!Terminator[1] = "r" /\ Framing!Terminator[2] = "r"
    BY DEF Framing!Terminator
  <2>2. \A i \in 1..((e - a) - 1) : i \in 1..(e - a) /\ i + 1 \in 1..(e - a)
    BY <1>3
  <2>3. \A i \in 1..((e - a) - 1) : b[i] = frame_stream[a + i] /\ b[i + 1] = frame_stream[a + (i + 1)]
    BY <1>1, <2>2
  <2> QED BY <1>1, <1>2, <2>1, <2>3
<1>5. CASE ends = {}
  <2>1. Framing!TextLength(b) = Len(b)
    BY <1>2, <1>5 DEF Framing!TextLength
  <2>2. Unended(a, e - a)
    BY <1>4, <1>5 DEF Unended
  <2> QED BY <1>1, <1>3, <2>1, <2>2
<1>6. CASE ends # {}
  <2>1. \E i \in ends : \A j \in ends : i <= j
    <3>1. PICK T : T = {m \in Nat : \A i \in ends : i > m}
      OBVIOUS
    <3>2. SUFFICES ASSUME \A i \in ends : \E j \in ends : ~(i <= j) PROVE FALSE
      OBVIOUS
    <3>3. 0 \in T
      BY <1>4, <3>1
    <3>4. ASSUME NEW m \in Nat, m \in T PROVE m + 1 \in T
      <4>1. SUFFICES ASSUME NEW i \in ends PROVE i > m + 1
        BY <3>1
      <4>2. i \in Nat /\ i > m
        BY <1>4, <3>1, <3>4
      <4>3. PICK j \in ends : ~(i <= j)
        BY <3>2
      <4>4. j \in Nat /\ j > m
        BY <1>4, <3>1, <3>4, <4>3
      <4> QED BY <3>4, <4>2, <4>3, <4>4
    <3>5. Nat \subseteq T
      BY <3>3, <3>4, Inductive
    <3>6. PICK i \in ends : i \in Nat
      <4>1. ends \subseteq Nat
        BY <1>4
      <4>2. PICK i : i \in ends
        BY <1>6
      <4> QED BY <4>1, <4>2
    <3>7. i \in T
      BY <3>5, <3>6
    <3> QED BY <3>1, <3>6, <3>7
  <2>2. PICK i : i = CHOOSE k \in ends : \A j \in ends : k <= j
    OBVIOUS
  <2>3. i \in ends /\ \A j \in ends : i <= j
    BY <2>1, <2>2
  <2>4. Framing!TextLength(b) = i - 1
    BY <1>2, <1>6, <2>2 DEF Framing!TextLength
  <2>5. /\ i \in 1..((e - a) - 1) /\ frame_stream[a + i] = "r" /\ frame_stream[a + (i + 1)] = "r"
        /\ Framing!TextLength(b) + 1 = i /\ Framing!TextLength(b) + 2 = i + 1 /\ Framing!TextLength(b) # Len(b)
        /\ Framing!TextLength(b) \in 0..(e - a) /\ Framing!TextLength(b) + 2 <= e - a
    BY <1>1, <1>3, <1>4, <2>3, <2>4
  <2>6. Unended(a, i)
    <3>1. SUFFICES ASSUME NEW k \in 1..(i - 1), frame_stream[a + k] = "r", frame_stream[a + (k + 1)] = "r"
                   PROVE FALSE
      BY DEF Unended
    <3>2. k \in 1..((e - a) - 1) /\ ~(i <= k)
      BY <1>3, <2>5
    <3>3. k \in ends
      BY <1>4, <3>1, <3>2
    <3> QED BY <2>3, <3>2, <3>3
  <2> QED BY <1>1, <2>5, <2>6
<1> QED BY <1>5, <1>6

LEMMA StepIs ==
  ASSUME NEW b, NEW n, n = Framing!TextLength(b), NEW h, h = SubSeq(b, 1, n), Len(h) = n,
         NEW D, D = Framing!Declares(h), NEW body, body = SubSeq(b, (n + 2) + 1, (n + 2) + D)
  PROVE  /\ n = Len(b) /\ Len(b) > MaxHeader => Framing!Step(b) = Framing!Throw
         /\ n = Len(b) /\ ~(Len(b) > MaxHeader) => Framing!Step(b) = Framing!Wait(b)
         /\ n # Len(b) /\ (n + 2 > MaxHeader \/ Framing!BadHeader(h) \/ D > MaxBody) => Framing!Step(b) = Framing!Throw
         /\ n # Len(b) /\ ~(n + 2 > MaxHeader \/ Framing!BadHeader(h) \/ D > MaxBody) =>
              /\ Len(b) < (n + 2) + D => Framing!Step(b) = Framing!Wait(b)
              /\ ~(Len(b) < (n + 2) + D) /\ Framing!Contains(body, "x") => Framing!Step(b) = Framing!Throw
              /\ ~(Len(b) < (n + 2) + D) /\ ~Framing!Contains(body, "x")
                   => Framing!Step(b) = Framing!Take(body, SubSeq(b, ((n + 2) + D) + 1, Len(b)))
<1>1. Len(Framing!Terminator) = 2
  BY DEF Framing!Terminator
<1>2. Framing!TooLong(h) <=> n + 2 > MaxHeader
  BY <1>1 DEF Framing!TooLong
<1>3. Framing!Step(b) =
        IF n = Len(b) THEN IF Len(b) > MaxHeader THEN Framing!Throw ELSE Framing!Wait(b)
        ELSE IF Framing!TooLong(h) \/ Framing!BadHeader(h) \/ D > MaxBody THEN Framing!Throw
        ELSE IF Len(b) < (n + 2) + D THEN Framing!Wait(b)
        ELSE IF Framing!Contains(body, "x") THEN Framing!Throw
        ELSE Framing!Take(body, SubSeq(b, ((n + 2) + D) + 1, Len(b)))
  BY <1>1, Zenon DEF Framing!Step
<1> QED BY <1>2, <1>3

\* What a step makes of the bytes from a frame's start a up to e.
StepsTo(s, a, e, o) ==
  \/ s = Framing!Throw /\ Framing!reader[e].mode = "bad" /\ Framing!reader[e].out = o
  \/ /\ s = Framing!Wait(Cut(a, e)) /\ Framing!reader[e].mode # "bad" /\ Framing!reader[e].out = o
     /\ e - a <= MaxHeader + MaxBody
  \/ \E c \in (a + 1)..e, m \in Seq(Bytes) :
       s = Framing!Take(m, Cut(c, e)) /\ Len(m) <= MaxBody /\ Framing!reader[c] = Framing!AtHeader(<<>>, Append(o, m))

LEMMA Stepped ==
  ASSUME Arriving, NEW a \in 0..MaxStream, NEW e \in a..MaxStream, NEW o,
         Framing!reader[a] = Framing!AtHeader(<<>>, o)
  PROVE  StepsTo(Framing!Step(Cut(a, e)), a, e, o)
<1>1. MaxStream \in Nat /\ MaxHeader \in Nat /\ MaxBody \in Nat /\ e - a \in Nat /\ e - a \in 0..(MaxStream - a)
      /\ a + (e - a) = e
  BY DEF Arriving
<1>2. PICK b : b = Cut(a, e)
  OBVIOUS
<1>3. PICK n : n = Framing!TextLength(b)
  OBVIOUS
<1>4. /\ b \in Seq(Bytes) /\ Len(b) = e - a /\ n \in 0..(e - a)
      /\ n = e - a => Unended(a, e - a)
      /\ n # e - a =>
           /\ n + 2 <= e - a /\ Unended(a, n + 1)
           /\ frame_stream[a + (n + 1)] = "r" /\ frame_stream[a + (n + 2)] = "r"
  BY <1>2, <1>3, TextEnds
<1>5. PICK h : h = Cut(a, a + n)
  OBVIOUS
<1>6. h = SubSeq(b, 1, n) /\ h \in Seq(Bytes) /\ Len(h) = n
  <2>1. PICK i : i = 0
    OBVIOUS
  <2>2. i \in 0..(e - a) /\ n \in i..(e - a) /\ a + i = a /\ i + 1 = 1
    BY <1>1, <1>4, <2>1
  <2>3. SubSeq(Cut(a, e), i + 1, n) = Cut(a + i, a + n)
    BY <2>2, CutOfCut
  <2>4. PICK q : q = a + n
    OBVIOUS
  <2>5. q \in a..MaxStream /\ q - a = n
    BY <1>1, <1>4, <2>4
  <2>6. Cut(a, q) \in Seq(Bytes) /\ Len(Cut(a, q)) = q - a
    BY <2>5, Cuts
  <2> QED BY <1>2, <1>5, <2>2, <2>3, <2>4, <2>5, <2>6
<1>7. PICK D : D = Framing!Declares(h)
  OBVIOUS
<1>8. D \in Nat /\ (~Framing!BadHeader(h) => D > 0)
  <2>1. Framing!Count(h, "1") \in Nat
    BY <1>6, CountNat
  <2> QED BY <1>7, <2>1 DEF Framing!Declares, Framing!BadHeader
<1>9. PICK body : body = SubSeq(b, (n + 2) + 1, (n + 2) + D)
  OBVIOUS
<1>10. /\ n = Len(b) /\ Len(b) > MaxHeader => Framing!Step(b) = Framing!Throw
       /\ n = Len(b) /\ ~(Len(b) > MaxHeader) => Framing!Step(b) = Framing!Wait(b)
       /\ n # Len(b) /\ (n + 2 > MaxHeader \/ Framing!BadHeader(h) \/ D > MaxBody) => Framing!Step(b) = Framing!Throw
       /\ n # Len(b) /\ ~(n + 2 > MaxHeader \/ Framing!BadHeader(h) \/ D > MaxBody) =>
            /\ Len(b) < (n + 2) + D => Framing!Step(b) = Framing!Wait(b)
            /\ ~(Len(b) < (n + 2) + D) /\ Framing!Contains(body, "x") => Framing!Step(b) = Framing!Throw
            /\ ~(Len(b) < (n + 2) + D) /\ ~Framing!Contains(body, "x")
                 => Framing!Step(b) = Framing!Take(body, SubSeq(b, ((n + 2) + D) + 1, Len(b)))
  BY <1>3, <1>6, <1>7, <1>9, StepIs
<1>11. CASE n = e - a /\ e - a > MaxHeader
  <2>1. Framing!Step(b) = Framing!Throw
    BY <1>4, <1>10, <1>11
  <2>2. Unended(a, MaxHeader) /\ e > a + MaxHeader
    <3>1. PICK m : m = e - a
      OBVIOUS
    <3>2. m >= MaxHeader /\ m \in Nat /\ Unended(a, m) /\ e > a + MaxHeader
      BY <1>1, <1>4, <1>11, <3>1
    <3>3. \A i \in 1..(MaxHeader - 1) : i \in 1..(m - 1)
      BY <1>1, <3>2
    <3> QED BY <3>2, <3>3 DEF Unended
  <2>3. Framing!reader[e].mode = "bad" /\ Framing!reader[e].out = o
    BY <2>2, HeaderTooLong
  <2> QED BY <1>2, <2>1, <2>3 DEF StepsTo
<1>12. CASE n = e - a /\ ~(e - a > MaxHeader)
  <2>1. Framing!Step(b) = Framing!Wait(b)
    BY <1>4, <1>10, <1>12
  <2>2. PICK m : m = e - a
    OBVIOUS
  <2>3. m \in 0..(MaxStream - a) /\ m <= MaxHeader /\ Unended(a, m) /\ a + m = e
    BY <1>1, <1>4, <1>12, <2>2
  <2>4. Framing!reader[a + m] = Framing!AtHeader(Cut(a, a + m), o)
    BY <2>3, HeaderRead
  <2>5. Framing!reader[e].mode # "bad" /\ Framing!reader[e].out = o
    BY <2>3, <2>4 DEF Framing!AtHeader
  <2>6. e - a <= MaxHeader + MaxBody
    BY <1>1, <1>12
  <2> QED BY <1>2, <2>1, <2>5, <2>6 DEF StepsTo
<1>13. CASE n # e - a /\ n + 2 > MaxHeader
  <2>1. Framing!Step(b) = Framing!Throw
    BY <1>4, <1>10, <1>13
  <2>2. Unended(a, MaxHeader) /\ e > a + MaxHeader
    <3>1. PICK m : m = n + 1
      OBVIOUS
    <3>2. m >= MaxHeader /\ m \in Nat /\ Unended(a, m) /\ e > a + MaxHeader
      BY <1>1, <1>4, <1>13, <3>1
    <3>3. \A i \in 1..(MaxHeader - 1) : i \in 1..(m - 1)
      BY <1>1, <3>2
    <3> QED BY <3>2, <3>3 DEF Unended
  <2>3. Framing!reader[e].mode = "bad" /\ Framing!reader[e].out = o
    BY <2>2, HeaderTooLong
  <2> QED BY <1>2, <2>1, <2>3 DEF StepsTo
<1>14. CASE n # e - a /\ ~(n + 2 > MaxHeader)
  <2>1. PICK p : p = a + (n + 2)
    OBVIOUS
  <2>2. /\ n \in 0..(MaxStream - a) /\ n + 2 <= MaxHeader /\ n + 2 <= MaxStream - a
        /\ p \in 0..MaxStream /\ e \in p..MaxStream /\ n + 2 \in 0..(e - a) /\ n + 2 \in Nat
    BY <1>1, <1>4, <1>14, <2>1
  <2>3. /\ Framing!BadHeader(h) \/ Framing!Declares(h) > MaxBody => Framing!reader[p].mode = "bad" /\ Framing!reader[p].out = o
        /\ ~(Framing!BadHeader(h) \/ Framing!Declares(h) > MaxBody)
             => Framing!reader[p] = Framing!InBody(<<>>, Framing!Declares(h), o)
    BY <1>4, <1>5, <1>14, <2>1, <2>2, HeaderEnd
  <2>4. CASE Framing!BadHeader(h) \/ D > MaxBody
    <3>1. Framing!Step(b) = Framing!Throw
      BY <1>4, <1>10, <1>14, <2>4
    <3>2. Framing!reader[p].mode = "bad" /\ Framing!reader[p].out = o
      BY <1>7, <2>3, <2>4
    <3>3. Framing!reader[e] = Framing!reader[p]
      BY <2>2, <3>2, BadStays
    <3> QED BY <1>2, <3>1, <3>2, <3>3 DEF StepsTo
  <2>5. CASE ~(Framing!BadHeader(h) \/ D > MaxBody) /\ e < p + D
    <3>1. Framing!reader[p] = Framing!InBody(<<>>, D, o)
      BY <1>7, <2>3, <2>5
    <3>2. PICK k : k = e - p
      OBVIOUS
    <3>3. k \in 0..(MaxStream - p) /\ k < D /\ p + k = e /\ e - a <= MaxHeader + MaxBody
          /\ e - a < (n + 2) + D
      BY <1>1, <1>8, <2>1, <2>2, <2>5, <3>2
    <3>4. Framing!reader[p + k] = Framing!InBody(Cut(p, p + k), D - k, o)
      BY <1>8, <2>2, <3>1, <3>3, BodyRead
    <3>5. Framing!reader[e].mode # "bad" /\ Framing!reader[e].out = o
      BY <3>3, <3>4 DEF Framing!InBody
    <3>6. Framing!Step(b) = Framing!Wait(b)
      BY <1>4, <1>10, <1>14, <2>5, <3>3
    <3> QED BY <1>2, <3>3, <3>5, <3>6 DEF StepsTo
  <2>6. CASE ~(Framing!BadHeader(h) \/ D > MaxBody) /\ ~(e < p + D)
    <3>1. Framing!reader[p] = Framing!InBody(<<>>, D, o) /\ D > 0
      BY <1>7, <1>8, <2>3, <2>6
    <3>2. PICK c, i, j : c = p + D /\ i = n + 2 /\ j = (n + 2) + D
      OBVIOUS
    <3>3. /\ c \in (a + 1)..e /\ c \in 0..MaxStream /\ e \in c..MaxStream /\ p + D <= MaxStream
          /\ i \in 0..(e - a) /\ j \in i..(e - a) /\ j \in 0..(e - a) /\ e - a \in j..(e - a)
          /\ a + i = p /\ a + j = c /\ ~(e - a < (n + 2) + D) /\ c \in p..MaxStream /\ c - p = D
      BY <1>1, <1>8, <2>1, <2>2, <2>6, <3>1, <3>2
    <3>4. body = Cut(p, c)
      <4>1. SubSeq(Cut(a, e), i + 1, j) = Cut(a + i, a + j)
        BY <3>3, CutOfCut
      <4> QED BY <1>2, <1>9, <3>2, <3>3, <4>1
    <3>5. SubSeq(b, ((n + 2) + D) + 1, Len(b)) = Cut(c, e)
      <4>1. PICK q : q = e - a
        OBVIOUS
      <4>2. q \in j..(e - a)
        BY <3>3, <4>1
      <4>3. SubSeq(Cut(a, e), j + 1, q) = Cut(a + j, a + q)
        BY <3>3, <4>2, CutOfCut
      <4> QED BY <1>1, <1>2, <1>4, <3>2, <3>3, <4>1, <4>3
    <3>6. /\ Framing!Contains(Cut(p, c), "x") => Framing!reader[c].mode = "bad" /\ Framing!reader[c].out = o
          /\ ~Framing!Contains(Cut(p, c), "x") => Framing!reader[c] = Framing!AtHeader(<<>>, Append(o, Cut(p, c)))
      BY <1>8, <2>2, <3>1, <3>2, <3>3, BodyEnd
    <3>7. CASE Framing!Contains(Cut(p, c), "x")
      <4>1. Framing!Step(b) = Framing!Throw
        BY <1>4, <1>10, <1>14, <2>6, <3>3, <3>4, <3>7
      <4>2. Framing!reader[c].mode = "bad" /\ Framing!reader[c].out = o
        BY <3>6, <3>7
      <4>3. Framing!reader[e] = Framing!reader[c]
        BY <3>3, <4>2, BadStays
      <4> QED BY <1>2, <4>1, <4>2, <4>3 DEF StepsTo
    <3>8. CASE ~Framing!Contains(Cut(p, c), "x")
      <4>1. Framing!Step(b) = Framing!Take(Cut(p, c), Cut(c, e))
        BY <1>4, <1>10, <1>14, <2>6, <3>3, <3>4, <3>5, <3>8
      <4>2. Cut(p, c) \in Seq(Bytes) /\ Len(Cut(p, c)) = D
        BY <2>2, <3>3, Cuts
      <4>3. Len(Cut(p, c)) <= MaxBody
        BY <1>1, <1>8, <2>6, <4>2
      <4>4. Framing!reader[c] = Framing!AtHeader(<<>>, Append(o, Cut(p, c)))
        BY <3>6, <3>8
      <4> QED BY <1>2, <3>3, <4>1, <4>2, <4>3, <4>4 DEF StepsTo
    <3> QED BY <3>7, <3>8
  <2> QED BY <2>4, <2>5, <2>6
<1> QED BY <1>4, <1>11, <1>12, <1>13, <1>14

---------------------------------------------------------------------------
(* push: the loop over the frames of one chunk.                            *)

LEMMA PrefixOfJoin ==
  ASSUME NEW T, NEW s \in Seq(T), NEW t \in Seq(T)
  PROVE  Framing!IsPrefix(s, s \o t)
<1>1. /\ s \o t \in Seq(T) /\ Len(s \o t) = Len(s) + Len(t) /\ Len(s) \in Nat /\ Len(t) \in Nat
  BY ConcatProperties
<1>2. CASE Len(s) = 0
  <2>1. 1 \in Int /\ Len(s) \in Int /\ Len(s) < 1
    BY <1>2
  <2>2. SubSeq(s, 1, Len(s)) = <<>> /\ SubSeq(s \o t, 1, Len(s)) = <<>>
    BY <2>1, SubSeqEmpty
  <2> QED BY <1>1, <2>2 DEF Framing!IsPrefix
<1>3. CASE Len(s) # 0
  <2>1. 1 \in 1..Len(s) /\ Len(s) \in 1..Len(s)
    BY <1>1, <1>3
  <2>2. SubSeq(s \o t, 1, Len(s)) = SubSeq(s, 1, Len(s))
    BY <2>1, SubSeqOfConcat1
  <2> QED BY <1>1, <2>2 DEF Framing!IsPrefix
<1> QED BY <1>2, <1>3

AppendsAfter(s, t, x) == Append(s \o t, x) = s \o Append(t, x)

LEMMA AppendJoin ==
  ASSUME NEW T, NEW s \in Seq(T), NEW t \in Seq(T), NEW x \in T
  PROVE  AppendsAfter(s, t, x)
<1>1. PICK u, l, r : u = s \o t /\ l = Append(u, x) /\ r = s \o Append(t, x)
  OBVIOUS
<1>2. /\ u \in Seq(T) /\ Len(u) = Len(s) + Len(t) /\ Len(s) \in Nat /\ Len(t) \in Nat
      /\ \A i \in 1..(Len(s) + Len(t)) : u[i] = IF i <= Len(s) THEN s[i] ELSE t[i - Len(s)]
  BY <1>1, ConcatProperties
<1>3. /\ Append(t, x) \in Seq(T) /\ Len(Append(t, x)) = Len(t) + 1
      /\ \A i \in 1..(Len(t) + 1) : Append(t, x)[i] = IF i <= Len(t) THEN t[i] ELSE x
  BY <1>2
<1>4. /\ l \in Seq(T) /\ Len(l) = Len(s) + Len(t) + 1
      /\ \A i \in 1..(Len(s) + Len(t) + 1) : l[i] = IF i <= Len(s) + Len(t) THEN u[i] ELSE x
  <2>1. l \in Seq(T)
    BY <1>1, <1>2
  <2>2. /\ Len(l) = Len(u) + 1
        /\ \A i \in 1..(Len(u) + 1) : l[i] = IF i <= Len(u) THEN u[i] ELSE x
    <3>1. u \in Seq(T) /\ l = Append(u, x)
      BY <1>1, <1>2
    <3> QED BY <3>1
  <2> QED BY <1>2, <2>1, <2>2
<1>5. PICK v : v = Append(t, x)
  OBVIOUS
<1>6. /\ r \in Seq(T) /\ Len(r) = Len(s) + Len(v)
      /\ \A i \in 1..(Len(s) + Len(v)) : r[i] = IF i <= Len(s) THEN s[i] ELSE v[i - Len(s)]
  BY <1>1, <1>3, <1>5, ConcatProperties
<1>7. Len(l) = Len(r)
  BY <1>2, <1>3, <1>4, <1>5, <1>6
<1>8. ASSUME NEW i \in 1..(Len(s) + Len(t) + 1) PROVE l[i] = r[i]
  <2>1. r[i] = IF i <= Len(s) THEN s[i] ELSE v[i - Len(s)]
    BY <1>2, <1>3, <1>5, <1>6
  <2>2. CASE i <= Len(s)
    BY <1>2, <1>4, <2>1, <2>2
  <2>3. CASE ~(i <= Len(s)) /\ i <= Len(s) + Len(t)
    <3>1. i - Len(s) \in 1..(Len(t) + 1) /\ i - Len(s) <= Len(t) /\ i \in 1..(Len(s) + Len(t))
      BY <1>2, <2>3
    <3> QED BY <1>2, <1>3, <1>4, <1>5, <2>1, <2>3, <3>1
  <2>4. CASE ~(i <= Len(s) + Len(t))
    <3>1. i - Len(s) \in 1..(Len(t) + 1) /\ ~(i - Len(s) <= Len(t)) /\ ~(i <= Len(s))
      BY <1>2, <2>4
    <3> QED BY <1>3, <1>4, <1>5, <2>1, <2>4, <3>1
  <2> QED BY <2>2, <2>3, <2>4
<1>9. l = r
  BY <1>4, <1>6, <1>7, <1>8, SeqEqual
<1> QED BY <1>1, <1>9 DEF AppendsAfter

\* What the loop may hold after some rounds on the bytes from a to e.
Held(d, a, e, o) ==
  \E c \in a..e : d.rest = Cut(c, e) /\ Framing!reader[c] = Framing!AtHeader(<<>>, o \o d.got)
                  /\ (d.is = "wait" => e - c <= MaxHeader + MaxBody)
Rounds(a, e, o) ==
  {d \in [is : {"take", "wait", "throw"}, rest : Seq(Bytes), got : Seq(Seq(Bytes))] :
     /\ \A i \in 1..Len(d.got) : Len(d.got[i]) <= MaxBody
     /\ d.is = "throw" => /\ d.rest = <<>> /\ d.got = <<>>
                          /\ Framing!reader[e].mode = "bad" /\ Framing!IsPrefix(o, Framing!reader[e].out)
     /\ d.is # "throw" => Held(d, a, e, o)
     /\ d.is = "wait" => Framing!reader[e].mode # "bad" /\ Framing!reader[e].out = o \o d.got}

LEMMA NextRound ==
  ASSUME Arriving, NEW a \in 0..MaxStream, NEW e \in a..MaxStream, NEW o \in Seq(Seq(Bytes)),
         NEW d \in Rounds(a, e, o)
  PROVE  /\ Framing!Again(d) \in Rounds(a, e, o)
         /\ d.is = "take" /\ Framing!Again(d).is = "take" => Len(Framing!Again(d).rest) < Len(d.rest)
<1>1. CASE d.is # "take"
  BY <1>1 DEF Framing!Again
<1>2. CASE d.is = "take"
  <2>1. PICK c \in a..e : d.rest = Cut(c, e) /\ Framing!reader[c] = Framing!AtHeader(<<>>, o \o d.got)
    BY <1>2 DEF Rounds, Held
  <2>2. /\ MaxStream \in Nat /\ c \in 0..MaxStream /\ e \in c..MaxStream /\ e - c \in Nat
        /\ e \in a..e
    BY DEF Arriving
  <2>3. PICK s : s = Framing!Step(Cut(c, e))
    OBVIOUS
  <2>4. StepsTo(s, c, e, o \o d.got)
    BY <2>1, <2>2, <2>3, Stepped
  <2>5. /\ d.got \in Seq(Seq(Bytes)) /\ o \o d.got \in Seq(Seq(Bytes)) /\ Len(d.got) \in Nat
        /\ \A i \in 1..Len(d.got) : Len(d.got[i]) <= MaxBody
    BY DEF Rounds
  <2>6. Framing!Again(d) = [is |-> s.is, rest |-> s.rest,
                    got |-> CASE s.is = "wait" -> d.got
                              [] s.is = "throw" -> <<>>
                              [] s.is = "take" -> Append(d.got, s.body)]
    BY <1>2, <2>1, <2>3 DEF Framing!Again
  <2>7. Cut(c, e) \in Seq(Bytes) /\ Len(Cut(c, e)) = e - c
    BY <2>2, Cuts
  <2>8. CASE s = Framing!Throw /\ Framing!reader[e].mode = "bad" /\ Framing!reader[e].out = o \o d.got
    <3>1. Framing!Again(d) = [is |-> "throw", rest |-> <<>>, got |-> <<>>]
      BY <2>6, <2>8 DEF Framing!Throw
    <3>2. Framing!IsPrefix(o, Framing!reader[e].out)
      BY <2>5, <2>8, PrefixOfJoin
    <3>3. <<>> \in Seq(Bytes) /\ <<>> \in Seq(Seq(Bytes)) /\ Len(<<>>) = 0
      OBVIOUS
    <3>4. PICK q : q = Framing!Again(d)
      OBVIOUS
    <3>5. /\ q \in [is : {"take", "wait", "throw"}, rest : Seq(Bytes), got : Seq(Seq(Bytes))]
          /\ q.is = "throw" /\ q.rest = <<>> /\ q.got = <<>>
      BY <3>1, <3>3, <3>4
    <3>6. q \in Rounds(a, e, o)
      BY <2>8, <3>2, <3>3, <3>5 DEF Rounds
    <3> QED BY <3>4, <3>5, <3>6
  <2>9. CASE /\ s = Framing!Wait(Cut(c, e)) /\ Framing!reader[e].mode # "bad" /\ Framing!reader[e].out = o \o d.got
             /\ e - c <= MaxHeader + MaxBody
    <3>1. Framing!Again(d) = [is |-> "wait", rest |-> Cut(c, e), got |-> d.got]
      BY <2>6, <2>9 DEF Framing!Wait
    <3>2. PICK q : q = Framing!Again(d)
      OBVIOUS
    <3>3. /\ q \in [is : {"take", "wait", "throw"}, rest : Seq(Bytes), got : Seq(Seq(Bytes))]
          /\ q.is = "wait" /\ q.rest = Cut(c, e) /\ q.got = d.got
      BY <2>5, <2>7, <3>1, <3>2
    <3>4. Held(q, a, e, o)
      BY <2>1, <2>9, <3>3 DEF Held
    <3>5. q \in Rounds(a, e, o)
      BY <2>5, <2>9, <3>3, <3>4 DEF Rounds
    <3> QED BY <3>2, <3>3, <3>5
  <2>10. CASE \E f \in (c + 1)..e, m \in Seq(Bytes) :
                /\ s = Framing!Take(m, Cut(f, e)) /\ Len(m) <= MaxBody
                /\ Framing!reader[f] = Framing!AtHeader(<<>>, Append(o \o d.got, m))
    <3>1. PICK f \in (c + 1)..e, m \in Seq(Bytes) :
                /\ s = Framing!Take(m, Cut(f, e)) /\ Len(m) <= MaxBody
                /\ Framing!reader[f] = Framing!AtHeader(<<>>, Append(o \o d.got, m))
      BY <2>10
    <3>2. /\ f \in a..e /\ f \in 0..MaxStream /\ e \in f..MaxStream /\ e - f < e - c
      BY <2>2
    <3>3. Cut(f, e) \in Seq(Bytes) /\ Len(Cut(f, e)) = e - f
      BY <3>2, Cuts
    <3>4. PICK g : g = Append(d.got, m)
      OBVIOUS
    <3>5. /\ g \in Seq(Seq(Bytes)) /\ Len(g) = Len(d.got) + 1
          /\ \A i \in 1..(Len(d.got) + 1) : g[i] = IF i <= Len(d.got) THEN d.got[i] ELSE m
      <4>1. PICK t : t = d.got
        OBVIOUS
      <4>2. t \in Seq(Seq(Bytes)) /\ g = Append(t, m)
        BY <2>5, <3>4, <4>1
      <4>3. /\ g \in Seq(Seq(Bytes)) /\ Len(g) = Len(t) + 1
            /\ \A i \in 1..(Len(t) + 1) : g[i] = IF i <= Len(t) THEN t[i] ELSE m
        BY <4>2
      <4> QED BY <4>1, <4>3
    <3>6. \A i \in 1..Len(g) : Len(g[i]) <= MaxBody
      <4> TAKE i \in 1..Len(g)
      <4>1. CASE i <= Len(d.got)
        <5>1. i \in 1..Len(d.got) /\ i \in 1..(Len(d.got) + 1)
          BY <2>5, <3>5, <4>1
        <5> QED BY <2>5, <3>5, <4>1, <5>1
      <4>2. CASE ~(i <= Len(d.got))
        BY <2>5, <3>1, <3>5, <4>2
      <4> QED BY <4>1, <4>2
    <3>7. o \o g = Append(o \o d.got, m)
      <4>1. PICK T, t : T = Seq(Bytes) /\ t = d.got
        OBVIOUS
      <4>2. o \in Seq(T) /\ t \in Seq(T) /\ m \in T
        BY <2>5, <4>1
      <4>3. Append(o \o t, m) = o \o Append(t, m)
        <5>1. AppendsAfter(o, t, m)
          BY <4>2, AppendJoin
        <5> QED BY <5>1 DEF AppendsAfter
      <4> QED BY <3>4, <4>1, <4>3
    <3>8. Framing!Again(d) = [is |-> "take", rest |-> Cut(f, e), got |-> g]
      BY <2>6, <3>1, <3>4 DEF Framing!Take
    <3>9. PICK q : q = Framing!Again(d)
      OBVIOUS
    <3>10. /\ q \in [is : {"take", "wait", "throw"}, rest : Seq(Bytes), got : Seq(Seq(Bytes))]
           /\ q.is = "take" /\ q.rest = Cut(f, e) /\ q.got = g
      BY <3>3, <3>5, <3>8, <3>9
    <3>11. Held(q, a, e, o)
      BY <3>1, <3>2, <3>7, <3>10 DEF Held
    <3>12. q \in Rounds(a, e, o)
      BY <3>6, <3>10, <3>11 DEF Rounds
    <3> QED BY <2>1, <2>7, <3>2, <3>3, <3>9, <3>10, <3>12
  <2> QED BY <2>4, <2>8, <2>9, <2>10 DEF StepsTo
<1> QED BY <1>1, <1>2

LEMMA Drained ==
  ASSUME Arriving, NEW a \in 0..MaxStream, NEW e \in a..MaxStream, NEW o \in Seq(Seq(Bytes)),
         Framing!reader[a] = Framing!AtHeader(<<>>, o)
  PROVE  Framing!Drain(Cut(a, e)) \in Rounds(a, e, o) /\ Framing!Drain(Cut(a, e)).is # "take"
<1>1. /\ MaxStream \in Nat /\ e - a \in Nat /\ a \in a..e /\ e \in Int /\ a \in Int
  BY DEF Arriving
<1>2. PICK b : b = Cut(a, e)
  OBVIOUS
<1>3. b \in Seq(Bytes) /\ Len(b) = e - a
  BY <1>2, Cuts
<1>4. PICK N : N = Len(b) + 1
  OBVIOUS
<1>5. PICK d0 : d0 = [is |-> "take", rest |-> b, got |-> <<>>]
  OBVIOUS
<1>6. d0 \in Rounds(a, e, o) /\ d0.is = "take" /\ Len(d0.rest) = e - a
  <2>1. /\ d0 \in [is : {"take", "wait", "throw"}, rest : Seq(Bytes), got : Seq(Seq(Bytes))]
        /\ d0.is = "take" /\ d0.rest = b /\ d0.got = <<>> /\ Len(d0.got) = 0
    BY <1>3, <1>5
  <2>2. o \o d0.got = o
    BY <2>1, ConcatEmptySeq
  <2>3. Held(d0, a, e, o)
    BY <1>1, <1>2, <2>1, <2>2 DEF Held
  <2> QED BY <1>3, <2>1, <2>3 DEF Rounds
<1>7. PICK G : G = [p \in (1..N) \X Rounds(a, e, o) |-> Framing!Again(p[2])]
  OBVIOUS
<1>8. G \in [(1..N) \X Rounds(a, e, o) -> Rounds(a, e, o)]
  <2>1. \A p \in (1..N) \X Rounds(a, e, o) : p[2] \in Rounds(a, e, o)
    OBVIOUS
  <2>2. \A q \in Rounds(a, e, o) : Framing!Again(q) \in Rounds(a, e, o)
    BY NextRound
  <2>3. \A p \in (1..N) \X Rounds(a, e, o) : Framing!Again(p[2]) \in Rounds(a, e, o)
    BY <2>1, <2>2
  <2> QED BY <1>7, <2>3
<1>9. N \in Nat /\ N = Len(b) + 1 /\ N \in 0..N
  BY <1>1, <1>3, <1>4
<1>10. PICK f \in [0..N -> Rounds(a, e, o)] : f[0] = d0 /\ \A i \in 1..N : f[i] = G[<<i, f[i - 1]>>]
  <2>1. PICK R : R = Rounds(a, e, o)
    OBVIOUS
  <2>2. N \in Nat /\ d0 \in R /\ G \in [(1..N) \X R -> R]
    BY <1>6, <1>8, <1>9, <2>1
  <2>3. PICK f \in [0..N -> R] : Follows(f, d0, G, N)
    BY <2>2, Iterates
  <2> QED BY <2>1, <2>3 DEF Follows
<1>11. \A i \in 1..N : f[i - 1] \in Rounds(a, e, o) /\ f[i] = Framing!Again(f[i - 1])
  <2> TAKE i \in 1..N
  <2>1. i - 1 \in 0..N
    BY <1>9
  <2>2. PICK r : r = f[i - 1]
    OBVIOUS
  <2>3. r \in Rounds(a, e, o) /\ f[i] = G[<<i, r>>]
    BY <1>10, <2>1, <2>2
  <2>4. <<i, r>> \in (1..N) \X Rounds(a, e, o) /\ <<i, r>>[2] = r
    BY <2>3
  <2> QED BY <1>7, <2>2, <2>3, <2>4
<1>12. f = [i \in 0..N |-> IF i = 0 THEN d0 ELSE Framing!Again(f[i - 1])]
  <2>1. \A i \in 0..N : i = 0 \/ i \in 1..N
    BY <1>9
  <2>2. \A i \in 0..N : f[i] = IF i = 0 THEN d0 ELSE Framing!Again(f[i - 1])
    BY <1>10, <1>11, <2>1
  <2> QED BY <1>10, <2>2
<1>13. PICK g : g = CHOOSE h : h = [i \in 0..N |-> IF i = 0 THEN d0 ELSE Framing!Again(h[i - 1])]
  OBVIOUS
<1>14. g = [i \in 0..N |-> IF i = 0 THEN d0 ELSE Framing!Again(g[i - 1])]
  BY <1>12, <1>13, Zenon
<1>15. g[0] = d0 /\ \A i \in 1..N : g[i] = Framing!Again(g[i - 1])
  <2>1. 0 \in 0..N /\ \A i \in 1..N : i \in 0..N /\ i # 0
    BY <1>9
  <2> QED BY <1>14, <2>1
<1>16. PICK T : T = {i \in 0..N : g[i] \in Rounds(a, e, o)
                                  /\ (g[i].is = "take" => Len(g[i].rest) + i <= e - a)}
  OBVIOUS
<1>17. 0 \in T
  BY <1>1, <1>6, <1>9, <1>15, <1>16
<1>18. ASSUME NEW i \in 0..(N - 1), i \in T PROVE i + 1 \in T
  <2>1. i + 1 \in 1..N /\ (i + 1) - 1 = i /\ i \in Nat
    BY <1>9
  <2>2. PICK d : d = g[i]
    OBVIOUS
  <2>3. d \in Rounds(a, e, o) /\ (d.is = "take" => Len(d.rest) + i <= e - a)
    BY <1>16, <1>18, <2>2
  <2>4. g[i + 1] = Framing!Again(d)
    BY <1>15, <2>1, <2>2
  <2>5. /\ Framing!Again(d) \in Rounds(a, e, o)
        /\ d.is = "take" /\ Framing!Again(d).is = "take" => Len(Framing!Again(d).rest) < Len(d.rest)
    BY <2>3, NextRound
  <2>6. Framing!Again(d).is = "take" => d.is = "take"
    BY DEF Framing!Again
  <2>7. Len(Framing!Again(d).rest) \in Nat /\ Len(d.rest) \in Nat
    BY <2>3, <2>5 DEF Rounds
  <2>8. PICK q : q = Framing!Again(d)
    OBVIOUS
  <2>9. q.is = "take" => Len(q.rest) + (i + 1) <= e - a
    <3>1. SUFFICES ASSUME q.is = "take" PROVE Len(q.rest) + (i + 1) <= e - a
      OBVIOUS
    <3>2. PICK l, k, w : l = Len(q.rest) /\ k = Len(d.rest) /\ w = e - a
      OBVIOUS
    <3>3. l < k /\ k + i <= w
      BY <2>3, <2>5, <2>6, <2>8, <3>1, <3>2
    <3>4. l \in Nat /\ k \in Nat /\ w \in Nat
      BY <1>1, <2>7, <2>8, <3>2
    <3>5. i \in Nat
      BY <2>1
    <3>6. l + (i + 1) <= w
      BY <3>3, <3>4, <3>5
    <3> QED BY <3>2, <3>6
  <2>10. g[i + 1] = q /\ q \in Rounds(a, e, o) /\ i + 1 \in 0..N
    BY <1>9, <2>1, <2>4, <2>5, <2>8
  <2> QED BY <1>16, <2>9, <2>10
<1>19. N \in T
  BY <1>9, <1>17, <1>18, InductiveTo
<1>20. g[N] \in Rounds(a, e, o) /\ g[N].is # "take"
  <2>1. g[N] \in Rounds(a, e, o) /\ (g[N].is = "take" => Len(g[N].rest) + N <= e - a)
    BY <1>16, <1>19
  <2>2. Len(g[N].rest) \in Nat
    BY <2>1 DEF Rounds
  <2>3. PICK l, w : l = Len(g[N].rest) /\ w = e - a
    OBVIOUS
  <2>4. l \in Nat /\ w \in Nat /\ N = w + 1
    BY <1>1, <1>3, <1>9, <2>2, <2>3
  <2>5. ~(l + N <= w)
    BY <2>4
  <2> QED BY <2>1, <2>3, <2>5
<1>21. Framing!Drain(b) = g[N]
  BY <1>4, <1>5, <1>13, Zenon DEF Framing!Drain
<1> QED BY <1>2, <1>20, <1>21

---------------------------------------------------------------------------
(* The decoder: what it retains is the rest of a frame, and its messages   *)
(* are the reader's.                                                       *)
Retains ==
  \E c \in 0..frame_at : /\ frame_buffer = Cut(c, frame_at) /\ Framing!reader[c] = Framing!AtHeader(<<>>, frame_got)
                   /\ frame_at - c <= MaxHeader + MaxBody

FrameInv ==
  /\ Arriving /\ frame_at \in 0..MaxStream /\ frame_failed \in BOOLEAN
  /\ frame_got \in Seq(Seq(Bytes)) /\ \A i \in 1..Len(frame_got) : Len(frame_got[i]) <= MaxBody
  /\ frame_failed => frame_buffer = <<>> /\ Framing!reader[frame_at].mode = "bad" /\ Framing!IsPrefix(frame_got, Framing!reader[frame_at].out)
  /\ ~frame_failed => Retains /\ Framing!reader[frame_at].mode # "bad" /\ Framing!reader[frame_at].out = frame_got

LEMMA InitFrame ==
  ASSUME Framing!Init, MaxStream \in Nat, MaxHeader \in Nat, MaxBody \in Nat
  PROVE  FrameInv
<1>1. Arriving
  BY DEF Framing!Init, Arriving, Framing!TupleOf
<1>2. frame_at = 0 /\ frame_buffer = <<>> /\ frame_got = <<>> /\ frame_failed = FALSE /\ frame_at \in 0..MaxStream /\ 0 \in 0..frame_at
      /\ frame_at - 0 <= MaxHeader + MaxBody /\ 0 \in 0..MaxStream
  BY DEF Framing!Init
<1>3. Framing!reader[0] = Framing!AtHeader(<<>>, <<>>)
  BY <1>1, ReaderDefined
<1>4. Cut(0, 0) = <<>>
  BY <1>1, <1>2, CutEmpty
<1>5. Retains
  BY <1>2, <1>3, <1>4 DEF Retains
<1>6. Framing!reader[frame_at].mode # "bad" /\ Framing!reader[frame_at].out = frame_got
  BY <1>2, <1>3 DEF Framing!AtHeader
<1>7. frame_got \in Seq(Seq(Bytes)) /\ Len(frame_got) = 0
  BY <1>2
<1>8. \A i \in 1..Len(frame_got) : Len(frame_got[i]) <= MaxBody
  BY <1>7
<1> QED BY <1>1, <1>2, <1>5, <1>6, <1>7, <1>8 DEF FrameInv

LEMMA ReaderStays ==
  ASSUME frame_stream' = frame_stream
  PROVE  Framing!reader' = Framing!reader
BY DEF Framing!reader

LEMMA StepFrame ==
  ASSUME FrameInv, [Framing!Next]_frame_vars
  PROVE  FrameInv'
<1>1. CASE UNCHANGED frame_vars
  <2>1. frame_stream' = frame_stream /\ frame_at' = frame_at /\ frame_buffer' = frame_buffer /\ frame_got' = frame_got /\ frame_failed' = frame_failed
    BY <1>1 DEF frame_vars
  <2>2. Framing!reader' = Framing!reader
    BY <2>1, ReaderStays
  <2>3. Retains' = Retains /\ Arriving' = Arriving
    BY <2>1, <2>2 DEF Retains, Cut, Arriving
  <2> QED BY <2>1, <2>2, <2>3 DEF FrameInv
<1>2. ASSUME NEW n \in 1..MaxStream, Framing!Push(n)
      PROVE FrameInv'
  <2>1. /\ ~frame_failed /\ n \in 1..(Len(frame_stream) - frame_at) /\ frame_at' = frame_at + n /\ frame_stream' = frame_stream
    BY <1>2 DEF Framing!Push
  <2>2. /\ Arriving /\ frame_at \in 0..MaxStream /\ frame_got \in Seq(Seq(Bytes)) /\ Retains
        /\ \A i \in 1..Len(frame_got) : Len(frame_got[i]) <= MaxBody
    BY <2>1 DEF FrameInv
  <2>3. PICK e : e = frame_at + n
    OBVIOUS
  <2>4. /\ Len(frame_stream) = MaxStream /\ MaxStream \in Nat /\ e \in frame_at..MaxStream /\ e \in 0..MaxStream
    BY <2>1, <2>2, <2>3 DEF Arriving
  <2>5. PICK c \in 0..frame_at : frame_buffer = Cut(c, frame_at) /\ Framing!reader[c] = Framing!AtHeader(<<>>, frame_got)
    BY <2>2 DEF Retains
  <2>6. c \in 0..MaxStream /\ frame_at \in c..MaxStream /\ e \in c..MaxStream /\ c..e \subseteq 0..e
    BY <2>2, <2>4
  <2>7. frame_buffer \o SubSeq(frame_stream, frame_at + 1, frame_at + n) = Cut(c, e)
    <3>1. SubSeq(frame_stream, frame_at + 1, frame_at + n) = Cut(frame_at, e)
      BY <2>3 DEF Cut
    <3>2. Cut(c, frame_at) \o Cut(frame_at, e) = Cut(c, e)
      BY <2>2, <2>4, <2>6, CutsJoin
    <3> QED BY <2>5, <3>1, <3>2
  <2>8. PICK d : d = Framing!Drain(Cut(c, e))
    OBVIOUS
  <2>9. d \in Rounds(c, e, frame_got) /\ d.is # "take"
    BY <2>2, <2>5, <2>6, <2>8, Drained
  <2>10. frame_buffer' = d.rest /\ frame_failed' = (d.is = "throw") /\ frame_got' = frame_got \o d.got
    BY <1>2, <2>7, <2>8 DEF Framing!Push
  <2>11. /\ d.is \in {"take", "wait", "throw"} /\ d.got \in Seq(Seq(Bytes))
         /\ \A i \in 1..Len(d.got) : Len(d.got[i]) <= MaxBody
         /\ d.is = "throw" => /\ d.rest = <<>> /\ d.got = <<>>
                              /\ Framing!reader[e].mode = "bad" /\ Framing!IsPrefix(frame_got, Framing!reader[e].out)
         /\ d.is # "throw" => Held(d, c, e, frame_got)
         /\ d.is = "wait" => Framing!reader[e].mode # "bad" /\ Framing!reader[e].out = frame_got \o d.got
    BY <2>9 DEF Rounds
  <2>12. PICK joined : joined = frame_got \o d.got
    OBVIOUS
  <2>13. joined \in Seq(Seq(Bytes)) /\ \A i \in 1..Len(joined) : Len(joined[i]) <= MaxBody
    <3>1. PICK t : t = d.got
      OBVIOUS
    <3>2. /\ joined \in Seq(Seq(Bytes)) /\ Len(joined) = Len(frame_got) + Len(t)
          /\ Len(frame_got) \in Nat /\ Len(t) \in Nat
          /\ \A i \in 1..(Len(frame_got) + Len(t)) : joined[i] = IF i <= Len(frame_got) THEN frame_got[i] ELSE t[i - Len(frame_got)]
      BY <2>2, <2>11, <2>12, <3>1, ConcatProperties
    <3>3. ASSUME NEW i \in 1..Len(joined) PROVE Len(joined[i]) <= MaxBody
      <4>1. CASE i <= Len(frame_got)
        <5>1. i \in 1..Len(frame_got) /\ i \in 1..(Len(frame_got) + Len(t))
          BY <3>2, <4>1
        <5> QED BY <2>2, <3>2, <4>1, <5>1
      <4>2. CASE ~(i <= Len(frame_got))
        <5>1. i - Len(frame_got) \in 1..Len(t)
          BY <3>2, <4>2
        <5> QED BY <2>11, <3>1, <3>2, <4>2, <5>1
      <4> QED BY <4>1, <4>2
    <3> QED BY <3>2, <3>3
  <2>14. Framing!reader' = Framing!reader /\ Arriving' /\ frame_at' = e /\ frame_got' = joined
    BY <2>1, <2>2, <2>3, <2>10, <2>12, ReaderStays DEF Arriving
  <2>15. CASE d.is = "throw"
    <3>1. joined = frame_got
      BY <2>2, <2>11, <2>12, <2>15, ConcatEmptySeq
    <3>2. frame_failed' = TRUE /\ frame_buffer' = <<>>
      BY <2>10, <2>11, <2>15
    <3> QED BY <2>4, <2>11, <2>13, <2>14, <2>15, <3>1, <3>2 DEF FrameInv
  <2>16. CASE d.is = "wait"
    <3>1. frame_failed' = FALSE /\ frame_buffer' = d.rest
      BY <2>10, <2>16
    <3>2. PICK f \in c..e : d.rest = Cut(f, e) /\ Framing!reader[f] = Framing!AtHeader(<<>>, joined)
                            /\ e - f <= MaxHeader + MaxBody
      BY <2>11, <2>12, <2>16 DEF Held
    <3>3. f \in 0..e /\ Cut(f, e)' = Cut(f, e')
      BY <2>1, <2>6 DEF Cut
    <3>4. Retains'
      <4>1. f \in 0..frame_at' /\ frame_buffer' = SubSeq(frame_stream', f + 1, frame_at') /\ Framing!reader'[f] = Framing!AtHeader(<<>>, frame_got')
            /\ frame_at' - f <= MaxHeader + MaxBody
        BY <2>1, <2>14, <3>1, <3>2, <3>3 DEF Cut
      <4> QED BY <4>1 DEF Retains, Cut, Framing!AtHeader
    <3>5. Framing!reader'[frame_at'].mode # "bad" /\ Framing!reader'[frame_at'].out = frame_got'
      BY <2>11, <2>12, <2>14, <2>16
    <3> QED BY <2>4, <2>13, <2>14, <3>1, <3>4, <3>5 DEF FrameInv
  <2> QED BY <2>9, <2>11, <2>15, <2>16
<1> QED BY <1>1, <1>2 DEF Framing!Next

LEMMA FramesHold ==
  ASSUME FrameInv
  PROVE  Framing!TypeOK /\ Framing!ChunkingIsInvisible /\ Framing!RetainedIsBounded
<1>1. Framing!TypeOK
  <2>1. ASSUME NEW i \in DOMAIN frame_got PROVE frame_got[i] \in Framing!BoundedSeq(Bytes, MaxBody)
    <3>1. i \in 1..Len(frame_got) /\ frame_got \in Seq(Seq(Bytes)) /\ MaxBody \in Nat
      BY <2>1 DEF FrameInv, Arriving
    <3>2. PICK m : m = frame_got[i]
      OBVIOUS
    <3>3. m \in Seq(Bytes) /\ Len(m) <= MaxBody
      BY <3>1, <3>2, ElementOfSeq DEF FrameInv
    <3>4. m \in [1..Len(m) -> Bytes] /\ Len(m) \in 0..MaxBody
      BY <3>1, <3>3, LenProperties
    <3> QED BY <3>2, <3>4 DEF Framing!BoundedSeq, Framing!SeqOf
  <2> QED BY <2>1 DEF FrameInv, Framing!TypeOK
<1>2. Framing!ChunkingIsInvisible
  BY DEF FrameInv, Framing!ChunkingIsInvisible
<1>3. Framing!RetainedIsBounded
  <2>1. CASE frame_failed
    <3>1. frame_buffer = <<>> /\ MaxHeader \in Nat /\ MaxBody \in Nat
      BY <2>1 DEF FrameInv, Arriving
    <3>2. Len(frame_buffer) = 0
      BY <3>1
    <3> QED BY <3>1, <3>2 DEF Framing!RetainedIsBounded
  <2>2. CASE ~frame_failed
    <3>1. PICK c \in 0..frame_at : frame_buffer = Cut(c, frame_at) /\ frame_at - c <= MaxHeader + MaxBody
      BY <2>2 DEF FrameInv, Retains
    <3>2. c \in 0..MaxStream /\ frame_at \in c..MaxStream /\ Arriving
      BY DEF FrameInv, Arriving
    <3>3. Len(Cut(c, frame_at)) = frame_at - c
      BY <3>2, Cuts
    <3> QED BY <3>1, <3>3 DEF Framing!RetainedIsBounded
  <2> QED BY <2>1, <2>2 DEF FrameInv
<1> QED BY <1>1, <1>2, <1>3

---------------------------------------------------------------------------
(* The search for a root: what the walk has left behind was seen unmarked, *)
(* and there is no root before the answer.                                 *)
RootInv ==
  /\ Depth \in Nat /\ Root!TypeOK /\ root_session \in {0} \cup 1..Depth
  /\ \A l \in (root_level + 1)..Depth : l \in root_seen
  /\ root_at = "resolve" => root_found = root_level
  /\ root_at # "done" => root_root = 0
  /\ Root!NearestRoot

LEMMA InitRoot ==
  ASSUME Root!Init, Depth \in Nat, MarkerWrites \in Nat
  PROVE  RootInv
<1>1. Root!Levels = 1..Depth /\ Root!None = 0
  BY DEF Root!Levels, Root!None
<1>2. /\ root_fallback \in Root!Fallbacks /\ root_session \in {0} \cup 1..Depth /\ root_marked \in SUBSET (1..Depth)
      /\ root_at \in {"first", "walk"} /\ root_level = Depth /\ root_found = 0 /\ root_aborted = FALSE /\ root_root = 0
      /\ root_seen = {} /\ root_writes = 0
  BY <1>1 DEF Root!Init
<1>3. root_session \in 0..Depth /\ root_level \in 0..Depth /\ root_found \in 0..Depth /\ root_root \in 0..(Depth + 1)
      /\ root_writes \in 0..MarkerWrites
  BY <1>2
<1>4. Root!TypeOK
  BY <1>1, <1>2, <1>3 DEF Root!TypeOK
<1> QED BY <1>4 DEF RootInv, Root!Init, Root!Levels, Root!None, Root!NearestRoot

LEMMA SessionRoots ==
  ASSUME RootInv, NEW ok \in BOOLEAN
  PROVE  /\ Root!SessionRoot(ok) \in 0..(Depth + 1)
         /\ root_aborted => Root!SessionRoot(ok) = 0
         /\ Root!SessionRoot(ok) # 0 =>
              \/ root_fallback # "never" /\ Root!SessionRoot(ok) = root_session
              \/ root_fallback = "always" /\ root_session = 0 /\ Root!SessionRoot(ok) = Depth + 1
BY DEF RootInv, Root!SessionRoot, Root!Answers, Root!Contained, Root!None

\* Returning the session's root, none, or the marked level that was found.
LEMMA RootReturned ==
  ASSUME RootInv, root_at # "done", NEW r \in 0..(Depth + 1), Root!Return(r),
         \/ r = 0
         \/ root_fallback # "never" /\ r = root_session
         \/ root_fallback = "always" /\ root_session = 0 /\ r = Depth + 1
         \/ root_at = "resolve" /\ r = root_found
  PROVE  RootInv'
<1>1. /\ root_root' = r /\ root_at' = "done" /\ root_level' = root_level /\ root_found' = root_found /\ root_seen' = root_seen
      /\ root_fallback' = root_fallback /\ root_session' = root_session /\ root_marked' = root_marked /\ root_aborted' = root_aborted
      /\ root_writes' = root_writes
  BY DEF Root!Return, Root!Static
<1>2. Root!TypeOK'
  BY <1>1 DEF RootInv, Root!TypeOK
<1>3. Root!NearestRoot'
  BY <1>1 DEF RootInv, Root!NearestRoot, Root!None
<1> QED BY <1>1, <1>2, <1>3 DEF RootInv

LEMMA StepRoot ==
  ASSUME RootInv, [Root!Next]_root_vars
  PROVE  RootInv' /\ (root_aborted /\ root_at # "done" => root_root' = 0)
<1>0. root_root = 0 \/ root_at = "done"
  BY DEF RootInv
<1>1. ASSUME NEW ok \in BOOLEAN, Root!First(ok)
      PROVE RootInv' /\ (root_aborted /\ root_at # "done" => root_root' = 0)
  <2>1. CASE Root!SessionRoot(ok) # 0
    <3>1. Root!Return(Root!SessionRoot(ok)) /\ root_at # "done"
      BY <1>1, <2>1 DEF Root!First, Root!None
    <3>2. RootInv'
      BY <2>1, <3>1, SessionRoots, RootReturned
    <3> QED BY <2>1, <3>2, SessionRoots
  <2>2. CASE Root!SessionRoot(ok) = 0
    BY <1>0, <1>1, <2>2 DEF RootInv, Root!First, Root!None, Root!Goto, Root!Static, Root!TypeOK, Root!NearestRoot
  <2> QED BY <2>1, <2>2
<1>2. ASSUME NEW ok \in BOOLEAN, Root!Probe(ok)
      PROVE RootInv' /\ (root_aborted /\ root_at # "done" => root_root' = 0)
  <2>1. /\ root_at = "walk" /\ root_level # 0 /\ root_root' = root_root /\ root_fallback' = root_fallback /\ root_session' = root_session
        /\ root_marked' = root_marked /\ root_aborted' = root_aborted /\ root_writes' = root_writes
    BY <1>2 DEF Root!Probe, Root!None, Root!Static
  <2>2. \/ root_found' = root_level /\ root_at' = "resolve" /\ root_level' = root_level /\ root_seen' = root_seen
        \/ root_level' = root_level - 1 /\ root_seen' = root_seen \cup {root_level} /\ root_at' = root_at /\ root_found' = root_found
    BY <1>2 DEF Root!Probe
  <2>3. Root!TypeOK'
    <3>1. root_level \in 1..Depth /\ root_level - 1 \in 0..Depth /\ root_level \in 0..Depth
      BY <2>1 DEF RootInv, Root!TypeOK
    <3>2. /\ root_fallback \in Root!Fallbacks /\ root_session \in 0..Depth /\ root_marked \subseteq Root!Levels
          /\ root_found \in 0..Depth /\ root_aborted \in BOOLEAN /\ root_root \in 0..Depth + 1
          /\ root_seen \subseteq Root!Levels /\ root_writes \in 0..MarkerWrites /\ root_level \in Root!Levels
      BY <3>1 DEF RootInv, Root!TypeOK, Root!Levels
    <3>3. root_found' \in 0..Depth /\ root_level' \in 0..Depth /\ root_at' \in {"walk", "resolve"} /\ root_seen' \subseteq Root!Levels
      BY <2>1, <2>2, <3>1, <3>2
    <3> QED BY <2>1, <3>2, <3>3 DEF Root!TypeOK
  <2>4. \A l \in (root_level' + 1)..Depth : l \in root_seen'
    BY <2>1, <2>2 DEF RootInv, Root!TypeOK
  <2> QED BY <1>0, <2>1, <2>2, <2>3, <2>4 DEF RootInv, Root!NearestRoot
<1>3. ASSUME NEW ok \in BOOLEAN, Root!Resolve(ok)
      PROVE RootInv' /\ (root_aborted /\ root_at # "done" => root_root' = 0)
  <2>1. CASE Root!Answers(ok)
    <3>1. Root!Return(root_found) /\ root_at = "resolve" /\ ~root_aborted
      BY <1>3, <2>1 DEF Root!Resolve, Root!Answers
    <3>2. root_found \in 0..(Depth + 1)
      BY DEF RootInv, Root!TypeOK
    <3> QED BY <3>1, <3>2, RootReturned
  <2>2. CASE ~Root!Answers(ok)
    BY <1>0, <1>3, <2>2 DEF RootInv, Root!Resolve, Root!Goto, Root!Static, Root!TypeOK, Root!NearestRoot
  <2> QED BY <2>1, <2>2
<1>4. ASSUME NEW ok \in BOOLEAN, Root!Last(ok)
      PROVE RootInv' /\ (root_aborted /\ root_at # "done" => root_root' = 0)
  <2>1. PICK r : r = IF root_fallback = "if-contained" THEN 0 ELSE Root!SessionRoot(ok)
    OBVIOUS
  <2>2. Root!Return(r) /\ root_at # "done" /\ root_root' = r
    BY <1>4, <2>1 DEF Root!Last, Root!None, Root!Return
  <2>3. /\ r \in 0..(Depth + 1) /\ (root_aborted => r = 0)
        /\ \/ r = 0
           \/ root_fallback # "never" /\ r = root_session
           \/ root_fallback = "always" /\ root_session = 0 /\ r = Depth + 1
    <3>1. 0 \in 0..(Depth + 1)
      BY DEF RootInv
    <3> QED BY <2>1, <3>1, SessionRoots
  <2> QED BY <2>2, <2>3, RootReturned
<1>5. CASE Root!WalkedUp
  BY <1>0, <1>5 DEF RootInv, Root!WalkedUp, Root!Goto, Root!Static, Root!TypeOK, Root!NearestRoot
<1>6. CASE Root!Abort
  BY <1>0, <1>6 DEF RootInv, Root!Abort, Root!TypeOK, Root!NearestRoot
<1>7. ASSUME NEW l \in Root!Levels, Root!Write(l)
      PROVE RootInv' /\ (root_aborted /\ root_at # "done" => root_root' = 0)
  <2>1. /\ root_writes' = root_writes + 1 /\ root_writes < MarkerWrites /\ root_marked' \subseteq root_marked \cup {l}
        /\ root_fallback' = root_fallback /\ root_session' = root_session /\ root_at' = root_at /\ root_level' = root_level /\ root_found' = root_found
        /\ root_aborted' = root_aborted /\ root_root' = root_root /\ root_seen' = root_seen
    BY <1>7 DEF Root!Write
  <2>2. Root!TypeOK'
    BY <1>7, <2>1, LspLimits DEF RootInv, Root!TypeOK
  <2> QED BY <1>0, <2>1, <2>2 DEF RootInv, Root!NearestRoot
<1>8. CASE UNCHANGED root_vars
  BY <1>0, <1>8 DEF RootInv, root_vars, Root!TypeOK, Root!NearestRoot
<1> QED BY <1>1, <1>2, <1>3, <1>4, <1>5, <1>6, <1>7, <1>8 DEF Root!Next

---------------------------------------------------------------------------
(* The composite: each of its steps is one of the decoder, of the search,  *)
(* or of neither.                                                          *)
LEMMA LspSteps ==
  ASSUME [AllNext]_all
  PROVE  [Framing!Next]_frame_vars /\ [Root!Next]_root_vars
BY DEF AllNext, all, frame_vars, root_vars

\* In every behaviour, however long the server's output, wherever it is cut and
\* whatever the two caps: the decoder hands on the messages of the stream and
\* fails where the stream does, and what it retains is bounded (push, next).
THEOREM FramesKept == AllSpec => []FramesSound
<1>1. AllInit => FrameInv
  BY InitFrame, LspLimits DEF AllInit
<1>2. FrameInv /\ [AllNext]_all => FrameInv'
  BY StepFrame, LspSteps
<1>3. FrameInv => FramesSound
  BY FramesHold DEF FramesSound
<1> QED BY <1>1, <1>2, <1>3, PTL DEF AllSpec

\* In every behaviour, for any number of levels and of markers that come and
\* go: the root is the nearest marked level the probes saw or the session root
\* the caller allows, and an aborted search gives none (resolveWorkspaceRoot).
THEOREM NearestRootFound == AllSpec => NearestRoot
<1>1. AllInit => RootInv
  BY InitRoot, LspLimits DEF AllInit
<1>2. RootInv /\ [AllNext]_all => RootInv'
  BY StepRoot, LspSteps
<1>3. RootInv => (which = "root" => Root!TypeOK /\ Root!NearestRoot)
  BY DEF RootInv
<1>4. RootInv /\ [AllNext]_all => [root_aborted /\ root_at # "done" => root_root' = Root!None]_root_vars
  BY StepRoot, LspSteps DEF Root!None
<1> QED BY <1>1, <1>2, <1>3, <1>4, PTL DEF AllSpec, NearestRoot, Root!NoRootOnceAborted, Root!vars, root_vars

-----------------------------------------------------------------------------
(* The pool. *)
USE CallAssumption, BoundAssumption

SessFun == [Sessions -> SessionType]

\* What a session record never contradicts.
Coherent(r) ==
  /\ IsClosing(r) => r.td # "none"
  /\ r.td = "done" => r.proc # "alive" /\ r.boot # "resolving"

Good(S) == S \in SessFun /\ \A x \in Sessions : Coherent(S[x])

\* T is S after the record of session s changed as its operations may.
Moves(S, T, s) ==
  /\ Good(T)
  /\ \A x \in Sessions \ {s} : T[x] = S[x]
  /\ T[s].owner = S[s].owner
  /\ T[s].td = S[s].td \/ (S[s].td = "none" /\ T[s].td = "running")

\* Sessions 1..n exist; each is pooled under its key or has a teardown.
Tracked(S, P, n) ==
  /\ \A x \in 1..n : /\ S[x].owner \in Calls
                     /\ P[CallKey[S[x].owner]] = x \/ S[x].td # "none"
  /\ \A x \in Sessions : x > n => S[x] = NoSession
  /\ P \in [Keys -> 0..n]
  /\ \A k \in Keys : P[k] # 0 => CallKey[S[P[k]].owner] = k

Using == {"boot", "opening", "waiting", "closing"}

References(C, n) ==
  \A c \in Calls : /\ C[c].ses \in 0..n
                   /\ C[c].pc \in Using => C[c].ses # 0

AfterDispose ==
  /\ dispose # "none" => ~admission /\ \A k \in Keys : pool[k] = 0
  /\ dispose = "done" => \A s \in Sessions : sess[s].td # "running"

PoolInv ==
  /\ TypeOK
  /\ Good(sess)
  /\ Tracked(sess, pool, made)
  /\ References(call, made)
  /\ AfterDispose

-----------------------------------------------------------------------------
(* Lemmas about the session operations.                                    *)

LEMMA NoSessionType ==
  /\ NoSession \in SessionType /\ Coherent(NoSession)
  /\ \A c \in Calls : /\ NewSession(c) \in SessionType /\ Coherent(NewSession(c))
                      /\ NewSession(c).owner = c /\ NewSession(c).td = "none"
BY DEF NoSession, NewSession, SessionType, Coherent, IsClosing, Boots

LEMMA TeardownMoves ==
  ASSUME NEW S, Good(S), NEW s \in Sessions
  PROVE  /\ Moves(S, StartTeardown(S, s), s)
         /\ StartTeardown(S, s)[s].td # "none"
<1>. DEFINE r == [S[s] EXCEPT !.closing = TRUE, !.td = "running",
                              !.boot = RejectPending(S[s]),
                              !.out = Settle(S[s], "unavailable")]
<1>1. S[s] \in SessionType /\ Coherent(S[s])
  BY DEF Good, SessFun
<1>2. r \in SessionType
  <2>1. RejectPending(S[s]) \in Boots
    BY <1>1 DEF SessionType, RejectPending, Boots
  <2>2. Settle(S[s], "unavailable") \in {"none", "ok", "unavailable", "error"}
    BY <1>1 DEF SessionType, Settle
  <2>. QED
    BY <1>1, <2>1, <2>2 DEF SessionType
<1>3. Coherent(r) /\ r.owner = S[s].owner /\ r.td = "running"
  BY <1>1 DEF Coherent, IsClosing, SessionType
<1>4. CASE S[s].td # "none"
  BY <1>4 DEF StartTeardown, Moves
<1>5. CASE S[s].td = "none"
  <2>1. StartTeardown(S, s) = [S EXCEPT ![s] = r]
    BY <1>5 DEF StartTeardown
  <2>. QED
    BY <1>2, <1>3, <1>5, <2>1 DEF Moves, Good, SessFun
<1>. QED BY <1>4, <1>5

LEMMA PoisonMoves ==
  ASSUME NEW S, Good(S), NEW s \in Sessions
  PROVE  /\ Moves(S, Poison(S, s), s)
         /\ Poison(S, s)[s].td # "none"
<1>1. S[s] \in SessionType /\ Coherent(S[s]) /\ S \in SessFun
  BY DEF Good, SessFun
<1>2. CASE S[s].poisoned
  BY <1>1, <1>2 DEF Poison, Moves, Coherent, IsClosing
<1>3. CASE ~S[s].poisoned /\ S[s].td # "none"
  <2>. DEFINE r == [S[s] EXCEPT !.poisoned = TRUE, !.boot = RejectPending(S[s]),
                                !.out = Settle(S[s], "error")]
  <2>1. RejectPending(S[s]) \in Boots /\ (RejectPending(S[s]) = "resolving" => S[s].boot = "resolving")
    BY <1>1 DEF SessionType, RejectPending, Boots
  <2>2. Settle(S[s], "error") \in {"none", "ok", "unavailable", "error"}
    BY <1>1 DEF SessionType, Settle
  <2>3. r \in SessionType
    BY <1>1, <2>1, <2>2 DEF SessionType
  <2>4. Coherent(r) /\ r.owner = S[s].owner /\ r.td = S[s].td
    BY <1>1, <1>3, <2>1 DEF SessionType, Coherent, IsClosing
  <2>5. Poison(S, s) = [S EXCEPT ![s] = r]
    BY <1>1, <1>3, <2>4 DEF Poison, StartTeardown, SessFun
  <2>. HIDE DEF r
  <2>. QED
    BY <1>1, <1>3, <2>3, <2>4, <2>5 DEF Moves, Good, SessFun
<1>4. CASE ~S[s].poisoned /\ S[s].td = "none"
  <2>. DEFINE q == [S[s] EXCEPT !.poisoned = TRUE, !.boot = RejectPending(S[s]),
                                !.out = Settle(S[s], "error")]
              r == [q EXCEPT !.closing = TRUE, !.td = "running",
                             !.boot = RejectPending(q),
                             !.out = Settle(q, "unavailable")]
  <2>1. RejectPending(S[s]) \in Boots
    BY <1>1 DEF SessionType, RejectPending, Boots
  <2>2. Settle(S[s], "error") \in {"none", "ok", "unavailable", "error"}
    BY <1>1 DEF SessionType, Settle
  <2>3. q \in SessionType /\ q.owner = S[s].owner /\ q.td = S[s].td
    BY <1>1, <2>1, <2>2 DEF SessionType
  <2>4. Poison(S, s) = [S EXCEPT ![s] = r]
    BY <1>1, <1>4, <2>3 DEF Poison, StartTeardown, SessFun
  <2>. HIDE DEF q
  <2>5. RejectPending(q) \in Boots
    BY <2>3 DEF SessionType, RejectPending, Boots
  <2>6. Settle(q, "unavailable") \in {"none", "ok", "unavailable", "error"}
    BY <2>3 DEF SessionType, Settle
  <2>7. r \in SessionType /\ r.owner = S[s].owner /\ r.td = "running"
    BY <2>3, <2>5, <2>6 DEF SessionType
  <2>. HIDE DEF r
  <2>. QED
    BY <1>1, <1>4, <2>4, <2>7 DEF Moves, Good, SessFun, Coherent
<1>. QED BY <1>1, <1>2, <1>3, <1>4 DEF SessionType

LEMMA DetachMoves ==
  ASSUME NEW S, Good(S), NEW s \in Sessions
  PROVE  /\ Moves(S, Detach(S, s), s)
         /\ Detach(S, s)[s].td = S[s].td
<1>. DEFINE r == [S[s] EXCEPT !.waiter = NoCall, !.opened = FALSE, !.pre = {},
                              !.batch = {}, !.out = "none"]
<1>1. S[s] \in SessionType /\ Coherent(S[s]) /\ S \in SessFun
  BY DEF Good, SessFun
<1>2. r \in SessionType
  BY <1>1 DEF SessionType
<1>3. Coherent(r) /\ r.owner = S[s].owner /\ r.td = S[s].td
  BY <1>1 DEF Coherent, IsClosing, SessionType
<1>4. Detach(S, s) = [S EXCEPT ![s] = r]
  BY DEF Detach
<1>. HIDE DEF r
<1>. QED
  BY <1>1, <1>2, <1>3, <1>4 DEF Moves, Good, SessFun

LEMMA RetireMoves ==
  ASSUME NEW S, Good(S), NEW s \in Sessions
  PROVE  /\ Moves(S, Retire(S, s), s)
         /\ Retire(S, s)[s].td # "none"
<1>. DEFINE D == Detach(S, s)
            T == StartTeardown(D, s)
            r == [T[s] EXCEPT !.poisoned = FALSE, !.accepted = FALSE,
                              !.retire = FALSE, !.recv = {},
                              !.ver = [u \in Uris |-> 0]]
<1>1. Moves(S, D, s) /\ D[s].td = S[s].td
  BY DetachMoves
<1>2. Good(D)
  BY <1>1 DEF Moves
<1>3. Moves(D, T, s) /\ T[s].td # "none"
  BY <1>2, TeardownMoves
<1>4. Retire(S, s) = [T EXCEPT ![s] = r]
  BY DEF Retire
<1>. HIDE DEF D, T
<1>5. T[s] \in SessionType /\ Coherent(T[s]) /\ T \in SessFun
  BY <1>3 DEF Moves, Good, SessFun
<1>6. r \in SessionType
  BY <1>5 DEF SessionType
<1>7. Coherent(r) /\ r.owner = T[s].owner /\ r.td = T[s].td
  BY <1>3, <1>5 DEF Coherent, IsClosing, SessionType
<1>. HIDE DEF r
<1>. QED
  BY <1>1, <1>3, <1>4, <1>5, <1>6, <1>7 DEF Moves, Good, SessFun

\* A session that moved and has a teardown may leave the pool.
LEMMA TrackedEvict ==
  ASSUME NEW S, Good(S), NEW n \in 0..MaxSessions, NEW P, Tracked(S, P, n),
         NEW s \in 1..n, NEW T, Moves(S, T, s), T[s].td # "none"
  PROVE  Tracked(T, EvictFrom(P, s), n)
BY DEF Tracked, EvictFrom, Moves, Sessions

\* A session that moved keeps its slot.
LEMMA TrackedStay ==
  ASSUME NEW S, Good(S), NEW n \in 0..MaxSessions, NEW P, Tracked(S, P, n),
         NEW s \in 1..n, NEW T, Moves(S, T, s)
  PROVE  Tracked(T, P, n)
BY DEF Tracked, Moves, Sessions

LEMMA MovesTrans ==
  ASSUME NEW S, NEW T, NEW U, NEW s \in Sessions, Moves(S, T, s), Moves(T, U, s)
  PROVE  Moves(S, U, s)
BY DEF Moves

LEMMA MovesRefl ==
  ASSUME NEW S, Good(S), NEW s \in Sessions
  PROVE  Moves(S, S, s)
BY DEF Moves

-----------------------------------------------------------------------------
(* The shapes of the steps.                                                *)

\* A step that leaves the sessions and the pool alone.
LEMMA QuietStep ==
  ASSUME PoolInv, content' \in [Uris -> Nat], call' \in [Calls -> CallType],
         queue' \in [Keys -> Seq(Calls)], References(call', made),
         UNCHANGED <<sess, pool, made, admission, dispose>>
  PROVE  PoolInv'
BY DEF PoolInv, TypeOK, Good, Tracked, References, AfterDispose, Coherent,
       IsClosing, SessFun

\* A step in which one session moves, and leaves the pool if it is torn down.
LEMMA MoveStep ==
  ASSUME PoolInv, NEW s \in 1..made, Moves(sess, sess', s),
         pool' = pool \/ (pool' = EvictFrom(pool, s) /\ sess'[s].td # "none"),
         call' \in [Calls -> CallType], References(call', made),
         UNCHANGED <<content, queue, made, admission, dispose>>
  PROVE  PoolInv'
<1>1. Good(sess) /\ Tracked(sess, pool, made) /\ made \in 0..MaxSessions
      /\ s \in Sessions /\ TypeOK /\ AfterDispose
  BY DEF PoolInv, TypeOK, Sessions
<1>2. Tracked(sess', pool', made)
  BY <1>1, TrackedEvict, TrackedStay
<1>3. Good(sess') /\ sess' \in [Sessions -> SessionType]
  BY DEF Moves, Good, SessFun
<1>4. pool' \in [Keys -> 0..MaxSessions]
  BY <1>1, <1>2 DEF Tracked
<1>5. TypeOK'
  BY <1>1, <1>3, <1>4 DEF TypeOK
<1>6. \A k \in Keys : pool[k] = 0 => pool'[k] = 0
  BY <1>1 DEF EvictFrom, TypeOK
<1>7. AfterDispose'
  <2>1. ASSUME dispose = "done", NEW x \in Sessions
        PROVE  sess'[x].td # "running"
    <3>1. sess[x].td # "running" /\ \A k \in Keys : pool[k] = 0
      BY <1>1, <2>1 DEF AfterDispose
    <3>2. sess[s].td # "none"
      BY <1>1, <3>1 DEF Tracked
    <3>. QED
      BY <1>1, <3>1, <3>2 DEF Moves
  <2>. QED
    BY <1>1, <1>6, <2>1 DEF AfterDispose
<1>8. Good(sess)' /\ Tracked(sess, pool, made)' /\ References(call, made)'
  BY <1>2, <1>3 DEF Good, Tracked, References, SessFun, Coherent, IsClosing
<1>. QED
  BY <1>5, <1>7, <1>8 DEF PoolInv

LEMMA GetOrCreateStep ==
  ASSUME PoolInv, NEW c \in Calls, NEW S, Good(S), NEW P, Tracked(S, P, made),
         NEW C \in [Calls -> CallType], References(C, made), dispose = "none",
         GetOrCreate(c, S, P, C), UNCHANGED <<content, queue, admission, dispose>>
  PROVE  PoolInv'
<1>. DEFINE k == CallKey[c]
            cur == P[k]
<1>1. /\ k \in Keys /\ made \in 0..MaxSessions /\ TypeOK
      /\ cur \in 0..made /\ S \in [Sessions -> SessionType]
  BY DEF PoolInv, TypeOK, Tracked, Good, SessFun
<1>2. CASE cur # 0 /\ ~IsClosing(S[cur])
  <2>. DEFINE r == [S[cur] EXCEPT !.accepted = FALSE, !.retire = FALSE]
              q == [C[c] EXCEPT !.pc = "boot", !.ses = cur]
  <2>1. /\ sess' = [S EXCEPT ![cur] = r] /\ pool' = P /\ made' = made
        /\ call' = [C EXCEPT ![c] = q]
    BY <1>2 DEF GetOrCreate
  <2>2. cur \in Sessions /\ cur \in 1..made
    BY <1>1, <1>2 DEF Sessions
  <2>3. S[cur] \in SessionType /\ Coherent(S[cur])
    BY <2>2 DEF Good, SessFun
  <2>4. r \in SessionType /\ Coherent(r) /\ r.owner = S[cur].owner /\ r.td = S[cur].td
    BY <2>3 DEF SessionType, Coherent, IsClosing
  <2>5. q \in CallType /\ q.ses = cur
    <3>1. C[c] \in CallType /\ cur \in 0..MaxSessions
      BY <1>1
    <3>. QED
      BY <3>1 DEF CallType, Phases
  <2>. HIDE DEF r, q
  <2>6. Moves(S, sess', cur)
    BY <1>1, <2>1, <2>2, <2>4 DEF Moves, Good, SessFun
  <2>7. Tracked(sess', pool', made')
    BY <1>1, <2>1, <2>2, <2>6, TrackedStay
  <2>8. References(call', made') /\ call' \in [Calls -> CallType]
    BY <1>1, <1>2, <2>1, <2>5 DEF References
  <2>9. Good(sess') /\ sess' \in [Sessions -> SessionType]
    BY <2>6 DEF Moves, Good, SessFun
  <2>10. pool' \in [Keys -> 0..MaxSessions]
    BY <1>1, <2>7, <2>1 DEF Tracked
  <2>. QED
    BY <1>1, <2>1, <2>7, <2>8, <2>9, <2>10
       DEF PoolInv, TypeOK, AfterDispose, Good, SessFun, Coherent, IsClosing,
           Tracked, References
<1>3. CASE ~(cur # 0 /\ ~IsClosing(S[cur]))
  <2>. DEFINE new == made + 1
              q == [C[c] EXCEPT !.pc = "boot", !.ses = new]
  <2>1. /\ made < MaxSessions
        /\ sess' = [S EXCEPT ![new] = NewSession(c)]
        /\ pool' = [P EXCEPT ![k] = new]
        /\ made' = new /\ call' = [C EXCEPT ![c] = q]
    BY <1>3 DEF GetOrCreate
  <2>2. new \in Sessions /\ new \in 1..MaxSessions
    BY <1>1, <2>1 DEF Sessions
  <2>3. q \in CallType /\ q.ses = new
    <3>1. C[c] \in CallType /\ new \in 0..MaxSessions
      BY <2>2
    <3>. QED
      BY <3>1 DEF CallType, Phases
  <2>4. Good(sess') /\ sess' \in [Sessions -> SessionType]
    BY <1>1, <2>1, NoSessionType DEF Good, SessFun
  <2>5. References(call', made') /\ call' \in [Calls -> CallType]
    BY <1>1, <2>1, <2>2, <2>3 DEF References
  <2>6. Tracked(sess', pool', made')
    <3>1. cur # 0 => S[cur].td # "none"
      BY <1>1, <1>3 DEF Good, Coherent, Sessions
    <3>2. sess'[new].owner = c /\ pool'[k] = new
      BY <1>1, <2>1, <2>2, NoSessionType DEF Tracked
    <3>3. \A x \in 1..made : sess'[x] = S[x]
      BY <1>1, <2>1 DEF Sessions
    <3>4. pool' \in [Keys -> 0..new]
      BY <1>1, <2>1 DEF Tracked
    <3>5. \A x \in 1..new : sess'[x].owner \in Calls
                            /\ (pool'[CallKey[sess'[x].owner]] = x \/ sess'[x].td # "none")
      BY <1>1, <2>1, <3>1, <3>2, <3>3 DEF Tracked
    <3>6. \A x \in Sessions : x > new => sess'[x] = NoSession
      BY <1>1, <2>1 DEF Tracked, Sessions
    <3>7. \A l \in Keys : pool'[l] # 0 => CallKey[sess'[pool'[l]].owner] = l
      BY <1>1, <2>1, <3>2, <3>3 DEF Tracked
    <3>. QED
      BY <2>1, <3>4, <3>5, <3>6, <3>7 DEF Tracked
  <2>7. pool' \in [Keys -> 0..MaxSessions] /\ made' \in 0..MaxSessions
    BY <1>1, <2>1, <2>2, <2>6 DEF Tracked
  <2>. QED
    BY <1>1, <2>4, <2>5, <2>6, <2>7
       DEF PoolInv, TypeOK, AfterDispose, Good, SessFun, Coherent, IsClosing,
           Tracked, References
<1>. QED BY <1>2, <1>3

LEMMA RecordMoves ==
  ASSUME NEW S, Good(S), NEW s \in Sessions, NEW r \in SessionType,
         Coherent(r), r.owner = S[s].owner, r.td = S[s].td
  PROVE  Moves(S, [S EXCEPT ![s] = r], s)
BY DEF Moves, Good, SessFun

LEMMA SettledFacts ==
  ASSUME PoolInv, NEW c \in Calls, NEW o \in Outcomes, NEW d \in SUBSET Docs
  PROVE  Settled(c, o, d) \in [Calls -> CallType] /\ References(Settled(c, o, d), made)
<1>. DEFINE r == [call[c] EXCEPT !.pc = "settled", !.out = o, !.shown = d,
                                 !.ses = 0, !.attempt = 0, !.expected = 0]
<1>1. call[c] \in CallType /\ call \in [Calls -> CallType] /\ References(call, made)
      /\ made \in 0..MaxSessions
  BY DEF PoolInv, TypeOK
<1>2. r \in CallType /\ r.ses = 0 /\ r.pc = "settled"
  <2>1. 0 \in 0..MaxSessions /\ "settled" \in Phases
    BY DEF Phases
  <2>. QED
    BY <1>1, <2>1 DEF CallType
<1>3. Settled(c, o, d) = [call EXCEPT ![c] = r]
  BY DEF Settled
<1>. HIDE DEF r
<1>. QED
  BY <1>1, <1>2, <1>3 DEF References, Using

\* What session.diagnose may have done to its session when it is left.
Left(c, S, P) ==
  /\ call[c].pc \in Using
  /\ Moves(sess, S, call[c].ses)
  /\ P = pool \/ (P = EvictFrom(pool, call[c].ses) /\ S[call[c].ses].td # "none")

LEMMA LeftFacts ==
  ASSUME PoolInv, NEW c \in Calls, NEW S, NEW P, Left(c, S, P)
  PROVE  LET s == call[c].ses
         IN  /\ s \in 1..made /\ s \in Sessions /\ Good(S)
             /\ EvictFrom(P, s) = EvictFrom(pool, s)
             /\ Tracked(S, P, made)
             /\ Moves(sess, Retire(S, s), s) /\ Retire(S, s)[s].td # "none"
             /\ Moves(sess, Detach(S, s), s) /\ Detach(S, s)[s].td = S[s].td
             /\ Tracked(Retire(S, s), EvictFrom(P, s), made)
<1>. DEFINE s == call[c].ses
<1>1. /\ s \in 1..made /\ s \in Sessions /\ Good(sess) /\ Tracked(sess, pool, made)
      /\ made \in 0..MaxSessions
  BY DEF Left, PoolInv, TypeOK, References, Sessions
<1>2. Good(S) /\ Moves(sess, S, s)
  BY DEF Left, Moves
<1>. HIDE DEF s
<1>3. Tracked(S, P, made)
  BY <1>1, <1>2, TrackedEvict, TrackedStay DEF Left, s
<1>4. Moves(S, Retire(S, s), s) /\ Retire(S, s)[s].td # "none"
  BY <1>1, <1>2, RetireMoves
<1>5. Moves(S, Detach(S, s), s) /\ Detach(S, s)[s].td = S[s].td
  BY <1>1, <1>2, DetachMoves
<1>6. EvictFrom(P, s) = EvictFrom(pool, s)
  BY <1>1 DEF Left, EvictFrom, Tracked, s
<1>7. Moves(sess, Retire(S, s), s) /\ Moves(sess, Detach(S, s), s)
  BY <1>1, <1>2, <1>4, <1>5, MovesTrans
<1>8. Tracked(Retire(S, s), EvictFrom(P, s), made)
  BY <1>1, <1>2, <1>3, <1>4, TrackedEvict
<1>. QED
  BY <1>1, <1>2, <1>3, <1>4, <1>5, <1>6, <1>7, <1>8 DEF s

LEMMA ReturnStep ==
  ASSUME PoolInv, NEW c \in Calls, NEW S, NEW P, Left(c, S, P),
         NEW o \in Outcomes, Return(c, o, S, P),
         UNCHANGED <<content, queue, admission, dispose>>
  PROVE  PoolInv'
<1>. DEFINE s == call[c].ses
            shown == IF o = "ok" THEN S[s].batch ELSE {}
<1>1. /\ s \in 1..made /\ s \in Sessions /\ Good(S)
      /\ EvictFrom(P, s) = EvictFrom(pool, s)
      /\ Moves(sess, Retire(S, s), s) /\ Retire(S, s)[s].td # "none"
      /\ Moves(sess, Detach(S, s), s) /\ Detach(S, s)[s].td = S[s].td
  BY LeftFacts
<1>2. shown \in SUBSET Docs
  BY <1>1 DEF Good, SessFun, SessionType
<1>3. call' = Settled(c, o, shown) /\ made' = made
  BY DEF Return
<1>. HIDE DEF shown
<1>4. call' \in [Calls -> CallType] /\ References(call', made)
  BY <1>2, <1>3, SettledFacts
<1>5. CASE call[c].aborted \/ S[s].retire
  <2>1. sess' = Retire(S, s) /\ pool' = EvictFrom(pool, s)
    BY <1>1, <1>5 DEF Return
  <2>. QED
    BY <1>1, <1>3, <1>4, <2>1, MoveStep
<1>6. CASE ~(call[c].aborted \/ S[s].retire)
  <2>1. sess' = Detach(S, s) /\ pool' = P
    BY <1>1, <1>6 DEF Return
  <2>. QED
    BY <1>1, <1>3, <1>4, <2>1, MoveStep DEF Left
<1>. QED BY <1>5, <1>6

LEMMA ThrowStep ==
  ASSUME PoolInv, NEW c \in Calls, NEW S, NEW P, Left(c, S, P),
         Throw(c, S, P), UNCHANGED <<content, queue, admission, dispose>>
  PROVE  PoolInv'
<1>. DEFINE s == call[c].ses
            again == [call EXCEPT ![c] = [call[c] EXCEPT !.attempt = @ + 1]]
<1>1. /\ s \in 1..made /\ s \in Sessions /\ EvictFrom(P, s) = EvictFrom(pool, s)
      /\ Moves(sess, Retire(S, s), s) /\ Retire(S, s)[s].td # "none"
      /\ Tracked(Retire(S, s), EvictFrom(P, s), made)
  BY LeftFacts
<1>2. CASE ~call[c].aborted /\ MayRestart(c, S) /\ StillAdmitted
  <2>1. GetOrCreate(c, Retire(S, s), EvictFrom(P, s), again)
    BY <1>2 DEF Throw
  <2>2. dispose = "none"
    BY <1>2 DEF PoolInv, AfterDispose, StillAdmitted
  <2>3. again \in [Calls -> CallType] /\ References(again, made)
    <3>1. call \in [Calls -> CallType] /\ call[c] \in CallType /\ References(call, made)
      BY DEF PoolInv, TypeOK
    <3>. DEFINE r == [call[c] EXCEPT !.attempt = @ + 1]
    <3>2. r \in CallType /\ r.ses = call[c].ses /\ r.pc = call[c].pc
      BY <1>2, <3>1 DEF CallType, MayRestart
    <3>3. again = [call EXCEPT ![c] = r]
      OBVIOUS
    <3>. HIDE DEF r, again
    <3>. QED
      BY <3>1, <3>2, <3>3 DEF References
  <2>. HIDE DEF again
  <2>4. Good(Retire(S, s))
    BY <1>1 DEF Moves
  <2>. QED
    BY <1>1, <2>1, <2>2, <2>3, <2>4, GetOrCreateStep
<1>3. CASE ~(~call[c].aborted /\ MayRestart(c, S) /\ StillAdmitted)
  <2>. DEFINE o == IF call[c].aborted THEN "unavailable"
                   ELSE IF ~MayRestart(c, S) THEN "failed" ELSE "stale"
  <2>1. /\ call' = Settled(c, o, {}) /\ made' = made
        /\ sess' = Retire(S, s) /\ pool' = EvictFrom(pool, s)
    BY <1>1, <1>3 DEF Throw, Finish
  <2>2. o \in Outcomes
    BY DEF Outcomes
  <2>. HIDE DEF o
  <2>3. call' \in [Calls -> CallType] /\ References(call', made)
    BY <2>1, <2>2, SettledFacts
  <2>. QED
    BY <1>1, <2>1, <2>3, MoveStep
<1>. QED BY <1>2, <1>3

-----------------------------------------------------------------------------
(* One lemma per action.                                                   *)

\* What the invariant gives every action.
LEMMA Basics ==
  ASSUME PoolInv
  PROVE  /\ content \in [Uris -> Nat] /\ call \in [Calls -> CallType]
         /\ queue \in [Keys -> Seq(Calls)] /\ pool \in [Keys -> 0..MaxSessions]
         /\ sess \in [Sessions -> SessionType] /\ made \in 0..MaxSessions
         /\ Good(sess) /\ Tracked(sess, pool, made) /\ References(call, made)
         /\ 1..made \subseteq Sessions
         /\ \A k \in Keys : pool[k] \in 0..made
BY DEF PoolInv, TypeOK, Sessions, Tracked

LEMMA InitInv == Init => PoolInv
<1>. SUFFICES ASSUME Init PROVE PoolInv
  OBVIOUS
<1>1. sess \in [Sessions -> SessionType] /\ Good(sess)
  BY NoSessionType DEF Init, Good, SessFun
<1>2. call \in [Calls -> CallType] /\ References(call, made)
  BY DEF Init, CallType, Phases, Outcomes, References, Using
<1>3. Tracked(sess, pool, made)
  BY DEF Init, Tracked
<1>. QED
  BY <1>1, <1>2, <1>3 DEF PoolInv, TypeOK, AfterDispose, Init

\* A call record that changed without taking a session.
LEMMA CallChange ==
  ASSUME PoolInv, NEW c \in Calls, NEW r \in CallType, r.ses = call[c].ses,
         r.pc \in Using => call[c].pc \in Using
  PROVE  /\ [call EXCEPT ![c] = r] \in [Calls -> CallType]
         /\ References([call EXCEPT ![c] = r], made)
BY Basics DEF References

LEMMA WriteInv == ASSUME PoolInv, NEW u \in Uris, Write(u) PROVE PoolInv'
<1>1. content' \in [Uris -> Nat]
  BY Basics DEF Write
<1>. QED
  BY <1>1, Basics, QuietStep DEF Write

LEMMA FinishInv ==
  ASSUME PoolInv, NEW c \in Calls, NEW o \in Outcomes, Finish(c, o),
         UNCHANGED <<content, queue, pool, sess, made, admission, dispose>>
  PROVE  PoolInv'
<1>1. call' \in [Calls -> CallType] /\ References(call', made)
  BY SettledFacts DEF Finish
<1>. QED
  BY <1>1, Basics, QuietStep

LEMMA DiagnoseInv == ASSUME PoolInv, NEW c \in Calls, Diagnose(c) PROVE PoolInv'
<1>1. CASE ~admission \/ call[c].aborted
  BY <1>1, FinishInv DEF Diagnose, Outcomes
<1>2. CASE ~(~admission \/ call[c].aborted)
  <2>1. PICK v \in {0, content[CallUri[c]]} :
          call' = [call EXCEPT ![c].pc = "queued", ![c].expected = v]
    BY <1>2 DEF Diagnose
  <2>. DEFINE r == [call[c] EXCEPT !.pc = "queued", !.expected = v]
  <2>2. r \in CallType /\ r.ses = call[c].ses /\ r.pc = "queued"
    <3>1. call[c] \in CallType /\ v \in Nat /\ "queued" \in Phases
      BY Basics DEF Phases
    <3>. QED
      BY <3>1 DEF CallType
  <2>3. call' = [call EXCEPT ![c] = r]
    BY <2>1
  <2>. HIDE DEF r
  <2>4. call' \in [Calls -> CallType] /\ References(call', made)
    BY <2>2, <2>3, CallChange DEF Using
  <2>5. queue' \in [Keys -> Seq(Calls)]
    <3>1. queue[CallKey[c]] \in Seq(Calls) /\ CallKey[c] \in Keys
      BY Basics
    <3>2. Append(queue[CallKey[c]], c) \in Seq(Calls)
      BY <3>1
    <3>3. queue' = [queue EXCEPT ![CallKey[c]] = Append(queue[CallKey[c]], c)]
      BY <1>2 DEF Diagnose
    <3>. QED
      BY <3>1, <3>2, <3>3, Basics
  <2>. QED
    BY <2>4, <2>5, Basics, QuietStep DEF Diagnose
<1>. QED BY <1>1, <1>2

\* Only the program counter of one call changes.
LEMMA PcStep ==
  ASSUME PoolInv, NEW c \in Calls, NEW p \in Phases, p \in Using => call[c].pc \in Using,
         call' = [call EXCEPT ![c].pc = p]
  PROVE  call' \in [Calls -> CallType] /\ References(call', made)
<1>. DEFINE r == [call[c] EXCEPT !.pc = p]
<1>1. r \in CallType /\ r.ses = call[c].ses /\ r.pc = p
  <2>1. call[c] \in CallType
    BY Basics
  <2>. QED
    BY <2>1 DEF CallType
<1>2. call' = [call EXCEPT ![c] = r]
  OBVIOUS
<1>. HIDE DEF r
<1>3. [call EXCEPT ![c] = r] \in [Calls -> CallType]
      /\ References([call EXCEPT ![c] = r], made)
  BY <1>1, CallChange
<1>. QED
  BY <1>2, <1>3

LEMMA GiveUpQueuedInv == ASSUME PoolInv, NEW c \in Calls, GiveUpQueued(c) PROVE PoolInv'
BY FinishInv DEF GiveUpQueued, Outcomes

LEMMA StartRunInv == ASSUME PoolInv, NEW c \in Calls, StartRun(c) PROVE PoolInv'
<1>1. CASE StillAdmitted
  <2>1. call' \in [Calls -> CallType] /\ References(call', made)
    BY <1>1, PcStep DEF StartRun, Phases, Using
  <2>. QED
    BY <2>1, Basics, QuietStep DEF StartRun
<1>2. CASE ~StillAdmitted
  BY <1>2, FinishInv DEF StartRun, Outcomes
<1>. QED BY <1>1, <1>2

LEMMA StatInv == ASSUME PoolInv, NEW c \in Calls, Stat(c) PROVE PoolInv'
<1>1. CASE call' = [call EXCEPT ![c].pc = "read"]
  <2>1. call' \in [Calls -> CallType] /\ References(call', made)
    BY <1>1, PcStep DEF Phases, Using
  <2>. QED
    BY <2>1, Basics, QuietStep DEF Stat
<1>2. CASE Finish(c, "unavailable") \/ Finish(c, "stale")
  BY <1>2, FinishInv DEF Stat, Outcomes
<1>. QED BY <1>1, <1>2 DEF Stat

LEMMA ReadFailsInv == ASSUME PoolInv, NEW c \in Calls, ReadFails(c) PROVE PoolInv'
BY FinishInv DEF ReadFails, Outcomes

LEMMA ReadAndAcquireInv ==
  ASSUME PoolInv, NEW c \in Calls, ReadAndAcquire(c) PROVE PoolInv'
<1>. DEFINE u == CallUri[c]
            cur == pool[CallKey[c]]
            read == [call EXCEPT ![c] = [call[c] EXCEPT !.text = content[u]]]
<1>1. CASE ~StillAdmitted
  BY <1>1, FinishInv DEF ReadAndAcquire, Outcomes
<1>2. ASSUME StillAdmitted PROVE dispose = "none"
  BY <1>2 DEF PoolInv, AfterDispose, StillAdmitted
<1>3. read \in [Calls -> CallType] /\ References(read, made)
  <2>. DEFINE r == [call[c] EXCEPT !.text = content[u]]
  <2>1. r \in CallType /\ r.ses = call[c].ses /\ r.pc = call[c].pc
    <3>1. call[c] \in CallType /\ content[u] \in Nat
      BY Basics
    <3>. QED
      BY <3>1 DEF CallType
  <2>2. read = [call EXCEPT ![c] = r]
    OBVIOUS
  <2>. HIDE DEF r, read
  <2>. QED
    BY <2>1, <2>2, CallChange
<1>4. UNCHANGED <<content, queue, admission, dispose>>
  BY DEF ReadAndAcquire
<1>5. CASE StillAdmitted /\ Spent(cur, u)
  <2>1. GetOrCreate(c, Retire(sess, cur), EvictFrom(pool, cur), read)
    BY <1>5 DEF ReadAndAcquire
  <2>2. cur \in 1..made /\ cur \in Sessions
    BY <1>5, Basics DEF Spent
  <2>3. Moves(sess, Retire(sess, cur), cur) /\ Retire(sess, cur)[cur].td # "none"
    BY <2>2, Basics, RetireMoves
  <2>4. Good(Retire(sess, cur))
    BY <2>3 DEF Moves
  <2>5. Tracked(Retire(sess, cur), EvictFrom(pool, cur), made)
    BY <2>2, <2>3, Basics, TrackedEvict
  <2>. HIDE DEF read, cur, u
  <2>. QED
    BY <1>2, <1>3, <1>4, <1>5, <2>1, <2>4, <2>5, GetOrCreateStep
<1>6. CASE StillAdmitted /\ ~Spent(cur, u)
  <2>1. GetOrCreate(c, sess, pool, read)
    BY <1>6 DEF ReadAndAcquire
  <2>. HIDE DEF read, cur, u
  <2>. QED
    BY <1>2, <1>3, <1>4, <1>6, <2>1, Basics, GetOrCreateStep
<1>. QED BY <1>1, <1>5, <1>6

\* One session record changes, keeping its owner and its teardown.
LEMMA RecordStep ==
  ASSUME PoolInv, NEW s \in 1..made, NEW r \in SessionType, Coherent(r),
         r.owner = sess[s].owner, r.td = sess[s].td,
         sess' = [sess EXCEPT ![s] = r], pool' = pool,
         call' \in [Calls -> CallType], References(call', made),
         UNCHANGED <<content, queue, made, admission, dispose>>
  PROVE  PoolInv'
<1>1. s \in Sessions /\ Good(sess)
  BY Basics
<1>2. Moves(sess, [sess EXCEPT ![s] = r], s)
  BY <1>1, RecordMoves
<1>. QED
  BY <1>2, MoveStep

LEMMA UsingSession ==
  ASSUME PoolInv, NEW c \in Calls, call[c].pc \in Using
  PROVE  /\ call[c].ses \in 1..made /\ call[c].ses \in Sessions
         /\ sess[call[c].ses] \in SessionType /\ Coherent(sess[call[c].ses])
<1>1. call[c].ses \in 0..made /\ call[c].ses # 0
  BY Basics DEF References
<1>. QED
  BY <1>1, Basics DEF Good

LEMMA OpenInv == ASSUME PoolInv, NEW c \in Calls, Open(c) PROVE PoolInv'
<1>. DEFINE s == call[c].ses
            u == CallUri[c]
            doc == [uri |-> u, ver |-> sess[s].ver[u] + 1, text |-> call[c].text]
            vers == [sess[s].ver EXCEPT ![u] = doc.ver]
            r == [sess[s] EXCEPT !.ver = vers, !.waiter = c, !.opened = FALSE,
                    !.pre = {}, !.batch = {}, !.out = "none",
                    !.recv = sess[s].recv \cup {doc}]
<1>1. s \in 1..made /\ s \in Sessions /\ sess[s] \in SessionType /\ Coherent(sess[s])
  BY UsingSession DEF Open, Using
<1>2. sess' = [sess EXCEPT ![s] = r]
  BY DEF Open
<1>3. vers \in [Uris -> Nat] /\ doc \in Docs
  <2>1. u \in Uris /\ sess[s].ver \in [Uris -> Nat] /\ call[c].text \in Nat
    BY <1>1, Basics DEF SessionType, CallType
  <2>. QED
    BY <2>1 DEF Docs
<1>. HIDE DEF vers, doc, s
<1>4. r \in SessionType
  BY <1>1, <1>3 DEF SessionType
<1>5. Coherent(r) /\ r.owner = sess[s].owner /\ r.td = sess[s].td
  BY <1>1 DEF Coherent, IsClosing, SessionType
<1>6. call' \in [Calls -> CallType] /\ References(call', made)
  BY PcStep DEF Open, Phases, Using
<1>. HIDE DEF r
<1>7. UNCHANGED <<content, queue, pool, made, admission, dispose>>
  BY DEF Open
<1>. QED
  BY <1>1, <1>2, <1>4, <1>5, <1>6, <1>7, RecordStep

LEMMA OpenWrittenInv == ASSUME PoolInv, NEW c \in Calls, OpenWritten(c) PROVE PoolInv'
<1>. DEFINE s == call[c].ses
            flush == sess[s].pre # {} /\ sess[s].out = "none"
            b == IF flush THEN sess[s].pre ELSE sess[s].batch
            a == sess[s].accepted \/ flush
            r == [sess[s] EXCEPT !.opened = TRUE, !.pre = {}, !.batch = b, !.accepted = a]
<1>1. s \in 1..made /\ s \in Sessions /\ sess[s] \in SessionType /\ Coherent(sess[s])
  BY UsingSession DEF OpenWritten, Using
<1>2. sess' = [sess EXCEPT ![s] = r]
  BY DEF OpenWritten
<1>3. b \in SUBSET Docs /\ a \in BOOLEAN
  BY <1>1 DEF SessionType
<1>. HIDE DEF a, b
<1>4. r \in SessionType
  BY <1>1, <1>3 DEF SessionType
<1>5. Coherent(r) /\ r.owner = sess[s].owner /\ r.td = sess[s].td
  BY <1>1 DEF Coherent, IsClosing, SessionType
<1>6. call' \in [Calls -> CallType] /\ References(call', made)
  BY PcStep DEF OpenWritten, Phases, Using
<1>. HIDE DEF r, s
<1>7. UNCHANGED <<content, queue, pool, made, admission, dispose>>
  BY DEF OpenWritten
<1>. QED
  BY <1>1, <1>2, <1>4, <1>5, <1>6, <1>7, RecordStep

\* A call leaves with its session as it is, or poisoned and evicted.
LEMMA LeftAsIs ==
  ASSUME PoolInv, NEW c \in Calls, call[c].pc \in Using
  PROVE  Left(c, sess, pool)
BY UsingSession, Basics, MovesRefl DEF Left

LEMMA LeftPoisoned ==
  ASSUME PoolInv, NEW c \in Calls, call[c].pc \in Using
  PROVE  Left(c, Poison(sess, call[c].ses), EvictFrom(pool, call[c].ses))
BY UsingSession, Basics, PoisonMoves DEF Left

LEMMA BootFailedInv == ASSUME PoolInv, NEW c \in Calls, BootFailed(c) PROVE PoolInv'
BY LeftAsIs, ThrowStep DEF BootFailed, Using

LEMMA OpenWriteFailsInv == ASSUME PoolInv, NEW c \in Calls, OpenWriteFails(c) PROVE PoolInv'
<1>. DEFINE s == call[c].ses
<1>1. Left(c, PoisonOpen(s), EvictFrom(pool, s))
  <2>1. call[c].pc \in Using
    BY DEF OpenWriteFails, Using
  <2>2. CASE sess[s].closing
    <3>1. sess[s].td # "none"
      BY <2>1, <2>2, UsingSession DEF Coherent, IsClosing
    <3>. QED
      BY <2>1, <2>2, <3>1, UsingSession, Basics, MovesRefl DEF Left, PoisonOpen
  <2>3. CASE ~sess[s].closing
    BY <2>1, <2>3, LeftPoisoned DEF PoisonOpen
  <2>. QED BY <2>2, <2>3
<1>. QED
  BY <1>1, ThrowStep DEF OpenWriteFails

LEMMA GiveUpOpeningInv == ASSUME PoolInv, NEW c \in Calls, GiveUpOpening(c) PROVE PoolInv'
BY LeftAsIs, ReturnStep DEF GiveUpOpening, Using, Outcomes

LEMMA FinishWaitInv == ASSUME PoolInv, NEW c \in Calls, FinishWait(c) PROVE PoolInv'
<1>. DEFINE s == call[c].ses
            o == sess[s].out
<1>1. call[c].pc = "waiting" /\ o # "none" /\ UNCHANGED <<content, queue, admission, dispose>>
  BY DEF FinishWait, Rejects
<1>2. call[c].pc \in Using
  BY <1>1 DEF Using
<1>3. o # "error" => o \in Outcomes
  BY <1>1, <1>2, UsingSession DEF SessionType, Outcomes
<1>4. CASE o = "error" /\ Throw(c, sess, pool)
  BY <1>1, <1>2, <1>4, LeftAsIs, ThrowStep
<1>5. CASE o # "error" /\ IsClosing(sess[s]) /\ Return(c, o, sess, pool)
  BY <1>1, <1>2, <1>3, <1>5, LeftAsIs, ReturnStep
<1>6. CASE o # "error" /\ Return(c, IF o = "ok" THEN "failed" ELSE o,
                                 Poison(sess, s), EvictFrom(pool, s))
  <2>1. (IF o = "ok" THEN "failed" ELSE o) \in Outcomes
    BY <1>3, <1>6 DEF Outcomes
  <2>. QED
    BY <1>1, <1>2, <1>6, <2>1, LeftPoisoned, ReturnStep
<1>7. CASE call' = [call EXCEPT ![c].pc = "closing"] /\ UNCHANGED <<pool, sess, made>>
  <2>1. call' \in [Calls -> CallType] /\ References(call', made)
    BY <1>2, <1>7, PcStep DEF Phases
  <2>. QED
    BY <1>1, <1>7, <2>1, Basics, QuietStep
<1>. QED
  BY <1>4, <1>5, <1>6, <1>7 DEF FinishWait, Rejects

LEMMA CloseWrittenInv == ASSUME PoolInv, NEW c \in Calls, CloseWritten(c) PROVE PoolInv'
<1>. DEFINE o == IF sess[call[c].ses].out = "ok" THEN "ok" ELSE "unavailable"
<1>1. o \in Outcomes /\ call[c].pc \in Using
  BY DEF Outcomes, Using, CloseWritten
<1>2. Return(c, o, sess, pool) /\ UNCHANGED <<content, queue, admission, dispose>>
  BY DEF CloseWritten
<1>. HIDE DEF o
<1>. QED
  BY <1>1, <1>2, LeftAsIs, ReturnStep

LEMMA CloseFailsInv == ASSUME PoolInv, NEW c \in Calls, CloseFails(c) PROVE PoolInv'
<1>. DEFINE s == call[c].ses
            o == IF ~call[c].aborted /\ sess[s].out = "ok" THEN "failed" ELSE "unavailable"
<1>1. o \in Outcomes /\ call[c].pc \in Using
  BY DEF Outcomes, Using, CloseFails
<1>2. /\ Return(c, o, Poison(sess, s), EvictFrom(pool, s))
      /\ UNCHANGED <<content, queue, admission, dispose>>
  BY DEF CloseFails
<1>. HIDE DEF o
<1>. QED
  BY <1>1, <1>2, LeftPoisoned, ReturnStep

LEMMA AbortInv == ASSUME PoolInv, NEW c \in Calls, Abort(c) PROVE PoolInv'
<1>. DEFINE s == call[c].ses
            q == [call[c] EXCEPT !.aborted = TRUE]
            o == IF sess[s].waiter = c THEN Settle(sess[s], "unavailable") ELSE sess[s].out
            b == IF sess[s].owner = c /\ sess[s].boot \in {"initializing", "greeting"}
                 THEN "failed" ELSE sess[s].boot
            r == [sess[s] EXCEPT !.out = o, !.boot = b]
<1>1. call' \in [Calls -> CallType] /\ References(call', made)
  <2>1. q \in CallType /\ q.ses = call[c].ses /\ q.pc = call[c].pc
    <3>1. call[c] \in CallType
      BY Basics
    <3>. QED
      BY <3>1 DEF CallType
  <2>2. call' = [call EXCEPT ![c] = q]
    BY DEF Abort
  <2>. HIDE DEF q
  <2>. QED
    BY <2>1, <2>2, CallChange
<1>2. UNCHANGED <<content, queue, pool, made, admission, dispose>>
  BY DEF Abort
<1>3. CASE s = 0
  <2>1. sess' = sess
    BY <1>3 DEF Abort
  <2>. QED
    BY <1>1, <1>2, <2>1, Basics, QuietStep
<1>4. CASE s # 0
  <2>1. s \in 1..made /\ s \in Sessions /\ sess[s] \in SessionType /\ Coherent(sess[s])
    <3>1. s \in 0..made
      BY Basics DEF References
    <3>. QED
      BY <1>4, <3>1, Basics DEF Good
  <2>2. sess' = [sess EXCEPT ![s] = r]
    BY <1>4 DEF Abort
  <2>3. o \in {"none", "ok", "unavailable", "error"} /\ b \in Boots
        /\ (b = "resolving" => sess[s].boot = "resolving")
    BY <2>1 DEF SessionType, Settle, Boots
  <2>. HIDE DEF o, b
  <2>4. r \in SessionType
    BY <2>1, <2>3 DEF SessionType
  <2>5. Coherent(r) /\ r.owner = sess[s].owner /\ r.td = sess[s].td
    BY <2>1, <2>3 DEF Coherent, IsClosing, SessionType
  <2>. HIDE DEF r, s
  <2>. QED
    BY <1>1, <1>2, <2>1, <2>2, <2>4, <2>5, RecordStep
<1>. QED BY <1>3, <1>4

\* A session record changes and no call does.
LEMMA ServerStep ==
  ASSUME PoolInv, NEW s \in 1..made, NEW r \in SessionType, Coherent(r),
         r.owner = sess[s].owner, r.td = sess[s].td,
         sess' = [sess EXCEPT ![s] = r],
         UNCHANGED <<content, call, queue, pool, made, admission, dispose>>
  PROVE  PoolInv'
BY RecordStep, Basics

LEMMA Created ==
  ASSUME PoolInv, NEW s \in 1..made
  PROVE  s \in Sessions /\ sess[s] \in SessionType /\ Coherent(sess[s])
BY Basics DEF Good

\* Only the handshake moves on.
LEMMA BootStep ==
  ASSUME PoolInv, NEW s \in 1..made, NEW b \in Boots \ {"resolving"},
         sess' = [sess EXCEPT ![s].boot = b],
         UNCHANGED <<content, call, queue, pool, made, admission, dispose>>
  PROVE  PoolInv'
<1>. DEFINE r == [sess[s] EXCEPT !.boot = b]
<1>1. r \in SessionType /\ Coherent(r) /\ r.owner = sess[s].owner /\ r.td = sess[s].td
  BY Created DEF SessionType, Coherent, IsClosing
<1>2. sess' = [sess EXCEPT ![s] = r]
  OBVIOUS
<1>. HIDE DEF r
<1>. QED
  BY <1>1, <1>2, ServerStep

\* A session is poisoned, after a change that concerns neither its owner nor
\* its teardown.
LEMMA PoisonStep ==
  ASSUME PoolInv, NEW s \in 1..made, NEW r \in SessionType, Coherent(r),
         r.owner = sess[s].owner, r.td = sess[s].td,
         sess' = Poison([sess EXCEPT ![s] = r], s),
         pool' = EvictFrom(pool, s),
         UNCHANGED <<content, call, queue, made, admission, dispose>>
  PROVE  PoolInv'
<1>. DEFINE S == [sess EXCEPT ![s] = r]
<1>1. s \in Sessions /\ Good(sess)
  BY Basics
<1>2. Moves(sess, S, s)
  BY <1>1, RecordMoves
<1>3. Good(S)
  BY <1>2 DEF Moves
<1>4. Moves(S, sess', s) /\ sess'[s].td # "none"
  BY <1>1, <1>3, PoisonMoves
<1>. HIDE DEF S
<1>5. Moves(sess, sess', s)
  BY <1>1, <1>2, <1>4, MovesTrans
<1>. QED
  BY <1>4, <1>5, Basics, MoveStep

LEMMA PoisonAsIs ==
  ASSUME PoolInv, NEW s \in 1..made, sess' = Poison(sess, s),
         pool' = EvictFrom(pool, s),
         UNCHANGED <<content, call, queue, made, admission, dispose>>
  PROVE  PoolInv'
<1>1. Moves(sess, sess', s) /\ sess'[s].td # "none"
  BY Basics, PoisonMoves
<1>. QED
  BY <1>1, Basics, MoveStep

LEMMA SpawnInv == ASSUME PoolInv, NEW s \in 1..made, Spawn(s) PROVE PoolInv'
<1>. DEFINE b == IF sess[s].closing THEN "failed" ELSE "initializing"
            r == [sess[s] EXCEPT !.proc = "alive", !.boot = b]
<1>1. s \in Sessions /\ sess[s] \in SessionType /\ Coherent(sess[s])
  BY Created
<1>2. b \in Boots /\ b # "resolving" /\ sess[s].td # "done"
  BY <1>1 DEF Boots, Spawn, Coherent
<1>3. sess' = [sess EXCEPT ![s] = r]
  BY DEF Spawn
<1>. HIDE DEF b
<1>4. r \in SessionType /\ Coherent(r) /\ r.owner = sess[s].owner /\ r.td = sess[s].td
  BY <1>1, <1>2 DEF SessionType, Coherent, IsClosing
<1>. HIDE DEF r
<1>. QED
  BY <1>3, <1>4, ServerStep DEF Spawn

LEMMA InitializeOkInv == ASSUME PoolInv, NEW s \in 1..made, InitializeOk(s) PROVE PoolInv'
BY BootStep DEF InitializeOk, Boots

LEMMA InitializedWrittenInv ==
  ASSUME PoolInv, NEW s \in 1..made, InitializedWritten(s) PROVE PoolInv'
BY BootStep DEF InitializedWritten, Boots

LEMMA BootFailsInv == ASSUME PoolInv, NEW s \in 1..made, BootFails(s) PROVE PoolInv'
BY BootStep DEF BootFails, Boots

LEMMA GreetingFailsInv ==
  ASSUME PoolInv, NEW s \in 1..made, GreetingFails(s) PROVE PoolInv'
<1>. DEFINE r == [sess[s] EXCEPT !.boot = "failed"]
            S == [sess EXCEPT ![s] = r]
<1>1. s \in Sessions /\ sess[s] \in SessionType /\ Coherent(sess[s])
  BY Created
<1>2. r \in SessionType /\ Coherent(r) /\ r.owner = sess[s].owner /\ r.td = sess[s].td
  BY <1>1 DEF SessionType, Coherent, IsClosing, Boots
<1>3. /\ sess' = IF sess[s].closing THEN S ELSE Poison(S, s)
      /\ pool' = EvictFrom(pool, s)
      /\ UNCHANGED <<content, call, queue, made, admission, dispose>>
  BY DEF GreetingFails
<1>. HIDE DEF r
<1>4. CASE sess[s].closing
  <2>1. Moves(sess, sess', s) /\ sess'[s].td # "none"
    <3>1. Moves(sess, S, s) /\ S[s].td = sess[s].td
      BY <1>1, <1>2, Basics, RecordMoves
    <3>. QED
      BY <1>1, <1>3, <1>4, <3>1 DEF Coherent, IsClosing
  <2>. QED
    BY <1>3, <2>1, Basics, MoveStep
<1>5. CASE ~sess[s].closing
  BY <1>2, <1>3, <1>5, PoisonStep
<1>. QED BY <1>4, <1>5

LEMMA CrashInv == ASSUME PoolInv, NEW s \in 1..made, Crash(s) PROVE PoolInv'
<1>. DEFINE r == [sess[s] EXCEPT !.proc = "exited"]
<1>1. r \in SessionType /\ Coherent(r) /\ r.owner = sess[s].owner /\ r.td = sess[s].td
  BY Created DEF SessionType, Coherent, IsClosing
<1>2. sess' = Poison([sess EXCEPT ![s] = r], s)
  BY DEF Crash
<1>. HIDE DEF r
<1>. QED
  BY <1>1, <1>2, PoisonStep DEF Crash

LEMMA MalformedInv == ASSUME PoolInv, NEW s \in 1..made, Malformed(s) PROVE PoolInv'
BY PoisonAsIs DEF Malformed

LEMMA DeliverType ==
  ASSUME NEW r \in SessionType, NEW d \in Docs
  PROVE  /\ Deliver(r, d) \in SessionType
         /\ \A f \in {"none"} : Coherent(r) => Coherent(Deliver(r, d))
         /\ Deliver(r, d).owner = r.owner /\ Deliver(r, d).td = r.td
BY DEF Deliver, SessionType, Coherent, IsClosing

LEMMA PublishInv ==
  ASSUME PoolInv, NEW s \in 1..made, NEW d \in sess[s].recv, NEW versioned \in BOOLEAN,
         Publish(s, d, versioned)
  PROVE  PoolInv'
<1>. DEFINE r == sess[s]
            current == r.ver[CallUri[r.waiter]]
            q == Deliver(r, d)
            t == [q EXCEPT !.retire = TRUE]
<1>1. s \in Sessions /\ r \in SessionType /\ Coherent(r) /\ d \in Docs
  BY Created DEF SessionType
<1>2. q \in SessionType /\ Coherent(q) /\ q.owner = r.owner /\ q.td = r.td
  BY <1>1, DeliverType
<1>3. UNCHANGED <<content, call, queue, made, admission, dispose>>
  BY DEF Publish
<1>4. CASE sess' = [sess EXCEPT ![s] = q] /\ UNCHANGED pool
  BY <1>2, <1>3, <1>4, ServerStep
<1>5. CASE sess' = [sess EXCEPT ![s] = t] /\ UNCHANGED pool
  <2>. HIDE DEF q
  <2>1. t \in SessionType /\ Coherent(t) /\ t.owner = r.owner /\ t.td = r.td
    BY <1>2 DEF SessionType, Coherent, IsClosing
  <2>. HIDE DEF t
  <2>. QED
    BY <1>3, <1>5, <2>1, ServerStep
<1>6. CASE sess' = Poison(sess, s) /\ pool' = EvictFrom(pool, s)
  BY <1>3, <1>6, PoisonAsIs
<1>. QED
  BY <1>4, <1>5, <1>6 DEF Publish

LEMMA QuietTimerInv == ASSUME PoolInv, NEW s \in 1..made, QuietTimer(s) PROVE PoolInv'
<1>. DEFINE r == [sess[s] EXCEPT !.out = "ok"]
<1>1. r \in SessionType /\ Coherent(r) /\ r.owner = sess[s].owner /\ r.td = sess[s].td
  BY Created DEF SessionType, Coherent, IsClosing
<1>2. sess' = [sess EXCEPT ![s] = r]
  BY DEF QuietTimer
<1>. HIDE DEF r
<1>. QED
  BY <1>1, <1>2, ServerStep DEF QuietTimer

LEMMA TeardownDoneInv == ASSUME PoolInv, NEW s \in 1..made, TeardownDone(s) PROVE PoolInv'
<1>. DEFINE p == IF sess[s].proc = "alive" THEN "exited" ELSE sess[s].proc
            r == [sess[s] EXCEPT !.td = "done", !.recv = {}, !.pre = {}, !.proc = p]
<1>1. s \in Sessions /\ sess[s] \in SessionType /\ Coherent(sess[s])
  BY Created
<1>2. p \in {"none", "exited"}
  BY <1>1 DEF SessionType
<1>3. sess' = [sess EXCEPT ![s] = r]
  BY DEF TeardownDone
<1>. HIDE DEF p
<1>4. r \in SessionType /\ r.owner = sess[s].owner /\ r.td = "done"
  BY <1>1, <1>2 DEF SessionType
<1>5. Coherent(r)
  BY <1>1, <1>2 DEF SessionType, Coherent, IsClosing, TeardownDone, StartupOwned
<1>. HIDE DEF r
<1>6. UNCHANGED <<content, call, queue, pool, made, admission, dispose>>
  BY DEF TeardownDone
<1>7. Good(sess') /\ sess' \in [Sessions -> SessionType]
  BY <1>1, <1>3, <1>4, <1>5, Basics DEF Good, SessFun
<1>8. Tracked(sess', pool', made')
  BY <1>1, <1>3, <1>4, <1>6, Basics DEF Tracked
<1>9. AfterDispose'
  BY <1>1, <1>3, <1>4, <1>6, Basics DEF AfterDispose, PoolInv
<1>10. References(call', made')
  BY <1>6, Basics DEF References
<1>. QED
  BY <1>6, <1>7, <1>8, <1>9, <1>10, Basics
     DEF PoolInv, TypeOK, Good, SessFun, Tracked, References, Coherent, IsClosing

LEMMA StopAdmissionInv == ASSUME PoolInv, StopAdmission PROVE PoolInv'
BY DEF PoolInv, TypeOK, Good, Tracked, References, AfterDispose, Coherent,
       IsClosing, SessFun, StopAdmission

LEMMA DisposeBeginInv == ASSUME PoolInv, DisposeBegin PROVE PoolInv'
<1>1. UNCHANGED <<content, call, queue, made>> /\ pool' = [k \in Keys |-> 0]
      /\ dispose' = "waiting" /\ admission' = FALSE
      /\ sess' = [s \in Sessions |-> IF \E k \in Keys : pool[k] = s
                                     THEN StartTeardown(sess, s)[s] ELSE sess[s]]
  BY DEF DisposeBegin
<1>2. ASSUME NEW s \in Sessions
      PROVE  LET t == StartTeardown(sess, s)[s]
             IN  /\ t \in SessionType /\ Coherent(t)
                 /\ t.owner = sess[s].owner /\ t.td # "none"
  <2>1. Moves(sess, StartTeardown(sess, s), s) /\ StartTeardown(sess, s)[s].td # "none"
    BY Basics, TeardownMoves
  <2>. QED
    BY <2>1 DEF Moves, Good, SessFun
<1>3. Good(sess') /\ sess' \in [Sessions -> SessionType]
  BY <1>1, <1>2, Basics DEF Good, SessFun
<1>4. Tracked(sess', pool', made')
  <2>1. ASSUME NEW x \in 1..made
        PROVE  sess'[x].owner \in Calls /\ sess'[x].td # "none"
    <3>1. x \in Sessions /\ sess[x].owner \in Calls
          /\ (pool[CallKey[sess[x].owner]] = x \/ sess[x].td # "none")
      BY Basics DEF Tracked
    <3>2. CASE \E k \in Keys : pool[k] = x
      BY <1>1, <1>2, <3>1, <3>2
    <3>3. CASE ~\E k \in Keys : pool[k] = x
      BY <1>1, <3>1, <3>3
    <3>. QED BY <3>2, <3>3
  <2>2. ASSUME NEW x \in Sessions, x > made
        PROVE  sess'[x] = NoSession
    <3>1. ~\E k \in Keys : pool[k] = x
      BY <2>2, Basics DEF Sessions
    <3>. QED
      BY <1>1, <2>2, <3>1, Basics DEF Tracked
  <2>3. made \in Nat
    BY Basics
  <2>. QED
    BY <1>1, <2>1, <2>2, <2>3 DEF Tracked
<1>5. References(call', made') /\ AfterDispose'
  BY <1>1, Basics DEF References, AfterDispose
<1>6. pool' \in [Keys -> 0..MaxSessions]
  BY <1>1
<1>. QED
  BY <1>1, <1>3, <1>4, <1>5, <1>6, Basics
     DEF PoolInv, TypeOK, Good, SessFun, Tracked, References, Coherent, IsClosing

LEMMA DisposeDoneInv == ASSUME PoolInv, DisposeDone PROVE PoolInv'
BY DEF PoolInv, TypeOK, Good, Tracked, References, AfterDispose, Coherent,
       IsClosing, SessFun, DisposeDone

LEMMA StutterInv == ASSUME PoolInv, UNCHANGED vars PROVE PoolInv'
BY DEF PoolInv, TypeOK, Good, Tracked, References, AfterDispose, Coherent,
       IsClosing, SessFun, vars

-----------------------------------------------------------------------------
(* The theorems.                                                           *)

LEMMA NextInv == PoolInv /\ [Next]_vars => PoolInv'
<1>. SUFFICES ASSUME PoolInv, [Next]_vars PROVE PoolInv'
  OBVIOUS
<1>1. ASSUME NEW u \in Uris, Write(u) PROVE PoolInv'
  BY <1>1, WriteInv
<1>2. ASSUME NEW c \in Calls, CallStep(c) PROVE PoolInv'
  BY <1>2, DiagnoseInv, GiveUpQueuedInv, StartRunInv, StatInv, ReadFailsInv,
     ReadAndAcquireInv, OpenInv, BootFailedInv, OpenWrittenInv, OpenWriteFailsInv,
     GiveUpOpeningInv, FinishWaitInv, CloseWrittenInv, CloseFailsInv, AbortInv
     DEF CallStep
<1>3. ASSUME NEW s \in 1..made, SessionStep(s) PROVE PoolInv'
  BY <1>3, SpawnInv, InitializeOkInv, InitializedWrittenInv, BootFailsInv,
     GreetingFailsInv, CrashInv, MalformedInv, PublishInv, QuietTimerInv,
     TeardownDoneInv
     DEF SessionStep
<1>4. ASSUME Dispose PROVE PoolInv'
  BY <1>4, StopAdmissionInv, DisposeBeginInv, DisposeDoneInv DEF Dispose
<1>5. ASSUME AllQuiet \/ UNCHANGED vars PROVE PoolInv'
  BY <1>5, StutterInv DEF AllQuiet
<1>. QED
  BY <1>1, <1>2, <1>3, <1>4, <1>5 DEF Next

LEMMA Invariance == Spec => []PoolInv
BY InitInv, NextInv, PTL DEF Spec

\* Every variable keeps its type in every behaviour of the runtime.
THEOREM TypeCorrect == Spec => []TypeOK
<1>1. PoolInv => TypeOK
  BY DEF PoolInv
<1>. QED
  BY <1>1, Invariance, PTL

\* No process is orphaned by rotation, restart, poison, abort or disposal:
\* while it lives or may still be spawned, the pool slot of its key or a
\* running teardown owns it.
THEOREM ProcessesOwned == Spec => []Owned
<1>1. PoolInv => Owned
  <2>. SUFFICES ASSUME PoolInv, NEW s \in Sessions,
                       sess[s].proc = "alive" \/ sess[s].boot = "resolving"
                PROVE  pool[CallKey[sess[s].owner]] = s \/ sess[s].td = "running"
    BY DEF Owned
  <2>1. s \in 1..made
    <3>1. sess[s] # NoSession
      BY DEF NoSession
    <3>2. ~(s > made)
      BY <3>1, Basics DEF Tracked
    <3>. QED
      BY <3>2, Basics DEF Sessions
  <2>2. sess[s].td \in {"none", "running", "done"} /\ Coherent(sess[s])
    BY <2>1, Created DEF SessionType
  <2>. QED
    BY <2>1, <2>2, Basics DEF Tracked, Coherent
<1>. QED
  BY <1>1, Invariance, PTL

\* When dispose() has resolved, no process lives or can still be spawned.
THEOREM DisposalComplete == Spec => []DisposedMeansGone
<1>1. PoolInv => DisposedMeansGone
  <2>. SUFFICES ASSUME PoolInv, dispose = "done", NEW s \in Sessions
                PROVE  sess[s].proc # "alive" /\ sess[s].boot # "resolving"
    BY DEF DisposedMeansGone
  <2>1. sess[s].td # "running" /\ \A k \in Keys : pool[k] = 0
    BY DEF PoolInv, AfterDispose
  <2>2. CASE s > made
    BY <2>2, Basics DEF Tracked, NoSession
  <2>3. CASE s \in 1..made
    <3>1. sess[s].td \in {"none", "running", "done"} /\ Coherent(sess[s])
      BY <2>3, Created DEF SessionType
    <3>2. sess[s].td # "none"
      <4>1. s # 0 /\ CallKey[sess[s].owner] \in Keys
        BY <2>3, Basics DEF Tracked
      <4>. QED
        BY <2>1, <2>3, <4>1, Basics DEF Tracked
    <3>. QED
      BY <2>1, <3>1, <3>2 DEF Coherent
  <2>. QED
    BY <2>2, <2>3, Basics DEF Sessions
<1>. QED
  BY <1>1, Invariance, PTL

\* Once disposal has taken its snapshot of the pool, no step creates a
\* session: every path to getOrCreateSession reads admission first.
THEOREM NothingAfterDispose == Spec => NoSessionAfterDispose
<1>1. PoolInv /\ [Next]_vars => (dispose # "none" => made' = made)
  <2>. SUFFICES ASSUME PoolInv, [Next]_vars, dispose # "none" PROVE made' = made
    OBVIOUS
  <2>1. ~StillAdmitted
    BY DEF PoolInv, AfterDispose, StillAdmitted
  <2>2. ASSUME NEW c \in Calls, CallStep(c) PROVE made' = made
    BY <2>1, <2>2
       DEF CallStep, Diagnose, GiveUpQueued, StartRun, Stat, ReadFails,
           ReadAndAcquire, Open, BootFailed, OpenWritten, OpenWriteFails,
           GiveUpOpening, FinishWait, CloseWritten, CloseFails, Abort,
           Throw, Return
  <2>3. ASSUME NEW s \in 1..made, SessionStep(s) PROVE made' = made
    BY <2>3
       DEF SessionStep, Spawn, InitializeOk, InitializedWritten, BootFails,
           GreetingFails, Crash, Malformed, Publish, QuietTimer, TeardownDone
  <2>. QED
    BY <2>2, <2>3
       DEF Next, Write, Dispose, StopAdmission, DisposeBegin, DisposeDone,
           AllQuiet, vars
<1>. QED
  BY <1>1, Invariance, PTL DEF Spec, NoSessionAfterDispose

---------------------------------------------------------------------------
(* LspPool implements DiagnosisService, for any number of calls, documents,*)
(* keys and sessions.  What the step of a call means to its clients is one *)
(* of three things: nothing, the begin of its service, or its result.      *)

\* Every unsettled call that was asked has its place in the line of its key.
InLine ==
  \A c \in Calls : call[c].pc \notin {"idle", "settled"} =>
    \E i \in 1..Len(queue[CallKey[c]]) : queue[CallKey[c]][i] = c

\* A line holds each call at most once, and only calls of its key.
LineOf ==
  \A k \in Keys : \A i, j \in 1..Len(queue[k]) :
    /\ CallKey[queue[k][i]] = k /\ call[queue[k][i]].pc # "idle"
    /\ i # j => queue[k][i] # queue[k][j]

\* Whoever stands before a call that is served has its result.
Served ==
  \A c \in Calls : call[c].pc \in Serving => TailSettled(c)

LineInv == InLine /\ LineOf /\ Served

LEMMA InitLine == Init => LineInv
<1> SUFFICES ASSUME Init PROVE LineInv
  OBVIOUS
<1>1. \A c \in Calls : call[c].pc = "idle"
  BY DEF Init
<1>2. \A k \in Keys : queue[k] = <<>> /\ Len(queue[k]) = 0
  BY DEF Init
<1> QED BY <1>1, <1>2 DEF LineInv, InLine, LineOf, Served, Serving

LEMMA InitService == Init => Service!Init
<1> SUFFICES ASSUME Init PROVE Service!Init
  OBVIOUS
<1>1. \A c \in Calls : call[c].pc = "idle" /\ call[c].out = "none"
  BY DEF Init
<1>2. \A c \in Calls : Stage(c) = "idle" /\ Ahead(c) = {}
  BY <1>1 DEF Stage, Ahead
<1> QED BY <1>1, <1>2 DEF Init, Service!Init

-----------------------------------------------------------------------------
(* The three meanings of a step of call c.                                 *)

OnlyCall(c) ==
  /\ queue' = queue /\ admission' = admission
  /\ \A d \in Calls \ {c} : call'[d] = call[d]

Goes(c) ==
  /\ call[c].pc \in Serving /\ call'[c].pc \in Serving
  /\ call'[c].out = call[c].out

Begins(c) ==
  /\ call[c].pc = "queued" /\ call'[c].pc = "stat"
  /\ call'[c].out = call[c].out
  /\ admission /\ TailSettled(c)

Ends(c) ==
  /\ call[c].pc # "settled" /\ call'[c].pc = "settled"
  /\ call'[c].out \in Outcomes
  /\ call'[c].out = "ok" => call[c].pc \in Serving

Simple(c) == OnlyCall(c) /\ (Goes(c) \/ Begins(c) \/ Ends(c))

OnlyLine == queue' = queue /\ admission' = admission

Typed ==
  /\ \A c \in Calls : call[c].pc \in Phases /\ CallKey[c] \in Keys
  /\ \A k \in Keys : /\ Len(queue[k]) \in Nat
                     /\ \A i \in 1..Len(queue[k]) : queue[k][i] \in Calls

LEMMA TypeKnown == TypeOK => Typed
<1> SUFFICES ASSUME TypeOK PROVE Typed
  OBVIOUS
<1>1. \A c \in Calls : call[c].pc \in Phases /\ CallKey[c] \in Keys
  BY CallAssumption DEF TypeOK, CallType
<1>2. \A k \in Keys : queue[k] \in Seq(Calls)
  BY DEF TypeOK
<1> QED BY <1>1, <1>2 DEF Typed

LEMMA SimpleLine ==
  ASSUME Typed, LineInv, NEW c \in Calls, Simple(c)
  PROVE  LineInv'
<1>1. /\ queue' = queue /\ \A d \in Calls \ {c} : call'[d] = call[d]
      /\ call'[c].pc # "idle"
  BY DEF Simple, OnlyCall, Goes, Begins, Ends, Serving
<1>2. InLine'
  <2>1. call[c].pc = "idle" => call'[c].pc = "settled"
    BY DEF Simple, Goes, Begins, Ends, Serving
  <2> QED BY <1>1, <2>1 DEF LineInv, InLine, Simple, Goes, Begins, Ends, Serving
<1>3. LineOf'
  <2> SUFFICES ASSUME NEW k \in Keys, NEW i \in 1..Len(queue[k]),
                      NEW j \in 1..Len(queue[k])
               PROVE  /\ CallKey[queue[k][i]] = k /\ call'[queue[k][i]].pc # "idle"
                      /\ i # j => queue[k][i] # queue[k][j]
    BY <1>1 DEF LineOf
  <2>1. /\ queue[k][i] \in Calls
        /\ CallKey[queue[k][i]] = k /\ call[queue[k][i]].pc # "idle"
        /\ i # j => queue[k][i] # queue[k][j]
    BY DEF Typed, LineInv, LineOf
  <2> QED BY <1>1, <2>1
<1>4. Served'
  <2> SUFFICES ASSUME NEW d \in Calls, call'[d].pc \in Serving
               PROVE  TailSettled(d)'
    BY DEF Served
  <2>1. TailSettled(d)
    <3>1. CASE d # c
      BY <1>1, <3>1 DEF LineInv, Served
    <3>2. CASE d = c
      BY <3>2 DEF Simple, Goes, Begins, Ends, LineInv, Served, Serving
    <3> QED BY <3>1, <3>2
  <2>2. \A e \in Calls : call[e].pc = "settled" => call'[e].pc = "settled"
    BY <1>1 DEF Simple, Goes, Begins, Ends, Serving
  <2>3. \A i \in 1..Len(queue[CallKey[d]]) : queue[CallKey[d]][i] \in Calls
    BY DEF Typed
  <2> QED BY <1>1, <2>1, <2>2, <2>3 DEF TailSettled
<1> QED BY <1>2, <1>3, <1>4 DEF LineInv

\* To its clients: nothing, Serve or Settle.
LEMMA SimpleService ==
  ASSUME Typed, LineInv, NEW c \in Calls, Simple(c)
  PROVE  [Service!Next]_(Service!vars)
<1>1. /\ queue' = queue /\ admission' = admission
      /\ \A d \in Calls \ {c} : /\ call'[d] = call[d]
                                 /\ Stage(d)' = Stage(d)
  BY DEF Simple, OnlyCall, Stage
<1>2. \A d \in Calls : \A i \in 1..Len(queue[CallKey[d]]) : queue[CallKey[d]][i] \in Calls
  BY DEF Typed
<1>3. CASE Goes(c)
  <2>1. \A d \in Calls : Stage(d)' = Stage(d) /\ call'[d].out = call[d].out
    BY <1>1, <1>3 DEF Goes, Stage, Serving
  <2>2. \A d \in Calls : /\ call'[d].pc = "queued" <=> call[d].pc = "queued"
                         /\ call'[d].pc = "settled" <=> call[d].pc = "settled"
    BY <1>1, <1>3 DEF Goes, Serving
  <2>3. \A d \in Calls : Ahead(d)' = Ahead(d)
    BY <1>1, <2>2 DEF Ahead, Before
  <2> QED BY <1>1, <2>1, <2>3 DEF Service!vars
<1>4. CASE Begins(c)
  <2>1. Stage(c) = "asked" /\ Stage(c)' = "served"
    BY <1>4 DEF Begins, Stage
  <2>2. Ahead(c) = {} /\ Ahead(c)' = {}
    <3>1. Ahead(c) = {}
      <4> SUFFICES ASSUME NEW d \in Calls, Before(queue[CallKey[c]], d, c)
                   PROVE  call[d].pc = "settled"
        BY DEF Ahead
      <4>1. PICK j \in 1..Len(queue[CallKey[c]]) :
              /\ queue[CallKey[c]][j] = c
              /\ \E i \in 1..(j - 1) : queue[CallKey[c]][i] = d
        BY DEF Before
      <4>2. Len(queue[CallKey[c]]) \in Nat
        BY CallAssumption DEF Typed
      <4> QED BY <1>4, <4>1, <4>2 DEF Begins, TailSettled
    <3>2. Ahead(c)' = {}
      BY <1>4 DEF Begins, Ahead
    <3> QED BY <3>1, <3>2
  <2>3. \A d \in Calls \ {c} : Ahead(d)' = Ahead(d)
    <3>1. \A d \in Calls : call'[d].pc = "settled" <=> call[d].pc = "settled"
      BY <1>1, <1>4 DEF Begins
    <3>2. ASSUME NEW d \in Calls \ {c} PROVE Ahead(d)' = Ahead(d)
      <4>1. call'[d] = call[d] /\ queue' = queue
        BY <1>1, <3>2 DEF OnlyCall
      <4>2. CASE call[d].pc # "queued"
        BY <4>1, <4>2 DEF Ahead
      <4>3. CASE call[d].pc = "queued"
        BY <3>1, <4>1, <4>3 DEF Ahead, Before
      <4> QED BY <4>2, <4>3
    <3> QED BY <3>2
  <2>4. Service!Serve(c)
    BY <1>1, <1>4, <2>1, <2>2, <2>3 DEF Begins, Service!Serve
  <2> QED BY <2>4 DEF Service!Next
<1>5. CASE Ends(c)
  <2>1. Stage(c) # "settled" /\ Stage(c)' = "settled"
    BY <1>5 DEF Ends, Stage, Typed, Phases
  <2>2. call'[c].out = "ok" => Stage(c) = "served"
    BY <1>5 DEF Ends, Stage, Serving
  <2>3. \A d \in Calls : Ahead(d)' = IF d = c THEN {} ELSE Ahead(d) \ {c}
    <3>1. Ahead(c)' = {}
      BY <1>5 DEF Ends, Ahead
    <3>2. \A d \in Calls \ {c} : Ahead(d)' = Ahead(d) \ {c}
      BY <1>1, <1>5 DEF Ends, Ahead
    <3> QED BY <3>1, <3>2
  <2>4. Service!Settle(c)
    BY <1>1, <1>5, <2>1, <2>2, <2>3 DEF Ends, Service!Settle
  <2> QED BY <2>4 DEF Service!Next
<1> QED BY <1>3, <1>4, <1>5 DEF Simple

\* Steps that touch no call and no line: a stutter, or Close.
Aside == UNCHANGED <<call, queue>> /\ (admission' = admission \/ admission' = FALSE)

LEMMA AsideKept ==
  ASSUME LineInv, Aside, admission \in BOOLEAN
  PROVE  LineInv' /\ [Service!Next]_(Service!vars)
<1>1. call' = call /\ queue' = queue
  BY DEF Aside
<1>2. LineInv'
  BY <1>1 DEF LineInv, InLine, LineOf, Served, TailSettled
<1>3. \A c \in Calls : Stage(c)' = Stage(c) /\ Ahead(c)' = Ahead(c)
  BY <1>1 DEF Stage, Ahead
<1>4. CASE admission' = admission
  BY <1>1, <1>2, <1>3, <1>4 DEF Service!vars
<1>5. CASE admission /\ admission' = FALSE
  BY <1>1, <1>2, <1>3, <1>5 DEF Service!Close, Service!Next
<1> QED BY <1>2, <1>4, <1>5 DEF Aside

-----------------------------------------------------------------------------
(* A call is asked.                                                        *)

LEMMA DiagnoseStep ==
  ASSUME TypeOK, LineInv, NEW c \in Calls, Diagnose(c)
  PROVE  LineInv' /\ [Service!Next]_(Service!vars)
<1> DEFINE k == CallKey[c]
           q == queue[k]
<1>1. Typed
  BY TypeKnown
<1>2. /\ call[c].pc = "idle" /\ admission' = admission
      /\ k \in Keys /\ q \in Seq(Calls)
  BY CallAssumption DEF Diagnose, TypeOK
<1>3. CASE ~admission \/ call[c].aborted
  <2>1. call' = Settled(c, "stale", {}) /\ queue' = queue
    BY <1>3 DEF Diagnose, Finish
  <2>2. Simple(c)
    BY <1>2, <2>1 DEF Simple, OnlyCall, Ends, Settled, TypeOK, Outcomes
  <2> QED BY <1>1, <2>2, SimpleLine, SimpleService
<1>4. CASE admission /\ ~call[c].aborted
  <2>1. /\ queue' = [queue EXCEPT ![k] = Append(q, c)]
        /\ \A d \in Calls \ {c} : call'[d] = call[d]
        /\ call'[c].pc = "queued" /\ call'[c].out = call[c].out
    BY <1>2, <1>4 DEF Diagnose, TypeOK, CallType
  <2>2. /\ queue'[k] = Append(q, c)
        /\ \A l \in Keys \ {k} : queue'[l] = queue[l]
    <3>1. DOMAIN queue = Keys
      BY DEF TypeOK
    <3> HIDE DEF k, q
    <3> QED BY <1>2, <2>1, <3>1
  <2>3. /\ Len(queue'[k]) = Len(q) + 1 /\ Len(q) \in Nat
        /\ queue'[k][Len(q) + 1] = c
        /\ \A i \in 1..Len(q) : queue'[k][i] = q[i] /\ q[i] \in Calls /\ q[i] # c
    <3>1. ASSUME NEW i \in 1..Len(q) PROVE q[i] \in Calls /\ q[i] # c
      <4>1. call[q[i]].pc # "idle"
        BY <1>2 DEF LineInv, LineOf
      <4> QED BY <1>2, <4>1
    <3> QED BY <1>2, <2>2, <3>1
  <2> HIDE DEF q
  <2>4. InLine'
    <3> SUFFICES ASSUME NEW d \in Calls, call'[d].pc \notin {"idle", "settled"}
                 PROVE  \E i \in 1..Len(queue'[CallKey[d]]) : queue'[CallKey[d]][i] = d
      BY DEF InLine
    <3>1. CASE d = c
      BY <2>3, <3>1
    <3>2. CASE d # c
      <4>1. PICK i \in 1..Len(queue[CallKey[d]]) : queue[CallKey[d]][i] = d
        BY <2>1, <3>2 DEF LineInv, InLine
      <4>2. CallKey[d] \in Keys
        BY CallAssumption
      <4> QED BY <2>2, <2>3, <4>1, <4>2 DEF q
    <3> QED BY <3>1, <3>2
  <2>5. LineOf'
    <3> SUFFICES ASSUME NEW l \in Keys, NEW i \in 1..Len(queue'[l]), NEW j \in 1..Len(queue'[l])
                 PROVE  /\ CallKey[queue'[l][i]] = l /\ call'[queue'[l][i]].pc # "idle"
                        /\ i # j => queue'[l][i] # queue'[l][j]
      BY DEF LineOf
    <3>1. CASE l = k
      <4>1. \A m \in 1..Len(q) : CallKey[q[m]] = k /\ call[q[m]].pc # "idle"
        BY <1>2 DEF LineInv, LineOf, q
      <4>2. \A m, n \in 1..Len(q) : m # n => q[m] # q[n]
        BY <1>2 DEF LineInv, LineOf, q
      <4> QED BY <2>1, <2>3, <3>1, <4>1, <4>2
    <3>2. CASE l # k
      <4>1. queue'[l] = queue[l]
        BY <2>2, <3>2
      <4>2. /\ CallKey[queue[l][i]] = l /\ call[queue[l][i]].pc # "idle"
            /\ i # j => queue[l][i] # queue[l][j]
        BY <4>1 DEF LineInv, LineOf
      <4>3. queue[l][i] \in Calls
        BY <1>1, <4>1 DEF Typed
      <4> QED BY <2>1, <1>2, <4>1, <4>2, <4>3
    <3> QED BY <3>1, <3>2
  <2>6. Served'
    <3> SUFFICES ASSUME NEW d \in Calls, call'[d].pc \in Serving,
                        NEW i \in 1..Len(queue'[CallKey[d]]),
                        NEW j \in 1..Len(queue'[CallKey[d]]),
                        queue'[CallKey[d]][j] = d, i < j
                 PROVE  call'[queue'[CallKey[d]][i]].pc = "settled"
      BY DEF Served, TailSettled
    <3>1. d # c /\ TailSettled(d) /\ CallKey[d] \in Keys
      BY <2>1, CallAssumption DEF LineInv, Served, Serving
    <3>2. /\ i \in 1..Len(queue[CallKey[d]]) /\ j \in 1..Len(queue[CallKey[d]])
          /\ queue'[CallKey[d]][i] = queue[CallKey[d]][i]
          /\ queue[CallKey[d]][j] = d
      <4>1. CASE CallKey[d] = k
        <5>1. j # Len(q) + 1
          BY <2>3, <3>1, <4>1
        <5> QED BY <2>3, <4>1, <5>1 DEF q
      <4>2. CASE CallKey[d] # k
        BY <2>2, <3>1, <4>2
      <4> QED BY <4>1, <4>2
    <3>3. call[queue[CallKey[d]][i]].pc = "settled"
      BY <3>1, <3>2 DEF TailSettled
    <3>4. queue[CallKey[d]][i] \in Calls
      BY <1>1, <3>1, <3>2 DEF Typed
    <3> QED BY <1>2, <2>1, <3>2, <3>3, <3>4
  <2>7. Service!Ask(c)
    <3>1. \A d \in Calls \ {c} : Stage(d)' = Stage(d)
      BY <2>1 DEF Stage
    <3>2. Stage(c) = "idle" /\ Stage(c)' = "asked"
      BY <1>2, <2>1 DEF Stage
    <3>3. \A d \in Calls \ {c} : Ahead(d)' = Ahead(d)
      <4> SUFFICES ASSUME NEW d \in Calls \ {c} PROVE Ahead(d)' = Ahead(d)
        OBVIOUS
      <4>1. \A e \in Calls \ {c} : call'[e].pc = call[e].pc
        BY <2>1
      <4>2. \A e \in Calls : ~Before(queue[CallKey[d]], c, d)
        <5>1. \A i \in 1..Len(queue[CallKey[d]]) : queue[CallKey[d]][i] # c
          BY <1>2, CallAssumption DEF LineInv, LineOf
        <5>2. Len(queue[CallKey[d]]) \in Nat
          BY <1>1, CallAssumption DEF Typed
        <5> QED BY <5>1, <5>2 DEF Before
      <4>3. \A e \in Calls \ {c} :
              Before(queue'[CallKey[d]], e, d) <=> Before(queue[CallKey[d]], e, d)
        <5>1. CASE CallKey[d] # k
          BY <2>2, <5>1, CallAssumption
        <5>2. CASE CallKey[d] = k
          <6> SUFFICES ASSUME NEW e \in Calls \ {c}
                       PROVE  Before(queue'[k], e, d) <=> Before(q, e, d)
            BY <5>2 DEF q
          <6>1. ASSUME Before(q, e, d) PROVE Before(queue'[k], e, d)
            BY <2>3, <6>1 DEF Before
          <6>2. ASSUME Before(queue'[k], e, d) PROVE Before(q, e, d)
            <7>1. PICK j \in 1..Len(queue'[k]) :
                    queue'[k][j] = d /\ \E i \in 1..(j - 1) : queue'[k][i] = e
              BY <6>2 DEF Before
            <7>2. j \in 1..Len(q)
              BY <2>3, <7>1
            <7> QED BY <2>3, <7>1, <7>2 DEF Before
          <6> QED BY <6>1, <6>2
        <5> QED BY <5>1, <5>2
      <4>4. ~Before(queue'[CallKey[d]], c, d)
        <5>1. CASE CallKey[d] # k
          BY <2>2, <4>2, <5>1, CallAssumption
        <5>2. CASE CallKey[d] = k
          BY <2>3, <5>2 DEF Before
        <5> QED BY <5>1, <5>2
      <4> QED BY <2>1, <4>1, <4>2, <4>3, <4>4 DEF Ahead
    <3>4. Ahead(c)' = {d \in Calls : CallKey[d] = k /\ Stage(d) \in {"asked", "served"}}
      <4>1. \A d \in Calls : Stage(d) \in {"asked", "served"}
                              <=> call[d].pc \notin {"idle", "settled"}
        BY DEF Stage
      <4>2. ASSUME NEW d \in Calls
            PROVE  d \in Ahead(c)' <=> CallKey[d] = k /\ Stage(d) \in {"asked", "served"}
        <5>1. ASSUME d \in Ahead(c)'
              PROVE  CallKey[d] = k /\ Stage(d) \in {"asked", "served"}
          <6>0. /\ call'[d].pc # "settled"
                /\ \E j \in 1..Len(queue'[k]) :
                     queue'[k][j] = c /\ \E i \in 1..(j - 1) : queue'[k][i] = d
            BY <5>1 DEF Ahead, Before
          <6>1. PICK i \in Nat, j \in 1..Len(queue'[k]) :
                  i \in 1..(j - 1) /\ queue'[k][j] = c /\ queue'[k][i] = d
            BY <2>3, <6>0
          <6>2. i \in 1..Len(q) /\ q[i] = d
            BY <2>3, <6>1
          <6> QED BY <1>2, <2>1, <2>3, <4>1, <6>0, <6>2 DEF LineInv, LineOf, q
        <5>2. ASSUME CallKey[d] = k, Stage(d) \in {"asked", "served"}
              PROVE  d \in Ahead(c)'
          <6>1. PICK i \in 1..Len(q) : q[i] = d
            BY <4>1, <5>2 DEF LineInv, InLine, q
          <6>2. call'[d].pc # "settled"
            BY <1>2, <2>1, <4>1, <5>2
          <6>3. Len(q) + 1 \in 1..Len(queue'[k]) /\ i \in 1..((Len(q) + 1) - 1)
            BY <2>3, <6>1
          <6> QED BY <2>1, <2>3, <6>1, <6>2, <6>3 DEF Ahead, Before
        <5> QED BY <5>1, <5>2
      <4> QED BY <4>2 DEF Ahead, Before
    <3> QED
      BY <1>2, <1>4, <2>1, <3>1, <3>2, <3>3, <3>4 DEF Service!Ask, Service!Unsettled
  <2> QED BY <2>4, <2>5, <2>6, <2>7 DEF LineInv, Service!Next
<1> QED BY <1>3, <1>4

-----------------------------------------------------------------------------
(* The other steps of a call.                                              *)

LEMMA FinishStep ==
  ASSUME TypeOK, NEW c \in Calls, NEW o \in Outcomes, Finish(c, o), OnlyLine,
         call[c].pc # "settled", o = "ok" => call[c].pc \in Serving
  PROVE  Simple(c)
BY DEF TypeOK, CallType, Finish, Settled, OnlyLine, Simple, OnlyCall, Ends

\* getOrCreateSession goes on with the call, whatever it read before.
LEMMA GetOrCreateGoes ==
  ASSUME TypeOK, NEW c \in Calls, OnlyLine, call[c].pc \in Serving,
         NEW S, NEW P, NEW C \in [Calls -> CallType], GetOrCreate(c, S, P, C),
         \A d \in Calls \ {c} : C[d] = call[d], C[c].out = call[c].out
  PROVE  Simple(c)
<1>1. PICK n : call' = [C EXCEPT ![c] = [C[c] EXCEPT !.pc = "boot", !.ses = n]]
  BY DEF GetOrCreate
<1>2. call'[c].pc = "boot" /\ call'[c].out = call[c].out
  BY <1>1 DEF CallType
<1>3. \A d \in Calls \ {c} : call'[d] = call[d]
  BY <1>1
<1> QED BY <1>2, <1>3 DEF OnlyLine, Simple, OnlyCall, Goes, Serving

LEMMA ReturnEnds ==
  ASSUME TypeOK, NEW c \in Calls, OnlyLine, NEW o \in Outcomes, NEW S, NEW P,
         Return(c, o, S, P), call[c].pc \in Serving
  PROVE  Simple(c)
<1>1. PICK w : call' = Settled(c, o, w)
  BY DEF Return
<1> QED
  BY <1>1 DEF TypeOK, CallType, Settled, OnlyLine, Simple, OnlyCall, Ends, Serving

LEMMA ThrowSimple ==
  ASSUME TypeOK, NEW c \in Calls, OnlyLine, NEW S, NEW P,
         Throw(c, S, P), call[c].pc \in Serving
  PROVE  Simple(c)
<1> DEFINE again == [call EXCEPT ![c] = [call[c] EXCEPT !.attempt = @ + 1]]
<1>1. CASE ~call[c].aborted /\ MayRestart(c, S) /\ StillAdmitted
  <2>1. call[c].attempt = 0
    BY <1>1 DEF MayRestart
  <2>2. /\ again \in [Calls -> CallType]
        /\ again[c].out = call[c].out
        /\ \A d \in Calls \ {c} : again[d] = call[d]
    <3> DEFINE r == [call[c] EXCEPT !.attempt = call[c].attempt + 1]
    <3>1. call \in [Calls -> CallType] /\ call[c] \in CallType
      BY DEF TypeOK
    <3>2. call[c].attempt + 1 = 1
      BY <2>1
    <3>3. r \in CallType /\ r.out = call[c].out
      BY <3>1, <3>2 DEF CallType
    <3>4. again = [call EXCEPT ![c] = r]
      OBVIOUS
    <3> HIDE DEF r, again
    <3> QED BY <3>1, <3>3, <3>4
  <2>3. PICK T, Q : GetOrCreate(c, T, Q, again)
    BY <1>1 DEF Throw
  <2> HIDE DEF again
  <2> QED BY <2>2, <2>3, GetOrCreateGoes
<1>2. CASE ~(~call[c].aborted /\ MayRestart(c, S) /\ StillAdmitted)
  <2>1. PICK o \in {"unavailable", "failed", "stale"} : Finish(c, o)
    BY <1>2 DEF Throw
  <2> QED BY <2>1, FinishStep DEF Outcomes, Serving
<1> QED BY <1>1, <1>2

\* Every step of a call but its first and its abort.
Work(c) ==
  \/ GiveUpQueued(c) \/ StartRun(c) \/ Stat(c) \/ ReadFails(c)
  \/ ReadAndAcquire(c) \/ Open(c) \/ BootFailed(c) \/ OpenWritten(c)
  \/ OpenWriteFails(c) \/ GiveUpOpening(c) \/ FinishWait(c)
  \/ CloseWritten(c) \/ CloseFails(c)

LEMMA WorkSimple ==
  ASSUME PoolInv, NEW c \in Calls, Work(c)
  PROVE  Simple(c)
<1>1. OnlyLine
  BY DEF Work, OnlyLine, GiveUpQueued, StartRun, Stat, ReadFails, ReadAndAcquire, Open,
         BootFailed, OpenWritten, OpenWriteFails, GiveUpOpening, FinishWait,
         CloseWritten, CloseFails
<1>2. TypeOK /\ call \in [Calls -> CallType] /\ call[c] \in CallType
  BY DEF PoolInv, TypeOK
<1>3. {"unavailable", "stale", "failed", "ok"} \subseteq Outcomes
  BY DEF Outcomes
<1>4. ASSUME call'[c].pc \in Serving, call[c].pc \in Serving, call'[c].out = call[c].out,
             \A d \in Calls \ {c} : call'[d] = call[d]
      PROVE  Simple(c)
  BY <1>1, <1>4 DEF OnlyLine, Simple, OnlyCall, Goes
<1>5. CASE GiveUpQueued(c)
  BY <1>1, <1>2, <1>3, <1>5, FinishStep DEF GiveUpQueued
<1>6. CASE StartRun(c)
  <2>1. CASE StillAdmitted
    <3>1. call' = [call EXCEPT ![c].pc = "stat"] /\ call[c].pc = "queued" /\ TailSettled(c)
      BY <1>6, <2>1 DEF StartRun
    <3>2. call'[c].pc = "stat" /\ call'[c].out = call[c].out
      BY <1>2, <3>1 DEF CallType
    <3> QED
      BY <1>1, <2>1, <3>1, <3>2 DEF StillAdmitted, OnlyLine, Simple, OnlyCall, Begins
  <2>2. CASE ~StillAdmitted
    BY <1>1, <1>2, <1>3, <1>6, <2>2, FinishStep DEF StartRun
  <2> QED BY <2>1, <2>2
<1>7. CASE Stat(c)
  <2>1. CASE Finish(c, "unavailable") \/ Finish(c, "stale")
    BY <1>1, <1>2, <1>3, <1>7, <2>1, FinishStep DEF Stat
  <2>2. CASE call' = [call EXCEPT ![c].pc = "read"]
    <3>1. call'[c].pc = "read" /\ call'[c].out = call[c].out
      BY <1>2, <2>2 DEF CallType
    <3> QED BY <1>4, <1>7, <2>2, <3>1 DEF Stat, Serving
  <2> QED BY <1>7, <2>1, <2>2 DEF Stat
<1>8. CASE ReadFails(c)
  BY <1>1, <1>2, <1>3, <1>8, FinishStep DEF ReadFails
<1>9. CASE ReadAndAcquire(c)
  <2> DEFINE read == [call EXCEPT ![c] = [call[c] EXCEPT !.text = content[CallUri[c]]]]
  <2>1. CASE ~StillAdmitted
    BY <1>1, <1>2, <1>3, <1>9, <2>1, FinishStep DEF ReadAndAcquire
  <2>2. CASE StillAdmitted
    <3>1. content[CallUri[c]] \in Nat
      BY <1>2, CallAssumption DEF TypeOK
    <3>2. /\ read \in [Calls -> CallType] /\ read[c].out = call[c].out
          /\ \A d \in Calls \ {c} : read[d] = call[d]
      BY <1>2, <3>1 DEF CallType
    <3>3. \E S, P : GetOrCreate(c, S, P, read)
      BY <1>9, <2>2 DEF ReadAndAcquire
    <3>4. call[c].pc \in Serving
      BY <1>9 DEF ReadAndAcquire, Serving
    <3> HIDE DEF read
    <3> QED BY <1>1, <1>2, <3>2, <3>3, <3>4, GetOrCreateGoes
  <2> QED BY <2>1, <2>2
<1>10. CASE Open(c)
  <2>1. call' = [call EXCEPT ![c].pc = "opening"] /\ call[c].pc = "boot"
    BY <1>10 DEF Open
  <2>2. call'[c].pc = "opening" /\ call'[c].out = call[c].out
    BY <1>2, <2>1 DEF CallType
  <2> QED BY <1>4, <2>1, <2>2 DEF Serving
<1>11. CASE BootFailed(c)
  <2>1. call[c].pc \in Serving /\ Throw(c, sess, pool)
    BY <1>11 DEF BootFailed, Serving
  <2> QED BY <1>1, <1>2, <2>1, ThrowSimple
<1>12. CASE OpenWritten(c)
  <2>1. call' = [call EXCEPT ![c].pc = "waiting"] /\ call[c].pc = "opening"
    BY <1>12 DEF OpenWritten
  <2>2. call'[c].pc = "waiting" /\ call'[c].out = call[c].out
    BY <1>2, <2>1 DEF CallType
  <2> QED BY <1>4, <2>1, <2>2 DEF Serving
<1>13. CASE OpenWriteFails(c)
  <2>1. call[c].pc \in Serving /\ \E S, P : Throw(c, S, P)
    BY <1>13 DEF OpenWriteFails, Serving
  <2> QED BY <1>1, <1>2, <2>1, ThrowSimple
<1>14. CASE GiveUpOpening(c)
  <2>1. call[c].pc \in Serving /\ Return(c, "unavailable", sess, pool)
    BY <1>14 DEF GiveUpOpening, Serving
  <2> QED BY <1>1, <1>2, <1>3, <2>1, ReturnEnds
<1>15. CASE FinishWait(c)
  <2>1. call[c].pc = "waiting" /\ call[c].pc \in Serving
    BY <1>15 DEF FinishWait, Serving
  <2>2. CASE Throw(c, sess, pool)
    BY <1>1, <1>2, <2>1, <2>2, ThrowSimple
  <2>3. CASE \E o \in Outcomes : \E S, P : Return(c, o, S, P)
    BY <1>1, <1>2, <2>1, <2>3, ReturnEnds
  <2>4. CASE call' = [call EXCEPT ![c].pc = "closing"]
    <3>1. call'[c].pc = "closing" /\ call'[c].out = call[c].out
      BY <1>2, <2>4 DEF CallType
    <3> QED BY <1>4, <2>1, <2>4, <3>1 DEF Serving
  <2>5. ASSUME ~Rejects(call[c].ses), sess[call[c].ses].out # "none"
        PROVE  sess[call[c].ses].out \in Outcomes
    <3>1. call[c].ses \in Sessions
      BY <1>2, <2>1, BoundAssumption DEF PoolInv, References, Using, Sessions, CallType
    <3>2. sess[call[c].ses].out \in {"none", "ok", "unavailable", "error"}
      BY <1>2, <3>1 DEF TypeOK, SessionType
    <3> QED BY <1>3, <2>5, <3>2 DEF Rejects
  <2> QED BY <1>3, <1>15, <2>2, <2>3, <2>4, <2>5 DEF FinishWait
<1>16. CASE CloseWritten(c)
  <2>1. call[c].pc \in Serving /\ \E o \in Outcomes : Return(c, o, sess, pool)
    BY <1>3, <1>16 DEF CloseWritten, Serving
  <2> QED BY <1>1, <1>2, <2>1, ReturnEnds
<1>17. CASE CloseFails(c)
  <2>1. call[c].pc \in Serving /\ \E o \in Outcomes : \E S, P : Return(c, o, S, P)
    BY <1>3, <1>17 DEF CloseFails, Serving
  <2> QED BY <1>1, <1>2, <2>1, ReturnEnds
<1> QED
  BY <1>5, <1>6, <1>7, <1>8, <1>9, <1>10, <1>11, <1>12, <1>13, <1>14, <1>15, <1>16,
     <1>17 DEF Work

LEMMA AbortKept ==
  ASSUME TypeOK, LineInv, NEW c \in Calls, Abort(c)
  PROVE  LineInv' /\ [Service!Next]_(Service!vars)
<1>1. queue' = queue /\ admission' = admission
  BY DEF Abort
<1>2. \A d \in Calls : call'[d].pc = call[d].pc /\ call'[d].out = call[d].out
  BY DEF Abort, TypeOK, CallType
<1>3. Typed
  BY TypeKnown
<1>4. \A k \in Keys : \A i \in 1..Len(queue[k]) : queue[k][i] \in Calls
  BY <1>3 DEF Typed
<1>5. InLine'
  BY <1>1, <1>2 DEF LineInv, InLine
<1>6. LineOf'
  BY <1>1, <1>2, <1>4 DEF LineInv, LineOf
<1>7. Served'
  BY <1>1, <1>2, <1>4, CallAssumption DEF LineInv, Served, TailSettled
<1>8. \A d \in Calls : Stage(d)' = Stage(d) /\ Ahead(d)' = Ahead(d)
  BY <1>1, <1>2 DEF Stage, Ahead
<1> QED BY <1>1, <1>2, <1>5, <1>6, <1>7, <1>8 DEF LineInv, Service!vars

-----------------------------------------------------------------------------
LEMMA NextService ==
  PoolInv /\ LineInv /\ [Next]_vars => LineInv' /\ [Service!Next]_(Service!vars)
<1> SUFFICES ASSUME PoolInv, LineInv, [Next]_vars
             PROVE  LineInv' /\ [Service!Next]_(Service!vars)
  OBVIOUS
<1>1. TypeOK /\ Typed /\ admission \in BOOLEAN
  BY TypeKnown DEF PoolInv, TypeOK
<1>2. ASSUME NEW c \in Calls, CallStep(c)
      PROVE  LineInv' /\ [Service!Next]_(Service!vars)
  <2>1. CASE Diagnose(c)
    BY <1>1, <2>1, DiagnoseStep
  <2>2. CASE Abort(c)
    BY <1>1, <2>2, AbortKept
  <2>3. CASE Work(c)
    BY <1>1, <2>3, WorkSimple, SimpleLine, SimpleService
  <2> QED BY <1>2, <2>1, <2>2, <2>3 DEF CallStep, Work
<1>3. ASSUME NEW s \in 1..made, SessionStep(s) PROVE Aside
  BY <1>3 DEF SessionStep, Aside, Spawn, InitializeOk, InitializedWritten, BootFails,
     GreetingFails, Crash, Malformed, Publish, QuietTimer, TeardownDone
<1>4. CASE \E u \in Uris : Write(u)
  BY <1>1, <1>4, AsideKept DEF Write, Aside
<1>5. CASE Dispose
  BY <1>1, <1>5, AsideKept DEF Dispose, StopAdmission, DisposeBegin, DisposeDone, Aside
<1>6. CASE AllQuiet \/ UNCHANGED vars
  BY <1>1, <1>6, AsideKept DEF AllQuiet, vars, Aside
<1> QED BY <1>1, <1>2, <1>3, <1>4, <1>5, <1>6, AsideKept DEF Next

LEMMA LineInvariance == Spec => []LineInv
<1>1. Init => LineInv
  BY InitLine
<1>2. PoolInv /\ LineInv /\ [Next]_vars => LineInv'
  BY NextService
<1> QED BY <1>1, <1>2, Invariance, PTL DEF Spec

\* The runtime is the service its clients rely on, however sessions restart,
\* callers give up and servers behave (enqueue, runDiagnosis).
THEOREM RuntimeImplementsService == Spec => Implements
<1>1. Init => Service!Init
  BY InitService
<1>2. PoolInv /\ LineInv /\ [Next]_vars => [Service!Next]_(Service!vars)
  BY NextService
<1> QED BY <1>1, <1>2, Invariance, LineInvariance, PTL DEF Spec, Implements, Service!Spec

LEMMA SerialInv == PoolInv /\ LineInv => Serial
<1> SUFFICES ASSUME PoolInv, LineInv, NEW c \in Calls, NEW d \in Calls,
                    c # d, CallKey[c] = CallKey[d],
                    call[c].pc \in Serving, call[d].pc \in Serving
             PROVE  FALSE
  BY DEF Serial
<1> DEFINE q == queue[CallKey[c]]
<1>1. PICK i \in 1..Len(q) : q[i] = c
  BY DEF LineInv, InLine, Serving
<1>2. PICK j \in 1..Len(q) : q[j] = d
  BY DEF LineInv, InLine, Serving
<1>3. Len(q) \in Nat
  BY TypeKnown, CallAssumption DEF PoolInv, Typed
<1>4. i < j \/ j < i
  BY <1>1, <1>2, <1>3
<1>5. TailSettled(c) /\ TailSettled(d)
  BY DEF LineInv, Served
<1>6. call[c].pc = "settled" \/ call[d].pc = "settled"
  BY <1>1, <1>2, <1>4, <1>5 DEF TailSettled
<1> QED BY <1>6 DEF Serving

\* At most one call of a key is between its start and its result (enqueue).
THEOREM OneAtATime == Spec => []Serial
BY SerialInv, Invariance, LineInvariance, PTL

-----------------------------------------------------------------------------
(* What a diagnosis shows is about the text its call read, for any number  *)
(* of calls, documents, keys and sessions.  A process is sent a document   *)
(* once, and between a call and the session it uses there is a book both   *)
(* keep: who waits, for which document, and what was heard so far.         *)


\* A process is sent a document once; what it was sent is version 1.
Sent(r) ==
  /\ \A u \in Uris : r.ver[u] <= 1
  /\ \A d \in r.recv : r.ver[d.uri] = 1

\* Document d is the one call c read.
Own(d, c, C) == d.uri = CallUri[c] /\ d.text = C[c].text

\* All that the waiter of call w was told is about the text w read.
Heard(r, w, C) ==
  /\ \A d \in r.recv : d.uri = CallUri[w] => Own(d, w, C)
  /\ r.pre = {} \/ \E d \in r.pre : r.pre = {d} /\ Own(d, w, C)
  /\ r.batch = {} \/ \E d \in r.batch : r.batch = {d} /\ Own(d, w, C)
  /\ r.out = "ok" => r.batch # {}

Waits(r, s, C) ==
  r.waiter # NoCall => /\ C[r.waiter].ses = s
                       /\ C[r.waiter].pc \in Using \ {"boot"}
                       /\ Heard(r, r.waiter, C)

SessionOk(S, C, s) == Sent(S[s]) /\ Waits(S[s], s, C)

\* What a call in phase pc finds in its session.
Uses(r, pc, c) ==
  /\ CallKey[r.owner] = CallKey[c]
  /\ pc = "boot" => r.ver[CallUri[c]] = 0 /\ r.waiter = NoCall /\ ~r.accepted
  /\ pc # "boot" => r.waiter = c
  /\ pc = "opening" => ~r.opened /\ ~r.accepted

CallOk(S, P, C, c) ==
  /\ C[c].pc \in Using => /\ Uses(S[C[c].ses], C[c].pc, c)
                          /\ P[CallKey[c]] \in {0, C[c].ses}
  /\ C[c].pc # "settled" => C[c].out = "none"
  /\ C[c].out = "ok" => \E d \in C[c].shown : C[c].shown = {d} /\ Own(d, c, C)

Book(S, P, C) ==
  /\ \A s \in Sessions : SessionOk(S, C, s)
  /\ \A c \in Calls : CallOk(S, P, C, c)

ResultInv == Book(sess, pool, call)

\* The book while call c is between two sessions.
LeftBook(S, P, C, c) ==
  /\ \A s \in Sessions : SessionOk(S, C, s) /\ S[s].waiter # c
  /\ \A d \in Calls \ {c} : CallOk(S, P, C, d)

\* No other call of its key uses a session.
Alone(C, c) ==
  \A d \in Calls \ {c} : CallKey[d] = CallKey[c] => C[d].pc \notin Using

LEMMA InitResult == Init => ResultInv
BY DEF Init, ResultInv, Book, SessionOk, CallOk, Sent, Waits, NoSession, Using

-----------------------------------------------------------------------------
(* Steps that tell a waiter nothing new.                                   *)

CalmRecord(r, q) ==
  /\ q.owner = r.owner /\ q.ver = r.ver /\ q.waiter = r.waiter
  /\ q.opened = r.opened /\ q.accepted = r.accepted /\ q.batch = r.batch
  /\ q.recv \subseteq r.recv /\ q.pre \in {r.pre, {}}
  /\ q.out = "ok" => r.out = "ok" \/ r.batch # {}

Calm(S, T) == \A s \in Sessions : CalmRecord(S[s], T[s])

Shrinks(P, Q) == \A k \in Keys : Q[k] \in {0, P[k]}

SameCalls(C, D) ==
  \A c \in Calls : /\ D[c].pc = C[c].pc /\ D[c].ses = C[c].ses /\ D[c].out = C[c].out
                   /\ D[c].text = C[c].text /\ D[c].shown = C[c].shown

LEMMA CalmRefl == ASSUME NEW S PROVE Calm(S, S)
BY DEF Calm, CalmRecord

LEMMA CalmTrans ==
  ASSUME NEW S, NEW T, NEW U, Calm(S, T), Calm(T, U)
  PROVE  Calm(S, U)
<1> SUFFICES ASSUME NEW s \in Sessions PROVE CalmRecord(S[s], U[s])
  BY DEF Calm
<1>1. CalmRecord(S[s], T[s]) /\ CalmRecord(T[s], U[s])
  BY DEF Calm
<1> QED BY <1>1 DEF CalmRecord

LEMMA CalmOne ==
  ASSUME NEW S, S \in SessFun, NEW s \in Sessions, NEW q, CalmRecord(S[s], q)
  PROVE  Calm(S, [S EXCEPT ![s] = q])
<1> SUFFICES ASSUME NEW x \in Sessions PROVE CalmRecord(S[x], [S EXCEPT ![s] = q][x])
  BY DEF Calm
<1> QED BY DEF SessFun, CalmRecord

LEMMA TeardownCalm ==
  ASSUME NEW S, Good(S), NEW s \in Sessions
  PROVE  Calm(S, StartTeardown(S, s))
<1> DEFINE q == [S[s] EXCEPT !.closing = TRUE, !.td = "running",
                             !.boot = RejectPending(S[s]),
                             !.out = Settle(S[s], "unavailable")]
<1>1. S[s] \in SessionType /\ S \in SessFun
  BY DEF Good, SessFun
<1>2. CASE S[s].td # "none"
  BY <1>2, CalmRefl DEF StartTeardown
<1>3. CASE S[s].td = "none"
  <2>1. StartTeardown(S, s) = [S EXCEPT ![s] = q]
    BY <1>3 DEF StartTeardown
  <2>2. CalmRecord(S[s], q)
    BY <1>1 DEF CalmRecord, SessionType, Settle
  <2> HIDE DEF q
  <2>3. Calm(S, [S EXCEPT ![s] = q])
    BY <1>1, <2>2, CalmOne
  <2> QED BY <2>1, <2>3
<1> QED BY <1>2, <1>3

LEMMA PoisonCalm ==
  ASSUME NEW S, Good(S), NEW s \in Sessions
  PROVE  Calm(S, Poison(S, s))
<1> DEFINE q == [S[s] EXCEPT !.poisoned = TRUE, !.boot = RejectPending(S[s]),
                             !.out = Settle(S[s], "error")]
           t == [q EXCEPT !.closing = TRUE, !.td = "running",
                          !.boot = RejectPending(q),
                          !.out = Settle(q, "unavailable")]
<1>1. S[s] \in SessionType /\ S \in SessFun
  BY DEF Good, SessFun
<1>2. CASE S[s].poisoned
  BY <1>2, CalmRefl DEF Poison
<1>3. CASE ~S[s].poisoned
  <2>1. CalmRecord(S[s], q) /\ CalmRecord(q, t)
    BY <1>1 DEF CalmRecord, SessionType, Settle
  <2>2. [S EXCEPT ![s] = q][s] = q
    BY <1>1 DEF SessFun
  <2>3. Poison(S, s) = [S EXCEPT ![s] = q] \/ Poison(S, s) = [S EXCEPT ![s] = t]
    BY <1>1, <1>3, <2>2 DEF Poison, StartTeardown, SessFun
  <2>4. CalmRecord(S[s], t)
    BY <2>1 DEF CalmRecord
  <2> HIDE DEF q, t
  <2> QED BY <1>1, <2>1, <2>3, <2>4, CalmOne
<1> QED BY <1>2, <1>3

LEMMA CalmBook ==
  ASSUME NEW S, NEW T, NEW P, NEW Q, NEW C, NEW D,
         Book(S, P, C), Calm(S, T), Shrinks(P, Q), SameCalls(C, D),
         \A s \in Sessions : S[s].waiter \in Calls \cup {NoCall},
         \A c \in Calls : C[c].pc \in Using => C[c].ses \in Sessions
  PROVE  Book(T, Q, D)
<1>1. ASSUME NEW s \in Sessions PROVE SessionOk(T, D, s)
  <2>1. CalmRecord(S[s], T[s]) /\ SessionOk(S, C, s)
    BY DEF Calm, Book
  <2>2. Sent(T[s])
    BY <2>1 DEF SessionOk, Sent, CalmRecord
  <2>3. ASSUME T[s].waiter # NoCall
        PROVE  Waits(T[s], s, D)
    <3>1. /\ S[s].waiter \in Calls /\ T[s].waiter = S[s].waiter
          /\ C[S[s].waiter].ses = s /\ C[S[s].waiter].pc \in Using \ {"boot"}
          /\ Heard(S[s], S[s].waiter, C)
      BY <2>1, <2>3 DEF CalmRecord, SessionOk, Waits
    <3>2. Heard(T[s], T[s].waiter, D)
      BY <2>1, <3>1 DEF Heard, Own, CalmRecord, SameCalls
    <3> QED BY <3>1, <3>2 DEF Waits, SameCalls
  <2> QED BY <2>2, <2>3 DEF SessionOk, Waits
<1>2. ASSUME NEW c \in Calls PROVE CallOk(T, Q, D, c)
  <2>1. CallOk(S, P, C, c)
    BY DEF Book
  <2>2. ASSUME D[c].pc \in Using
        PROVE  Uses(T[D[c].ses], D[c].pc, c) /\ Q[CallKey[c]] \in {0, D[c].ses}
    <3>0. /\ C[c].pc = D[c].pc /\ C[c].ses = D[c].ses /\ C[c].ses \in Sessions
          /\ CallKey[c] \in Keys
      BY <2>2, CallAssumption DEF SameCalls
    <3>1. CalmRecord(S[C[c].ses], T[C[c].ses])
      BY <3>0 DEF Calm
    <3>2. Uses(S[C[c].ses], C[c].pc, c) /\ P[CallKey[c]] \in {0, C[c].ses}
      BY <2>1, <2>2, <3>0 DEF CallOk
    <3> QED BY <3>0, <3>1, <3>2 DEF Uses, CalmRecord, Shrinks
  <2> QED BY <2>1, <2>2 DEF CallOk, SameCalls, Own
<1> QED BY <1>1, <1>2 DEF Book
-----------------------------------------------------------------------------
(* A call leaves its session, or goes on with another.                     *)

\* T is S after session s lost its waiter and perhaps its protocol state.
Quits(S, T, s) ==
  /\ \A x \in Sessions \ {s} : T[x] = S[x]
  /\ T[s].owner = S[s].owner /\ T[s].waiter = NoCall
  /\ Sent(S[s]) => Sent(T[s])

Others(C, D, c) == \A d \in Calls \ {c} : D[d] = C[d]

LEMMA DetachQuits ==
  ASSUME NEW S, Good(S), NEW s \in Sessions
  PROVE  Quits(S, Detach(S, s), s)
<1> DEFINE r == [S[s] EXCEPT !.waiter = NoCall, !.opened = FALSE, !.pre = {},
                             !.batch = {}, !.out = "none"]
<1>1. S[s] \in SessionType /\ S \in SessFun
  BY DEF Good, SessFun
<1>2. /\ r.owner = S[s].owner /\ r.waiter = NoCall
      /\ r.ver = S[s].ver /\ r.recv = S[s].recv
  BY <1>1 DEF SessionType
<1>3. Detach(S, s) = [S EXCEPT ![s] = r]
  BY DEF Detach
<1> HIDE DEF r
<1>4. Sent(S[s]) => Sent(r)
  BY <1>2 DEF Sent
<1> QED BY <1>1, <1>2, <1>3, <1>4 DEF Quits, SessFun

LEMMA RetireQuits ==
  ASSUME NEW S, Good(S), NEW s \in Sessions
  PROVE  Quits(S, Retire(S, s), s)
<1> DEFINE D == Detach(S, s)
           T == StartTeardown(D, s)
           r == [T[s] EXCEPT !.poisoned = FALSE, !.accepted = FALSE,
                             !.retire = FALSE, !.recv = {},
                             !.ver = [u \in Uris |-> 0]]
<1>1. Moves(S, D, s) /\ Quits(S, D, s)
  BY DetachMoves, DetachQuits
<1>2. Good(D)
  BY <1>1 DEF Moves
<1>3. Moves(D, T, s) /\ Calm(D, T)
  BY <1>2, TeardownMoves, TeardownCalm
<1>4. Retire(S, s) = [T EXCEPT ![s] = r]
  BY DEF Retire
<1> HIDE DEF D, T
<1>5. T[s] \in SessionType /\ T \in SessFun /\ T[s].waiter = NoCall
  BY <1>1, <1>3 DEF Moves, Good, SessFun, Calm, CalmRecord, Quits
<1>6. /\ r.owner = T[s].owner /\ r.waiter = NoCall
      /\ r.ver = [u \in Uris |-> 0] /\ r.recv = {}
  BY <1>5 DEF SessionType
<1> HIDE DEF r
<1>7. Sent(r)
  BY <1>6 DEF Sent
<1> QED BY <1>1, <1>3, <1>4, <1>5, <1>6, <1>7 DEF Quits, Moves, SessFun

LEMMA LeaveBook ==
  ASSUME NEW S, NEW T, NEW P, NEW Q, NEW C, NEW D, NEW c \in Calls,
         NEW s \in Sessions, Book(S, P, C), Alone(C, c), Quits(S, T, s),
         Shrinks(P, Q), Others(C, D, c), CallKey[S[s].owner] = CallKey[c],
         C[c].pc \in Using => C[c].ses = s,
         \A x \in Sessions : S[x].waiter \in Calls \cup {NoCall},
         \A d \in Calls : C[d].pc \in Using => C[d].ses \in Sessions
  PROVE  LeftBook(T, Q, D, c)
<1>1. ASSUME NEW x \in Sessions PROVE SessionOk(T, D, x) /\ T[x].waiter # c
  <2>1. SessionOk(S, C, x)
    BY DEF Book
  <2>2. CASE x = s
    BY <2>1, <2>2 DEF Quits, SessionOk, Waits
  <2>3. CASE x # s
    <3>1. T[x] = S[x]
      BY <2>3 DEF Quits
    <3>2. S[x].waiter # NoCall =>
            S[x].waiter \in Calls \ {c} /\ Waits(S[x], x, C)
      BY <2>1, <2>3 DEF SessionOk, Waits
    <3>3. S[x].waiter # NoCall => Waits(S[x], x, D)
      BY <3>2 DEF Waits, Others, Heard, Own
    <3> QED BY <2>1, <3>1, <3>2, <3>3 DEF SessionOk, Waits
  <2> QED BY <2>2, <2>3
<1>2. ASSUME NEW d \in Calls \ {c} PROVE CallOk(T, Q, D, d)
  <2>1. CallOk(S, P, C, d) /\ D[d] = C[d]
    BY DEF Book, Others
  <2>2. ASSUME C[d].pc \in Using
        PROVE  T[C[d].ses] = S[C[d].ses]
    <3>1. CallKey[S[C[d].ses].owner] = CallKey[d] /\ CallKey[d] # CallKey[c]
      BY <2>1, <2>2 DEF CallOk, Uses, Alone
    <3> QED BY <2>2, <3>1 DEF Quits
  <2> QED BY <2>1, <2>2 DEF CallOk, Shrinks, Own
<1> QED BY <1>1, <1>2 DEF LeftBook

LEMMA AwayBook ==
  ASSUME NEW S, NEW P, NEW C, NEW D, NEW c \in Calls, Book(S, P, C),
         C[c].pc \notin Using, Others(C, D, c),
         \A x \in Sessions : S[x].waiter \in Calls \cup {NoCall}
  PROVE  LeftBook(S, P, D, c)
<1>1. ASSUME NEW x \in Sessions PROVE SessionOk(S, D, x) /\ S[x].waiter # c
  <2>1. SessionOk(S, C, x)
    BY DEF Book
  <2>2. S[x].waiter # NoCall => S[x].waiter \in Calls \ {c} /\ Waits(S[x], x, C)
    BY <2>1 DEF SessionOk, Waits
  <2>3. S[x].waiter # NoCall => Waits(S[x], x, D)
    BY <2>2 DEF Waits, Others, Heard, Own
  <2> QED BY <2>1, <2>2, <2>3 DEF SessionOk, Waits
<1>2. ASSUME NEW d \in Calls \ {c} PROVE CallOk(S, P, D, d)
  BY DEF Book, Others, CallOk, Own
<1> QED BY <1>1, <1>2 DEF LeftBook

LEMMA CloseBook ==
  ASSUME NEW S, NEW P, NEW C, NEW c \in Calls, LeftBook(S, P, C, c), CallOk(S, P, C, c)
  PROVE  Book(S, P, C)
BY DEF LeftBook, Book
LEMMA GetOrCreateBook ==
  ASSUME made \in 0..MaxSessions, NEW c \in Calls, NEW S, Good(S), NEW P,
         Tracked(S, P, made), NEW C \in [Calls -> CallType], References(C, made),
         LeftBook(S, P, C, c), Alone(C, c), C[c].out = "none",
         GetOrCreate(c, S, P, C),
         P[CallKey[c]] # 0 /\ ~IsClosing(S[P[CallKey[c]]])
           => S[P[CallKey[c]]].ver[CallUri[c]] = 0
  PROVE  Book(sess', pool', call')
<1> DEFINE k == CallKey[c]
           cur == P[k]
           Placed(n, r, q) ==
             /\ sess' = [S EXCEPT ![n] = r] /\ pool'[k] = n
             /\ \A l \in Keys \ {k} : pool'[l] = P[l]
             /\ call' = [C EXCEPT ![c] = q]
             /\ q.pc = "boot" /\ q.ses = n /\ q.out = "none"
             /\ CallKey[r.owner] = k /\ r.waiter = NoCall /\ ~r.accepted
             /\ r.ver[CallUri[c]] = 0 /\ Sent(r)
             /\ \A d \in Calls \ {c} : C[d].pc \in Using => C[d].ses # n
<1>1. /\ k \in Keys /\ cur \in 0..made /\ S \in SessFun
      /\ \A d \in Calls : /\ C[d] \in CallType /\ C[d].ses \in 0..made
                          /\ C[d].pc \in Using => C[d].ses \in Sessions
      /\ \A x \in Sessions : S[x] \in SessionType
  BY DEF Tracked, Good, References, SessFun, Sessions
<1>2. ASSUME NEW n \in Sessions, NEW r, NEW q, Placed(n, r, q)
      PROVE  Book(sess', pool', call')
  <2>3. Others(C, call', c) /\ call'[c] = q
    BY <1>2 DEF Others
  <2>4. ASSUME NEW x \in Sessions PROVE SessionOk(sess', call', x)
    <3>1. CASE x = n
      BY <1>1, <1>2, <3>1 DEF SessionOk, Waits, SessFun
    <3>2. CASE x # n
      <4>1. sess'[x] = S[x] /\ SessionOk(S, C, x) /\ S[x].waiter # c
        BY <1>2, <3>2 DEF LeftBook
      <4>2. S[x].waiter # NoCall => S[x].waiter \in Calls \ {c} /\ Waits(S[x], x, C)
        BY <1>1, <4>1 DEF SessionOk, Waits, SessionType
      <4>3. S[x].waiter # NoCall => Waits(S[x], x, call')
        BY <2>3, <4>2 DEF Waits, Others, Heard, Own
      <4> QED BY <4>1, <4>2, <4>3 DEF SessionOk, Waits
    <3> QED BY <3>1, <3>2
  <2>5. ASSUME NEW d \in Calls \ {c} PROVE CallOk(sess', pool', call', d)
    <3>1. CallOk(S, P, C, d) /\ call'[d] = C[d]
      BY <2>3 DEF LeftBook, Others
    <3>2. ASSUME C[d].pc \in Using
          PROVE  sess'[C[d].ses] = S[C[d].ses] /\ pool'[CallKey[d]] = P[CallKey[d]]
      BY <1>1, <1>2, <3>2 DEF Alone
    <3> QED BY <1>2, <3>1, <3>2 DEF CallOk, Own
  <2>6. CallOk(sess', pool', call', c)
    <3>1. sess'[n] = r
      BY <1>1, <1>2 DEF SessFun
    <3> QED BY <1>2, <2>3, <3>1 DEF CallOk, Uses
  <2> QED BY <2>4, <2>5, <2>6 DEF Book
<1>3. CASE cur # 0 /\ ~IsClosing(S[cur])
  <2> DEFINE r == [S[cur] EXCEPT !.accepted = FALSE, !.retire = FALSE]
             q == [C[c] EXCEPT !.pc = "boot", !.ses = cur]
  <2>1. sess' = [S EXCEPT ![cur] = r] /\ pool' = P /\ call' = [C EXCEPT ![c] = q]
    BY <1>3 DEF GetOrCreate
  <2>7. q.pc = "boot" /\ q.ses = cur /\ q.out = "none"
    BY <1>1 DEF CallType
  <2>2. cur \in Sessions /\ CallKey[S[cur].owner] = k
    BY <1>1, <1>3 DEF Tracked, Sessions
  <2>3. /\ r.owner = S[cur].owner /\ r.waiter = S[cur].waiter /\ ~r.accepted
        /\ r.ver = S[cur].ver /\ r.recv = S[cur].recv
    BY <1>1, <2>2 DEF SessionType
  <2>4. Sent(r)
    BY <2>2, <2>3 DEF LeftBook, SessionOk, Sent
  <2>5. ASSUME NEW d \in Calls \ {c}, C[d].pc \in Using PROVE C[d].ses # cur
    BY <2>2, <2>5 DEF LeftBook, CallOk, Uses, Alone
  <2>6. S[cur].waiter = NoCall
    <3>1. SessionOk(S, C, cur) /\ S[cur].waiter # c
      BY <2>2 DEF LeftBook
    <3>2. S[cur].waiter \in Calls \cup {NoCall}
      BY <1>1, <2>2 DEF SessionType
    <3> QED BY <2>5, <3>1, <3>2 DEF SessionOk, Waits
  <2> HIDE DEF r, q
  <2>8. Placed(cur, r, q)
    BY <1>3, <2>1, <2>2, <2>3, <2>4, <2>5, <2>6, <2>7
  <2> QED BY <1>2, <2>2, <2>8
<1>4. CASE ~(cur # 0 /\ ~IsClosing(S[cur]))
  <2> DEFINE n == made + 1
  <2>1. /\ made < MaxSessions /\ sess' = [S EXCEPT ![n] = NewSession(c)]
        /\ pool' = [P EXCEPT ![k] = n]
        /\ call' = [C EXCEPT ![c] = [C[c] EXCEPT !.pc = "boot", !.ses = n]]
    BY <1>4 DEF GetOrCreate
  <2>2. n \in Sessions
    BY <2>1 DEF Sessions
  <2>3. P \in [Keys -> 0..made]
    BY DEF Tracked
  <2>4. /\ NewSession(c).owner = c /\ NewSession(c).waiter = NoCall
        /\ ~NewSession(c).accepted /\ NewSession(c).ver[CallUri[c]] = 0
        /\ Sent(NewSession(c))
    BY DEF NewSession, NoSession, Sent
  <2>5. ASSUME NEW d \in Calls \ {c} PROVE C[d].ses # n
    <3>1. C[d].ses \in 0..made
      BY DEF References
    <3> QED BY <3>1
  <2> DEFINE r == NewSession(c)
             q == [C[c] EXCEPT !.pc = "boot", !.ses = n]
  <2>6. pool'[k] = n /\ \A l \in Keys \ {k} : pool'[l] = P[l]
    BY <1>1, <2>1, <2>3
  <2>7. q.pc = "boot" /\ q.ses = n /\ q.out = "none" /\ call' = [C EXCEPT ![c] = q]
    BY <1>1, <2>1 DEF CallType
  <2>8. /\ sess' = [S EXCEPT ![n] = r] /\ CallKey[r.owner] = k /\ r.waiter = NoCall
        /\ ~r.accepted /\ r.ver[CallUri[c]] = 0 /\ Sent(r)
    BY <2>1, <2>4
  <2> HIDE DEF n, r, q
  <2>9. Placed(n, r, q)
    BY <2>5, <2>6, <2>7, <2>8
  <2> QED BY <1>2, <2>2, <2>9
<1> QED BY <1>3, <1>4

\* What the two invariants say of a call that uses a session.
LEMMA UsingAlone ==
  ASSUME PoolInv, Serial, NEW c \in Calls, call[c].pc \in Serving
  PROVE  Alone(call, c)
BY DEF Alone, Serial, Serving, Using

LEMMA Waiters ==
  ASSUME NEW S, Good(S)
  PROVE  \A s \in Sessions : S[s].waiter \in Calls \cup {NoCall}
BY DEF Good, SessFun, SessionType

\* session.diagnose returned o or threw, with sessions S and pool P.
LEMMA ReturnBook ==
  ASSUME PoolInv, NEW c \in Calls, NEW S, NEW P, Left(c, S, P), Book(S, P, call),
         Alone(call, c), NEW o, Return(c, o, S, P),
         o = "ok" => \E d \in S[call[c].ses].batch :
                       S[call[c].ses].batch = {d} /\ Own(d, c, call)
  PROVE  Book(sess', pool', call')
<1> DEFINE s == call[c].ses
           w == IF o = "ok" THEN S[s].batch ELSE {}
           r == [call[c] EXCEPT !.pc = "settled", !.out = o, !.shown = w,
                                !.ses = 0, !.attempt = 0, !.expected = 0]
<1>1. /\ s \in 1..made /\ s \in Sessions /\ Good(S) /\ call \in [Calls -> CallType]
      /\ \A d \in Calls : call[d].pc \in Using => call[d].ses \in Sessions
      /\ call[c].pc \in Using
  BY LeftFacts, UsingSession, Basics DEF Left
<1>2. call' = [call EXCEPT ![c] = r]
  BY DEF Return, Settled
<1>3. /\ r.pc = "settled" /\ r.out = o /\ r.shown = w
      /\ r.text = call[c].text
  BY <1>1 DEF CallType
<1>4. Quits(S, sess', s) /\ Shrinks(P, pool')
  BY <1>1, DetachQuits, RetireQuits DEF Return, Shrinks, EvictFrom
<1>5. CallKey[S[s].owner] = CallKey[c]
  BY <1>1 DEF Book, CallOk, Uses
<1> HIDE DEF r
<1>6. Others(call, call', c) /\ call'[c] = r
  BY <1>1, <1>2 DEF Others
<1> HIDE DEF s
<1>7. LeftBook(sess', pool', call', c)
  BY <1>1, <1>4, <1>5, <1>6, Waiters, LeaveBook DEF s
<1>8. CallOk(sess', pool', call', c)
  BY <1>3, <1>6 DEF CallOk, Using, Own, s
<1> QED BY <1>7, <1>8, CloseBook

LEMMA ThrowBook ==
  ASSUME PoolInv, NEW c \in Calls, NEW S, NEW P, Left(c, S, P), Book(S, P, call),
         Alone(call, c), Throw(c, S, P)
  PROVE  Book(sess', pool', call')
<1> DEFINE s == call[c].ses
           R == Retire(S, s)
           E == EvictFrom(P, s)
<1>1. /\ s \in 1..made /\ s \in Sessions /\ Good(S) /\ call \in [Calls -> CallType]
      /\ \A d \in Calls : call[d].pc \in Using => call[d].ses \in Sessions
      /\ call[c].pc \in Using /\ Tracked(R, E, made) /\ made \in 0..MaxSessions
      /\ References(call, made) /\ Moves(sess, R, s)
  BY LeftFacts, UsingSession, Basics DEF Left
<1>2. Quits(S, R, s) /\ Shrinks(P, E)
  BY <1>1, RetireQuits DEF Shrinks, EvictFrom
<1>3. /\ CallKey[S[s].owner] = CallKey[c] /\ P[CallKey[c]] \in {0, s}
      /\ call[c].out = "none"
  BY <1>1 DEF Book, CallOk, Uses, Using
<1>4. E[CallKey[c]] = 0
  BY <1>3 DEF EvictFrom
<1>5. ASSUME NEW D, Others(call, D, c) PROVE LeftBook(R, E, D, c)
  <2> HIDE DEF s, R, E
  <2> QED BY <1>1, <1>2, <1>3, <1>5, Waiters, LeaveBook DEF s
<1>6. CASE ~call[c].aborted /\ MayRestart(c, S) /\ StillAdmitted
  <2> DEFINE q == [call[c] EXCEPT !.attempt = call[c].attempt + 1]
             again == [call EXCEPT ![c] = q]
  <2>1. /\ q \in CallType /\ q.ses = call[c].ses /\ q.pc = call[c].pc
        /\ q.out = "none"
    BY <1>1, <1>3, <1>6 DEF CallType, MayRestart
  <2>2. GetOrCreate(c, R, E, again)
    BY <1>6 DEF Throw
  <2> HIDE DEF q, s, R, E
  <2>3. /\ Others(call, again, c) /\ References(again, made) /\ Alone(again, c)
        /\ again \in [Calls -> CallType] /\ again[c].out = "none"
    BY <1>1, <2>1 DEF Others, References, Alone
  <2> HIDE DEF again
  <2>4. Good(R)
    BY <1>1 DEF Moves
  <2> QED BY <1>1, <1>4, <1>5, <2>2, <2>3, <2>4, GetOrCreateBook
<1>7. CASE ~(~call[c].aborted /\ MayRestart(c, S) /\ StillAdmitted)
  <2>1. PICK o \in {"unavailable", "failed", "stale"} : Finish(c, o)
    BY <1>7 DEF Throw
  <2>2. sess' = R /\ pool' = E
    BY <1>7 DEF Throw
  <2>3. Others(call, call', c) /\ call'[c].pc = "settled" /\ call'[c].out # "ok"
    BY <1>1, <2>1 DEF Finish, Settled, Others, CallType
  <2>4. CallOk(R, E, call', c)
    BY <2>3 DEF CallOk, Using
  <2> HIDE DEF s, R, E
  <2> QED BY <1>5, <2>2, <2>3, <2>4, CloseBook
<1> QED BY <1>6, <1>7
-----------------------------------------------------------------------------
(* The shapes of the steps.                                                *)

LEMMA CalmStep ==
  ASSUME PoolInv, ResultInv, Calm(sess, sess'), Shrinks(pool, pool'),
         SameCalls(call, call')
  PROVE  ResultInv'
<1>1. Good(sess) /\ \A c \in Calls : call[c].pc \in Using => call[c].ses \in Sessions
  BY UsingSession, Basics
<1>2. Book(sess', pool', call')
  BY <1>1, Waiters, CalmBook DEF ResultInv
<1> QED BY <1>2 DEF ResultInv

LEMMA ShrinksRefl == ASSUME NEW P PROVE Shrinks(P, P)
BY DEF Shrinks

LEMMA EvictShrinks == ASSUME NEW P, NEW s PROVE Shrinks(P, EvictFrom(P, s))
BY DEF Shrinks, EvictFrom

LEMMA SameRefl == ASSUME NEW C PROVE SameCalls(C, C)
BY DEF SameCalls

\* Only the session of one record changes, and calmly.
LEMMA RecordCalm ==
  ASSUME PoolInv, ResultInv, NEW s \in Sessions, NEW r, CalmRecord(sess[s], r),
         sess' = [sess EXCEPT ![s] = r], UNCHANGED <<pool, call>>
  PROVE  ResultInv'
<1>1. sess \in SessFun
  BY Basics DEF SessFun
<1>2. Calm(sess, sess')
  BY <1>1, CalmOne
<1> QED BY <1>2, CalmStep, ShrinksRefl, SameRefl

LEMMA PoisonedCalm ==
  ASSUME PoolInv, ResultInv, NEW S, Good(S), Calm(sess, S), NEW s \in Sessions,
         sess' = S \/ sess' = Poison(S, s), pool' = EvictFrom(pool, s), UNCHANGED call
  PROVE  ResultInv'
<1>1. Calm(sess, sess')
  BY PoisonCalm, CalmTrans
<1> QED BY <1>1, CalmStep, EvictShrinks, SameRefl

\* A call without a session changes, and nothing else does.
LEMMA AwayStep ==
  ASSUME PoolInv, ResultInv, NEW c \in Calls, Others(call, call', c),
         call[c].pc \notin Using, call'[c].pc \notin Using, call'[c].out # "ok",
         call'[c].pc # "settled" => call'[c].out = "none", UNCHANGED <<sess, pool>>
  PROVE  ResultInv'
<1>1. LeftBook(sess, pool, call', c)
  BY Basics, Waiters, AwayBook DEF ResultInv
<1>2. CallOk(sess, pool, call', c)
  BY DEF CallOk
<1> QED BY <1>1, <1>2, CloseBook DEF ResultInv

LEMMA FinishAway ==
  ASSUME PoolInv, ResultInv, NEW c \in Calls, call[c].pc \notin Using,
         NEW o \in {"stale", "unavailable"}, Finish(c, o), UNCHANGED <<sess, pool>>
  PROVE  ResultInv'
<1>1. Others(call, call', c) /\ call'[c].pc = "settled" /\ call'[c].out = o
  BY Basics DEF Finish, Settled, Others, CallType
<1> QED BY <1>1, AwayStep DEF Using

\* A call and the session it uses change, and keep the book.
LEMMA PairStep ==
  ASSUME PoolInv, ResultInv, NEW c \in Calls, call[c].pc \in Using, Alone(call, c),
         \A x \in Sessions \ {call[c].ses} : sess'[x] = sess[x],
         Others(call, call', c), Shrinks(pool, pool'),
         SessionOk(sess', call', call[c].ses), CallOk(sess', pool', call', c)
  PROVE  ResultInv'
<1> DEFINE s == call[c].ses
<1>1. ASSUME NEW x \in Sessions PROVE SessionOk(sess', call', x)
  <2>1. CASE x = s
    BY <2>1
  <2>2. CASE x # s
    <3>1. sess'[x] = sess[x] /\ SessionOk(sess, call, x)
      BY <2>2 DEF ResultInv, Book
    <3>2. sess[x].waiter # NoCall =>
            sess[x].waiter \in Calls \ {c} /\ Waits(sess[x], x, call)
      BY <2>2, <3>1, Basics, Waiters DEF SessionOk, Waits
    <3>3. sess[x].waiter # NoCall => Waits(sess[x], x, call')
      BY <3>2 DEF Waits, Others, Heard, Own
    <3> QED BY <3>1, <3>2, <3>3 DEF SessionOk, Waits
  <2> QED BY <2>1, <2>2
<1>2. ASSUME NEW d \in Calls \ {c} PROVE CallOk(sess', pool', call', d)
  <2>1. CallOk(sess, pool, call, d) /\ CallOk(sess, pool, call, c) /\ call'[d] = call[d]
    BY DEF ResultInv, Book, Others
  <2>2. ASSUME call[d].pc \in Using
        PROVE  sess'[call[d].ses] = sess[call[d].ses]
    <3>1. call[d].ses \in Sessions
      BY <2>2, UsingSession
    <3>2. call[d].ses # s
      BY <2>1, <2>2 DEF CallOk, Uses, Alone
    <3> QED BY <3>1, <3>2
  <2> QED BY <2>1, <2>2 DEF CallOk, Shrinks, Own
<1> QED BY <1>1, <1>2 DEF ResultInv, Book
-----------------------------------------------------------------------------
(* The steps of a call.                                                    *)

LEMMA DiagnoseBook ==
  ASSUME PoolInv, ResultInv, NEW c \in Calls, Diagnose(c) PROVE ResultInv'
<1>1. call[c].pc \notin Using /\ UNCHANGED <<sess, pool>>
  BY DEF Diagnose, Using
<1>2. CASE Finish(c, "stale")
  BY <1>1, <1>2, FinishAway
<1>3. CASE \E v : call' = [call EXCEPT ![c].pc = "queued", ![c].expected = v]
  <2>1. Others(call, call', c) /\ call'[c].pc = "queued" /\ call'[c].out = call[c].out
    BY <1>3, Basics DEF Others, CallType
  <2>2. call[c].out = "none"
    BY DEF Diagnose, ResultInv, Book, CallOk
  <2> QED BY <1>1, <2>1, <2>2, AwayStep DEF Using
<1> QED BY <1>2, <1>3 DEF Diagnose

LEMMA EarlyBook ==
  ASSUME PoolInv, ResultInv, NEW c \in Calls,
         GiveUpQueued(c) \/ StartRun(c) \/ Stat(c) \/ ReadFails(c)
  PROVE  ResultInv'
<1>1. call[c].pc \notin Using /\ call[c].pc # "settled" /\ UNCHANGED <<sess, pool>>
  BY DEF GiveUpQueued, StartRun, Stat, ReadFails, Using
<1>2. CASE \E o \in {"stale", "unavailable"} : Finish(c, o)
  BY <1>1, <1>2, FinishAway
<1>3. CASE \E p \in {"stat", "read"} : call' = [call EXCEPT ![c].pc = p]
  <2>1. /\ Others(call, call', c) /\ call'[c].pc \in {"stat", "read"}
        /\ call'[c].out = call[c].out
    BY <1>3, Basics DEF Others, CallType
  <2>2. call[c].out = "none"
    BY <1>1 DEF ResultInv, Book, CallOk
  <2> QED BY <1>1, <2>1, <2>2, AwayStep DEF Using
<1> QED BY <1>2, <1>3 DEF GiveUpQueued, StartRun, Stat, ReadFails

LEMMA AcquireBook ==
  ASSUME PoolInv, ResultInv, NEW c \in Calls, Alone(call, c), ReadAndAcquire(c)
  PROVE  ResultInv'
<1> DEFINE u == CallUri[c]
           k == CallKey[c]
           cur == pool[k]
           q == [call[c] EXCEPT !.text = content[u]]
           read == [call EXCEPT ![c] = q]
<1>1. call[c].pc = "read" /\ call[c].pc \notin Using /\ call[c].out = "none"
  BY DEF ReadAndAcquire, Using, ResultInv, Book, CallOk
<1>2. CASE ~StillAdmitted
  BY <1>1, <1>2, FinishAway DEF ReadAndAcquire
<1>3. /\ q \in CallType /\ q.ses = call[c].ses /\ q.pc = call[c].pc /\ q.out = "none"
  <2>1. content[u] \in Nat /\ call[c] \in CallType
    BY Basics
  <2> QED BY <1>1, <2>1 DEF CallType
<1>4. \/ GetOrCreate(c, Retire(sess, cur), EvictFrom(pool, cur), read)
      \/ ~StillAdmitted \/ ~Spent(cur, u)
  BY DEF ReadAndAcquire
<1>5. GetOrCreate(c, sess, pool, read) \/ ~StillAdmitted \/ Spent(cur, u)
  BY DEF ReadAndAcquire
<1> HIDE DEF q
<1>6. /\ Others(call, read, c) /\ read \in [Calls -> CallType] /\ References(read, made)
      /\ Alone(read, c) /\ read[c].out = "none"
  BY <1>1, <1>3, Basics DEF Others, References, Alone
<1> HIDE DEF read
<1>7. /\ Good(sess) /\ Tracked(sess, pool, made) /\ made \in 0..MaxSessions
      /\ Book(sess, pool, call)
      /\ \A d \in Calls : call[d].pc \in Using => call[d].ses \in Sessions
  BY Basics, UsingSession DEF ResultInv
<1>8. CASE StillAdmitted /\ Spent(cur, u)
  <2> DEFINE R == Retire(sess, cur)
             E == EvictFrom(pool, cur)
  <2>1. cur \in 1..made /\ cur \in Sessions /\ k \in Keys
    BY <1>8, Basics DEF Spent
  <2>2. CallKey[sess[cur].owner] = k /\ cur # 0
    BY <1>7, <2>1 DEF Tracked
  <2>3. Moves(sess, R, cur) /\ R[cur].td # "none" /\ Quits(sess, R, cur)
    BY <1>7, <2>1, RetireMoves, RetireQuits
  <2>4. Good(R) /\ Tracked(R, E, made)
    BY <1>7, <2>1, <2>3, TrackedEvict DEF Moves
  <2>5. E[k] = 0 /\ Shrinks(pool, E)
    BY <2>1, EvictShrinks DEF EvictFrom
  <2> HIDE DEF R, E, cur
  <2>6. LeftBook(R, E, read, c)
    BY <1>1, <1>6, <1>7, <2>1, <2>2, <2>3, <2>5, Waiters, LeaveBook
  <2>7. GetOrCreate(c, R, E, read)
    BY <1>4, <1>8 DEF R, E, cur
  <2> QED BY <1>6, <1>7, <2>4, <2>5, <2>6, <2>7, GetOrCreateBook DEF ResultInv
<1>9. CASE StillAdmitted /\ ~Spent(cur, u)
  <2>1. LeftBook(sess, pool, read, c)
    BY <1>1, <1>6, <1>7, Waiters, AwayBook
  <2>2. ASSUME cur # 0, ~IsClosing(sess[cur]) PROVE sess[cur].ver[u] = 0
    <3>1. cur \in Sessions
      BY <2>2, Basics
    <3>2. sess[cur].ver[u] \in Nat
      BY <3>1, Basics DEF SessionType
    <3> QED BY <1>9, <2>2, <3>2 DEF Spent
  <2> QED BY <1>5, <1>6, <1>7, <1>9, <2>1, <2>2, GetOrCreateBook DEF ResultInv
<1> QED BY <1>2, <1>8, <1>9

\* What the book says of a call and the session it uses.
LEMMA UsesBook ==
  ASSUME PoolInv, ResultInv, NEW c \in Calls, call[c].pc \in Using
  PROVE  LET s == call[c].ses
             r == sess[s]
         IN  /\ s \in Sessions /\ r \in SessionType /\ Sent(r)
             /\ CallKey[r.owner] = CallKey[c] /\ pool[CallKey[c]] \in {0, s}
             /\ call[c].out = "none"
             /\ call[c].pc = "boot" =>
                  r.ver[CallUri[c]] = 0 /\ r.waiter = NoCall /\ ~r.accepted
             /\ call[c].pc # "boot" => r.waiter = c /\ Heard(r, c, call)
             /\ call[c].pc = "opening" => ~r.opened /\ ~r.accepted
BY UsingSession, CallAssumption
   DEF ResultInv, Book, CallOk, SessionOk, Uses, Waits, Using

LEMMA OpenBook ==
  ASSUME PoolInv, ResultInv, NEW c \in Calls, Alone(call, c), Open(c)
  PROVE  ResultInv'
<1> DEFINE s == call[c].ses
           u == CallUri[c]
           doc == [uri |-> u, ver |-> sess[s].ver[u] + 1, text |-> call[c].text]
           vers == [sess[s].ver EXCEPT ![u] = doc.ver]
           r == [sess[s] EXCEPT !.ver = vers, !.waiter = c, !.opened = FALSE,
                   !.pre = {}, !.batch = {}, !.out = "none",
                   !.recv = sess[s].recv \cup {doc}]
<1>1. /\ call[c].pc = "boot" /\ sess' = [sess EXCEPT ![s] = r] /\ pool' = pool
      /\ call' = [call EXCEPT ![c].pc = "opening"]
  BY DEF Open
<1>2. /\ s \in Sessions /\ sess[s] \in SessionType /\ Sent(sess[s])
      /\ CallKey[sess[s].owner] = CallKey[c] /\ pool[CallKey[c]] \in {0, s}
      /\ call[c].out = "none" /\ sess[s].ver[u] = 0 /\ ~sess[s].accepted
      /\ call[c].pc \in Using
  BY <1>1, UsesBook DEF Using
<1>3. /\ Others(call, call', c) /\ call'[c].pc = "opening" /\ call'[c].ses = s
      /\ call'[c].out = "none" /\ call'[c].text = call[c].text
  BY <1>1, <1>2, Basics DEF Others, CallType
<1>4. /\ r.waiter = c /\ ~r.opened /\ r.pre = {} /\ r.batch = {} /\ r.out = "none"
      /\ r.recv = sess[s].recv \cup {doc} /\ r.ver = vers
      /\ r.owner = sess[s].owner /\ ~r.accepted
  BY <1>2 DEF SessionType
<1>5. /\ doc.uri = u /\ doc.text = call[c].text /\ doc.ver = 1
      /\ sess[s].ver \in [Uris -> Nat] /\ u \in Uris
  BY <1>2 DEF SessionType
<1>6. vers[u] = 1 /\ \A v \in Uris \ {u} : vers[v] = sess[s].ver[v]
  BY <1>5
<1>7. \A d \in sess[s].recv : d.uri \in Uris /\ d.uri # u
  BY <1>2 DEF Sent, SessionType, Docs
<1> HIDE DEF doc, vers
<1>8. Sent(r)
  BY <1>2, <1>4, <1>5, <1>6, <1>7 DEF Sent
<1>9. Heard(r, c, call')
  BY <1>3, <1>4, <1>5, <1>7 DEF Heard, Own
<1>10. sess'[s] = r /\ \A x \in Sessions \ {s} : sess'[x] = sess[x]
  BY <1>1, <1>2, Basics
<1> HIDE DEF r, s
<1>11. SessionOk(sess', call', s)
  BY <1>3, <1>4, <1>8, <1>9, <1>10 DEF SessionOk, Waits, Using
<1>12. CallOk(sess', pool', call', c)
  BY <1>1, <1>2, <1>3, <1>4, <1>10 DEF CallOk, Uses, Using
<1> QED BY <1>1, <1>2, <1>3, <1>10, <1>11, <1>12, PairStep, ShrinksRefl DEF s

LEMMA OpenWrittenBook ==
  ASSUME PoolInv, ResultInv, NEW c \in Calls, Alone(call, c), OpenWritten(c)
  PROVE  ResultInv'
<1> DEFINE s == call[c].ses
           flush == sess[s].pre # {} /\ sess[s].out = "none"
           b == IF flush THEN sess[s].pre ELSE sess[s].batch
           a == sess[s].accepted \/ flush
           r == [sess[s] EXCEPT !.opened = TRUE, !.pre = {}, !.batch = b, !.accepted = a]
<1>1. /\ call[c].pc = "opening" /\ sess' = [sess EXCEPT ![s] = r] /\ pool' = pool
      /\ call' = [call EXCEPT ![c].pc = "waiting"]
  BY DEF OpenWritten
<1>2. /\ s \in Sessions /\ sess[s] \in SessionType /\ Sent(sess[s])
      /\ CallKey[sess[s].owner] = CallKey[c] /\ pool[CallKey[c]] \in {0, s}
      /\ call[c].out = "none" /\ sess[s].waiter = c /\ Heard(sess[s], c, call)
      /\ call[c].pc \in Using
  BY <1>1, UsesBook DEF Using
<1>3. /\ Others(call, call', c) /\ call'[c].pc = "waiting" /\ call'[c].ses = s
      /\ call'[c].out = "none" /\ call'[c].text = call[c].text
  BY <1>1, <1>2, Basics DEF Others, CallType
<1>4. /\ r.waiter = c /\ r.pre = {} /\ r.batch = b /\ r.out = sess[s].out
      /\ r.recv = sess[s].recv /\ r.ver = sess[s].ver /\ r.owner = sess[s].owner
  BY <1>2 DEF SessionType
<1>5. (b = sess[s].pre /\ sess[s].out = "none") \/ b = sess[s].batch
  OBVIOUS
<1> HIDE DEF b, a, r
<1>6. Sent(r)
  BY <1>2, <1>4 DEF Sent
<1>7. Heard(r, c, call')
  <2>1. \A d : Own(d, c, call') <=> Own(d, c, call)
    BY <1>3 DEF Own
  <2>2. /\ \A d \in sess[s].recv : d.uri = CallUri[c] => Own(d, c, call)
        /\ sess[s].pre = {} \/ \E d \in sess[s].pre : sess[s].pre = {d} /\ Own(d, c, call)
        /\ sess[s].batch = {} \/ \E d \in sess[s].batch : sess[s].batch = {d} /\ Own(d, c, call)
        /\ sess[s].out = "ok" => sess[s].batch # {}
    BY <1>2 DEF Heard
  <2>3. b = {} \/ \E d \in b : b = {d} /\ Own(d, c, call')
    <3>1. b = sess[s].pre \/ b = sess[s].batch
      BY <1>5
    <3> QED BY <2>1, <2>2, <3>1
  <2>4. r.out = "ok" => b # {}
    BY <1>4, <1>5, <2>2
  <2> QED BY <1>4, <2>1, <2>2, <2>3, <2>4 DEF Heard
<1>8. sess'[s] = r /\ \A x \in Sessions \ {s} : sess'[x] = sess[x]
  BY <1>1, <1>2, Basics
<1> HIDE DEF s
<1>9. SessionOk(sess', call', s)
  BY <1>3, <1>4, <1>6, <1>7, <1>8 DEF SessionOk, Waits, Using
<1>10. CallOk(sess', pool', call', c)
  BY <1>1, <1>2, <1>3, <1>4, <1>8 DEF CallOk, Uses, Using
<1> QED BY <1>1, <1>2, <1>3, <1>8, <1>9, <1>10, PairStep, ShrinksRefl DEF s
\* The book holds of the sessions a call leaves behind, also when it poisons its own.
LEMMA PoisonedBook ==
  ASSUME PoolInv, ResultInv, NEW s \in Sessions
  PROVE  Book(Poison(sess, s), EvictFrom(pool, s), call)
<1>1. Good(sess) /\ \A c \in Calls : call[c].pc \in Using => call[c].ses \in Sessions
  BY UsingSession, Basics
<1>2. Calm(sess, Poison(sess, s))
  BY <1>1, PoisonCalm
<1> QED BY <1>1, <1>2, EvictShrinks, SameRefl, Waiters, CalmBook DEF ResultInv

LEMMA BootFailedBook ==
  ASSUME PoolInv, ResultInv, NEW c \in Calls, Alone(call, c), BootFailed(c)
  PROVE  ResultInv'
<1>1. call[c].pc \in Using /\ Throw(c, sess, pool)
  BY DEF BootFailed, Using
<1> QED BY <1>1, LeftAsIs, ThrowBook DEF ResultInv

LEMMA OpenFailsLeft ==
  ASSUME PoolInv, NEW c \in Calls, OpenWriteFails(c)
  PROVE  LET s == call[c].ses IN Left(c, PoisonOpen(s), EvictFrom(pool, s))
<1> DEFINE s == call[c].ses
<1>1. call[c].pc \in Using
  BY DEF OpenWriteFails, Using
<1>2. CASE sess[s].closing
  <2>1. sess[s].td # "none"
    BY <1>1, <1>2, UsingSession DEF Coherent, IsClosing
  <2> QED BY <1>1, <1>2, <2>1, UsingSession, Basics, MovesRefl DEF Left, PoisonOpen
<1>3. CASE ~sess[s].closing
  BY <1>1, <1>3, LeftPoisoned DEF PoisonOpen
<1> QED BY <1>2, <1>3

LEMMA OpenFailsBook ==
  ASSUME PoolInv, ResultInv, NEW c \in Calls, Alone(call, c), OpenWriteFails(c)
  PROVE  ResultInv'
<1> DEFINE s == call[c].ses
           S == PoisonOpen(s)
           P == EvictFrom(pool, s)
<1>1. Throw(c, S, P) /\ Left(c, S, P)
  BY OpenFailsLeft DEF OpenWriteFails
<1>2. s \in Sessions
  BY UsingSession DEF OpenWriteFails, Using
<1>3. Good(sess) /\ \A d \in Calls : call[d].pc \in Using => call[d].ses \in Sessions
  BY UsingSession, Basics
<1>4. Calm(sess, S)
  BY <1>2, <1>3, PoisonCalm, CalmRefl DEF PoisonOpen
<1> HIDE DEF S, P
<1>5. Shrinks(pool, P)
  BY EvictShrinks DEF P
<1>6. Book(S, P, call)
  BY <1>3, <1>4, <1>5, SameRefl, Waiters, CalmBook DEF ResultInv
<1> QED BY <1>1, <1>6, ThrowBook DEF ResultInv

LEMMA GiveUpOpeningBook ==
  ASSUME PoolInv, ResultInv, NEW c \in Calls, Alone(call, c), GiveUpOpening(c)
  PROVE  ResultInv'
<1>1. call[c].pc \in Using /\ Return(c, "unavailable", sess, pool)
  BY DEF GiveUpOpening, Using
<1> QED BY <1>1, LeftAsIs, ReturnBook DEF ResultInv

\* What an ok waiter holds is about the text its call read.
LEMMA OkBatch ==
  ASSUME PoolInv, ResultInv, NEW c \in Calls, call[c].pc \in {"waiting", "closing"},
         sess[call[c].ses].out = "ok"
  PROVE  \E d \in sess[call[c].ses].batch :
           sess[call[c].ses].batch = {d} /\ Own(d, c, call)
BY UsesBook DEF Using, Heard

LEMMA FinishWaitBook ==
  ASSUME PoolInv, ResultInv, NEW c \in Calls, Alone(call, c), FinishWait(c)
  PROVE  ResultInv'
<1> DEFINE s == call[c].ses
           o == sess[s].out
<1>1. call[c].pc = "waiting" /\ call[c].pc \in Using /\ s \in Sessions
  BY UsingSession DEF FinishWait, Using
<1>2. CASE Throw(c, sess, pool)
  BY <1>1, <1>2, LeftAsIs, ThrowBook DEF ResultInv
<1>3. CASE Return(c, o, sess, pool)
  <2>1. o = "ok" => \E d \in sess[s].batch : sess[s].batch = {d} /\ Own(d, c, call)
    BY <1>1, OkBatch
  <2> HIDE DEF o
  <2> QED BY <1>1, <1>3, <2>1, LeftAsIs, ReturnBook DEF ResultInv
<1>4. CASE Return(c, IF o = "ok" THEN "failed" ELSE o, Poison(sess, s), EvictFrom(pool, s))
  <2> DEFINE p == IF o = "ok" THEN "failed" ELSE o
  <2>1. p # "ok"
    OBVIOUS
  <2> HIDE DEF p
  <2> QED BY <1>1, <1>4, <2>1, LeftPoisoned, PoisonedBook, ReturnBook DEF ResultInv, p
<1>5. CASE call' = [call EXCEPT ![c].pc = "closing"] /\ UNCHANGED <<pool, sess, made>>
  <2>1. /\ Others(call, call', c) /\ call'[c].pc = "closing" /\ call'[c].ses = s
        /\ call'[c].out = call[c].out /\ call'[c].text = call[c].text
    BY <1>1, <1>5, Basics DEF Others, CallType
  <2>2. /\ SessionOk(sess, call, s) /\ CallOk(sess, pool, call, c)
        /\ sess[s].waiter = c /\ call[c].out = "none"
    BY <1>1, UsesBook DEF ResultInv, Book
  <2> HIDE DEF s
  <2>3. SessionOk(sess', call', s)
    BY <1>1, <1>5, <2>1, <2>2 DEF SessionOk, Waits, Using, Heard, Own
  <2>4. CallOk(sess', pool', call', c)
    BY <1>1, <1>5, <2>1, <2>2 DEF CallOk, Uses, Using, s
  <2> QED BY <1>1, <1>5, <2>1, <2>3, <2>4, PairStep, ShrinksRefl DEF s
<1> QED BY <1>2, <1>3, <1>4, <1>5 DEF FinishWait

LEMMA CloseWrittenBook ==
  ASSUME PoolInv, ResultInv, NEW c \in Calls, Alone(call, c), CloseWritten(c)
  PROVE  ResultInv'
<1> DEFINE o == IF sess[call[c].ses].out = "ok" THEN "ok" ELSE "unavailable"
<1>1. call[c].pc = "closing" /\ call[c].pc \in Using /\ Return(c, o, sess, pool)
  BY DEF CloseWritten, Using
<1>2. o = "ok" => \E d \in sess[call[c].ses].batch :
                    sess[call[c].ses].batch = {d} /\ Own(d, c, call)
  BY <1>1, OkBatch
<1> HIDE DEF o
<1> QED BY <1>1, <1>2, LeftAsIs, ReturnBook DEF ResultInv

LEMMA CloseFailsBook ==
  ASSUME PoolInv, ResultInv, NEW c \in Calls, Alone(call, c), CloseFails(c)
  PROVE  ResultInv'
<1> DEFINE s == call[c].ses
           o == IF ~call[c].aborted /\ sess[s].out = "ok" THEN "failed" ELSE "unavailable"
<1>1. /\ call[c].pc \in Using /\ s \in Sessions /\ o # "ok"
      /\ Return(c, o, Poison(sess, s), EvictFrom(pool, s))
  BY UsingSession DEF CloseFails, Using
<1> HIDE DEF o
<1> QED BY <1>1, LeftPoisoned, PoisonedBook, ReturnBook DEF ResultInv

LEMMA AbortBook ==
  ASSUME PoolInv, ResultInv, NEW c \in Calls, Abort(c) PROVE ResultInv'
<1> DEFINE s == call[c].ses
           o == IF sess[s].waiter = c THEN Settle(sess[s], "unavailable") ELSE sess[s].out
           b == IF sess[s].owner = c /\ sess[s].boot \in {"initializing", "greeting"}
                THEN "failed" ELSE sess[s].boot
           r == [sess[s] EXCEPT !.out = o, !.boot = b]
<1>1. SameCalls(call, call') /\ pool' = pool
  BY SMTT(20), Basics DEF Abort, SameCalls, CallType
<1>2. CASE s = 0
  <2>1. sess' = sess
    BY <1>2 DEF Abort
  <2> QED BY <1>1, <2>1, CalmRefl, ShrinksRefl, CalmStep
<1>3. CASE s # 0
  <2>1. s \in Sessions /\ sess[s] \in SessionType /\ sess \in SessFun
    <3>1. s \in 0..made
      BY Basics DEF References
    <3> QED BY <1>3, <3>1, Basics DEF SessFun, Sessions
  <2>2. sess' = [sess EXCEPT ![s] = r]
    BY <1>3 DEF Abort
  <2>3. o = "ok" => sess[s].out = "ok"
    BY DEF Settle
  <2> HIDE DEF o, b
  <2>4. CalmRecord(sess[s], r)
    BY <2>1, <2>3 DEF CalmRecord, SessionType
  <2> HIDE DEF r, s
  <2>5. Calm(sess, sess')
    BY <2>1, <2>2, <2>4, CalmOne
  <2> QED BY <1>1, <2>5, ShrinksRefl, CalmStep
<1> QED BY <1>2, <1>3

-----------------------------------------------------------------------------
(* The steps of a session, and disposal.                                   *)

LEMMA QuietSessionBook ==
  ASSUME PoolInv, ResultInv, NEW s \in 1..made,
         \/ Spawn(s) \/ InitializeOk(s) \/ InitializedWritten(s) \/ BootFails(s)
         \/ QuietTimer(s) \/ TeardownDone(s)
  PROVE  ResultInv'
<1>1. s \in Sessions /\ sess[s] \in SessionType /\ sess \in SessFun
  BY Created, Basics DEF SessFun
<1>2. UNCHANGED <<pool, call>>
  BY DEF Spawn, InitializeOk, InitializedWritten, BootFails, QuietTimer, TeardownDone
<1>3. ASSUME NEW r, CalmRecord(sess[s], r), sess' = [sess EXCEPT ![s] = r]
      PROVE  ResultInv'
  BY <1>1, <1>2, <1>3, RecordCalm
<1>4. CASE Spawn(s)
  <2> DEFINE r == [sess[s] EXCEPT !.proc = "alive",
                     !.boot = IF sess[s].closing THEN "failed" ELSE "initializing"]
  <2>1. sess' = [sess EXCEPT ![s] = r] /\ CalmRecord(sess[s], r)
    BY <1>1, <1>4 DEF Spawn, CalmRecord, SessionType
  <2> HIDE DEF r
  <2> QED BY <1>3, <2>1
<1>5. CASE \E b \in Boots : sess' = [sess EXCEPT ![s].boot = b]
  <2>1. PICK b \in Boots : sess' = [sess EXCEPT ![s].boot = b]
    BY <1>5
  <2> DEFINE r == [sess[s] EXCEPT !.boot = b]
  <2>2. sess' = [sess EXCEPT ![s] = r] /\ CalmRecord(sess[s], r)
    BY <1>1, <2>1 DEF CalmRecord, SessionType
  <2> HIDE DEF r
  <2> QED BY <1>3, <2>2
<1>6. CASE QuietTimer(s)
  <2> DEFINE r == [sess[s] EXCEPT !.out = "ok"]
  <2>1. sess' = [sess EXCEPT ![s] = r] /\ CalmRecord(sess[s], r)
    BY <1>1, <1>6 DEF QuietTimer, CalmRecord, SessionType
  <2> HIDE DEF r
  <2> QED BY <1>3, <2>1
<1>7. CASE TeardownDone(s)
  <2> DEFINE r == [sess[s] EXCEPT !.td = "done", !.recv = {}, !.pre = {},
                     !.proc = IF sess[s].proc = "alive" THEN "exited" ELSE sess[s].proc]
  <2>1. sess' = [sess EXCEPT ![s] = r] /\ CalmRecord(sess[s], r)
    BY <1>1, <1>7 DEF TeardownDone, CalmRecord, SessionType
  <2> HIDE DEF r
  <2> QED BY <1>3, <2>1
<1> QED BY <1>4, <1>5, <1>6, <1>7 DEF InitializeOk, InitializedWritten, BootFails, Boots

LEMMA FatalBook ==
  ASSUME PoolInv, ResultInv, NEW s \in 1..made, GreetingFails(s) \/ Crash(s) \/ Malformed(s)
  PROVE  ResultInv'
<1>1. /\ s \in Sessions /\ sess[s] \in SessionType /\ sess \in SessFun /\ Good(sess)
      /\ Coherent(sess[s])
  BY Created, Basics DEF SessFun
<1>2. /\ pool' = EvictFrom(pool, s) /\ UNCHANGED call
  BY DEF GreetingFails, Crash, Malformed
<1>3. ASSUME NEW r \in SessionType, Coherent(r), r.owner = sess[s].owner, r.td = sess[s].td,
             CalmRecord(sess[s], r),
             \/ sess' = [sess EXCEPT ![s] = r]
             \/ sess' = Poison([sess EXCEPT ![s] = r], s)
      PROVE  ResultInv'
  <2>1. Good([sess EXCEPT ![s] = r])
    BY <1>1, <1>3, RecordMoves DEF Moves
  <2>2. Calm(sess, [sess EXCEPT ![s] = r])
    BY <1>1, <1>3, CalmOne
  <2> QED BY <1>1, <1>2, <1>3, <2>1, <2>2, PoisonedCalm
<1>4. CASE GreetingFails(s)
  <2> DEFINE r == [sess[s] EXCEPT !.boot = "failed"]
  <2>1. /\ r \in SessionType /\ Coherent(r) /\ r.owner = sess[s].owner /\ r.td = sess[s].td
        /\ CalmRecord(sess[s], r)
    BY <1>1 DEF SessionType, Coherent, IsClosing, CalmRecord, Boots
  <2>2. \/ sess' = [sess EXCEPT ![s] = r]
        \/ sess' = Poison([sess EXCEPT ![s] = r], s)
    BY <1>4 DEF GreetingFails
  <2> HIDE DEF r
  <2> QED BY <1>3, <2>1, <2>2
<1>5. CASE Crash(s)
  <2> DEFINE r == [sess[s] EXCEPT !.proc = "exited"]
  <2>1. /\ r \in SessionType /\ Coherent(r) /\ r.owner = sess[s].owner /\ r.td = sess[s].td
        /\ CalmRecord(sess[s], r)
    BY <1>1 DEF SessionType, Coherent, IsClosing, CalmRecord
  <2>2. sess' = Poison([sess EXCEPT ![s] = r], s)
    BY <1>5 DEF Crash
  <2> HIDE DEF r
  <2> QED BY <1>3, <2>1, <2>2
<1>6. CASE Malformed(s)
  BY <1>1, <1>2, <1>6, CalmRefl, PoisonedCalm DEF Malformed
<1> QED BY <1>4, <1>5, <1>6

LEMMA PublishBook ==
  ASSUME PoolInv, ResultInv, Serial, NEW s \in 1..made, NEW d \in sess[s].recv,
         NEW versioned \in BOOLEAN, Publish(s, d, versioned)
  PROVE  ResultInv'
<1> DEFINE r == sess[s]
           w == r.waiter
           q == Deliver(r, d)
           t == [q EXCEPT !.retire = TRUE]
<1>1. /\ s \in Sessions /\ r \in SessionType /\ sess \in SessFun /\ Good(sess)
      /\ d \in Docs
  BY Created, Basics DEF SessFun, SessionType
<1>2. /\ w \in Calls /\ r.out = "none" /\ d.uri = CallUri[w] /\ UNCHANGED call
  BY <1>1, Waiters DEF Publish, SameDocument
<1>3. /\ call[w].ses = s /\ call[w].pc \in Using \ {"boot"} /\ SessionOk(sess, call, s)
      /\ Heard(r, w, call) /\ Sent(r) /\ CallOk(sess, pool, call, w)
  BY <1>1, <1>2 DEF ResultInv, Book, SessionOk, Waits
<1>4. Alone(call, w)
  BY <1>2, <1>3, UsingAlone DEF Using, Serving
<1>5. ASSUME NEW e, sess' = [sess EXCEPT ![s] = e], pool' = pool,
             e.waiter = w, e.owner = r.owner, e.ver = r.ver, e.recv = r.recv,
             e.out = r.out, e.opened = r.opened,
             \/ e.pre = {d} /\ e.batch = r.batch /\ e.accepted = r.accepted
             \/ e.pre = r.pre /\ e.batch = {d} /\ r.opened
      PROVE  ResultInv'
  <2>1. sess'[s] = e /\ \A x \in Sessions \ {s} : sess'[x] = sess[x]
    BY <1>1, <1>5 DEF SessFun
  <2>2. Sent(e)
    BY <1>3, <1>5 DEF Sent
  <2>3. Heard(e, w, call)
    BY <1>2, <1>3, <1>5 DEF Heard
  <2> HIDE DEF r, w
  <2>4. SessionOk(sess', call', s)
    BY <1>2, <1>3, <1>5, <2>1, <2>2, <2>3 DEF SessionOk, Waits
  <2>5. CallOk(sess', pool', call', w)
    BY <1>2, <1>3, <1>5, <2>1 DEF CallOk, Uses, Using, r
  <2>6. Others(call, call', w)
    BY <1>2 DEF Others
  <2> QED BY <1>2, <1>3, <1>4, <1>5, <2>1, <2>4, <2>5, <2>6, PairStep, ShrinksRefl
<1>6. /\ q.waiter = w /\ q.owner = r.owner /\ q.ver = r.ver /\ q.recv = r.recv
      /\ q.out = r.out /\ q.opened = r.opened /\ q \in SessionType
      /\ \/ q.pre = {d} /\ q.batch = r.batch /\ q.accepted = r.accepted
         \/ q.pre = r.pre /\ q.batch = {d} /\ r.opened
  BY <1>1, DeliverType DEF Deliver, SessionType
<1>7. CASE sess' = [sess EXCEPT ![s] = q] /\ UNCHANGED pool
  <2> HIDE DEF q, w, r
  <2> QED BY <1>5, <1>6, <1>7 DEF r
<1>8. CASE sess' = [sess EXCEPT ![s] = t] /\ UNCHANGED pool
  <2> HIDE DEF q
  <2>1. /\ t.waiter = q.waiter /\ t.owner = q.owner /\ t.ver = q.ver /\ t.recv = q.recv
        /\ t.out = q.out /\ t.opened = q.opened /\ t.pre = q.pre /\ t.batch = q.batch
        /\ t.accepted = q.accepted
    BY <1>6 DEF SessionType
  <2> HIDE DEF t, w, r
  <2> QED BY <1>5, <1>6, <1>8, <2>1
<1>9. CASE sess' = Poison(sess, s) /\ pool' = EvictFrom(pool, s)
  BY <1>1, <1>2, <1>9, CalmRefl, PoisonedCalm
<1> QED BY <1>7, <1>8, <1>9 DEF Publish

LEMMA DisposeBook ==
  ASSUME PoolInv, ResultInv, Dispose PROVE ResultInv'
<1>1. CASE StopAdmission \/ DisposeDone
  BY <1>1, CalmRefl, ShrinksRefl, SameRefl, CalmStep DEF StopAdmission, DisposeDone
<1>2. CASE DisposeBegin
  <2>1. ASSUME NEW s \in Sessions PROVE CalmRecord(sess[s], sess'[s])
    <3>1. Calm(sess, StartTeardown(sess, s)) /\ Calm(sess, sess)
      BY Basics, TeardownCalm, CalmRefl
    <3>2. sess'[s] = StartTeardown(sess, s)[s] \/ sess'[s] = sess[s]
      BY <1>2 DEF DisposeBegin
    <3> QED BY <3>1, <3>2 DEF Calm
  <2>2. Shrinks(pool, pool') /\ UNCHANGED call
    BY <1>2 DEF DisposeBegin, Shrinks
  <2>3. Calm(sess, sess')
    BY <2>1 DEF Calm
  <2> QED BY <2>2, <2>3, SameRefl, CalmStep
<1> QED BY <1>1, <1>2 DEF Dispose

-----------------------------------------------------------------------------
LEMMA NextResult == PoolInv /\ LineInv /\ ResultInv /\ [Next]_vars => ResultInv'
<1> SUFFICES ASSUME PoolInv, LineInv, ResultInv, [Next]_vars PROVE ResultInv'
  OBVIOUS
<1>1. Serial
  BY SerialInv
<1>2. ASSUME NEW c \in Calls, CallStep(c) PROVE ResultInv'
  <2>1. ASSUME call[c].pc \in Serving PROVE Alone(call, c)
    BY <1>1, <2>1, UsingAlone
  <2>2. CASE Diagnose(c)
    BY <2>2, DiagnoseBook
  <2>3. CASE GiveUpQueued(c) \/ StartRun(c) \/ Stat(c) \/ ReadFails(c)
    BY <2>3, EarlyBook
  <2>4. CASE ReadAndAcquire(c)
    BY <2>1, <2>4, AcquireBook DEF ReadAndAcquire, Serving
  <2>5. CASE Open(c)
    BY <2>1, <2>5, OpenBook DEF Open, Serving
  <2>6. CASE BootFailed(c)
    BY <2>1, <2>6, BootFailedBook DEF BootFailed, Serving
  <2>7. CASE OpenWritten(c)
    BY <2>1, <2>7, OpenWrittenBook DEF OpenWritten, Serving
  <2>8. CASE OpenWriteFails(c)
    BY <2>1, <2>8, OpenFailsBook DEF OpenWriteFails, Serving
  <2>9. CASE GiveUpOpening(c)
    BY <2>1, <2>9, GiveUpOpeningBook DEF GiveUpOpening, Serving
  <2>10. CASE FinishWait(c)
    BY <2>1, <2>10, FinishWaitBook DEF FinishWait, Serving
  <2>11. CASE CloseWritten(c)
    BY <2>1, <2>11, CloseWrittenBook DEF CloseWritten, Serving
  <2>12. CASE CloseFails(c)
    BY <2>1, <2>12, CloseFailsBook DEF CloseFails, Serving
  <2>13. CASE Abort(c)
    BY <2>13, AbortBook
  <2> QED BY <1>2, <2>2, <2>3, <2>4, <2>5, <2>6, <2>7, <2>8, <2>9, <2>10, <2>11, <2>12,
             <2>13 DEF CallStep
<1>3. ASSUME NEW s \in 1..made, SessionStep(s) PROVE ResultInv'
  BY <1>1, <1>3, QuietSessionBook, FatalBook, PublishBook DEF SessionStep
<1>4. CASE \E u \in Uris : Write(u)
  BY <1>4, CalmRefl, ShrinksRefl, SameRefl, CalmStep DEF Write
<1>5. CASE Dispose
  BY <1>5, DisposeBook
<1>6. CASE AllQuiet \/ UNCHANGED vars
  BY <1>6, CalmRefl, ShrinksRefl, SameRefl, CalmStep DEF AllQuiet, vars
<1> QED BY <1>2, <1>3, <1>4, <1>5, <1>6 DEF Next

LEMMA ResultInvariance == Spec => []ResultInv
BY InitResult, NextResult, Invariance, LineInvariance, PTL DEF Spec

\* No process is ever asked to open one URI twice (hasOpenedUri and the
\* rotation of runDiagnosis).
THEOREM OneOpenPerProcess == Spec => []NeverReopened
<1>1. ResultInv => NeverReopened
  BY DEF ResultInv, Book, SessionOk, Sent, NeverReopened
<1> QED BY <1>1, ResultInvariance, PTL

\* An ok outcome shows what the server computed from the very text its call
\* read, however late the server publishes (handlePublish, runDiagnosis).
THEOREM ResultsAreOwn == Spec => []OwnText
<1>1. ResultInv => OwnText
  BY DEF ResultInv, Book, CallOk, Own, OwnText
<1> QED BY <1>1, ResultInvariance, PTL

\* Only Settled gives a call its outcome.
LEMMA OutcomeStays ==
  ASSUME call \in [Calls -> CallType], NEW c \in Calls, NEW d \in Calls, NEW p, NEW v
  PROVE  /\ [call EXCEPT ![d].pc = p][c].out = call[c].out
         /\ [call EXCEPT ![d].aborted = p][c].out = call[c].out
         /\ [call EXCEPT ![d].pc = p, ![d].expected = v][c].out = call[c].out
<1>1. call[d] \in CallType
  OBVIOUS
<1>2. /\ [call[d] EXCEPT !.pc = p].out = call[d].out
      /\ [call[d] EXCEPT !.aborted = p].out = call[d].out
      /\ [call[d] EXCEPT !.pc = p, !.expected = v].out = call[d].out
  BY <1>1 DEF CallType
<1>3. CASE c = d
  BY <1>2, <1>3
<1>4. CASE c # d
  BY <1>4
<1> QED BY <1>3, <1>4

LEMMA OutcomeGiven ==
  ASSUME call \in [Calls -> CallType], NEW c \in Calls, NEW d \in Calls, NEW o, NEW w
  PROVE  Settled(d, o, w)[c].out = IF c = d THEN o ELSE call[c].out
<1>1. call[d] \in CallType
  OBVIOUS
<1>2. [call[d] EXCEPT !.pc = "settled", !.out = o, !.shown = w,
                      !.ses = 0, !.attempt = 0, !.expected = 0].out = o
  BY <1>1 DEF CallType
<1> QED BY <1>2 DEF Settled

\* A call that throws before its document was written has a session that has
\* not accepted a publication for it.
LEMMA EarlyThrow ==
  ASSUME PoolInv, ResultInv, NEW c \in Calls, call[c].attempt = 0,
         BootFailed(c) \/ OpenWriteFails(c)
  PROVE  call'[c].out # "failed"
<1> DEFINE s == call[c].ses
<1>1. /\ call[c].pc \in Using /\ s \in Sessions /\ ~sess[s].accepted
      /\ call[c].out = "none"
  BY UsesBook DEF BootFailed, OpenWriteFails, Using
<1>2. PICK S, P : Throw(c, S, P) /\ S \in {sess, Poison(sess, s)}
  BY DEF BootFailed, OpenWriteFails, PoisonOpen
<1>3. Calm(sess, S)
  BY <1>1, <1>2, Basics, CalmRefl, PoisonCalm
<1>4. MayRestart(c, S)
  BY <1>1, <1>3 DEF Calm, CalmRecord, MayRestart
<1>5. CASE ~call[c].aborted /\ StillAdmitted
  <2> DEFINE again == [call EXCEPT ![c] = [call[c] EXCEPT !.attempt = call[c].attempt + 1]]
  <2>1. \E T, Q : GetOrCreate(c, T, Q, again)
    BY <1>2, <1>4, <1>5 DEF Throw
  <2>2. PICK n : call' = [again EXCEPT ![c] = [again[c] EXCEPT !.pc = "boot", !.ses = n]]
    BY <2>1 DEF GetOrCreate
  <2>3. call'[c].out = call[c].out
    BY <2>2, Basics DEF CallType
  <2> QED BY <1>1, <2>3
<1>6. CASE call[c].aborted \/ ~StillAdmitted
  <2>1. \E o \in {"unavailable", "stale"} : Finish(c, o)
    BY <1>2, <1>4, <1>6 DEF Throw
  <2> QED BY <2>1, Basics DEF Finish, Settled, CallType
<1> QED BY <1>5, <1>6

\* A transport failure of the first session surfaces only after its document
\* was written: an earlier one always gets the restart, even when the server
\* had already published (preOpenBatch, acceptedPublication).
THEOREM EarlyFailuresRestart == Spec => EarlyFailureRestarts
<1> DEFINE Step == \A c \in Calls :
             call[c].out = "none" /\ call'[c].out = "failed" /\ call[c].attempt = 0
               => call[c].pc \in {"waiting", "closing"}
<1>1. PoolInv /\ ResultInv /\ [Next]_vars => [Step]_vars
  <2> SUFFICES ASSUME PoolInv, ResultInv, [Next]_vars, NEW c \in Calls,
                      call[c].out = "none", call'[c].out = "failed",
                      call[c].attempt = 0
               PROVE  call[c].pc \in {"waiting", "closing"}
    OBVIOUS
  <2>1. PICK d \in Calls : CallStep(d)
    <3>1. ASSUME NEW s \in 1..made, SessionStep(s) PROVE call' = call
      <4>1. ASSUME NEW m, NEW v, Publish(s, m, v) PROVE call' = call
        BY <4>1 DEF Publish
      <4>2. CASE Spawn(s) \/ InitializeOk(s) \/ InitializedWritten(s) \/ BootFails(s)
        BY <4>2 DEF Spawn, InitializeOk, InitializedWritten, BootFails
      <4>3. CASE GreetingFails(s) \/ Crash(s) \/ Malformed(s) \/ QuietTimer(s) \/ TeardownDone(s)
        BY <4>3 DEF GreetingFails, Crash, Malformed, QuietTimer, TeardownDone
      <4> QED BY <3>1, <4>1, <4>2, <4>3 DEF SessionStep
    <3>2. ASSUME NEW u \in Uris, Write(u) PROVE call' = call
      BY <3>2 DEF Write
    <3>3. CASE Dispose
      BY <3>3 DEF Dispose, StopAdmission, DisposeBegin, DisposeDone
    <3>4. CASE AllQuiet \/ UNCHANGED vars
      BY <3>4 DEF AllQuiet, vars
    <3> QED BY <3>1, <3>2, <3>3, <3>4 DEF Next
  <2>2. CASE Diagnose(d)
    <3>1. CASE Finish(d, "stale")
      <4>1. call' = Settled(d, "stale", {}) /\ call \in [Calls -> CallType]
        BY <3>1, Basics DEF Finish
      <4>2. call'[c].out = IF c = d THEN "stale" ELSE call[c].out
        BY <4>1, OutcomeGiven
      <4> QED BY <4>2
    <3>2. CASE \E v : call' = [call EXCEPT ![d].pc = "queued", ![d].expected = v]
      <4>1. PICK v : call' = [call EXCEPT ![d].pc = "queued", ![d].expected = v]
        BY <3>2
      <4>2. call'[c].out = [call EXCEPT ![d].pc = "queued", ![d].expected = v][c].out
        BY <4>1
      <4>3. call \in [Calls -> CallType]
        BY Basics
      <4> QED BY <4>2, <4>3, OutcomeStays
    <3> QED BY <2>2, <3>1, <3>2 DEF Diagnose
  <2>3. CASE Abort(d)
    <3>1. call' = [call EXCEPT ![d].aborted = TRUE]
      BY <2>3 DEF Abort
    <3> QED BY <3>1, Basics, OutcomeStays
  <2>4. CASE Work(d)
    <3>1. d = c
      <4>1. \A e \in Calls \ {d} : call'[e] = call[e]
        BY <2>4, WorkSimple DEF Simple, OnlyCall
      <4> QED BY <4>1
    <3>2. ASSUME NEW o, NEW w, call' = Settled(c, o, w) PROVE call'[c].out = o
      BY <3>2, Basics, OutcomeGiven
    <3>3. CASE GiveUpQueued(c) \/ ReadFails(c) \/ StartRun(c) \/ Stat(c)
      <4>1. CASE \E o \in {"stale", "unavailable"} : Finish(c, o)
        BY <3>2, <4>1 DEF Finish
      <4>2. CASE \E p : call' = [call EXCEPT ![c].pc = p]
        BY <4>2, Basics, OutcomeStays
      <4> QED BY <3>3, <4>1, <4>2 DEF GiveUpQueued, ReadFails, StartRun, Stat
    <3>4. CASE ReadAndAcquire(c)
      <4>1. CASE Finish(c, "stale")
        BY <3>2, <4>1 DEF Finish
      <4> DEFINE read == [call EXCEPT ![c] = [call[c] EXCEPT !.text = content[CallUri[c]]]]
      <4>2. CASE \E S, P : GetOrCreate(c, S, P, read)
        <5>1. PICK n : call' = [read EXCEPT ![c] = [read[c] EXCEPT !.pc = "boot", !.ses = n]]
          BY <4>2 DEF GetOrCreate
        <5> QED BY <5>1, Basics DEF CallType
      <4> QED BY <3>4, <4>1, <4>2 DEF ReadAndAcquire
    <3>5. CASE Open(c) \/ OpenWritten(c)
      <4>1. \E p : call' = [call EXCEPT ![c].pc = p]
        BY <3>5 DEF Open, OpenWritten
      <4> QED BY <4>1, Basics, OutcomeStays
    <3>6. CASE BootFailed(c) \/ OpenWriteFails(c)
      BY <3>6, EarlyThrow
    <3>7. CASE GiveUpOpening(c)
      <4>1. \E w : call' = Settled(c, "unavailable", w)
        BY <3>7 DEF GiveUpOpening, Return
      <4> QED BY <3>2, <4>1
    <3>8. CASE FinishWait(c) \/ CloseWritten(c) \/ CloseFails(c)
      BY <3>8 DEF FinishWait, CloseWritten, CloseFails
    <3> QED BY <2>4, <3>1, <3>3, <3>4, <3>5, <3>6, <3>7, <3>8 DEF Work
  <2> QED BY <2>1, <2>2, <2>3, <2>4 DEF CallStep, Work
<1> QED
  BY <1>1, Invariance, ResultInvariance, PTL DEF Spec, EarlyFailureRestarts

=============================================================================
