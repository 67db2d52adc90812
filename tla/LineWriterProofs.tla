-------------------------- MODULE LineWriterProofs --------------------------
(* The writer's buffer is bounded, no rune is split, the loop of Write      *)
(* always advances and the output does not depend on how it is divided into *)
(* writes: whatever the size of the buffer and whatever is written.         *)
EXTENDS LineWriter, SequenceTheorems, WellFoundedInduction, TLAPS

\* The parts of a sequence that Write moves about.
LEMMA Pieces ==
  ASSUME NEW s \in Seq(Bytes), NEW k \in 0..Len(s)
  PROVE  /\ SubSeq(s, 1, k) \in Seq(Bytes) /\ Len(SubSeq(s, 1, k)) = k
         /\ From(s, k + 1) \in Seq(Bytes) /\ Len(From(s, k + 1)) = Len(s) - k
BY DEF From

\* Two neighbouring positions have a first one.
LEMMA FirstOfTwo ==
  ASSUME NEW n \in Int, NEW K, K \subseteq {n - 1, n}, K # {}
  PROVE  \E k \in K : First(k, K)
<1>1. CASE n - 1 \in K
  <2>1. \A m \in K : n - 1 <= m
    OBVIOUS
  <2> QED BY <1>1, <2>1 DEF First
<1>2. CASE n - 1 \notin K
  <2>1. K = {n}
    BY <1>2
  <2> QED BY <2>1 DEF First
<1> QED BY <1>1, <1>2

\* A cut takes at least one byte: at most two bytes can be an incomplete rune.
LEMMA CutTakes ==
  ASSUME NEW s \in Seq(Bytes), Len(s) >= UTFMax
  PROVE  Cut(s) \in 1..Len(s)
<1> DEFINE open == {k \in (Len(s) - UTFMax + 1)..Len(s) : RuneStart(s[k]) /\ ~FullRune(From(s, k))}
<1>1. open \subseteq {Len(s) - 1, Len(s)}
  <2> SUFFICES ASSUME NEW k \in (Len(s) - UTFMax + 1)..Len(s), ~FullRune(From(s, k))
               PROVE  k \in {Len(s) - 1, Len(s)}
    OBVIOUS
  <2>1. Len(From(s, k)) = Len(s) - k + 1
    BY DEF From, UTFMax
  <2>2. Len(From(s, k)) < 3
    BY DEF FullRune
  <2> QED BY <2>1, <2>2 DEF UTFMax
<1>2. CASE open = {}
  BY <1>2 DEF Cut, UTFMax
<1>3. CASE open # {}
  <2> HIDE DEF open
  <2>0. Len(s) \in Int
    OBVIOUS
  <2>1. \E k \in open : First(k, open)
    BY <1>1, <1>3, <2>0, FirstOfTwo, Zenon
  <2>2. (CHOOSE k \in open : First(k, open)) \in {Len(s) - 1, Len(s)}
    BY <1>1, <2>1
  <2>3. Cut(s) = (CHOOSE k \in open : First(k, open)) - 1
    BY <1>3 DEF Cut, open
  <2>4. PICK c \in {Len(s) - 1, Len(s)} : Cut(s) = c - 1
    BY <2>2, <2>3
  <2> QED BY <2>4 DEF UTFMax
<1> QED BY <1>2, <1>3

\* A message of allowed length may be added to the messages sent.
LEMMA SendBounded ==
  ASSUME NEW msgs \in Seq(Seq(Bytes)), NEW m \in Seq(Bytes), Len(m) <= MaxChunk,
         \A k \in DOMAIN msgs : Len(msgs[k]) <= MaxChunk
  PROVE  /\ Append(msgs, m) \in Seq(Seq(Bytes))
         /\ \A k \in DOMAIN Append(msgs, m) : Len(Append(msgs, m)[k]) <= MaxChunk
OBVIOUS

\* One step of Write's loop keeps the buffer within its bounds.
LEMMA LoopStep ==
  ASSUME WriterInv, Loop
  PROVE  WriterInv'
<1> USE ChunkAssumption DEF UTFMax
<1>1. CASE Fill
  <2> DEFINE room == MaxChunk - Len(buffer)
             count == IF Len(data) < room THEN Len(data) ELSE room
  <2>1. count \in 0..Len(data) /\ Len(buffer) + count <= MaxChunk
    BY <1>1 DEF Fill, WriterInv, TypeOK, Bounded
  <2>2. /\ buffer' = buffer \o SubSeq(data, 1, count)
        /\ data' = From(data, count + 1)
        /\ pc' = "scan"
        /\ UNCHANGED <<err, sent, accepted, flushed>>
    BY <1>1 DEF Fill
  <2> HIDE DEF count
  <2>3. data' \in Seq(Bytes) /\ buffer' \in Seq(Bytes) /\ Len(buffer') = Len(buffer) + count
    BY <2>1, <2>2, Pieces DEF WriterInv, TypeOK
  <2> QED BY <2>1, <2>2, <2>3 DEF WriterInv, TypeOK, Bounded
<1>2. CASE WriteReturns
  BY <1>2 DEF WriteReturns, WriterInv, TypeOK, Bounded
<1>3. CASE SendLine
  <2>1. PICK n \in Newlines(buffer) :
          /\ pc = "scan"
          /\ sent' = Append(sent, SubSeq(buffer, 1, n - 1))
          /\ buffer' = From(buffer, n + 1)
          /\ UNCHANGED <<data, pc, err, accepted, flushed>>
    BY <1>3 DEF SendLine
  <2>2. n \in 1..Len(buffer)
    BY DEF Newlines, WriterInv, TypeOK
  <2>3. SubSeq(buffer, 1, n - 1) \in Seq(Bytes) /\ Len(SubSeq(buffer, 1, n - 1)) <= MaxChunk
    BY <2>2, Pieces DEF WriterInv, TypeOK, Bounded
  <2>4. buffer' \in Seq(Bytes) /\ Len(buffer') <= MaxChunk
    BY <2>1, <2>2, Pieces DEF WriterInv, TypeOK, Bounded
  <2>5. sent' \in Seq(Seq(Bytes)) /\ \A k \in DOMAIN sent' : Len(sent'[k]) <= MaxChunk
    BY <2>1, <2>3, SendBounded DEF WriterInv, TypeOK, Bounded
  <2> QED BY <2>1, <2>4, <2>5 DEF WriterInv, TypeOK, Bounded
<1>4. CASE ScanEnds
  BY <1>4 DEF ScanEnds, WriterInv, TypeOK, Bounded
<1>5. CASE SendChunk
  <2>1. Cut(buffer) \in 1..Len(buffer) /\ Len(buffer) = MaxChunk
    BY <1>5, CutTakes DEF SendChunk, WriterInv, TypeOK
  <2>2. SubSeq(buffer, 1, Cut(buffer)) \in Seq(Bytes) /\ Len(SubSeq(buffer, 1, Cut(buffer))) <= MaxChunk
    BY <2>1, Pieces DEF WriterInv, TypeOK
  <2>3. buffer' \in Seq(Bytes) /\ Len(buffer') < MaxChunk
    BY <1>5, <2>1, Pieces DEF SendChunk, WriterInv, TypeOK
  <2>4. sent' \in Seq(Seq(Bytes)) /\ \A k \in DOMAIN sent' : Len(sent'[k]) <= MaxChunk
    BY <1>5, <2>2, SendBounded DEF SendChunk, WriterInv, TypeOK, Bounded
  <2> QED BY <1>5, <2>3, <2>4 DEF SendChunk, WriterInv, TypeOK, Bounded
<1> QED BY <1>1, <1>2, <1>3, <1>4, <1>5 DEF Loop

\* So does every other step.
LEMMA WriterStep ==
  ASSUME WriterInv, [Next]_vars
  PROVE  WriterInv'
<1> USE ChunkAssumption DEF UTFMax
<1>1. ASSUME NEW n \in 1..(MaxInput - Len(accepted)), NEW d \in [1..n -> Bytes], Write(d)
      PROVE  WriterInv'
  <2>1. d \in Seq(Bytes)
    BY <1>1 DEF WriterInv, TypeOK
  <2>2. accepted' \in Seq(Bytes)
    BY <1>1, <2>1 DEF Write, WriterInv, TypeOK
  <2> QED BY <1>1, <2>1, <2>2 DEF Write, WriterInv, TypeOK, Bounded
<1>2. CASE WriteFails
  BY <1>2 DEF WriteFails, WriterInv, TypeOK, Bounded
<1>3. CASE Loop
  BY <1>3, LoopStep
<1>4. CASE Flush
  <2>1. /\ buffer' = <<>> /\ flushed' = TRUE /\ pc = "idle"
        /\ UNCHANGED <<data, pc, err, accepted>>
        /\ sent' = sent \/ sent' = Append(sent, buffer)
    BY <1>4 DEF Flush
  <2>2. sent' \in Seq(Seq(Bytes)) /\ \A k \in DOMAIN sent' : Len(sent'[k]) <= MaxChunk
    BY <2>1, SendBounded DEF WriterInv, TypeOK, Bounded
  <2> QED BY <2>1, <2>2 DEF WriterInv, TypeOK, Bounded
<1>5. CASE UNCHANGED vars
  BY <1>5 DEF vars, WriterInv, TypeOK, Bounded
<1> QED BY <1>1, <1>2, <1>3, <1>4, <1>5 DEF Next

\* The writer's types and bounds hold for every size of buffer that holds a rune
\* and every sequence of writes: see WriterInv.
THEOREM WriterInvariant == Spec => []WriterInv
<1>1. Init => WriterInv
  <2> SUFFICES ASSUME Init PROVE WriterInv
    OBVIOUS
  <2>1. TypeOK
    <3>1. data \in Seq(Bytes) /\ buffer \in Seq(Bytes) /\ accepted \in Seq(Bytes)
      BY DEF Init
    <3>2. sent \in Seq(Seq(Bytes))
      BY DEF Init
    <3> QED BY <3>1, <3>2 DEF Init, TypeOK
  <2>2. Bounded
    <3>1. Len(buffer) = 0 /\ DOMAIN sent = {}
      BY DEF Init
    <3> QED BY <3>1, ChunkAssumption DEF Bounded, UTFMax
  <2> QED BY <2>1, <2>2 DEF Init, WriterInv
<1> QED BY <1>1, WriterStep, PTL DEF Spec

\* The buffer never exceeds its size and Write always has room for the next byte:
\* see Bounded.
THEOREM BufferBounded == Spec => []Bounded
<1>1. WriterInv => Bounded
  BY DEF WriterInv
<1> QED BY <1>1, WriterInvariant, PTL

\* What a cut leaves behind starts a rune, and if it leaves nothing the buffer ends
\* with whole runes.
LEMMA CutBetweenRunes ==
  ASSUME NEW s \in Seq(Bytes), Len(s) >= UTFMax
  PROVE  \/ Cut(s) < Len(s) /\ RuneStart(s[Cut(s) + 1])
         \/ Cut(s) = Len(s) /\ \A k \in 1..Len(s) : ~RuneStart(s[k]) \/ FullRune(From(s, k))
<1> DEFINE open == {k \in (Len(s) - UTFMax + 1)..Len(s) : RuneStart(s[k]) /\ ~FullRune(From(s, k))}
<1>1. Cut(s) \in 1..Len(s)
  BY CutTakes
<1>2. CASE open = {}
  <2>1. Cut(s) = Len(s)
    BY <1>2 DEF Cut
  <2>2. ASSUME NEW k \in 1..Len(s), RuneStart(s[k]), ~FullRune(From(s, k))
        PROVE  FALSE
    <3>1. Len(From(s, k)) = Len(s) - k + 1 /\ Len(From(s, k)) < 3
      BY <2>2 DEF From, FullRune
    <3>2. k \in (Len(s) - UTFMax + 1)..Len(s)
      BY <3>1 DEF UTFMax
    <3> QED BY <1>2, <2>2, <3>2
  <2> QED BY <2>1, <2>2
<1>3. CASE open # {}
  <2>1. Cut(s) = (CHOOSE k \in open : First(k, open)) - 1
    BY <1>3 DEF Cut
  <2>2. \E k \in open : First(k, open)
    <3>1. open \subseteq {Len(s) - 1, Len(s)}
      <4> SUFFICES ASSUME NEW k \in (Len(s) - UTFMax + 1)..Len(s), ~FullRune(From(s, k))
                   PROVE  k \in {Len(s) - 1, Len(s)}
        OBVIOUS
      <4>1. Len(From(s, k)) = Len(s) - k + 1 /\ Len(From(s, k)) < 3
        BY DEF From, FullRune, UTFMax
      <4> QED BY <4>1 DEF UTFMax
    <3>2. Len(s) \in Int
      OBVIOUS
    <3> HIDE DEF open
    <3> QED BY <1>3, <3>1, <3>2, FirstOfTwo, Zenon
  <2>3. PICK c \in open : Cut(s) = c - 1
    BY <2>1, <2>2
  <2>4. c \in Int /\ RuneStart(s[c]) /\ c <= Len(s)
    BY <2>3 DEF UTFMax
  <2>5. Cut(s) + 1 = c /\ Cut(s) < Len(s)
    BY <1>1, <2>3, <2>4
  <2> QED BY <2>4, <2>5
<1> QED BY <1>2, <1>3

\* No message ends in the middle of a rune that the next one completes, wherever
\* the buffer happens to fill up: see NoRuneSplit.
THEOREM RunesStayWhole == Spec => NoRuneSplit
<1> DEFINE Whole == LET m == sent'[Len(sent')]
                    IN  \A k \in DOMAIN m : RuneStart(m[k]) /\ ~FullRune(From(m, k))
                          => buffer' # <<>> /\ buffer'[1] # "continuation"
<1>1. ASSUME WriterInv, Next, pc = "cut"
      PROVE  Whole
  <2>1. SendChunk
    BY <1>1 DEF Next, Loop, Write, WriteFails, Flush, Fill, WriteReturns, SendLine, ScanEnds
  <2>2. buffer \in Seq(Bytes) /\ Len(buffer) >= UTFMax /\ sent \in Seq(Seq(Bytes))
    BY <1>1, ChunkAssumption DEF WriterInv, TypeOK
  <2>3. Cut(buffer) \in 1..Len(buffer)
    BY <2>2, CutTakes
  <2> DEFINE m == SubSeq(buffer, 1, Cut(buffer))
  <2>4. m \in Seq(Bytes) /\ Len(m) = Cut(buffer)
    BY <2>2, <2>3, Pieces
  <2>5. sent'[Len(sent')] = m
    BY <2>1, <2>2, <2>4 DEF SendChunk
  <2>6. CASE Cut(buffer) < Len(buffer) /\ RuneStart(buffer[Cut(buffer) + 1])
    <3>1. buffer' = From(buffer, Cut(buffer) + 1)
      BY <2>1 DEF SendChunk
    <3>2. Len(buffer') > 0 /\ buffer'[1] = buffer[Cut(buffer) + 1]
      BY <2>2, <2>3, <2>6, <3>1 DEF From
    <3>3. buffer' # <<>> /\ buffer'[1] # "continuation"
      BY <2>6, <3>2 DEF RuneStart
    <3> QED BY <3>3
  <2>7. CASE /\ Cut(buffer) = Len(buffer)
             /\ \A k \in 1..Len(buffer) : ~RuneStart(buffer[k]) \/ FullRune(From(buffer, k))
    <3>1. m = buffer
      BY <2>2, <2>7
    <3>2. DOMAIN buffer = 1..Len(buffer)
      BY <2>2
    <3>3. \A k \in DOMAIN buffer : ~RuneStart(buffer[k]) \/ FullRune(From(buffer, k))
      BY <2>7, <3>2
    <3>4. sent'[Len(sent')] = buffer
      BY <2>5, <3>1
    <3> HIDE DEF m
    <3> QED BY <3>3, <3>4
  <2> QED BY <2>2, <2>6, <2>7, CutBetweenRunes
<1>2. WriterInv /\ [Next]_vars => [pc = "cut" => Whole]_vars
  BY <1>1
<1> QED BY <1>2, WriterInvariant, PTL DEF Spec, NoRuneSplit

-----------------------------------------------------------------------------
(* Writes may be divided in any way. The bytewise result is a recursive     *)
(* function of the bytes; what is needed of it follows by induction on how  *)
(* many bytes there are, with the well-foundedness of < for its reason.     *)

\* A set of numbers has a least one.
LEMMA LeastNumber ==
  ASSUME NEW S \in SUBSET Nat, S # {}
  PROVE  \E m \in S : \A k \in S : m <= k
<1> DEFINE R == OpToRel(<, Nat)
<1>1. IsWellFoundedOn(R, Nat)
  BY NatLessThanWellFounded
<1>2. \A x, y \in Nat : x < y => <<x, y>> \in R
  BY DEF OpToRel
<1> HIDE DEF R
<1>3. PICK m \in S : \A k \in S : ~(<<k, m>> \in R)
  BY <1>1, WFMin
<1>4. \A k \in S : k \in Nat /\ m \in Nat /\ ~(k < m)
  BY <1>2, <1>3
<1> QED BY <1>4

\* Induction, of a set of numbers.
LEMMA Induct ==
  ASSUME NEW S \in SUBSET Nat, 0 \in S, \A n \in S : n + 1 \in S
  PROVE  S = Nat
<1> SUFFICES ASSUME S # Nat PROVE FALSE
  OBVIOUS
<1>1. PICK m \in Nat \ S : \A k \in Nat \ S : m <= k
  BY LeastNumber
<1>2. m - 1 \in S
  BY <1>1
<1> QED BY <1>1, <1>2

\* g[k] is what the first k bytes of s give, up to the n-th.
IsRun(g, s, n) ==
  /\ g = [k \in 0..n |-> g[k]]
  /\ g[0] = Nothing
  /\ \A k \in 1..n : g[k] = Put(g[k - 1], s[k])

\* There is such a run over any bytes.
LEMMA RunExists ==
  ASSUME NEW s, NEW n \in Nat
  PROVE  \E g : IsRun(g, s, n)
<1> DEFINE S == {m \in Nat : \E g : IsRun(g, s, m)}
<1>1. 0 \in S
  <2> DEFINE g == [k \in 0..0 |-> Nothing]
  <2>1. IsRun(g, s, 0)
    BY DEF IsRun
  <2> QED BY <2>1
<1>2. ASSUME NEW m \in S
      PROVE  m + 1 \in S
  <2>1. PICK g : IsRun(g, s, m)
    OBVIOUS
  <2> DEFINE h == [k \in 0..(m + 1) |-> IF k <= m THEN g[k] ELSE Put(g[m], s[m + 1])]
  <2>2. m \in Nat
    OBVIOUS
  <2>3. h[0] = Nothing
    BY <2>1, <2>2 DEF IsRun
  <2>4. ASSUME NEW k \in 1..(m + 1)
        PROVE  h[k] = Put(h[k - 1], s[k])
    <3>1. CASE k <= m
      <4>1. k \in 1..m /\ h[k] = g[k] /\ h[k - 1] = g[k - 1]
        BY <2>2, <3>1
      <4> QED BY <2>1, <4>1 DEF IsRun
    <3>2. CASE k = m + 1
      BY <2>2, <3>2
    <3> QED BY <2>2, <3>1, <3>2
  <2>5. h = [k \in 0..(m + 1) |-> h[k]]
    OBVIOUS
  <2> HIDE DEF h
  <2>6. IsRun(h, s, m + 1)
    BY <2>3, <2>4, <2>5 DEF IsRun
  <2> QED BY <2>2, <2>6
<1> HIDE DEF S
<1>3. S \in SUBSET Nat
  BY DEF S
<1>4. S = Nat
  BY <1>1, <1>2, <1>3, Induct
<1> QED BY <1>4 DEF S

\* Two runs over bytes that begin alike begin alike.
LEMMA RunsAgree ==
  ASSUME NEW g, NEW s, NEW h, NEW t, NEW n \in Nat, NEW m \in Nat, n <= m,
         IsRun(g, s, n), IsRun(h, t, m), \A k \in 1..n : s[k] = t[k]
  PROVE  g[n] = h[n]
<1> DEFINE S == {k \in Nat : k <= n => g[k] = h[k]}
<1>1. 0 \in S
  BY DEF IsRun
<1>2. ASSUME NEW k \in S
      PROVE  k + 1 \in S
  <2>1. k \in Nat /\ (k + 1) - 1 = k
    OBVIOUS
  <2>2. CASE k + 1 <= n
    <3>1. k + 1 \in 1..n /\ k + 1 \in 1..m /\ g[k] = h[k]
      BY <2>1, <2>2
    <3>2. g[k + 1] = Put(g[k], s[k + 1]) /\ h[k + 1] = Put(h[k], t[k + 1])
      BY <2>1, <3>1 DEF IsRun
    <3> QED BY <2>1, <3>1, <3>2
  <2> QED BY <2>1, <2>2
<1> HIDE DEF S
<1>3. S \in SUBSET Nat
  BY DEF S
<1>4. S = Nat
  BY <1>1, <1>2, <1>3, Induct
<1> QED BY <1>4 DEF S

\* Bytewise is the end of a run.
LEMMA BytewiseRuns ==
  ASSUME NEW s \in Seq(Bytes)
  PROVE  \E g : IsRun(g, s, Len(s)) /\ Bytewise(s) = g[Len(s)]
<1>1. Len(s) \in Nat
  OBVIOUS
<1>2. PICK g : IsRun(g, s, Len(s))
  BY <1>1, RunExists
<1> DEFINE Eqn(h) == h = [k \in 0..Len(s) |-> IF k = 0 THEN Nothing ELSE Put(h[k - 1], s[k])]
<1>3. Eqn(g)
  <2>1. \A k \in 0..Len(s) : g[k] = IF k = 0 THEN Nothing ELSE Put(g[k - 1], s[k])
    BY <1>1, <1>2 DEF IsRun
  <2>2. g = [k \in 0..Len(s) |-> g[k]]
    BY <1>2 DEF IsRun
  <2> QED BY <2>1, <2>2
<1>4. PICK h : Eqn(h) /\ Bytewise(s) = h[Len(s)]
  BY <1>3 DEF Bytewise
<1>5. \A k \in 0..Len(s) : h[k] = IF k = 0 THEN Nothing ELSE Put(h[k - 1], s[k])
  BY <1>4
<1>6. h = [k \in 0..Len(s) |-> h[k]]
  BY <1>4, <1>5
<1>7. IsRun(h, s, Len(s))
  BY <1>1, <1>5, <1>6 DEF IsRun
<1> QED BY <1>4, <1>7

\* The equations of Bytewise: no bytes, and one more byte.
LEMMA BytewiseEquations ==
  /\ Bytewise(<<>>) = Nothing
  /\ \A s \in Seq(Bytes), b \in Bytes : Bytewise(Append(s, b)) = Put(Bytewise(s), b)
<1>1. Bytewise(<<>>) = Nothing
  <2>1. <<>> \in Seq(Bytes) /\ Len(<<>>) = 0
    OBVIOUS
  <2>2. PICK g : IsRun(g, <<>>, Len(<<>>)) /\ Bytewise(<<>>) = g[Len(<<>>)]
    BY <2>1, BytewiseRuns
  <2> QED BY <2>1, <2>2 DEF IsRun
<1>2. ASSUME NEW s \in Seq(Bytes), NEW b \in Bytes
      PROVE  Bytewise(Append(s, b)) = Put(Bytewise(s), b)
  <2> DEFINE n == Len(s)
             t == Append(s, b)
  <2>1. /\ n \in Nat /\ t \in Seq(Bytes) /\ Len(t) = n + 1 /\ t[n + 1] = b
        /\ \A k \in 1..n : s[k] = t[k]
    OBVIOUS
  <2> HIDE DEF t
  <2>2. PICK g : IsRun(g, s, n) /\ Bytewise(s) = g[n]
    BY BytewiseRuns
  <2>3. PICK h : IsRun(h, t, Len(t)) /\ Bytewise(t) = h[Len(t)]
    BY <2>1, BytewiseRuns
  <2> HIDE DEF n
  <2>4. IsRun(h, t, n + 1)
    BY <2>1, <2>3
  <2>5. g[n] = h[n]
    <3>1. n + 1 \in Nat /\ n <= n + 1
      BY <2>1
    <3> QED BY <2>1, <2>2, <2>4, <3>1, RunsAgree
  <2>6. h[n + 1] = Put(h[n], t[n + 1])
    <3>1. n + 1 \in 1..(n + 1) /\ (n + 1) - 1 = n
      BY <2>1
    <3> QED BY <2>4, <3>1 DEF IsRun
  <2> QED BY <2>1, <2>2, <2>3, <2>5, <2>6 DEF t
<1> QED BY <1>1, <1>2

\* Sequences of bytes, put together and taken apart: in which order does not matter.
LEMMA Associative ==
  ASSUME NEW s \in Seq(Bytes), NEW t \in Seq(Bytes), NEW u \in Seq(Bytes)
  PROVE  (s \o t) \o u = s \o (t \o u)
BY ConcatAssociative

\* What putting them together gives.
LEMMA Together ==
  ASSUME NEW s \in Seq(Bytes), NEW t \in Seq(Bytes)
  PROVE  /\ s \o t \in Seq(Bytes) /\ Len(s \o t) = Len(s) + Len(t)
         /\ s \o <<>> = s /\ <<>> \o s = s
         /\ \A b \in Bytes : Append(s, b) \in Seq(Bytes) /\ Len(Append(s, b)) = Len(s) + 1
<1>1. s \o <<>> = s /\ <<>> \o s = s
  BY ConcatEmptySeq
<1> QED BY <1>1

\* The two sides of a cut.
LEMMA PiecesMakeTheWhole ==
  ASSUME NEW s \in Seq(Bytes), NEW k \in 0..Len(s)
  PROVE  SubSeq(s, 1, k) \o From(s, k + 1) = s
<1> DEFINE u == SubSeq(s, 1, k)
           v == From(s, k + 1)
<1>1. u \in Seq(Bytes) /\ Len(u) = k /\ v \in Seq(Bytes) /\ Len(v) = Len(s) - k
  BY DEF From
<1>2. /\ \A i \in 1..k : u[i] = s[i]
      /\ \A i \in 1..(Len(s) - k) : v[i] = s[i + k]
  BY DEF From
<1> HIDE DEF u, v
<1>3. u \o v \in Seq(Bytes) /\ Len(u \o v) = Len(s)
  BY <1>1
<1>4. \A i \in 1..Len(s) : (u \o v)[i] = s[i]
  BY <1>1, <1>2
<1>5. u \o v = s
  BY <1>3, <1>4, SeqEqual
<1> QED BY <1>5 DEF u, v

\* One byte more at the end.
LEMMA AppendToConcat ==
  ASSUME NEW s \in Seq(Bytes), NEW t \in Seq(Bytes), NEW b \in Bytes
  PROVE  /\ s \o Append(t, b) \in Seq(Bytes)
         /\ s \o Append(t, b) = Append(s \o t, b)
<1>1. s \o Append(t, b) \in Seq(Bytes) /\ Append(s \o t, b) \in Seq(Bytes)
  OBVIOUS
<1>2. Len(s \o Append(t, b)) = Len(s) + Len(t) + 1 /\ Len(Append(s \o t, b)) = Len(s) + Len(t) + 1
  OBVIOUS
<1>3. \A i \in 1..(Len(s) + Len(t) + 1) : (s \o Append(t, b))[i] = Append(s \o t, b)[i]
  OBVIOUS
<1> QED BY <1>1, <1>2, <1>3, SeqEqual

\* A cut behind the first of two sequences.
LEMMA PiecesOfConcat ==
  ASSUME NEW s \in Seq(Bytes), NEW t \in Seq(Bytes), NEW k \in 0..Len(t)
  PROVE  /\ SubSeq(s \o t, 1, Len(s) + k) = s \o SubSeq(t, 1, k)
         /\ From(s \o t, Len(s) + k + 1) = From(t, k + 1)
<1> DEFINE w == s \o t
           u == SubSeq(t, 1, k)
           v == From(t, k + 1)
<1>1. w \in Seq(Bytes) /\ Len(w) = Len(s) + Len(t)
  OBVIOUS
<1>2. \A i \in 1..(Len(s) + Len(t)) : w[i] = IF i <= Len(s) THEN s[i] ELSE t[i - Len(s)]
  BY ConcatProperties
<1>3. u \in Seq(Bytes) /\ Len(u) = k /\ v \in Seq(Bytes) /\ Len(v) = Len(t) - k
  BY DEF From
<1>4. /\ \A i \in 1..k : u[i] = t[i]
      /\ \A i \in 1..(Len(t) - k) : v[i] = t[i + k]
  <2>1. \A i \in 1..k : u[i] = t[i]
    OBVIOUS
  <2>2. \A i \in 1..(Len(t) - k) : v[i] = t[i + k]
    BY DEF From
  <2> QED BY <2>1, <2>2
<1> HIDE DEF w, u, v
<1>5. SubSeq(w, 1, Len(s) + k) = s \o u
  <2>1. s \o u \in Seq(Bytes) /\ Len(s \o u) = Len(s) + k
    BY <1>3, Together
  <2>2. SubSeq(w, 1, Len(s) + k) \in Seq(Bytes) /\ Len(SubSeq(w, 1, Len(s) + k)) = Len(s) + k
    BY <1>1
  <2>3. ASSUME NEW i \in 1..(Len(s) + k)
        PROVE  SubSeq(w, 1, Len(s) + k)[i] = (s \o u)[i]
    <3>1. SubSeq(w, 1, Len(s) + k)[i] = w[i]
      BY <1>1
    <3>2. (s \o u)[i] = IF i <= Len(s) THEN s[i] ELSE u[i - Len(s)]
      BY <1>3
    <3>3. i \in 1..(Len(s) + Len(t)) /\ (i <= Len(s) \/ i - Len(s) \in 1..k)
      OBVIOUS
    <3> QED BY <1>2, <1>4, <3>1, <3>2, <3>3
  <2> QED BY <2>1, <2>2, <2>3, SeqEqual
<1>6. From(w, Len(s) + k + 1) = v
  <2> DEFINE x == From(w, Len(s) + k + 1)
  <2>1. x \in Seq(Bytes) /\ Len(x) = Len(t) - k
    BY <1>1 DEF From
  <2>2. \A i \in 1..(Len(t) - k) : x[i] = w[i + Len(s) + k]
    BY <1>1 DEF From
  <2>3. \A i \in 1..(Len(t) - k) : x[i] = v[i]
    BY <1>2, <1>4, <2>2
  <2> HIDE DEF x
  <2>4. x = v
    BY <1>3, <2>1, <2>3, SeqEqual
  <2> QED BY <2>4 DEF x
<1> QED BY <1>5, <1>6 DEF w, u, v

\* The last byte and those before it.
LEMMA LastByte ==
  ASSUME NEW s \in Seq(Bytes), Len(s) >= 1
  PROVE  \E u \in Seq(Bytes), b \in Bytes :
           Len(u) = Len(s) - 1 /\ s = Append(u, b) /\ b = s[Len(s)]
<1> DEFINE u == SubSeq(s, 1, Len(s) - 1)
           b == s[Len(s)]
<1>0. Len(s) \in Nat /\ Len(s) - 1 \in 0..Len(s)
  OBVIOUS
<1>1. u \in Seq(Bytes) /\ Len(u) = Len(s) - 1 /\ b \in Bytes
  <2>1. u \in Seq(Bytes) /\ Len(u) = Len(s) - 1
    BY <1>0, Pieces
  <2>2. b \in Bytes
    BY <1>0
  <2> QED BY <2>1, <2>2
<1>2. \A i \in 1..(Len(s) - 1) : u[i] = s[i]
  OBVIOUS
<1> HIDE DEF u
<1>3. Append(u, b) \in Seq(Bytes) /\ Len(Append(u, b)) = Len(s)
  BY <1>1
<1>4. \A i \in 1..Len(s) : Append(u, b)[i] = s[i]
  BY <1>1, <1>2
<1>5. s = Append(u, b)
  BY <1>3, <1>4, SeqEqual
<1> QED BY <1>1, <1>5

\* The bytes of a line are gathered while they fit.
LEMMA LineGathers ==
  ASSUME NEW s \in Seq(Bytes), NEW t \in Seq(Bytes), Newlines(t) = {},
         NEW r \in Seq(Bytes), r = Bytewise(s).buffer, Len(r) + Len(t) < MaxChunk
  PROVE  Bytewise(s \o t).sent = Bytewise(s).sent /\ Bytewise(s \o t).buffer = r \o t
<1> DEFINE u(k) == SubSeq(t, 1, k)
           Gathered(k) == /\ Bytewise(s \o u(k)).sent = Bytewise(s).sent
                          /\ Bytewise(s \o u(k)).buffer = r \o u(k)
           S == {k \in Nat : k <= Len(t) => Gathered(k)}
<1>0. \A k : k \in S <=> k \in Nat /\ (k <= Len(t) => Gathered(k))
  OBVIOUS
<1> HIDE DEF S
<1>1. 0 \in S
  <2>1. u(0) = <<>> /\ s \o <<>> = s /\ r \o <<>> = r
    OBVIOUS
  <2>2. Gathered(0)
    BY <2>1
  <2> HIDE DEF Gathered
  <2> QED BY <1>0, <2>2
<1> HIDE DEF Gathered
<1>2. ASSUME NEW k \in S
      PROVE  k + 1 \in S
  <2> SUFFICES ASSUME k \in Nat, k + 1 <= Len(t)
               PROVE  Gathered(k + 1)
    BY <1>0
  <2>1. k \in Nat /\ k + 1 \in 1..Len(t) /\ Gathered(k)
    BY <1>0
  <2> DEFINE v == u(k)
             b == t[k + 1]
  <2>2. v \in Seq(Bytes) /\ Len(v) = k /\ b \in Bytes /\ b # "newline"
    BY <2>1 DEF Newlines
  <2>3. u(k + 1) = Append(v, b)
    BY <2>1
  <2>4. Bytewise(s \o v).sent = Bytewise(s).sent /\ Bytewise(s \o v).buffer = r \o v
    BY <2>1 DEF Gathered
  <2> HIDE DEF u, v, b
  <2>5. s \o v \in Seq(Bytes) /\ r \o v \in Seq(Bytes) /\ Len(r \o v) = Len(r) + k
    BY <2>2, ConcatProperties
  <2>6. s \o Append(v, b) = Append(s \o v, b) /\ r \o Append(v, b) = Append(r \o v, b)
    BY <2>2, AppendToConcat
  <2>7. Bytewise(s \o Append(v, b)) = Put(Bytewise(s \o v), b)
    BY <2>2, <2>5, <2>6, BytewiseEquations
  <2>8. Len(Append(r \o v, b)) < MaxChunk
    <3>1. Len(Append(r \o v, b)) = Len(r \o v) + 1
      BY <2>2, <2>5, Together
    <3>2. Len(Append(r \o v, b)) = Len(r) + k + 1
      BY <2>5, <3>1
    <3> QED BY <2>1, <3>2, ChunkAssumption
  <2>9. Put(Bytewise(s \o v), b) = [sent |-> Bytewise(s).sent, buffer |-> Append(r \o v, b)]
    BY <2>2, <2>4, <2>8 DEF Put
  <2>10. Bytewise(s \o Append(v, b)).sent = Bytewise(s).sent
    BY <2>7, <2>9
  <2>11. Bytewise(s \o Append(v, b)).buffer = r \o Append(v, b)
    BY <2>6, <2>7, <2>9
  <2> QED BY <2>3, <2>10, <2>11 DEF Gathered
<1>3. S \in SUBSET Nat
  BY DEF S
<1>4. S = Nat
  BY <1>1, <1>2, <1>3, Induct
<1>5. Len(t) \in Nat /\ u(Len(t)) = t
  OBVIOUS
<1>6. Gathered(Len(t))
  BY <1>0, <1>4, <1>5
<1> QED BY <1>5, <1>6 DEF Gathered

\* What SplitInv says of the first bytes s and the next bytes t.
Taken(s, t) ==
  /\ accepted = (s \o t) \o data
  /\ sent = Bytewise(s).sent /\ buffer = Bytewise(s).buffer \o t
  /\ Bytewise(s).buffer \in Seq(Bytes)
  /\ Len(Bytewise(s).buffer) < MaxChunk /\ Newlines(Bytewise(s).buffer) = {}
  /\ pc \in {"idle", "fill"} => t = <<>>
  /\ pc = "cut" => Newlines(buffer) = {}

\* It is all that SplitInv says before flush() has run.
LEMMA TakenIsSplit ==
  ~flushed => (SplitInv <=> \E s, t \in Seq(Bytes) : Taken(s, t))
BY DEF SplitInv, Taken

\* Filling moves bytes from the write to the buffer, and no others.
LEMMA FillKeepsSplit ==
  ASSUME WriterInv, NEW s \in Seq(Bytes), NEW t \in Seq(Bytes), Taken(s, t), Fill
  PROVE  \E s1, t1 \in Seq(Bytes) : Taken(s1, t1)'
<1> DEFINE room == MaxChunk - Len(buffer)
           count == IF Len(data) < room THEN Len(data) ELSE room
<1> USE ChunkAssumption DEF UTFMax
<1>1. count \in 0..Len(data) /\ data \in Seq(Bytes)
  BY DEF Fill, WriterInv, TypeOK, Bounded
<1>2. PICK u : u = SubSeq(data, 1, count)
  OBVIOUS
<1>3. /\ buffer' = buffer \o u
      /\ data' = From(data, count + 1)
      /\ pc' = "scan" /\ t = <<>>
      /\ UNCHANGED <<err, sent, accepted, flushed>>
  BY <1>2 DEF Fill, Taken
<1> HIDE DEF count
<1>4. u \in Seq(Bytes) /\ data' \in Seq(Bytes) /\ u \o data' = data
  BY <1>1, <1>2, <1>3, Pieces, PiecesMakeTheWhole
<1>5. accepted' = (s \o u) \o data'
  <2>1. accepted' = s \o data
    BY <1>3, Together DEF Taken
  <2>2. PICK d \in Seq(Bytes) : d = data'
    BY <1>4
  <2>3. (s \o u) \o d = s \o (u \o d)
    BY <1>4, Associative, Zenon
  <2> QED BY <1>4, <2>1, <2>2, <2>3
<1>6. buffer' = Bytewise(s).buffer \o u
  BY <1>3, Together DEF Taken
<1>7. Taken(s, u)'
  BY <1>3, <1>5, <1>6 DEF Taken
<1> QED BY <1>4, <1>7

\* Sending a line is what the newline does bytewise.
LEMMA SendLineKeepsSplit ==
  ASSUME WriterInv, NEW s \in Seq(Bytes), NEW t \in Seq(Bytes), Taken(s, t), SendLine
  PROVE  \E s1, t1 \in Seq(Bytes) : Taken(s1, t1)'
<1> USE ChunkAssumption DEF UTFMax
<1> DEFINE r == Bytewise(s).buffer
<1>1. PICK n \in Newlines(buffer) :
        /\ pc = "scan" /\ First(n, Newlines(buffer))
        /\ sent' = Append(sent, SubSeq(buffer, 1, n - 1))
        /\ buffer' = From(buffer, n + 1)
        /\ UNCHANGED <<data, pc, err, accepted, flushed>>
  BY DEF SendLine
<1>2. r \in Seq(Bytes) /\ buffer = r \o t /\ Newlines(r) = {} /\ sent = Bytewise(s).sent
  BY DEF Taken
<1>3. Len(buffer) <= MaxChunk /\ data \in Seq(Bytes)
  BY DEF WriterInv, TypeOK, Bounded
<1> HIDE DEF r
<1> DEFINE j == n - Len(r)
           u == SubSeq(t, 1, j - 1)
           v == From(t, j + 1)
<1>4. n \in 1..Len(buffer) /\ buffer[n] = "newline" /\ Len(buffer) = Len(r) + Len(t)
  BY <1>2 DEF Newlines
<1>5. j \in 1..Len(t) /\ t[j] = "newline"
  <2>1. CASE n <= Len(r)
    <3>1. n \in DOMAIN r /\ r[n] = "newline"
      BY <1>2, <1>4, <2>1
    <3> QED BY <1>2, <3>1 DEF Newlines
  <2>2. CASE n > Len(r)
    BY <1>2, <1>4, <2>2
  <2> QED BY <1>2, <1>4, <2>1, <2>2
<1>6. Newlines(u) = {}
  <2> SUFFICES ASSUME NEW k \in 1..(j - 1), t[k] = "newline"
               PROVE  FALSE
    BY <1>5 DEF Newlines
  <2>1. Len(r) + k \in 1..Len(buffer) /\ buffer[Len(r) + k] = "newline"
    BY <1>2, <1>4, <1>5
  <2>2. Len(r) + k \in Newlines(buffer)
    BY <1>2, <2>1 DEF Newlines
  <2> QED BY <1>1, <1>2, <1>4, <2>2 DEF First
<1>7. u \in Seq(Bytes) /\ v \in Seq(Bytes) /\ Len(u) = j - 1
  BY <1>5 DEF From
<1>8. Len(r) + Len(u) < MaxChunk
  BY <1>2, <1>3, <1>4, <1>5, <1>7
<1> DEFINE s1 == Append(s \o u, "newline")
<1>9. t = Append(u, "newline") \o v
  <2>1. SubSeq(t, 1, j) = Append(u, "newline")
    BY <1>5
  <2>2. j \in 0..Len(t)
    BY <1>5
  <2>3. SubSeq(t, 1, j) \o v = t
    BY <2>2, PiecesMakeTheWhole
  <2> QED BY <2>1, <2>3
<1>10. SubSeq(buffer, 1, n - 1) = r \o u /\ From(buffer, n + 1) = v
  <2>1. j - 1 \in 0..Len(t) /\ j \in 0..Len(t) /\ Len(r) + (j - 1) = n - 1
    BY <1>2, <1>4, <1>5
  <2>2. Len(r) + j + 1 = n + 1
    BY <1>2, <1>4
  <2>3. SubSeq(r \o t, 1, Len(r) + (j - 1)) = r \o u
    BY <1>2, <2>1, PiecesOfConcat
  <2>4. From(r \o t, Len(r) + j + 1) = v
    BY <1>2, <2>1, PiecesOfConcat
  <2> QED BY <1>2, <2>1, <2>2, <2>3, <2>4
<1> HIDE DEF u, v, j
<1>11. s \o u \in Seq(Bytes) /\ "newline" \in Bytes /\ s1 \in Seq(Bytes)
  BY <1>7 DEF Bytes
<1>12. s \o t = s1 \o v
  <2>1. s1 = s \o Append(u, "newline")
    BY <1>7, <1>11, AppendToConcat
  <2>2. Append(u, "newline") \in Seq(Bytes)
    BY <1>7, <1>11
  <2>3. (s \o Append(u, "newline")) \o v = s \o (Append(u, "newline") \o v)
    BY <1>7, <2>2, Associative, Zenon
  <2> QED BY <1>9, <2>1, <2>3
<1>13. Bytewise(s1) = Put(Bytewise(s \o u), "newline")
  BY <1>11, BytewiseEquations
<1>14. Bytewise(s \o u).sent = sent /\ Bytewise(s \o u).buffer = r \o u
  BY <1>2, <1>6, <1>7, <1>8, LineGathers DEF r
<1>15. Bytewise(s1) = [sent |-> Append(sent, r \o u), buffer |-> <<>>]
  BY <1>13, <1>14 DEF Put
<1> HIDE DEF s1
<1>16. /\ Bytewise(s1).sent = sent' /\ Bytewise(s1).buffer = <<>>
       /\ buffer' = <<>> \o v
  <2>1. Bytewise(s1).sent = Append(sent, r \o u) /\ Bytewise(s1).buffer = <<>>
    BY <1>15
  <2>2. <<>> \o v = v
    BY <1>7, Together
  <2> QED BY <1>1, <1>10, <2>1, <2>2
<1>17. accepted' = (s1 \o v) \o data'
  BY <1>1, <1>12 DEF Taken
<1>18. <<>> \in Seq(Bytes) /\ Len(<<>>) = 0 /\ Newlines(<<>>) = {}
  BY DEF Newlines
<1>19. Taken(s1, v)'
  BY <1>1, <1>16, <1>17, <1>18 DEF Taken
<1> QED BY <1>7, <1>11, <1>19

\* The end of a scan leaves a buffer that fits for the next round, and one that is
\* full for the cut.
LEMMA ScanEndsKeepsSplit ==
  ASSUME WriterInv, NEW s \in Seq(Bytes), NEW t \in Seq(Bytes), Taken(s, t), ScanEnds
  PROVE  \E s1, t1 \in Seq(Bytes) : Taken(s1, t1)'
<1> USE ChunkAssumption DEF UTFMax
<1> DEFINE r == Bytewise(s).buffer
<1>1. r \in Seq(Bytes) /\ buffer = r \o t /\ sent = Bytewise(s).sent /\ Len(r) < MaxChunk
  BY DEF Taken
<1>2. pc = "scan" /\ Newlines(buffer) = {} /\ UNCHANGED <<data, buffer, err, sent, accepted, flushed>>
  BY DEF ScanEnds
<1>3. CASE Len(buffer) = MaxChunk
  <2>1. pc' = "cut"
    BY <1>3 DEF ScanEnds
  <2>2. Taken(s, t)'
    BY <1>2, <2>1 DEF Taken
  <2> QED BY <2>2
<1>4. CASE Len(buffer) # MaxChunk
  <2>1. pc' = "fill"
    BY <1>4 DEF ScanEnds
  <2> HIDE DEF r
  <2>2. Len(r) + Len(t) < MaxChunk /\ buffer \in Seq(Bytes)
    <3>1. Len(buffer) = Len(r) + Len(t) /\ buffer \in Seq(Bytes)
      BY <1>1, Together
    <3>2. Len(buffer) <= MaxChunk
      BY DEF WriterInv, Bounded
    <3> QED BY <1>1, <1>4, <3>1, <3>2
  <2>3. Newlines(t) = {}
    <3> SUFFICES ASSUME NEW k \in 1..Len(t), t[k] = "newline"
                 PROVE  FALSE
      BY DEF Newlines
    <3>1. Len(r) + k \in DOMAIN buffer /\ buffer[Len(r) + k] = "newline"
      BY <1>1
    <3> QED BY <1>2, <3>1 DEF Newlines
  <2>4. Bytewise(s \o t).sent = sent /\ Bytewise(s \o t).buffer = buffer
    BY <1>1, <2>2, <2>3, LineGathers DEF r
  <2>5. s \o t \in Seq(Bytes) /\ (s \o t) \o <<>> = s \o t /\ buffer \o <<>> = buffer
    BY <2>2, Together
  <2>6. accepted' = ((s \o t) \o <<>>) \o data'
    BY <1>2, <2>5 DEF Taken
  <2>7. Len(buffer) < MaxChunk
    BY <2>2, <1>1, Together
  <2>8. Taken(s \o t, <<>>)'
    BY <1>2, <2>1, <2>2, <2>4, <2>5, <2>6, <2>7 DEF Taken
  <2>9. <<>> \in Seq(Bytes)
    OBVIOUS
  <2> QED BY <2>5, <2>8, <2>9
<1> QED BY <1>3, <1>4

\* A cut is what the last byte of the buffer does bytewise.
LEMMA SendChunkKeepsSplit ==
  ASSUME WriterInv, NEW s \in Seq(Bytes), NEW t \in Seq(Bytes), Taken(s, t), SendChunk
  PROVE  \E s1, t1 \in Seq(Bytes) : Taken(s1, t1)'
<1> USE ChunkAssumption DEF UTFMax
<1> DEFINE r == Bytewise(s).buffer
           n == Len(t)
<1>1. r \in Seq(Bytes) /\ buffer = r \o t /\ sent = Bytewise(s).sent /\ Len(r) < MaxChunk
  BY DEF Taken
<1>2. Newlines(buffer) = {} /\ Len(buffer) = MaxChunk /\ buffer \in Seq(Bytes)
  BY DEF SendChunk, Taken, WriterInv, TypeOK
<1>3. /\ sent' = Append(sent, SubSeq(buffer, 1, Cut(buffer)))
      /\ buffer' = From(buffer, Cut(buffer) + 1)
      /\ pc' = "fill"
      /\ UNCHANGED <<data, err, accepted, flushed>>
  BY DEF SendChunk
<1> HIDE DEF r
<1>4. n \in Nat /\ n >= 1 /\ Len(r) + n = MaxChunk
  BY <1>1, <1>2, Together
<1>5. PICK u \in Seq(Bytes), b \in Bytes : Len(u) = n - 1 /\ t = Append(u, b) /\ b = t[n]
  BY <1>4, LastByte
<1>6. \A k \in 1..n : t[k] # "newline"
  <2> SUFFICES ASSUME NEW k \in 1..n, t[k] = "newline"
               PROVE  FALSE
    OBVIOUS
  <2>1. Len(r) + k \in DOMAIN buffer /\ buffer[Len(r) + k] = "newline"
    BY <1>1
  <2> QED BY <1>2, <2>1 DEF Newlines
<1>7. b # "newline" /\ Newlines(u) = {}
  BY <1>4, <1>5, <1>6 DEF Newlines
<1> HIDE DEF n
<1>8. Len(r) + Len(u) < MaxChunk
  BY <1>4, <1>5
<1>9. Bytewise(s \o u).sent = sent /\ Bytewise(s \o u).buffer = r \o u
  BY <1>1, <1>5, <1>7, <1>8, LineGathers DEF r
<1>10. s \o u \in Seq(Bytes) /\ s \o t = Append(s \o u, b) /\ s \o t \in Seq(Bytes)
  <2>1. s \o u \in Seq(Bytes) /\ s \o t \in Seq(Bytes)
    BY <1>5, Together
  <2> QED BY <1>5, <2>1, AppendToConcat
<1>11. Bytewise(s \o t) = Put(Bytewise(s \o u), b)
  BY <1>5, <1>10, BytewiseEquations
<1>12. Append(r \o u, b) = buffer
  BY <1>1, <1>5, AppendToConcat
<1>13. Bytewise(s \o t) = [sent   |-> Append(sent, SubSeq(buffer, 1, Cut(buffer))),
                           buffer |-> From(buffer, Cut(buffer) + 1)]
  BY <1>2, <1>7, <1>9, <1>11, <1>12 DEF Put
<1>14. Bytewise(s \o t).sent = sent' /\ Bytewise(s \o t).buffer = buffer'
  <2> DEFINE message == SubSeq(buffer, 1, Cut(buffer))
             left    == From(buffer, Cut(buffer) + 1)
  <2>1. Bytewise(s \o t) = [sent |-> Append(sent, message), buffer |-> left]
    BY <1>13
  <2>2. sent' = Append(sent, message) /\ buffer' = left
    BY <1>3
  <2> HIDE DEF message, left
  <2> QED BY <2>1, <2>2
<1>15. Cut(buffer) \in 1..Len(buffer)
  BY <1>2, CutTakes
<1>16. buffer' \in Seq(Bytes) /\ Len(buffer') < MaxChunk
  BY <1>2, <1>3, <1>15, Pieces
<1>17. Newlines(buffer') = {}
  <2> SUFFICES ASSUME NEW k \in 1..Len(buffer'), buffer'[k] = "newline"
               PROVE  FALSE
    BY <1>16 DEF Newlines
  <2>1. k + Cut(buffer) \in DOMAIN buffer /\ buffer[k + Cut(buffer)] = "newline"
    BY <1>2, <1>3, <1>15 DEF From
  <2> QED BY <1>2, <2>1 DEF Newlines
<1>18. (s \o t) \o <<>> = s \o t /\ buffer' \o <<>> = buffer'
  <2>1. PICK d \in Seq(Bytes) : d = buffer'
    BY <1>16
  <2>2. d \o <<>> = d
    BY Together
  <2> QED BY <1>10, <2>1, <2>2, Together
<1>19. accepted' = ((s \o t) \o <<>>) \o data'
  BY <1>3, <1>18 DEF Taken
<1>20. Taken(s \o t, <<>>)'
  BY <1>3, <1>14, <1>16, <1>17, <1>18, <1>19 DEF Taken
<1>21. <<>> \in Seq(Bytes)
  OBVIOUS
<1> QED BY <1>10, <1>20, <1>21

\* Between two writes all the bytes are among the first.
LEMMA TakenBetweenWrites ==
  ASSUME WriterInv, NEW s \in Seq(Bytes), NEW t \in Seq(Bytes), Taken(s, t), pc = "idle"
  PROVE  /\ s = accepted /\ t = <<>>
         /\ sent = Bytewise(accepted).sent /\ buffer = Bytewise(accepted).buffer
<1>1. data = <<>> /\ t = <<>>
  BY DEF WriterInv, Taken
<1>2. s \o <<>> = s
  BY Together
<1>3. Bytewise(s).buffer \o <<>> = Bytewise(s).buffer
  BY Together DEF Taken
<1>4. accepted = s
  BY <1>1, <1>2 DEF Taken
<1> QED BY <1>1, <1>3, <1>4 DEF Taken

\* So a round of the loop keeps it.
LEMMA LoopKeepsSplit ==
  ASSUME WriterInv, NEW s \in Seq(Bytes), NEW t \in Seq(Bytes), Taken(s, t), Loop
  PROVE  \E s1, t1 \in Seq(Bytes) : Taken(s1, t1)'
<1>1. CASE WriteReturns
  <2>1. /\ t = <<>> /\ pc' = "idle"
        /\ UNCHANGED <<data, buffer, err, sent, accepted, flushed>>
    BY <1>1 DEF WriteReturns, Taken
  <2>2. Taken(s, t)'
    BY <2>1 DEF Taken
  <2> QED BY <2>2
<1> QED BY <1>1, FillKeepsSplit, SendLineKeepsSplit, ScanEndsKeepsSplit, SendChunkKeepsSplit DEF Loop

\* A write only adds to the next bytes.
LEMMA WriteKeepsSplit ==
  ASSUME WriterInv, NEW s \in Seq(Bytes), NEW t \in Seq(Bytes), Taken(s, t),
         NEW d \in Seq(Bytes), Write(d)
  PROVE  Taken(s, t)'
<1>1. /\ pc = "idle" /\ data' = d /\ accepted' = accepted \o d /\ pc' = "fill"
      /\ UNCHANGED <<buffer, err, sent, flushed>>
  BY DEF Write
<1>2. s = accepted /\ t = <<>>
  BY <1>1, TakenBetweenWrites
<1>3. s \o t = s
  BY <1>2, Together
<1>4. accepted' = (s \o t) \o data'
  BY <1>1, <1>2, <1>3
<1> QED BY <1>1, <1>2, <1>4 DEF Taken

\* flush() sends what is left.
LEMMA FlushSplits ==
  ASSUME WriterInv, NEW s \in Seq(Bytes), NEW t \in Seq(Bytes), Taken(s, t), Flush
  PROVE  SplitInv'
<1>1. /\ pc = "idle" /\ pc' = "idle" /\ buffer' = <<>> /\ flushed' /\ accepted' = accepted
      /\ sent' = IF buffer = <<>> THEN sent ELSE Append(sent, buffer)
  BY DEF Flush
<1>2. sent = Bytewise(accepted).sent /\ buffer = Bytewise(accepted).buffer
  BY <1>1, TakenBetweenWrites
<1>3. sent \in Seq(Seq(Bytes)) /\ buffer \in Seq(Bytes)
  BY DEF WriterInv, TypeOK
<1>4. sent \o <<>> = sent /\ sent \o <<buffer>> = Append(sent, buffer)
  <2>1. sent \o <<>> = sent
    BY <1>3, ConcatEmptySeq
  <2>2. sent \o <<buffer>> = Append(sent, buffer)
    BY <1>3
  <2> QED BY <2>1, <2>2
<1>5. SplitIndependent'
  BY <1>1, <1>2, <1>4 DEF SplitIndependent
<1> QED BY <1>1, <1>5 DEF SplitInv

\* Every step keeps SplitInv; after flush() there is none.
LEMMA SplitStep ==
  ASSUME WriterInv, SplitInv, [Next]_vars
  PROVE  SplitInv'
<1>1. CASE UNCHANGED vars
  BY <1>1 DEF vars, SplitInv, SplitIndependent
<1>2. CASE flushed /\ Next
  BY <1>2 DEF Next, Loop, Write, WriteFails, Flush, Fill, WriteReturns, SendLine, ScanEnds,
              SendChunk, SplitInv
<1>3. CASE ~flushed /\ Next
  <2>1. PICK s \in Seq(Bytes), t \in Seq(Bytes) : Taken(s, t)
    BY <1>3, TakenIsSplit
  <2>2. ASSUME ~flushed', NEW s1 \in Seq(Bytes), NEW t1 \in Seq(Bytes), Taken(s1, t1)'
        PROVE  SplitInv'
    BY <2>2 DEF SplitInv, Taken
  <2>3. ASSUME NEW n \in 1..(MaxInput - Len(accepted)), NEW d \in [1..n -> Bytes], Write(d)
        PROVE  SplitInv'
    <3>1. d \in Seq(Bytes)
      BY DEF WriterInv, TypeOK
    <3>2. ~flushed'
      BY <2>3 DEF Write
    <3> QED BY <2>1, <2>2, <2>3, <3>1, <3>2, WriteKeepsSplit
  <2>4. CASE WriteFails
    <3>1. Taken(s, t)' /\ ~flushed'
      BY <2>1, <2>4 DEF WriteFails, Taken
    <3> QED BY <2>2, <3>1
  <2>5. CASE Loop
    <3>1. ~flushed'
      BY <1>3, <2>5 DEF Loop, Fill, WriteReturns, SendLine, ScanEnds, SendChunk
    <3> QED BY <2>1, <2>2, <2>5, <3>1, LoopKeepsSplit
  <2>6. CASE Flush
    BY <2>1, <2>6, FlushSplits
  <2> QED BY <1>3, <2>3, <2>4, <2>5, <2>6 DEF Next
<1> QED BY <1>1, <1>2, <1>3

\* At every step the messages sent are those of the first bytes one by one, and the
\* buffer holds what comes next: see SplitInv.
THEOREM SplitInvariant == Spec => []SplitInv
<1>1. Init => SplitInv
  <2> SUFFICES ASSUME Init PROVE SplitInv
    OBVIOUS
  <2>1. <<>> \in Seq(Bytes) /\ Len(<<>>) = 0 /\ (<<>> \o <<>>) \o <<>> = <<>> /\ <<>> \o <<>> = <<>>
    BY Together
  <2>2. Bytewise(<<>>).sent = <<>> /\ Bytewise(<<>>).buffer = <<>>
    BY BytewiseEquations DEF Nothing
  <2>3. Newlines(<<>>) = {} /\ 0 < MaxChunk
    BY ChunkAssumption DEF Newlines, UTFMax
  <2> QED BY <2>1, <2>2, <2>3 DEF Init, SplitInv
<1> QED BY <1>1, SplitStep, WriterInvariant, PTL DEF Spec

\* What is published depends on the bytes written only, not on how they come divided
\* into writes, whatever the size of the buffer: see SplitIndependent.
THEOREM OutputIsSplitIndependent == Spec => []SplitIndependent
<1>1. ASSUME WriterInv, SplitInv
      PROVE  SplitIndependent
  <2>1. CASE flushed
    BY <1>1, <2>1 DEF SplitInv
  <2>2. CASE ~flushed
    <3>1. PICK s \in Seq(Bytes), t \in Seq(Bytes) : Taken(s, t)
      BY <1>1, <2>2, TakenIsSplit
    <3>2. pc = "idle" => sent = Bytewise(accepted).sent /\ buffer = Bytewise(accepted).buffer
      BY <1>1, <3>1, TakenBetweenWrites
    <3> QED BY <2>2, <3>2 DEF SplitIndependent
  <2> QED BY <2>1, <2>2
<1> QED BY <1>1, WriterInvariant, SplitInvariant, PTL

\* No round of the loop of Write leaves everything as it was, and the measure that
\* goes down is a pair of numbers, so that a Write whose loop is never left standing
\* returns: see LoopAdvances.
THEOREM LoopAlwaysAdvances == Spec => LoopAdvances
<1> DEFINE Advance == \/ Len(data') < Len(data)
                      \/ data' = data /\ Remaining' < Remaining
<1>1. ASSUME WriterInv, Loop
      PROVE  Advance
  <2> USE ChunkAssumption DEF UTFMax
  <2>1. CASE Fill
    <3> DEFINE room == MaxChunk - Len(buffer)
               count == IF Len(data) < room THEN Len(data) ELSE room
    <3>1. data \in Seq(Bytes) /\ Len(data) \in Nat /\ Len(data) >= 1
      BY <1>1, <2>1 DEF Fill, WriterInv, TypeOK
    <3>2. count \in 1..Len(data)
      BY <1>1, <2>1, <3>1 DEF Fill, WriterInv, TypeOK, Bounded
    <3>3. data' = From(data, count + 1)
      BY <2>1 DEF Fill
    <3> HIDE DEF count
    <3>4. Len(data') = Len(data) - count
      BY <3>1, <3>2, <3>3, Pieces
    <3> QED BY <3>1, <3>2, <3>4
  <2>2. CASE WriteReturns
    BY <2>2 DEF WriteReturns, Remaining
  <2>3. CASE SendLine
    <3>1. PICK n \in Newlines(buffer) :
            pc = "scan" /\ pc' = "scan" /\ data' = data /\ buffer' = From(buffer, n + 1)
      BY <2>3 DEF SendLine
    <3>2. n \in 1..Len(buffer) /\ buffer \in Seq(Bytes) /\ Len(buffer) \in Nat
      BY <1>1 DEF Newlines, WriterInv, TypeOK
    <3>3. Len(buffer') = Len(buffer) - n
      BY <3>1, <3>2, Pieces
    <3> QED BY <3>1, <3>2, <3>3 DEF Remaining
  <2>4. CASE ScanEnds
    <3>1. pc = "scan" /\ pc' \in {"cut", "fill"} /\ data' = data
      BY <2>4 DEF ScanEnds
    <3>2. Len(buffer) \in Nat
      BY <1>1 DEF WriterInv, TypeOK
    <3> QED BY <3>1, <3>2 DEF Remaining
  <2>5. CASE SendChunk
    BY <2>5 DEF SendChunk, Remaining
  <2> QED BY <1>1, <2>1, <2>2, <2>3, <2>4, <2>5 DEF Loop
<1> HIDE DEF Advance
<1>2. WriterInv /\ [Next]_vars => [Loop => Advance]_vars
  BY <1>1
<1> QED BY <1>2, WriterInvariant, PTL DEF Spec, LoopAdvances, Advance
=============================================================================
