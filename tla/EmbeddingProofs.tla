--------------------------- MODULE EmbeddingProofs ---------------------------
(***************************************************************************)
(* Proofs about chunk_text for every content, chunk_size and chunk_overlap, *)
(* about a call of a provider for any number of texts and attempts, and     *)
(* about the way from a content to its vectors that they make together.     *)
(*                                                                         *)
(* The loop invariant speaks of consecutive chunks: each starts Step lines  *)
(* behind the one before it, all but the last are chunk_size lines long,    *)
(* and the lines before start are covered.                                  *)
(***************************************************************************)
EXTENDS Embedding, SequenceTheorems, FiniteSetTheorems, FunctionTheorems, TLAPS

Chunks == [first : Nat, last : Nat]

Typed ==
    /\ total \in Nat /\ size \in Nat /\ overlap \in Nat /\ blank \in BOOLEAN
    /\ pc \in {"guards", "loop", "done"}
    /\ start \in Nat
    /\ chunks \in Seq(Chunks)

Covered(n) == \A l \in 1..n : \E i \in DOMAIN chunks : chunks[i].first <= l /\ l <= chunks[i].last

\* What the windows are, one by one and pair by pair.
WindowsFit ==
    /\ \A i \in DOMAIN chunks :
          1 <= chunks[i].first /\ chunks[i].last <= total /\ chunks[i].last - chunks[i].first < size
    /\ \A i \in 1..Len(chunks) - 1 :
          /\ chunks[i + 1].first = chunks[i].first + Step
          /\ chunks[i].last = chunks[i].first + size - 1
          /\ chunks[i].last < chunks[i + 1].last

\* Where the loop stands.
Progress ==
    /\ total > size
    /\ start = 0 <=> chunks = <<>>
    /\ chunks # <<>> =>
          /\ start = chunks[Len(chunks)].first - 1 + Step
          /\ chunks[Len(chunks)].last = chunks[Len(chunks)].first + size - 1
          /\ chunks[Len(chunks)].last < total
    /\ Covered(start)

\* With a size of 0 a window is empty and the loop goes on by one line.
ZeroFits ==
    size = 0 /\ ~blank =>
        /\ total > 0
        /\ pc = "loop" => start = Len(chunks) /\ start <= total
        /\ pc = "done" => Len(chunks) = total
        /\ \A i \in 1..Len(chunks) : chunks[i] = Chunk(i, i - 1)

ChunkingInv ==
    /\ Typed
    /\ ZeroFits
    /\ pc = "guards" => start = 0 /\ chunks = <<>>
    /\ size > 0 /\ ~blank => /\ WindowsFit
                             /\ pc = "loop" => Progress
                             /\ pc = "done" => Covered(total)
-----------------------------------------------------------------------------
\* Step is a positive number and a window is never shorter than it.
LEMMA StepFacts ==
    ASSUME size \in Nat, overlap \in Nat
    PROVE  Step \in Nat \ {0} /\ (size > 0 => Step <= size)
BY DEF Step

\* The cut end of a window.
LEMMA EndFacts ==
    ASSUME size \in Nat, total \in Nat, start \in Nat, start < total
    PROVE  /\ End \in Nat /\ End <= total /\ End - start <= size
           /\ End # total => End = start + size
           /\ size > 0 => start < End
BY DEF End

\* Appending a chunk keeps the chunks before it.
LEMMA Appended ==
    ASSUME NEW s \in Seq(Chunks), NEW c \in Chunks
    PROVE  /\ Append(s, c) \in Seq(Chunks)
           /\ Append(s, c) # <<>>
           /\ Len(Append(s, c)) = Len(s) + 1
           /\ Len(s) \in Nat
           /\ DOMAIN s = 1..Len(s)
           /\ DOMAIN Append(s, c) = 1..Len(s) + 1
           /\ \A i \in 1..Len(s) : Append(s, c)[i] = s[i]
           /\ Append(s, c)[Len(s) + 1] = c
BY AppendProperties

\* The window that begins at start reaches beyond one that begins Step lines before it.
LEMMA Reaches ==
    ASSUME NEW f \in Nat, NEW l \in Nat, NEW st \in Nat \ {0}, NEW s \in Nat, NEW e \in Nat,
           NEW sz \in Nat, NEW t \in Nat,
           s = f - 1 + st, l = f + sz - 1, l < t, e # t => e = s + sz
    PROVE  l < e /\ s + 1 = f + st
OBVIOUS

\* The chunks of a sequence and their ends.
LEMMA ChunkFacts ==
    ASSUME NEW s \in Seq(Chunks), NEW i \in DOMAIN s
    PROVE  s[i].first \in Nat /\ s[i].last \in Nat
<1>1. DOMAIN s = 1..Len(s)
    OBVIOUS
<1>2. s[i] \in Chunks
    BY <1>1, ElementOfSeq
<1> QED BY <1>2 DEF Chunks

LEMMA InitInv == Init => ChunkingInv
BY NumbersAssumption DEF Init, ChunkingInv, Typed, ZeroFits, WindowsFit, input

\* One pass through the loop.
LEMMA WindowInv == ASSUME ChunkingInv, Window PROVE ChunkingInv'
<1> DEFINE c == Chunk(start + 1, End)
<1>1. /\ pc = "loop" /\ start < total /\ chunks' = Append(chunks, c)
      /\ UNCHANGED <<total, blank, size, overlap>>
      /\ \/ LastWindow /\ pc' = "done" /\ start' = start
         \/ ~LastWindow /\ start' = start + Step /\ pc' = "loop"
    BY DEF Window, input
<1>2. Typed
    BY DEF ChunkingInv
<1>3. /\ total \in Nat /\ size \in Nat /\ overlap \in Nat /\ start \in Nat /\ blank \in BOOLEAN
      /\ chunks \in Seq(Chunks)
    BY <1>2 DEF Typed
<1>4. Step \in Nat \ {0} /\ (size > 0 => Step <= size)
    BY <1>3, StepFacts
<1>5. /\ End \in Nat /\ End <= total /\ End - start <= size
      /\ End # total => End = start + size
      /\ size > 0 => start < End
    BY <1>1, <1>3, EndFacts
<1>6. c \in Chunks /\ c.first = start + 1 /\ c.last = End
    BY <1>3, <1>5 DEF Chunk, Chunks
<1>7. Step' = Step
    BY <1>1 DEF Step
<1>8. Typed'
  <2>1. chunks' \in Seq(Chunks)
      BY <1>1, <1>3, <1>6, Appended
  <2>2. start' \in Nat /\ pc' \in {"guards", "loop", "done"}
      BY <1>1, <1>3, <1>4
  <2> QED BY <2>1, <2>2, <1>1, <1>3 DEF Typed
<1>9. ASSUME size > 0, ~blank
      PROVE  WindowsFit' /\ (pc' = "loop" => Progress') /\ (pc' = "done" => Covered(total)')
  <2> HIDE DEF c
  <2>1. WindowsFit /\ Progress
      BY <1>1, <1>9 DEF ChunkingInv
  <2> DEFINE n == Len(chunks)
  <2>2. /\ n \in Nat /\ Len(chunks') = n + 1
        /\ DOMAIN chunks = 1..n /\ DOMAIN chunks' = 1..n + 1
        /\ \A i \in 1..n : chunks'[i] = chunks[i]
        /\ chunks'[n + 1] = c
        /\ chunks' # <<>>
      BY <1>1, <1>3, <1>6, Appended
  <2>3. chunks # <<>> => n > 0
      BY <2>2, <1>3, EmptySeq
  <2>4. n = 0 => chunks = <<>>
      BY <1>3, EmptySeq
  <2>5. \A i \in 1..n : chunks[i] \in Chunks
      BY <1>3, <2>2, ElementOfSeq
  <2> HIDE DEF n
  <2>6. \A i \in 1..n : chunks[i].first \in Nat /\ chunks[i].last \in Nat
      BY <2>5 DEF Chunks
  <2>7. 1 <= c.first /\ c.last <= total /\ c.last - c.first < size
      BY <1>3, <1>5, <1>6, <1>9
  <2>8. \A i \in DOMAIN chunks' :
            1 <= chunks'[i].first /\ chunks'[i].last <= total /\ chunks'[i].last - chunks'[i].first < size
    <3> TAKE i \in DOMAIN chunks'
    <3>1. CASE i \in 1..n
      <4>1. 1 <= chunks[i].first /\ chunks[i].last <= total /\ chunks[i].last - chunks[i].first < size
          BY <2>1, <2>2, <3>1 DEF WindowsFit
      <4> QED BY <4>1, <2>2, <3>1
    <3>2. CASE i = n + 1
        BY <2>2, <2>7, <3>2
    <3> QED BY <2>2, <3>1, <3>2
  <2>9. ASSUME NEW i \in 1..n
        PROVE  /\ chunks'[i + 1].first = chunks'[i].first + Step
               /\ chunks'[i].last = chunks'[i].first + size - 1
               /\ chunks'[i].last < chunks'[i + 1].last
    <3>1. CASE i < n
      <4>1. i \in 1..n - 1 /\ i + 1 \in 1..n
          BY <2>2, <3>1
      <4>2. /\ chunks[i + 1].first = chunks[i].first + Step
            /\ chunks[i].last = chunks[i].first + size - 1
            /\ chunks[i].last < chunks[i + 1].last
          BY <2>1, <4>1 DEF WindowsFit, n
      <4> QED BY <4>1, <4>2, <2>2
    <3>2. CASE i = n
      <4>1. chunks # <<>>
          BY <3>2, <2>2, <2>9, EmptySeq DEF n
      <4>2. /\ start = chunks[n].first - 1 + Step
            /\ chunks[n].last = chunks[n].first + size - 1
            /\ chunks[n].last < total
          BY <2>1, <4>1 DEF Progress, n
      <4>3. chunks[n].first \in Nat /\ chunks[n].last \in Nat
          BY <2>6, <3>2
      <4>4. chunks'[n + 1] = c /\ chunks'[n] = chunks[n]
          BY <2>2, <2>9, <3>2
      <4>5. chunks[n].last < End /\ start + 1 = chunks[n].first + Step
        <5> DEFINE first == chunks[n].first
        <5> DEFINE line == chunks[n].last
        <5>1. /\ first \in Nat /\ line \in Nat
              /\ start = first - 1 + Step /\ line = first + size - 1 /\ line < total
            BY <4>2, <4>3
        <5> HIDE DEF first, line
        <5>2. End # total => End = start + size
            BY <1>5
        <5>3. line < End /\ start + 1 = first + Step
            BY <5>1, <5>2, <1>3, <1>4, <1>5, Reaches
        <5> QED BY <5>3 DEF first, line
      <4>6. c.first = chunks[n].first + Step
          BY <4>5, <1>6
      <4> QED BY <4>2, <4>4, <4>5, <4>6, <3>2, <1>6
    <3> QED BY <3>1, <3>2, <2>2
  <2>10. WindowsFit'
      BY <2>2, <2>8, <2>9, <1>1, <1>7 DEF WindowsFit
  <2>11. \A l \in 1..End : \E i \in DOMAIN chunks' : chunks'[i].first <= l /\ l <= chunks'[i].last
    <3> TAKE l \in 1..End
    <3>1. CASE l <= start
      <4>1. l \in 1..start
          BY <3>1, <1>3, <1>5
      <4>2. PICK i \in DOMAIN chunks : chunks[i].first <= l /\ l <= chunks[i].last
          BY <2>1, <4>1 DEF Progress, Covered
      <4> QED BY <4>2, <2>2
    <3>2. CASE l > start
      <4>1. n + 1 \in DOMAIN chunks'
          BY <2>2
      <4>2. start + 1 <= l /\ l <= End
          BY <3>2, <1>3, <1>5
      <4> QED BY <4>1, <4>2, <2>2, <1>6
    <3> QED BY <3>1, <3>2, <1>3, <1>5
  <2>12. CASE LastWindow
    <3>1. End = total /\ pc' = "done"
        BY <2>12, <1>1 DEF LastWindow
    <3>2. Covered(total)'
        BY <2>11, <3>1, <1>1 DEF Covered
    <3> QED BY <2>10, <3>1, <3>2
  <2>13. CASE ~LastWindow
    <3>1. End = start + size /\ End < total /\ start' = start + Step /\ pc' = "loop"
        BY <2>13, <1>1, <1>3, <1>5 DEF LastWindow
    <3>2. Covered(start)'
      <4>1. start' \in Nat /\ start' <= End
          BY <3>1, <1>3, <1>4, <1>5, <1>9
      <4>2. \A l \in 1..start' : l \in 1..End
          BY <4>1, <1>5
      <4> QED BY <2>11, <4>2 DEF Covered
    <3>3. start' # 0
        BY <3>1, <1>3, <1>4
    <3>4. /\ chunks'[n + 1].first = start + 1
          /\ chunks'[n + 1].last = End
        BY <2>2, <1>6
    <3>5. total > size
        BY <2>1 DEF Progress
    <3>6. /\ start' = chunks'[Len(chunks')].first - 1 + Step
          /\ chunks'[Len(chunks')].last = chunks'[Len(chunks')].first + size - 1
          /\ chunks'[Len(chunks')].last < total
        BY <2>2, <3>1, <3>4, <1>3, <1>4
    <3>7. Progress'
        BY <2>2, <3>2, <3>3, <3>5, <3>6, <1>1, <1>7 DEF Progress
    <3> QED BY <2>10, <3>1, <3>7
  <2> QED BY <2>12, <2>13
<1>10. ASSUME size = 0, ~blank
       PROVE  ZeroFits'
  <2> HIDE DEF c
  <2>1. /\ total > 0 /\ start = Len(chunks) /\ start <= total
        /\ \A i \in 1..Len(chunks) : chunks[i] = Chunk(i, i - 1)
      BY <1>1, <1>10 DEF ChunkingInv, ZeroFits
  <2>2. /\ Len(chunks) \in Nat /\ Len(chunks') = Len(chunks) + 1
        /\ \A i \in 1..Len(chunks) : chunks'[i] = chunks[i]
        /\ chunks'[Len(chunks) + 1] = c
      BY <1>1, <1>3, <1>6, Appended
  <2>3. End = start /\ Step = 1
      BY <1>1, <1>3, <1>10 DEF End, Step
  <2>4. start' = start + 1 /\ pc' = "loop"
      BY <1>1, <1>3, <2>3 DEF LastWindow
  <2>5. c = Chunk(start + 1, (start + 1) - 1)
      BY <1>3, <2>3 DEF c
  <2>6. \A i \in 1..Len(chunks') : chunks'[i] = Chunk(i, i - 1)
    <3> TAKE i \in 1..Len(chunks')
    <3>1. i \in 1..Len(chunks) \/ i = Len(chunks) + 1
        BY <2>2
    <3>2. CASE i \in 1..Len(chunks)
        BY <3>2, <2>1, <2>2
    <3>3. CASE i = Len(chunks) + 1
        BY <3>3, <2>1, <2>2, <2>5
    <3> QED BY <3>1, <3>2, <3>3
  <2>7. total' > 0 /\ start' = Len(chunks') /\ start' <= total'
      BY <1>1, <1>3, <2>1, <2>2, <2>4
  <2> QED BY <2>4, <2>6, <2>7 DEF ZeroFits
<1>11. ZeroFits'
    BY <1>1, <1>10 DEF ZeroFits
<1> QED BY <1>1, <1>8, <1>9, <1>11 DEF ChunkingInv

\* Every step preserves the invariant.
LEMMA StepInv == ChunkingInv /\ [Next]_vars => ChunkingInv'
<1> SUFFICES ASSUME ChunkingInv, [Next]_vars PROVE ChunkingInv'
    OBVIOUS
<1>1. /\ Typed
      /\ total \in Nat /\ size \in Nat /\ overlap \in Nat /\ start \in Nat
      /\ chunks \in Seq(Chunks)
    BY DEF ChunkingInv, Typed
<1>2. CASE Blank
    BY <1>1, <1>2 DEF Blank, input, ChunkingInv, Typed, ZeroFits
<1>3. CASE Whole
  <2>1. /\ ~blank /\ total <= size /\ chunks' = <<Chunk(1, total)>> /\ pc' = "done" /\ start' = start
        /\ UNCHANGED <<total, blank, size, overlap>>
      BY <1>3 DEF Whole, input
  <2>2. Chunk(1, total) \in Chunks /\ Chunk(1, total).first = 1 /\ Chunk(1, total).last = total
      BY <1>1 DEF Chunk, Chunks
  <2>3. /\ chunks' \in Seq(Chunks) /\ Len(chunks') = 1 /\ DOMAIN chunks' = 1..1
        /\ chunks'[1] = Chunk(1, total)
      BY <2>1, <2>2
  <2>4. Typed'
      BY <2>1, <2>3, <1>1 DEF Typed
  <2>5. size > 0 => WindowsFit'
      BY <2>1, <2>2, <2>3, <1>1 DEF WindowsFit
  <2>6. Covered(total)'
      BY <2>1, <2>2, <2>3, <1>1 DEF Covered
  <2>7. size # 0
      BY <2>1, <1>1 DEF ChunkingInv, ZeroFits
  <2> QED BY <2>1, <2>4, <2>5, <2>6, <2>7 DEF ChunkingInv, ZeroFits
<1>4. CASE Split
  <2>1. /\ ~blank /\ total > size /\ pc' = "loop" /\ start = 0 /\ chunks = <<>>
        /\ UNCHANGED <<total, blank, size, overlap, start, chunks>>
      BY <1>4 DEF Split, input, ChunkingInv
  <2>2. Typed' /\ (WindowsFit => WindowsFit')
      BY <2>1, <1>1 DEF Typed, WindowsFit, Step
  <2>3. Progress'
      BY <2>1, <1>1 DEF Progress, Covered
  <2>4. ZeroFits'
      BY <2>1, <1>1 DEF ChunkingInv, ZeroFits
  <2> QED BY <2>1, <2>2, <2>3, <2>4 DEF ChunkingInv
<1>5. CASE Window
    BY <1>5, WindowInv
<1>6. CASE Leave
  <2>1. /\ pc = "loop" /\ ~(start < total) /\ pc' = "done"
        /\ UNCHANGED <<total, blank, size, overlap, start, chunks>>
      BY <1>6 DEF Leave, input
  <2>2. Typed' /\ (WindowsFit => WindowsFit')
      BY <2>1, <1>1 DEF Typed, WindowsFit, Step
  <2>3. Covered(start) => Covered(total)'
      BY <2>1, <1>1 DEF Covered
  <2>4. ZeroFits'
    <3>1. Len(chunks) \in Nat
        BY <1>1
    <3>2. size = 0 /\ ~blank => Len(chunks) = total
        BY <2>1, <1>1, <3>1 DEF ChunkingInv, ZeroFits
    <3> QED BY <2>1, <3>2 DEF ChunkingInv, ZeroFits
  <2> QED BY <2>1, <2>2, <2>3, <2>4 DEF ChunkingInv, Progress
<1>7. CASE UNCHANGED vars
  <2>1. UNCHANGED <<total, blank, size, overlap, pc, start, chunks>>
      BY <1>7 DEF vars, input
  <2> QED BY <2>1, <1>1 DEF ChunkingInv, Typed, ZeroFits, WindowsFit, Step, Progress, Covered
<1> QED BY <1>2, <1>3, <1>4, <1>5, <1>6, <1>7 DEF Next

\* The loop invariant holds throughout.
THEOREM LoopInvariant == Spec => []ChunkingInv
BY InitInv, StepInv, PTL DEF Spec
-----------------------------------------------------------------------------
\* start, the ends of the chunks and the step stay natural numbers: the guarded
\* subtraction of chunk_text never falls below zero.
THEOREM TypeCorrect == Spec => []TypeOK
<1>1. ChunkingInv => TypeOK
    BY DEF ChunkingInv, Typed, Chunks, TypeOK
<1> QED BY <1>1, LoopInvariant, PTL

\* What the loop invariant says of the chunks that are returned.
LEMMA InvCovers == ChunkingInv => EveryLineCovered
BY DEF ChunkingInv, EveryLineCovered, Returned, Covered, Typed

LEMMA InvAdvances == ChunkingInv => ChunksAdvance
<1> SUFFICES ASSUME ChunkingInv, Returned PROVE ChunksAdvance
    BY DEF ChunksAdvance
<1>1. /\ WindowsFit /\ size \in Nat /\ overlap \in Nat /\ chunks \in Seq(Chunks)
    BY DEF ChunkingInv, Returned, Typed
<1>2. Step \in Nat \ {0}
    BY <1>1, StepFacts
<1>3. \A i \in DOMAIN chunks : chunks[i].first \in Nat
    BY <1>1, ChunkFacts
<1>4. \A i \in 1..Len(chunks) - 1 : i \in DOMAIN chunks /\ i + 1 \in DOMAIN chunks
    BY <1>1
<1>5. \A i \in 1..Len(chunks) - 1 : chunks[i].first < chunks[i + 1].first
    BY <1>1, <1>2, <1>3, <1>4 DEF WindowsFit
<1> QED BY <1>1, <1>5 DEF WindowsFit, ChunksAdvance

LEMMA InvOverlaps == ChunkingInv => OverlapIsKept
<1> SUFFICES ASSUME ChunkingInv, Returned, NEW i \in 1..Len(chunks) - 1
             PROVE  chunks[i].last - chunks[i + 1].first + 1
                        = IF overlap < size THEN overlap ELSE size - 1
    BY DEF OverlapIsKept
<1>1. /\ WindowsFit /\ size \in Nat /\ overlap \in Nat /\ chunks \in Seq(Chunks)
    BY DEF ChunkingInv, Returned, Typed
<1>2. i \in DOMAIN chunks
    BY <1>1
<1>3. chunks[i].first \in Nat
    BY <1>1, <1>2, ChunkFacts
<1>4. /\ chunks[i + 1].first = chunks[i].first + Step
      /\ chunks[i].last = chunks[i].first + size - 1
    BY <1>1 DEF WindowsFit
<1>5. Step \in Nat /\ size \in Nat
    BY <1>1, StepFacts
<1>6. chunks[i].last - chunks[i + 1].first + 1 = size - Step
    BY <1>3, <1>4, <1>5
<1> QED BY <1>1, <1>6 DEF Step

\* An empty chunk for every line, and no other, where chunk_size is 0.
LEMMA InvZero == ChunkingInv => EmptyForZero
<1> SUFFICES ASSUME ChunkingInv, pc = "done", ~blank, size = 0 PROVE EmptyForZero
    BY DEF EmptyForZero
<1> QED BY DEF ChunkingInv, ZeroFits, EmptyForZero

\* For every content that is not blank and every chunk_size above zero, whatever
\* chunk_overlap, chunk_text leaves no line out.
THEOREM AllLinesCovered == Spec => []EveryLineCovered
BY InvCovers, LoopInvariant, PTL

\* Its chunks are no longer than chunk_size and each brings a new line.
THEOREM AlwaysAdvance == Spec => []ChunksAdvance
BY InvAdvances, LoopInvariant, PTL

\* Neighbouring chunks share exactly chunk_overlap lines, or all but one.
THEOREM AlwaysOverlap == Spec => []OverlapIsKept
BY InvOverlaps, LoopInvariant, PTL

\* chunk_text leaves no line out, makes no useless chunk and keeps the overlap, for any
\* content, size above zero and overlap; for size zero its chunks are empty, one a line.
THEOREM AlwaysFit == Spec => []ChunksFit
<1>1. ChunkingInv => ChunksFit
    BY InvCovers, InvAdvances, InvOverlaps, InvZero DEF ChunksFit
<1> QED BY <1>1, LoopInvariant, PTL
-----------------------------------------------------------------------------
(* The order of the embeddings.                                             *)

\* Of n different numbers up to n each occurs.
LEMMA OrderReaches ==
  ASSUME NEW n \in Nat, NEW p \in Orders(n)
  PROVE  p \in [1..n -> 1..n] /\ \A k \in 1..n : \E i \in 1..n : p[i] = k
<1>1. p \in [1..n -> 1..n] /\ \A a, b \in 1..n : p[a] = p[b] => a = b
  BY DEF Orders
<1>2. p \in Injection(1..n, 1..n)
  BY <1>1, Fun_IsInj
<1>3. IsFiniteSet(1..n)
  BY FS_Interval
<1>4. p \in Surjection(1..n, 1..n)
  BY <1>2, <1>3, FS_Injection
<1>5. \A k \in 1..n : \E i \in 1..n : p[i] = k
  BY ONLY <1>4, Fun_SurjectionProperties
<1> QED BY <1>1, <1>5

\* As many of them are below p[i] as there are numbers below it.
LEMMA OrderRank ==
  ASSUME NEW n \in Nat, NEW p \in Orders(n), NEW i \in 1..n
  PROVE  Cardinality({j \in 1..n : p[j] < p[i]}) = p[i] - 1
<1> DEFINE J == {j \in 1..n : p[j] < p[i]}
           f == [j \in J |-> p[j]]
           k == p[i] - 1
<1>1. /\ p \in [1..n -> 1..n] /\ \A a, b \in 1..n : p[a] = p[b] => a = b
      /\ \A m \in 1..n : \E j \in 1..n : p[j] = m
  BY OrderReaches DEF Orders
<1>2. k \in Nat /\ k \in Int /\ 1 \in Int /\ k < n /\ \A j \in J : p[j] \in 1..k
  <2>1. p[i] \in 1..n /\ \A j \in J : p[j] \in 1..n /\ p[j] < p[i]
    BY <1>1
  <2>2. k \in Nat /\ k < n /\ \A m \in 1..n : m < p[i] => m \in 1..k
    BY <2>1
  <2> HIDE DEF k, J
  <2> QED BY <2>1, <2>2
<1>3. f \in [J -> 1..k] /\ \A a, b \in J : f[a] = f[b] => a = b
  BY <1>1, <1>2
<1>4. \A m \in 1..k : \E j \in J : f[j] = m
  <2> TAKE m \in 1..k
  <2>1. m \in 1..n /\ m < p[i]
    BY <1>1, <1>2
  <2>2. PICK j \in 1..n : p[j] = m
    BY <1>1, <2>1
  <2>3. j \in J
    BY <2>1, <2>2
  <2>4. f[j] = m
    BY <2>2, <2>3
  <2> HIDE DEF f, J
  <2> QED BY <2>3, <2>4
<1> HIDE DEF f, J, k
<1>5. f \in Bijection(J, 1..k)
  BY <1>3, <1>4, Fun_IsBij
<1>6. ExistsBijection(J, 1..k)
  BY <1>5 DEF ExistsBijection
<1>7. IsFiniteSet(J)
  <2>1. IsFiniteSet(1..n) /\ J \in SUBSET (1..n)
    BY FS_Interval DEF J
  <2> QED BY <2>1, FS_Subset
<1>8. Cardinality(1..k) = Cardinality(J)
  BY <1>6, <1>7, FS_Bijection
<1>9. Cardinality(1..k) = k
  BY <1>2, FS_Interval
<1> QED BY <1>8, <1>9 DEF J, k
\* The identity is an order.
LEMMA InOrder ==
  ASSUME NEW n \in Nat
  PROVE  [i \in 1..n |-> i] \in Orders(n)
BY DEF Orders

Vectors == [of : Nat, dim : Nat, finite : BOOLEAN]
Items == [index : Nat, embedding : Vectors]

\* Where the items before an item are as many as an order says, sorting puts it there.
LEMMA SortedBy ==
  ASSUME NEW n \in Nat, NEW p \in Orders(n), NEW d \in [1..n -> Items],
         \A i \in 1..n : Cardinality(Before(d, i)) = p[i] - 1 /\ d[i].embedding.of = p[i]
  PROVE  /\ Sorted(d) \in [1..n -> Vectors]
         /\ \A r \in 1..n : Sorted(d)[r].of = r
<1> DEFINE at(r) == CHOOSE i \in DOMAIN d : Cardinality(Before(d, i)) = r - 1
<1>1. Sorted(d) = [r \in 1..n |-> d[at(r)].embedding]
  BY DEF Sorted
<1>2. ASSUME NEW r \in 1..n PROVE at(r) \in 1..n /\ p[at(r)] = r
  <2>1. PICK i \in 1..n : p[i] = r
    BY OrderReaches
  <2>2. \E k \in DOMAIN d : Cardinality(Before(d, k)) = r - 1
    BY <2>1
  <2>3. at(r) \in DOMAIN d /\ Cardinality(Before(d, at(r))) = r - 1
    BY <2>2
  <2> HIDE DEF at
  <2>4. at(r) \in 1..n /\ p[at(r)] - 1 = r - 1
    BY <2>3
  <2>5. p[at(r)] \in 1..n
    BY <2>4, OrderReaches
  <2> QED BY <2>4, <2>5
<1> HIDE DEF at
<1>3. ASSUME NEW r \in 1..n PROVE d[at(r)].embedding \in Vectors /\ d[at(r)].embedding.of = r
  BY <1>2, <1>3 DEF Items
<1> QED BY <1>1, <1>3
\* Whatever a service answers, sorting gives each text its own vector.
LEMMA ResponsesSorted ==
  ASSUME NEW n \in Nat, NEW d \in Responses(n)
  PROVE  /\ d \in [1..n -> Items]
         /\ Sorted(d) \in [1..n -> Vectors]
         /\ \A r \in 1..n : Sorted(d)[r].of = r
<1> DEFINE id == [i \in 1..n |-> i]
<1>1. id \in Orders(n)
  BY InOrder
<1>2. ASSUME NEW i \in 1..n PROVE Cardinality({j \in 1..n : j < i}) = i - 1
  <2>1. {j \in 1..n : id[j] < id[i]} = {j \in 1..n : j < i}
    OBVIOUS
  <2>2. Cardinality({j \in 1..n : id[j] < id[i]}) = id[i] - 1
    BY <1>1, OrderRank
  <2> QED BY <2>1, <2>2
<1>3. CASE \E p \in Orders(n) : d = [i \in 1..n |-> Item(p[i] - 1, Vector(p[i], 2, TRUE))]
  <2>1. PICK p \in Orders(n) : d = [i \in 1..n |-> Item(p[i] - 1, Vector(p[i], 2, TRUE))]
    BY <1>3
  <2>2. p \in [1..n -> 1..n] /\ \A a, b \in 1..n : a # b => p[a] # p[b]
    BY DEF Orders
  <2>3. ASSUME NEW i \in 1..n PROVE d[i].index = p[i] - 1 /\ d[i].embedding.of = p[i]
    <3>1. d[i] = Item(p[i] - 1, Vector(p[i], 2, TRUE))
      BY <2>1
    <3>2. d[i].index = p[i] - 1 /\ d[i].embedding = Vector(p[i], 2, TRUE)
      BY <3>1 DEF Item
    <3>3. d[i].embedding.of = p[i]
      BY <3>2 DEF Vector
    <3> QED BY <3>2, <3>3
  <2>5. d \in [1..n -> Items]
    <3>1. ASSUME NEW i \in 1..n PROVE Item(p[i] - 1, Vector(p[i], 2, TRUE)) \in Items
      <4>1. p[i] \in Nat /\ p[i] - 1 \in Nat
        BY <2>2
      <4> QED BY <4>1 DEF Item, Vector, Items, Vectors
    <3> QED BY <2>1, <3>1
  <2>6. ASSUME NEW i \in 1..n PROVE Cardinality(Before(d, i)) = p[i] - 1
    <3>1. Before(d, i) = {j \in 1..n : p[j] < p[i]}
      <4>1. ASSUME NEW j \in 1..n
            PROVE  (\/ d[j].index < d[i].index
                    \/ d[j].index = d[i].index /\ j < i) <=> p[j] < p[i]
        <5>1. /\ d[j].index = p[j] - 1 /\ d[i].index = p[i] - 1
              /\ p[i] \in 1..n /\ p[j] \in 1..n /\ (j # i => p[j] # p[i])
          BY <2>2, <2>3
        <5>2. CASE j = i
          BY <5>1, <5>2
        <5>3. CASE j # i
          <6>1. p[i] # p[j] /\ p[i] \in Int /\ p[j] \in Int
            BY <5>1, <5>3
          <6> QED BY <5>1, <6>1
        <5> QED BY <5>2, <5>3
      <4>2. DOMAIN d = 1..n
        BY <2>5
      <4> QED BY <4>1, <4>2 DEF Before
    <3> QED BY <3>1, OrderRank
  <2> QED BY <2>3, <2>5, <2>6, SortedBy
<1>4. CASE d = [i \in 1..n |-> Item(0, Vector(i, 2, TRUE))]
  <2>1. d \in [1..n -> Items] /\ \A i \in 1..n : d[i].index = 0 /\ d[i].embedding.of = i
    BY <1>4 DEF Item, Vector, Items, Vectors
  <2>2. ASSUME NEW i \in 1..n
        PROVE  Cardinality(Before(d, i)) = id[i] - 1 /\ d[i].embedding.of = id[i]
    <3>1. Before(d, i) = {j \in 1..n : j < i}
      BY <2>1 DEF Before
    <3> QED BY <3>1, <2>1, <1>2
  <2> HIDE DEF id
  <2> QED BY <1>1, <2>1, <2>2, SortedBy
<1>5. CASE \E m \in 1..n : d \in Flawed(n, m)
  <2>1. PICK m \in 1..n, flaw \in {<<0, TRUE>>, <<3, TRUE>>, <<2, FALSE>>} :
              d = [i \in 1..n |-> Item(i - 1, IF i = m THEN Vector(i, flaw[1], flaw[2])
                                                      ELSE Vector(i, 2, TRUE))]
    BY <1>5 DEF Flawed
  <2>2. flaw[1] \in Nat /\ flaw[2] \in BOOLEAN
    <3>1. CASE flaw = <<0, TRUE>>
      BY <3>1
    <3>2. CASE flaw = <<3, TRUE>>
      BY <3>2
    <3>3. CASE flaw = <<2, FALSE>>
      BY <3>3
    <3> QED BY <3>1, <3>2, <3>3
  <2>3. d \in [1..n -> Items] /\ \A i \in 1..n : d[i].index = i - 1 /\ d[i].embedding.of = i
    BY <2>1, <2>2 DEF Item, Vector, Items, Vectors
  <2>4. ASSUME NEW i \in 1..n
        PROVE  Cardinality(Before(d, i)) = id[i] - 1 /\ d[i].embedding.of = id[i]
    <3>1. Before(d, i) = {j \in 1..n : j < i}
      BY <2>3 DEF Before
    <3> QED BY <3>1, <2>3, <1>2
  <2> HIDE DEF id
  <2> QED BY <1>1, <2>3, <2>4, SortedBy
<1>6. \/ d \in {[i \in 1..n |-> Item(p[i] - 1, Vector(p[i], 2, TRUE))] : p \in Orders(n)}
      \/ d = [i \in 1..n |-> Item(0, Vector(i, 2, TRUE))]
      \/ \E m \in 1..n : d \in Flawed(n, m)
  BY DEF Responses
<1> QED BY <1>3, <1>4, <1>5, <1>6
-----------------------------------------------------------------------------
(* A call of a provider.                                                    *)

Repeatable == {"timeout", "connect", "5xx", "429"}

\* The role whose key and URL a call of role r is made with.
OwnerOf(r, vs) == IF r = "chat" \/ vs.chat = vs.embedding THEN "chat" ELSE "embedding"

\* The provider was built with them.
EndpointFits == stage \notin {"idle", "failed"} => endpoint = Endpoint(OwnerOf(role, vendors))

\* There is another attempt only after an error that may pass, and one is left.
AttemptFits ==
    /\ stage = "idle" <=> role = "none"
    /\ stage = "idle" => attempt = 0
    /\ stage = "sent" => attempt > 0
    /\ stage = "ready" /\ attempt > 0 => last \in Repeatable /\ attempt < retries

\* What is known of the vectors, from the response to the check of Embedder.
VectorsFit ==
    /\ stage \in {"parsed", "sorted"} => role = "embed"
    /\ stage = "parsed" => data \in Responses(texts)
    /\ stage \in {"sorted", "done"} /\ role = "embed" =>
          Len(vectors) = texts /\ \A i \in 1..texts : vectors[i].of = i
    /\ stage = "done" /\ role = "embed" => Valid(vectors)

\* The chunks stay as they were when the call began, and each is stored with its vector.
PairsFit ==
    /\ blank => chunks = <<>> /\ pc # "loop"
    /\ role # "none" => pc = "done"
    /\ role = "embed" => texts = Len(chunks) /\ texts > 0
    /\ stored # <<>> =>
          /\ role = "embed" /\ stage = "done"
          /\ DOMAIN stored = DOMAIN chunks
          /\ \A i \in DOMAIN chunks :
                stored[i] = [chunk |-> chunks[i], embedding |-> vectors[i]]

CallInv == ProviderTypeOK /\ EndpointFits /\ AttemptFits /\ VectorsFit

EmbeddingInv == ChunkingInv /\ CallInv /\ PairsFit
-----------------------------------------------------------------------------
LEMMA CallInitInv == ProviderInit => CallInv
BY ProviderAssumption DEF ProviderInit, CallInv, ProviderTypeOK, EndpointFits, AttemptFits, VectorsFit

\* The providers are built from the endpoint of one role, or not at all.
LEMMA BuiltFits ==
  ASSUME NEW r \in {"chat", "embed"}, NEW chat \in Vendors, NEW embedding \in Vendors,
         NEW keys \in SUBSET Owners
  PROVE  /\ Built(r, chat, embedding, keys) \in {NoEndpoint, Endpoint("chat"), Endpoint("embedding")}
         /\ Built(r, chat, embedding, keys)
               \in {NoEndpoint, Endpoint(OwnerOf(r, [chat |-> chat, embedding |-> embedding]))}
<1>1. CASE chat = embedding
  BY <1>1 DEF Built, Shared, OwnerOf
<1>2. CASE chat # embedding
  BY <1>2 DEF Built, Shared, OwnerOf
<1> QED BY <1>1, <1>2

LEMMA EndpointTypes ==
  {NoEndpoint, Endpoint("chat"), Endpoint("embedding")} \subseteq {NoEndpoint} \cup [key : Owners, url : Owners]
BY DEF Endpoint, Owners

LEMMA BeginInv ==
  ASSUME CallInv, NEW r \in {"chat", "embed"}, NEW n \in Nat, Begin(r, n)
  PROVE  CallInv'
<1>1. /\ stage = "idle" /\ role' = r /\ texts' = n
      /\ stage' = IF endpoint' = NoEndpoint THEN "failed" ELSE "ready"
      /\ UNCHANGED <<retries, pin, attempt, last, data, vectors>>
  BY DEF Begin
<1>2. PICK chat \in Vendors, embedding \in Vendors, keys \in SUBSET Owners :
         /\ vendors' = [chat |-> chat, embedding |-> embedding]
         /\ endpoint' = Built(r, chat, embedding, keys)
  BY DEF Begin
<1>3. /\ endpoint' \in {NoEndpoint, Endpoint("chat"), Endpoint("embedding")}
      /\ endpoint' \in {NoEndpoint, Endpoint(OwnerOf(r, vendors'))}
  BY <1>2, BuiltFits
<1>4. ProviderTypeOK'
  <2>1. vendors' \in [chat : Vendors, embedding : Vendors]
    BY <1>2
  <2> QED BY <1>1, <1>3, <2>1, EndpointTypes DEF CallInv, ProviderTypeOK
<1>5. EndpointFits'
  BY <1>1, <1>3 DEF EndpointFits
<1>6. AttemptFits'
  BY <1>1 DEF CallInv, AttemptFits
<1>7. VectorsFit'
  BY <1>1 DEF VectorsFit
<1> QED BY <1>4, <1>5, <1>6, <1>7 DEF CallInv

\* Where max_retries is nought, the one attempt that is made leaves none.
LEMMA TriesLeft ==
  ASSUME CallInv, stage = "sent", attempt < (IF retries = 0 THEN 1 ELSE retries)
  PROVE  attempt < retries
<1>1. attempt \in Nat /\ attempt > 0 /\ retries \in Nat
  BY ProviderAssumption DEF CallInv, ProviderTypeOK, AttemptFits
<1>2. CASE retries = 0
  BY <1>1, <1>2
<1>3. CASE retries # 0
  BY <1>3
<1> QED BY <1>2, <1>3

\* An error leaves everything but the stage as it was.
LEMMA ErredInv ==
  ASSUME CallInv, stage = "sent",
         NEW outcome \in Transport \cup Status \cup {"count", "no choices"},
         last' = outcome, stage' = Retried(outcome),
         UNCHANGED <<role, texts, retries, pin, vendors, endpoint, attempt, data, vectors>>
  PROVE  CallInv'
<1>1. /\ stage' \in {"ready", "failed"}
      /\ stage' = "ready" => outcome \in Repeatable /\ attempt < (IF retries = 0 THEN 1 ELSE retries)
  BY DEF Retried, Transient, Repeatable
<1>2. stage' = "ready" => attempt < retries
  BY <1>1, TriesLeft
<1>3. stage' = "ready" => outcome \in Repeatable /\ attempt < retries
  BY <1>1, <1>2
<1>4. ProviderTypeOK'
  BY <1>1 DEF CallInv, ProviderTypeOK
<1>5. EndpointFits'
  BY <1>1 DEF CallInv, EndpointFits
<1>6. AttemptFits'
  BY <1>1, <1>3 DEF CallInv, AttemptFits
<1>7. VectorsFit'
  BY <1>1 DEF VectorsFit
<1> QED BY <1>4, <1>5, <1>6, <1>7 DEF CallInv
LEMMA SendInv == ASSUME CallInv, Send PROVE CallInv'
<1>1. /\ stage = "ready" /\ stage' = "sent" /\ attempt' = attempt + 1
      /\ UNCHANGED <<role, texts, retries, pin, vendors, endpoint, last, data, vectors>>
  BY DEF Send
<1>2. attempt' \in Nat /\ attempt' > 0
  <2>1. attempt \in Nat
    BY DEF CallInv, ProviderTypeOK
  <2> QED BY <1>1, <2>1
<1>3. ProviderTypeOK'
  BY <1>1, <1>2 DEF CallInv, ProviderTypeOK
<1>4. EndpointFits' /\ AttemptFits' /\ VectorsFit'
  BY <1>1, <1>2 DEF CallInv, EndpointFits, AttemptFits, VectorsFit
<1> QED BY <1>3, <1>4 DEF CallInv

LEMMA ChattedInv == ASSUME CallInv, Chatted PROVE CallInv'
<1>1. CASE last' = "no choices" /\ stage' = Retried("no choices")
  BY <1>1, ErredInv DEF Chatted
<1>2. CASE last' = "ok" /\ stage' = "done"
  <2>1. /\ role = "chat" /\ stage = "sent" /\ attempt' = attempt
        /\ UNCHANGED <<role, texts, retries, pin, vendors, endpoint, attempt, data, vectors>>
    BY DEF Chatted
  <2>2. ProviderTypeOK'
    BY <1>2, <2>1 DEF CallInv, ProviderTypeOK
  <2>3. EndpointFits' /\ AttemptFits' /\ VectorsFit'
    BY <1>2, <2>1 DEF CallInv, EndpointFits, AttemptFits, VectorsFit
  <2> QED BY <2>2, <2>3 DEF CallInv
<1> QED BY <1>1, <1>2 DEF Chatted

LEMMA EmbeddedInv == ASSUME CallInv, Embedded PROVE CallInv'
<1>1. PICK n \in (texts - 1)..(texts + 1) :
          IF n # texts
          THEN last' = "count" /\ stage' = Retried("count") /\ UNCHANGED data
          ELSE data' \in Responses(n) /\ last' = "ok" /\ stage' = "parsed"
  BY DEF Embedded
<1>2. /\ stage = "sent" /\ role = "embed"
      /\ UNCHANGED <<role, texts, retries, pin, vendors, endpoint, attempt, vectors>>
  BY DEF Embedded
<1>3. CASE n # texts
  BY <1>1, <1>2, <1>3, ErredInv
<1>4. CASE n = texts
  <2>1. data' \in Responses(texts) /\ last' = "ok" /\ stage' = "parsed"
    BY <1>1, <1>4
  <2>2. texts \in Nat
    BY DEF CallInv, ProviderTypeOK
  <2>3. data' \in [1..texts -> Items]
    BY <2>1, <2>2, ResponsesSorted
  <2>4. data' \in Seq(Items)
    BY <2>2, <2>3
  <2>5. ProviderTypeOK'
    BY <1>2, <2>1, <2>4 DEF CallInv, ProviderTypeOK, Items, Vectors
  <2>6. EndpointFits' /\ AttemptFits' /\ VectorsFit'
    BY <1>2, <2>1 DEF CallInv, EndpointFits, AttemptFits, VectorsFit
  <2> QED BY <2>5, <2>6 DEF CallInv
<1> QED BY <1>3, <1>4

LEMMA SortInv == ASSUME CallInv, Sort PROVE CallInv'
<1>1. /\ stage = "parsed" /\ stage' = "sorted" /\ data' = <<>> /\ vectors' = Sorted(data)
      /\ UNCHANGED <<role, texts, retries, pin, vendors, endpoint, attempt, last>>
  BY DEF Sort
<1>2. role = "embed" /\ texts \in Nat /\ data \in Responses(texts)
  BY <1>1 DEF CallInv, ProviderTypeOK, VectorsFit
<1>3. vectors' \in [1..texts -> Vectors] /\ \A r \in 1..texts : vectors'[r].of = r
  BY <1>1, <1>2, ResponsesSorted
<1>4. vectors' \in Seq(Vectors) /\ Len(vectors') = texts
  BY <1>2, <1>3
<1>5. ProviderTypeOK'
  <2>1. data' \in Seq([index : Nat, embedding : [of : Nat, dim : Nat, finite : BOOLEAN]])
    BY <1>1
  <2> QED BY <1>1, <1>4, <2>1 DEF CallInv, ProviderTypeOK, Vectors
<1>6. EndpointFits' /\ AttemptFits'
  BY <1>1 DEF CallInv, EndpointFits, AttemptFits
<1>7. VectorsFit'
  BY <1>1, <1>2, <1>3, <1>4 DEF VectorsFit
<1> QED BY <1>5, <1>6, <1>7 DEF CallInv

LEMMA ValidateInv == ASSUME CallInv, Validate PROVE CallInv'
<1>1. /\ stage = "sorted" /\ stage' = IF Valid(vectors) THEN "done" ELSE "failed"
      /\ UNCHANGED <<role, texts, retries, pin, vendors, endpoint, attempt, last, data, vectors>>
  BY DEF Validate
<1>2. ProviderTypeOK'
  BY <1>1 DEF CallInv, ProviderTypeOK
<1>3. EndpointFits' /\ AttemptFits'
  BY <1>1 DEF CallInv, EndpointFits, AttemptFits
<1>4. Valid(vectors)' <=> Valid(vectors)
  BY <1>1 DEF Valid
<1>5. VectorsFit'
  BY <1>1, <1>4 DEF CallInv, VectorsFit
<1> QED BY <1>2, <1>3, <1>5 DEF CallInv

\* A step of a call keeps what is known of it.
LEMMA CallStepInv == ASSUME CallInv, ProviderNext PROVE CallInv'
<1>1. CASE NoAnswer
  BY <1>1, ErredInv DEF NoAnswer, Erred
<1>2. CASE BadBody
  BY <1>2, ErredInv DEF BadBody, Erred, Transport
<1> QED BY <1>1, <1>2, SendInv, ChattedInv, EmbeddedInv, SortInv, ValidateInv DEF ProviderNext

LEMMA CallStutters == ASSUME CallInv, UNCHANGED providerVars PROVE CallInv'
<1>1. Valid(vectors)' <=> Valid(vectors)
  BY DEF providerVars, Valid
<1>2. ProviderTypeOK'
  BY DEF providerVars, CallInv, ProviderTypeOK
<1>3. EndpointFits' /\ AttemptFits'
  BY DEF providerVars, CallInv, EndpointFits, AttemptFits
<1>4. VectorsFit'
  BY <1>1 DEF providerVars, CallInv, VectorsFit
<1> QED BY <1>2, <1>3, <1>4 DEF CallInv
-----------------------------------------------------------------------------
(* From the content to its vectors.                                         *)

\* Cutting is a step of chunk_text, and nothing else moves its variables.
LEMMA StepsOfChunking == EmbeddingNext \/ UNCHANGED embeddingVars => [Next]_vars
BY DEF EmbeddingNext, Chunked, Embed, Synthesize, Call, Pair, embeddingVars

\* What a step does to the call.
LEMMA StepsOfCall ==
  ASSUME CallInv, ChunkingInv, [EmbeddingNext]_embeddingVars
  PROVE  CallInv'
<1>1. CASE Embed
  <2>1. Len(chunks) \in Nat /\ Begin("embed", Len(chunks))
    BY <1>1 DEF Embed
  <2>2. \E n \in Nat : Begin("embed", n)
    BY <2>1
  <2> QED BY <2>2, BeginInv
<1>2. CASE Synthesize
  BY <1>2, BeginInv DEF Synthesize
<1>3. CASE Call
  BY <1>3, CallStepInv DEF Call
<1>4. CASE Chunked \/ Pair \/ UNCHANGED embeddingVars
  BY <1>4, CallStutters DEF Chunked, Pair, embeddingVars
<1> QED BY <1>1, <1>2, <1>3, <1>4 DEF EmbeddingNext

LEMMA EmbeddingInitInv == EmbeddingInit => EmbeddingInv
BY InitInv, CallInitInv DEF EmbeddingInit, EmbeddingInv, Init, ProviderInit, PairsFit

LEMMA PairsStepInv ==
  ASSUME EmbeddingInv, [EmbeddingNext]_embeddingVars
  PROVE  PairsFit'
<1>1. CASE Chunked
  <2>1. pc # "done" /\ (blank' = blank) /\ UNCHANGED <<providerVars, stored>>
    BY <1>1 DEF Chunked, Next, Blank, Whole, Split, Window, Leave, input
  <2>2. role = "none" /\ stored = <<>>
    BY <2>1 DEF EmbeddingInv, PairsFit
  <2>3. (blank => chunks = <<>> /\ pc # "loop")'
    BY <1>1 DEF EmbeddingInv, PairsFit, Chunked, Next, Blank, Whole, Split, Window, Leave, input
  <2> QED BY <2>1, <2>2, <2>3 DEF PairsFit, providerVars
<1>2. CASE Embed
  <2>1. /\ pc = "done" /\ Len(chunks) \in 1..MaxTexts /\ stage = "idle"
        /\ role' = "embed" /\ texts' = Len(chunks) /\ UNCHANGED <<vars, stored>>
    BY <1>2 DEF Embed, Begin
  <2>2. stored = <<>>
    BY <2>1 DEF EmbeddingInv, PairsFit
  <2>3. Len(chunks) > 0
    BY <2>1, ProviderAssumption
  <2> QED BY <2>1, <2>2, <2>3 DEF EmbeddingInv, PairsFit, vars, input
<1>3. CASE Synthesize
  <2>1. /\ pc = "done" /\ stage = "idle" /\ role' = "chat" /\ UNCHANGED <<vars, stored>>
    BY <1>3 DEF Synthesize, Begin
  <2>2. stored = <<>>
    BY <2>1 DEF EmbeddingInv, PairsFit
  <2> QED BY <2>1, <2>2 DEF EmbeddingInv, PairsFit, vars, input
<1>4. CASE Call
  <2>1. /\ UNCHANGED <<role, texts>> /\ UNCHANGED <<vars, stored>> /\ stage # "done"
    BY <1>4 DEF Call, ProviderNext, Send, NoAnswer, BadBody, Erred, Chatted, Embedded, Sort, Validate
  <2>2. stored = <<>>
    BY <2>1 DEF EmbeddingInv, PairsFit
  <2> QED BY <2>1, <2>2 DEF EmbeddingInv, PairsFit, vars, input
<1>5. CASE Pair
  <2>1. /\ role = "embed" /\ stage = "done" /\ UNCHANGED <<vars, providerVars>>
        /\ stored' = [i \in {k \in DOMAIN chunks : k \in DOMAIN vectors} |->
                         [chunk |-> chunks[i], embedding |-> vectors[i]]]
    BY <1>5 DEF Pair
  <2>2. /\ texts = Len(chunks) /\ Len(vectors) = texts
        /\ chunks \in Seq(Chunks) /\ vectors \in Seq(Vectors)
    BY <2>1 DEF EmbeddingInv, PairsFit, CallInv, VectorsFit, ProviderTypeOK, Vectors, ChunkingInv, Typed
  <2>3. {k \in DOMAIN chunks : k \in DOMAIN vectors} = DOMAIN chunks
    BY <2>2
  <2>4. stored' = [i \in DOMAIN chunks |-> [chunk |-> chunks[i], embedding |-> vectors[i]]]
    BY <2>1, <2>3
  <2> QED BY <2>1, <2>4 DEF EmbeddingInv, PairsFit, vars, input, providerVars
<1>6. CASE UNCHANGED embeddingVars
  BY <1>6 DEF embeddingVars, EmbeddingInv, PairsFit, vars, input, providerVars
<1> QED BY <1>1, <1>2, <1>3, <1>4, <1>5, <1>6 DEF EmbeddingNext

\* The invariant holds throughout.
THEOREM EmbeddingInvariant == EmbeddingSpec => []EmbeddingInv
<1>1. EmbeddingInv /\ [EmbeddingNext]_embeddingVars => EmbeddingInv'
  BY StepsOfChunking, StepInv, StepsOfCall, PairsStepInv DEF EmbeddingInv
<1> QED BY EmbeddingInitInv, <1>1, PTL DEF EmbeddingSpec
-----------------------------------------------------------------------------
\* Every variable of the cutting and of the call has its type.
THEOREM EmbeddingTypeCorrect == EmbeddingSpec => []EmbeddingTypeOK
<1>1. EmbeddingInv => EmbeddingTypeOK
  BY DEF EmbeddingInv, ChunkingInv, Typed, Chunks, TypeOK, CallInv, EmbeddingTypeOK
<1> QED BY <1>1, EmbeddingInvariant, PTL

\* Whatever order the service answers in and whichever vector is flawed, for any number
\* of chunks: every line is in a stored chunk, each with the vector of its own text, and
\* the vectors are of one space.
THEOREM LinesAlwaysFound == EmbeddingSpec => []LinesAreFound
<1>1. EmbeddingInv => LinesAreFound
  <2> SUFFICES ASSUME EmbeddingInv, stored # <<>>, size > 0 PROVE LinesAreFound
    BY DEF LinesAreFound
  <2>1. /\ role = "embed" /\ stage = "done" /\ pc = "done" /\ texts = Len(chunks) /\ texts > 0
        /\ DOMAIN stored = DOMAIN chunks
        /\ \A i \in DOMAIN chunks : stored[i] = [chunk |-> chunks[i], embedding |-> vectors[i]]
    BY DEF EmbeddingInv, PairsFit
  <2>2. /\ Valid(vectors) /\ Len(vectors) = texts /\ \A i \in 1..texts : vectors[i].of = i
        /\ vectors \in Seq(Vectors) /\ chunks \in Seq(Chunks) /\ texts \in Nat
    BY <2>1 DEF EmbeddingInv, CallInv, VectorsFit, ProviderTypeOK, Vectors, ChunkingInv, Typed
  <2>3. DOMAIN chunks = 1..texts /\ DOMAIN vectors = 1..texts /\ 1 \in 1..texts
    BY <2>1, <2>2
  <2>4. ~blank
    BY <2>1, <2>2 DEF EmbeddingInv, PairsFit, ChunkingInv, Typed
  <2>5. Covered(total)
    BY <2>1, <2>4 DEF EmbeddingInv, ChunkingInv
  <2>6. \A i \in 1..texts : stored[i].chunk = chunks[i] /\ stored[i].embedding = vectors[i]
    BY <2>1, <2>3
  <2>7. ASSUME NEW i \in 1..texts
        PROVE  /\ vectors[i].finite /\ vectors[i].dim > 0
               /\ vectors[i].dim = vectors[1].dim
               /\ pin # NoPin => vectors[i].dim = pin
    <3>1. /\ vectors[i].finite /\ vectors[i].dim > 0
          /\ vectors[i].dim = (IF pin = NoPin THEN vectors[1].dim ELSE pin)
          /\ vectors[1].dim = (IF pin = NoPin THEN vectors[1].dim ELSE pin)
      BY <2>2, <2>3 DEF Valid
    <3> QED BY <3>1
  <2> QED BY <2>1, <2>2, <2>3, <2>5, <2>6, <2>7 DEF LinesAreFound, Covered
<1> QED BY <1>1, EmbeddingInvariant, PTL

\* A chat goes to the endpoint of the chat role, and so does an embedding where both
\* roles have one vendor; any other embedding goes to its own.  Another attempt is made
\* only after an error that may pass and within max_retries, for any max_retries.
THEOREM AttemptsAlwaysSound == EmbeddingSpec => AttemptsAreSound
<1>1. EmbeddingInv /\ [EmbeddingNext]_embeddingVars =>
         [attempt' # attempt =>
            /\ LET owner == IF role = "chat" \/ vendors.chat = vendors.embedding THEN "chat" ELSE "embedding"
               IN  endpoint = [key |-> owner, url |-> owner]
            /\ attempt > 0 => last \in {"timeout", "connect", "5xx", "429"}
                              /\ attempt < retries]_providerVars
  <2> SUFFICES ASSUME EmbeddingInv, [EmbeddingNext]_embeddingVars, attempt' # attempt
               PROVE  /\ endpoint = Endpoint(OwnerOf(role, vendors))
                      /\ attempt > 0 => last \in Repeatable /\ attempt < retries
    BY DEF Repeatable, Endpoint, OwnerOf
  <2>1. stage = "ready"
    BY DEF EmbeddingNext, Chunked, Embed, Synthesize, Begin, Call, Pair, embeddingVars, providerVars,
           ProviderNext, Send, NoAnswer, BadBody, Erred, Chatted, Embedded, Sort, Validate
  <2>2. EndpointFits /\ AttemptFits
    BY DEF EmbeddingInv, CallInv
  <2> QED BY <2>1, <2>2 DEF EndpointFits, AttemptFits
<1> QED BY <1>1, EmbeddingInvariant, PTL DEF EmbeddingSpec, AttemptsAreSound

\* What chunk_text does for sizes above zero, and for zero, holds of the chunks that are
\* embedded.
THEOREM EmbeddedChunksFit == EmbeddingSpec => []ChunksFit
<1>1. EmbeddingInv => ChunksFit
  BY InvCovers, InvAdvances, InvOverlaps, InvZero DEF EmbeddingInv, ChunksFit
<1> QED BY <1>1, EmbeddingInvariant, PTL
=============================================================================
