------------------------------ MODULE Chunking ------------------------------
(***************************************************************************)
(* chunk_text: the windows of lines a file is embedded in.  A chunk is its *)
(* first and last line, counted from 1; a line is blank or not, and of a   *)
(* content only the number of its lines and whether all of them are blank  *)
(* matter.                                                                 *)
(***************************************************************************)
EXTENDS Integers, Sequences

CONSTANTS Totals,   \* numbers of lines
          Sizes,    \* chunk_size
          Overlaps  \* chunk_overlap

ASSUME NumbersAssumption == Totals \subseteq Nat /\ Sizes \subseteq Nat /\ Overlaps \subseteq Nat

VARIABLES total, blank,   \* of the content
          size, overlap,  \* of the configuration, which nothing constrains
          pc, start, chunks

input == <<total, blank, size, overlap>>
vars == <<input, pc, start, chunks>>

Chunk(first, last) == [first |-> first, last |-> last]

Init ==
    /\ total \in Totals
    /\ blank \in BOOLEAN /\ (total = 0 => blank)
    /\ size \in Sizes
    /\ overlap \in Overlaps
    /\ pc = "guards"
    /\ start = 0
    /\ chunks = <<>>

\* No lines, or none with anything on it.
Blank ==
    /\ pc = "guards" /\ blank
    /\ pc' = "done"
    /\ UNCHANGED <<input, start, chunks>>

Whole ==
    /\ pc = "guards" /\ ~blank
    /\ total <= size
    /\ chunks' = <<Chunk(1, total)>>
    /\ pc' = "done"
    /\ UNCHANGED <<input, start>>

Split ==
    /\ pc = "guards" /\ ~blank
    /\ total > size
    /\ pc' = "loop"
    /\ UNCHANGED <<input, start, chunks>>

\* Seeded fault: the subtraction without its guard.
Difference == size - overlap

\* Seeded fault: the overlap is added, so lines are left out between the windows.
Apart == size + overlap

Step == IF size > overlap THEN size - overlap ELSE 1

End == IF start + size < total THEN start + size ELSE total

\* Seeded fault: the loop goes on until start has passed the last line.
LastWindowMissed == FALSE

\* Seeded fault: a window that ends where it starts ends the loop.
EmptyWindowLast == End = total \/ End = start

LastWindow == End = total

Window ==
    /\ pc = "loop"
    /\ start < total
    /\ chunks' = Append(chunks, Chunk(start + 1, End))
    /\ IF LastWindow THEN pc' = "done" /\ UNCHANGED start ELSE start' = start + Step /\ UNCHANGED pc
    /\ UNCHANGED input

\* Seeded fault: the loop is left one line too late.
LeaveLate ==
    /\ pc = "loop"
    /\ start > total
    /\ pc' = "done"
    /\ UNCHANGED <<input, start, chunks>>

\* while start < total
Leave ==
    /\ pc = "loop"
    /\ ~(start < total)
    /\ pc' = "done"
    /\ UNCHANGED <<input, start, chunks>>

Next == Blank \/ Whole \/ Split \/ Window \/ Leave

\* The function runs on.
Spec == Init /\ [][Next]_vars /\ WF_vars(Next)
-----------------------------------------------------------------------------
(* Properties.                                                              *)

\* Every variable has its type.
TypeOK ==
    /\ total \in Nat /\ blank \in BOOLEAN /\ size \in Nat /\ overlap \in Nat
    /\ pc \in {"guards", "loop", "done"}
    /\ start \in Nat
    /\ chunks \in Seq([first : Nat, last : Nat])

Returned == pc = "done" /\ ~blank /\ size > 0

\* Every line of a content that is not blank is in a chunk, so it can be found.
EveryLineCovered ==
    Returned => \A l \in 1..total : \E i \in DOMAIN chunks : chunks[i].first <= l /\ l <= chunks[i].last

\* A chunk is within the file, holds no more than chunk_size lines, starts behind
\* the one before it and brings at least one line that one did not have.
ChunksAdvance ==
    Returned =>
        /\ \A i \in DOMAIN chunks :
              /\ 1 <= chunks[i].first /\ chunks[i].last <= total
              /\ chunks[i].last - chunks[i].first < size
        /\ \A i \in 1..Len(chunks) - 1 :
              /\ chunks[i].first < chunks[i + 1].first
              /\ chunks[i].last < chunks[i + 1].last

\* Neighbours share chunk_overlap lines, or all but one when chunks are no longer
\* than that.
OverlapIsKept ==
    Returned => \A i \in 1..Len(chunks) - 1 :
        chunks[i].last - chunks[i + 1].first + 1 = IF overlap < size THEN overlap ELSE size - 1

\* A chunk_size of 0, which a configuration file can name too, gives every line a chunk
\* of its own that holds nothing, not even that line.
EmptyForZero ==
    pc = "done" /\ ~blank /\ size = 0 =>
        Len(chunks) = total /\ \A i \in 1..total : chunks[i] = Chunk(i, i - 1)

\* For every size above 0 and every overlap chunk_text leaves no line out, makes no
\* useless chunk, and keeps the overlap; for size 0 its chunks are empty, one a line.
ChunksFit == EveryLineCovered /\ ChunksAdvance /\ OverlapIsKept /\ EmptyForZero

\* The function returns, also for a size of 0 and for an overlap that eats up the
\* size.
Returns == <>(pc = "done")
=============================================================================
