--------------------------- MODULE MCMemoryIndex ---------------------------
(* Instances of MemoryIndex for TLC.                                        *)
EXTENDS MemoryIndex

CONSTANTS mine, summary, alice, Alice, a1

\* A memory of the caller's agent and the summary of a user whose name differs in its
\* case: the scopes and the source tell them apart.
TwoPaths == {mine, summary}
Owners == [p \in IndexedPaths |-> IF p = mine THEN alice ELSE Alice]
Agents == [p \in IndexedPaths |-> IF p = mine THEN a1 ELSE NoOne]
Sources == [p \in IndexedPaths |-> IF p = mine THEN "raw" ELSE "user"]
LowerCase == [user \in {alice, Alice} |-> alice]

TwoDims == {3, 4}
Zeros == {0}
=============================================================================
