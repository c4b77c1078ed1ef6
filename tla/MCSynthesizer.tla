--------------------------- MODULE MCSynthesizer ---------------------------
(* Instances of Synthesizer for TLC.                                        *)
EXTENDS Synthesizer

CONSTANTS f1, f2, a1, a2, u1, u2, c1

TwoFiles == {f1, f2}
TwoAgents == {a1, a2}
TwoUsers == {u1, u2}
OneText == {c1}

OwnAgent == [f \in TwoFiles |-> IF f = f1 THEN a1 ELSE a2]
OwnUser == [a \in TwoAgents |-> IF a = a1 THEN u1 ELSE u2]
============================================================================
