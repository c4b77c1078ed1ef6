--------------------------- MODULE MCLlmService ---------------------------
(* Instances of LlmService for TLC.                                         *)
EXTENDS LlmService, TLC

CONSTANTS s1, s2, t1, d1, d2

TwoSlots == {s1, s2}
OneTarget == {t1}
TwoDocs == {d1, d2}
===========================================================================
