------------------------- MODULE MCSynthesisFiles -------------------------
(* An instance of SynthesisFiles for TLC.                                    *)
EXTENDS SynthesisFiles

ThreeDays == 1..3
===========================================================================
