---------------------------- MODULE MCEmbedding ----------------------------
(* Every content of up to eleven lines, with every size and overlap near it; *)
(* those of up to three chunks are embedded.                                 *)
EXTENDS Embedding

FewLines == 0..11
SmallSizes == 0..5
SmallOverlaps == 0..6
SomeRetries == {0, 2}
SomePins == {NoPin, 2}
===========================================================================
