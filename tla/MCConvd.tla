------------------------------- MODULE MCConvd -------------------------------
(***************************************************************************)
(* Convd on small instances.                                               *)
(***************************************************************************)
EXTENDS Convd, TLC

CONSTANTS t1, t2, t3, a, b

\* A text that iconv consumes in two steps and one that it consumes in one.
TwoTexts == {<<a, b>>, <<b>>}

\* Threads are interchangeable, and so are the handles.
Symmetry == Permutations(Thread) \cup Permutations(Handle)
=============================================================================
