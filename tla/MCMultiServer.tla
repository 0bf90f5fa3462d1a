----------------------------- MODULE MCMultiServer -----------------------------
(* Small instances of MultiServer for TLC. *)
EXTENDS MultiServer, TLC

\* Sessions whose clients may do the same are interchangeable in safety runs.
Sessions == Permutations(Typists) \cup Permutations(Proc \ Typists)
=============================================================================
