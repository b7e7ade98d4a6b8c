----------------------------- MODULE MCRequests -----------------------------
(* Small instances of Requests for TLC. *)
EXTENDS Requests, TLC

\* The content of a row is the write it came from: session, run, call.
MCVal == {Seed} \cup (Sessions \X (0 .. MaxRuns) \X (1 .. MaxOps))

Symmetry     == Permutations(Sessions) \cup Permutations(Ids \ Fresh)
SessionSwap  == Permutations(Sessions)
=============================================================================
