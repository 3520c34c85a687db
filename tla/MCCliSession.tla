---------------------------- MODULE MCCliSession ----------------------------
(***************************************************************************)
(* Instances of CliSession for TLC: one process with two calls, one with   *)
(* one.                                                                    *)
(***************************************************************************)
EXTENDS CliSession, TLC

CONSTANTS p1, p2, c1, c2, c3

MCProcessOf == [c \in {c1, c2, c3} |-> IF c = c3 THEN p2 ELSE p1]

Symmetry == Permutations(Sessions) \cup Permutations({c1, c2})
=============================================================================
