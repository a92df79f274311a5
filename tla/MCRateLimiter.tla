---------------------------- MODULE MCRateLimiter ----------------------------
(* A small instance of RateLimiter for TLC: the subjects other than Watched *)
(* are interchangeable.                                                     *)
EXTENDS RateLimiter, TLC

OtherSubjects == Permutations(Subjects \ {Watched})
=============================================================================
