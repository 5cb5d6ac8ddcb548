---------------------------- MODULE MCTokenReview ----------------------------
(* Interchangeable request threads on one review.                          *)
EXTENDS TokenReview, TLC

CONSTANTS t1, t2, t3

AnyThread == Permutations({t1, t2, t3})
=============================================================================
