------------------------ MODULE MCCredentialRefresh ------------------------
(***************************************************************************)
(* Constants of the TLC runs of CredentialRefresh: two requests over one   *)
(* credential, model values that may be exchanged for one another.         *)
(***************************************************************************)
EXTENDS CredentialRefresh, TLC

CONSTANTS p1, p2

TwoRequests == {p1, p2}

RequestSymmetry == Permutations(TwoRequests)

=============================================================================
