------------------------- MODULE MCActionLifecycle -------------------------
(* Instances of ActionLifecycle for TLC. *)
EXTENDS ActionLifecycle

CONSTANTS s1, s2

\* One Action proposed in the first session.
OneAction == {1}
OneOwner == [a \in OneAction |-> s1]
=============================================================================
