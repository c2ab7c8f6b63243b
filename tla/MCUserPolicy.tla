---------------------------- MODULE MCUserPolicy ----------------------------
(* Two slugs, one of them asked for twice. *)
EXTENDS UserPolicy

CONSTANTS a, b

Sign(i, x) == [id |-> i, slug |-> x]

TwoSlugs == {a, b}
ThreeSignups == {Sign(1, a), Sign(2, a), Sign(3, b)}

Serial == FaultKinds \ {"overlap", "odd"}
=============================================================================
