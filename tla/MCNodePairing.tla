--------------------------- MODULE MCNodePairing ---------------------------
(* Two tokens of one user, one of them presented three times, by machines whose
   names collide. *)
EXTENDS NodePairing

CONSTANTS t1, t2, u1

MCTokens == {t1, t2}
MCUsers  == {u1}
MCOwner  == [t \in MCTokens |-> u1]

J(i, t, n) == [id |-> i, token |-> t, name |-> n]
MCJoins == {J(1, t1, "a"), J(2, t1, "a"), J(3, t1, "b"), J(4, t2, "a")}
=============================================================================
