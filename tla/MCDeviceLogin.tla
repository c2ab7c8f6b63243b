--------------------------- MODULE MCDeviceLogin ---------------------------
(* Two machines of a user.  Everything goes wrong on the first, nothing on the
   second, which changes its device name.  Both have the same key. *)
EXTENDS DeviceLogin, TLC

CONSTANTS m1, m2, n1, n2, n3, k1, u

TwoMachines == {m1, m2}
ThreeNames == {n1, n2, n3}
OneKey == {k1}

OwnNames == (m1 :> {n1}) @@ (m2 :> {n2, n3})
SharedKeys == (m1 :> <<k1>>) @@ (m2 :> <<k1>>)
SomeFiles == (m1 :> {<<>>}) @@ (m2 :> {<<u, NL, Blank>>})
FewCommands == (m1 :> 4) @@ (m2 :> 2)
OneWord == {u}

Hazards == (m1 :> {"api", "hs", "kill", "torn"}) @@ (m2 :> {})
=============================================================================
