----------------------------- MODULE PairLedger -----------------------------
(***************************************************************************)
(* What pairing promises, as a ledger without requests, transactions,      *)
(* locks or failures: tokens are issued, and in one step a token is spent  *)
(* and a node entered for it under a name that its owner has not used.     *)
(***************************************************************************)
CONSTANTS Tokens, Owner, Joins

VARIABLES issued, spent, members

Issue(t) ==
    /\ issued' = issued \cup {t}
    /\ UNCHANGED <<spent, members>>

NameIsFree(j) ==
    \A i \in members : Owner[i.token] = Owner[j.token] => i.name # j.name

Redeem(j) ==
    /\ j.token \in issued \ spent
    /\ NameIsFree(j)
    /\ spent' = spent \cup {j.token}
    /\ members' = members \cup {j}
    /\ UNCHANGED issued

Init == issued = {} /\ spent = {} /\ members = {}

Next == (\E t \in Tokens : Issue(t)) \/ (\E j \in Joins : Redeem(j))

Spec == Init /\ [][Next]_<<issued, spent, members>>
=============================================================================
