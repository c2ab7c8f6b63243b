------------------------- MODULE NodePairingProofs -------------------------
(***************************************************************************)
(* A pair token makes at most one node, for any tokens, users and attempts *)
(* to join.  The invariant: a transaction past SELECT ... FOR UPDATE is    *)
(* the holder of its token's lock, so while it is past the check nobody    *)
(* else can spend the token.                                               *)
(***************************************************************************)
EXTENDS NodePairing, TLAPS

(* A token's lock and the transactions past SelectForUpdate agree. *)
LockHeld ==
    /\ \A j \in Joins : pc[j] \in Locking => lock[j.token] = j /\ j.token \in issued
    /\ \A t \in Tokens : lock[t] # NoJoin => lock[t].token = t /\ pc[lock[t]] \in Locking

(* The check still holds for the transactions that have passed it. *)
StillFresh ==
    \A j \in Joins : pc[j] \in {"valid", "marked", "inserted"} => j.token \notin used

(* The name of an uncommitted row is free, and no other uncommitted row has it. *)
NameReserved ==
    \A j \in Joins : pc[j] = "inserted" =>
        /\ \A i \in nodes : Key(i) # Key(j)
        /\ \A i \in Joins : pc[i] = "inserted" /\ i # j => Key(i) # Key(j)

(* The used tokens are those of the committed nodes. *)
UsedHaveNodes == used = {j.token : j \in nodes}

(* 201 is answered after the commit. *)
AnsweredIsPaired == \A j \in Joins : pc[j] = "created" => j \in nodes

PairInv == /\ TypeOK /\ LockHeld /\ StillFresh /\ NameReserved /\ AnsweredIsPaired
           /\ TokenSpentOnce /\ UsedHaveNodes /\ JoinedIsPaired

LEMMA PairInit == Init => PairInv
BY DEF Init, PairInv, TypeOK, LockHeld, StillFresh, NameReserved, AnsweredIsPaired, TokenSpentOnce,
       UsedHaveNodes, JoinedIsPaired, Locking

LEMMA PairInductive == PairInv /\ [Next]_vars => PairInv'
<1> SUFFICES ASSUME PairInv, [Next]_vars
             PROVE  PairInv'
  OBVIOUS
<1> USE JoinsAssumption, NoJoinAssumption DEF PairInv
<1>1. ASSUME NEW t \in Tokens, CreatePairToken(t) \/ Expire(t)
      PROVE  PairInv'
  BY <1>1 DEF CreatePairToken, Expire, TypeOK, LockHeld, StillFresh,
              NameReserved, AnsweredIsPaired, TokenSpentOnce, UsedHaveNodes, JoinedIsPaired
<1>2. ASSUME NEW j \in Joins, Begin(j)
      PROVE  PairInv'
  BY <1>2 DEF Begin, Goto, TypeOK, LockHeld, StillFresh, NameReserved, AnsweredIsPaired,
              TokenSpentOnce, UsedHaveNodes, JoinedIsPaired, Locking
<1>3. ASSUME NEW j \in Joins, SelectForUpdate(j)
      PROVE  PairInv'
  <2>1. TypeOK'
    BY <1>3 DEF SelectForUpdate, Goto, TypeOK, Locking
  <2>2. LockHeld'
    BY <1>3 DEF SelectForUpdate, Goto, TypeOK, LockHeld, Locking
  <2>3. StillFresh' /\ NameReserved' /\ AnsweredIsPaired'
    BY <1>3 DEF SelectForUpdate, Goto, TypeOK, StillFresh, NameReserved, AnsweredIsPaired, Locking
  <2> QED BY <1>3, <2>1, <2>2, <2>3
          DEF SelectForUpdate, TokenSpentOnce, UsedHaveNodes, JoinedIsPaired
<1>4. ASSUME NEW j \in Joins, Validate(j)
      PROVE  PairInv'
  <2>1. TypeOK'
    BY <1>4 DEF Validate, Unlock, Goto, TypeOK, Locking
  <2>2. LockHeld'
    BY <1>4 DEF Validate, Unlock, Goto, TypeOK, LockHeld, Locking
  <2>3. StillFresh' /\ NameReserved' /\ AnsweredIsPaired'
    BY <1>4 DEF Validate, Valid, Goto, TypeOK, StillFresh, NameReserved, AnsweredIsPaired, Locking
  <2> QED BY <1>4, <2>1, <2>2, <2>3
          DEF Validate, TokenSpentOnce, UsedHaveNodes, JoinedIsPaired
<1>5. ASSUME NEW j \in Joins, MarkUsed(j)
      PROVE  PairInv'
  BY <1>5 DEF MarkUsed, Goto, TypeOK, LockHeld, StillFresh, NameReserved, AnsweredIsPaired,
              TokenSpentOnce, UsedHaveNodes, JoinedIsPaired, Locking
<1>6. ASSUME NEW j \in Joins, InsertNode(j)
      PROVE  PairInv'
  <2>1. TypeOK'
    BY <1>6 DEF InsertNode, Unlock, Goto, TypeOK, Locking
  <2>2. LockHeld'
    BY <1>6 DEF InsertNode, Unlock, Goto, TypeOK, LockHeld, Locking
  <2>3. StillFresh' /\ NameReserved' /\ AnsweredIsPaired'
    BY <1>6 DEF InsertNode, Goto, TypeOK, StillFresh, NameReserved, AnsweredIsPaired, Locking
  <2> QED BY <1>6, <2>1, <2>2, <2>3
          DEF InsertNode, TokenSpentOnce, UsedHaveNodes, JoinedIsPaired
<1>7. ASSUME NEW j \in Joins, Commit(j)
      PROVE  PairInv'
  <2>1. lock[j.token] = j /\ j.token \notin used /\ j.token \in issued
    BY <1>7 DEF Commit, LockHeld, StillFresh, Locking
  <2>2. TypeOK'
    BY <1>7, <2>1 DEF Commit, Unlock, Goto, TypeOK, Locking
  <2>3. LockHeld'
    BY <1>7, <2>1 DEF Commit, Unlock, Goto, TypeOK, LockHeld, Locking
  <2>4. \A i \in Joins : i # j /\ pc[i] \in Locking => i.token # j.token
    BY <2>1 DEF LockHeld
  <2>5. StillFresh'
    BY <1>7, <2>1, <2>4 DEF Commit, Goto, TypeOK, StillFresh, Locking
  <2>6. NameReserved' /\ AnsweredIsPaired' /\ JoinedIsPaired'
    BY <1>7 DEF Commit, Goto, TypeOK, NameReserved, AnsweredIsPaired, JoinedIsPaired
  <2>7. \A i \in nodes : i.token # j.token
    BY <2>1 DEF UsedHaveNodes
  <2>8. TokenSpentOnce' /\ UsedHaveNodes'
    BY <1>7, <2>7 DEF Commit, TokenSpentOnce, UsedHaveNodes
  <2> QED BY <2>2, <2>3, <2>5, <2>6, <2>8
<1>8. ASSUME NEW j \in Joins, Abort(j)
      PROVE  PairInv'
  <2>1. TypeOK'
    BY <1>8 DEF Abort, Unlock, Goto, TypeOK, Locking
  <2>2. LockHeld'
    BY <1>8 DEF Abort, Unlock, Goto, TypeOK, LockHeld, Locking
  <2>3. StillFresh' /\ NameReserved' /\ AnsweredIsPaired'
    BY <1>8 DEF Abort, Goto, TypeOK, StillFresh, NameReserved, AnsweredIsPaired, Locking
  <2> QED BY <1>8, <2>1, <2>2, <2>3
          DEF Abort, TokenSpentOnce, UsedHaveNodes, JoinedIsPaired
<1>9. ASSUME NEW j \in Joins, Join(j)
      PROVE  PairInv'
  BY <1>9 DEF Join, Answered, Goto, TypeOK, LockHeld, StillFresh, NameReserved, AnsweredIsPaired,
              TokenSpentOnce, UsedHaveNodes, JoinedIsPaired, Locking
<1>10. CASE Crash
  BY <1>10 DEF Crash, InTx, TypeOK, LockHeld, StillFresh, NameReserved, AnsweredIsPaired,
               TokenSpentOnce, UsedHaveNodes, JoinedIsPaired, Locking
<1>11. CASE UNCHANGED vars
  BY <1>11 DEF vars, TypeOK, LockHeld, StillFresh, NameReserved, AnsweredIsPaired,
               TokenSpentOnce, UsedHaveNodes, JoinedIsPaired
<1> QED BY <1>1, <1>2, <1>3, <1>4, <1>5, <1>6, <1>7, <1>8, <1>9, <1>10, <1>11
        DEF Next, Over

(* The pair token is single-use: PairNode commits at most one node for it, in
   any interleaving with other requests, aborts and crashes. *)
THEOREM SingleUse == Spec => []TokenSpentOnce
<1>1. PairInv => TokenSpentOnce
  BY DEF PairInv
<1> QED BY <1>1, PairInit, PairInductive, PTL DEF Spec

(* A machine that has stored a node token has a committed node: join never
   reports success for a transaction that was rolled back. *)
THEOREM JoinedHasNode == Spec => []JoinedIsPaired
<1>1. PairInv => JoinedIsPaired
  BY DEF PairInv
<1> QED BY <1>1, PairInit, PairInductive, PTL DEF Spec

(* The tables, the token's lock and the requests are what they are declared to
   be; above all, expired and used tokens are issued ones. *)
THEOREM PairingTypes == Spec => []TypeOK
<1>1. PairInv => TypeOK
  BY DEF PairInv
<1> QED BY <1>1, PairInit, PairInductive, PTL DEF Spec

LEMMA LedgerInit == Init => Ledger!Init
BY DEF Init, Ledger!Init

LEMMA LedgerStep == PairInv /\ [Next]_vars => [Ledger!Next]_<<issued, used, nodes>>
<1> SUFFICES ASSUME PairInv, [Next]_vars
             PROVE  Ledger!Next \/ UNCHANGED <<issued, used, nodes>>
  OBVIOUS
<1> USE DEF PairInv
<1>1. ASSUME NEW t \in Tokens, CreatePairToken(t)
      PROVE  Ledger!Next
  <2>1. Ledger!Issue(t)
    BY <1>1 DEF CreatePairToken, Ledger!Issue
  <2> QED BY <2>1 DEF Ledger!Next
<1>2. ASSUME NEW j \in Joins, Commit(j)
      PROVE  Ledger!Next
  <2>1. j.token \in issued \ used
    BY <1>2 DEF Commit, LockHeld, StillFresh, Locking
  <2>2. Ledger!NameIsFree(j)
    BY <1>2 DEF Commit, NameReserved, Key, Ledger!NameIsFree
  <2>3. Ledger!Redeem(j)
    BY <1>2, <2>1, <2>2 DEF Commit, Ledger!Redeem
  <2> QED BY <2>3 DEF Ledger!Next
<1>3. ASSUME NEW t \in Tokens, Expire(t)
      PROVE  UNCHANGED <<issued, used, nodes>>
  BY <1>3 DEF Expire
<1>4. ASSUME NEW j \in Joins,
             Begin(j) \/ SelectForUpdate(j) \/ Validate(j) \/ MarkUsed(j)
             \/ InsertNode(j) \/ Abort(j) \/ Join(j)
      PROVE  UNCHANGED <<issued, used, nodes>>
  BY <1>4 DEF Begin, SelectForUpdate, Validate, MarkUsed, InsertNode, Abort, Join
<1>5. CASE Crash \/ Over \/ UNCHANGED vars
  BY <1>5 DEF Crash, Over, vars
<1> QED BY <1>1, <1>2, <1>3, <1>4, <1>5 DEF Next

(* PairNode implements the ledger: for any tokens, owners and attempts, in any
   interleaving, with aborts, lost answers and crashes. *)
THEOREM PairingImplementsLedger == Spec => LedgerSpec
BY PairInit, PairInductive, LedgerInit, LedgerStep, PTL
DEF Spec, LedgerSpec, Ledger!Spec
=============================================================================
