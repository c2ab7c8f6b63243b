---------------------------- MODULE NodePairing ----------------------------
(***************************************************************************)
(* Pairing a node (internal/nodes, `flexctl join`): a user obtains a pair  *)
(* token, joining machines present it, and the transaction of PairNode     *)
(* turns it into a row of nodes.  Transactions run concurrently on         *)
(* PostgreSQL at READ COMMITTED: SELECT ... FOR UPDATE waits for the       *)
(* row's lock and then sees the last committed row, an INSERT waits for an *)
(* uncommitted row with its key, and everything uncommitted goes when the  *)
(* transaction, its request or the control plane ends early.               *)
(*                                                                         *)
(* A token is a model value and its hash stands for it.  Time is the set   *)
(* of tokens whose ten minutes are over.                                   *)
(***************************************************************************)
EXTENDS Integers, FiniteSets

CONSTANTS Tokens,     \* pair tokens that may be issued
          Users,
          Owner,      \* token -> the user it is issued to
          Joins,      \* attempts to join, [token, name] records
          NoJoin

ASSUME OwnerAssumption == Owner \in [Tokens -> Users]
ASSUME JoinsAssumption == \A j \in Joins : j.token \in Tokens

ASSUME NoJoinAssumption == NoJoin \notin Joins

VARIABLES
    issued,    \* tokens with a row in pair_tokens
    expired,   \* tokens past expires_at
    used,      \* tokens whose committed row has used_at
    nodes,     \* the joins whose row of nodes is committed
    lock,      \* token -> the join that holds its row lock, or NoJoin
    pc,        \* join -> where its request is
    config     \* joins whose machine has its node token on disk

vars == <<issued, expired, used, nodes, lock, pc, config>>

-----------------------------------------------------------------------------
(* The row a join inserts, by its unique key. *)
Key(j) == <<Owner[j.token], j.name>>

(* A request's transaction is open, and holds the token's lock. *)
Locking == {"locked", "valid", "marked", "inserted"}
InTx(j) == pc[j] \in {"begun"} \cup Locking

Goto(j, s) == pc' = [pc EXCEPT ![j] = s]

(* CreatePairToken. *)
CreatePairToken(t) ==
    /\ t \notin issued
    /\ issued' = issued \cup {t}
    /\ UNCHANGED <<expired, used, nodes, lock, pc, config>>

Expire(t) ==
    /\ t \in issued \ expired
    /\ expired' = expired \cup {t}
    /\ UNCHANGED <<issued, used, nodes, lock, pc, config>>

(* POST /v1/nodes/pair arrives and a transaction is begun. *)
Begin(j) ==
    /\ pc[j] = "idle"
    /\ Goto(j, "begun")
    /\ UNCHANGED <<issued, expired, used, nodes, lock, config>>

(* Mutated form of SelectForUpdate: no FOR UPDATE. *)
SelectPlain(j) ==
    /\ pc[j] = "begun"
    /\ \/ /\ j.token \in issued
          /\ lock' = [lock EXCEPT ![j.token] = j]
          /\ Goto(j, "locked")
       \/ /\ j.token \notin issued
          /\ Goto(j, "invalid")
          /\ UNCHANGED lock
    /\ UNCHANGED <<issued, expired, used, nodes, config>>

(* The token's row is read and locked; without one the token is invalid. *)
SelectForUpdate(j) ==
    /\ pc[j] = "begun"
    /\ \/ /\ j.token \in issued
          /\ lock[j.token] = NoJoin
          /\ lock' = [lock EXCEPT ![j.token] = j]
          /\ Goto(j, "locked")
       \/ /\ j.token \notin issued
          /\ Goto(j, "invalid")
          /\ UNCHANGED lock
    /\ UNCHANGED <<issued, expired, used, nodes, config>>

(* Mutated form of Unlock: the transaction is left open. *)
UnlockForgotten(j) == UNCHANGED lock

(* The transaction ends; what it has not committed is undone. *)
Unlock(j) == lock' = [lock EXCEPT ![j.token] = IF @ = j THEN NoJoin ELSE @]

(* Mutated form of Valid: a used token is as good as another. *)
ValidUsed(j) == j.token \notin expired

(* usedAt == nil and not yet past expiresAt. *)
Valid(j) == j.token \notin used /\ j.token \notin expired

Validate(j) ==
    /\ pc[j] = "locked"
    /\ \/ Valid(j) /\ Goto(j, "valid") /\ UNCHANGED lock
       \/ ~Valid(j) /\ Goto(j, "invalid") /\ Unlock(j)
    /\ UNCHANGED <<issued, expired, used, nodes, config>>

(* UPDATE pair_tokens SET used_at, in the transaction. *)
MarkUsed(j) ==
    /\ pc[j] = "valid"
    /\ Goto(j, "marked")
    /\ UNCHANGED <<issued, expired, used, nodes, lock, config>>

(* Mutated form of InsertNode: no unique key on owner and name. *)
InsertNodeAny(j) ==
    /\ pc[j] = "marked"
    /\ Goto(j, "inserted")
    /\ UNCHANGED <<issued, expired, used, nodes, lock, config>>

(* INSERT INTO nodes: waits for another transaction that has inserted the key,
   and ends the transaction if the name is taken. *)
InsertNode(j) ==
    /\ pc[j] = "marked"
    /\ \A i \in Joins : pc[i] = "inserted" => Key(i) # Key(j)
    /\ \/ /\ \A i \in nodes : Key(i) # Key(j)
          /\ Goto(j, "inserted")
          /\ UNCHANGED lock
       \/ /\ \E i \in nodes : Key(i) = Key(j)
          /\ Goto(j, "taken")
          /\ Unlock(j)
    /\ UNCHANGED <<issued, expired, used, nodes, config>>

(* Both rows become visible.  The answer to COMMIT may be lost. *)
Commit(j) ==
    /\ pc[j] = "inserted"
    /\ used' = used \cup {j.token}
    /\ nodes' = nodes \cup {j}
    /\ Unlock(j)
    /\ Goto(j, "created") \/ Goto(j, "failed")
    /\ UNCHANGED <<issued, expired, config>>

(* A statement fails, the client hangs up or the request times out. *)
Abort(j) ==
    /\ InTx(j)
    /\ Goto(j, "failed")
    /\ Unlock(j)
    /\ UNCHANGED <<issued, expired, used, nodes, config>>

(* The control plane is killed: every open transaction is rolled back. *)
Crash ==
    /\ \E j \in Joins : InTx(j)
    /\ pc' = [j \in Joins |-> IF InTx(j) THEN "failed" ELSE pc[j]]
    /\ lock' = [t \in Tokens |-> NoJoin]
    /\ UNCHANGED <<issued, expired, used, nodes, config>>

(* Mutated form of Answered: the config is written whatever the status. *)
AnsweredAnyway(j) == pc[j] \in {"created", "invalid", "taken", "failed"}

(* 201 Created with the node's token. *)
Answered(j) == pc[j] = "created"

(* join writes agent.toml, or the answer is lost or the file not written. *)
Join(j) ==
    /\ Answered(j)
    /\ config' = config \cup {j} \/ UNCHANGED config
    /\ Goto(j, "done")
    /\ UNCHANGED <<issued, expired, used, nodes, lock>>

(* Every request has been answered and every token issued and expired. *)
Over ==
    /\ \A j \in Joins : pc[j] \in {"invalid", "taken", "failed", "done"}
    /\ issued = Tokens /\ expired = Tokens
    /\ UNCHANGED vars

-----------------------------------------------------------------------------
Init ==
    /\ issued = {} /\ expired = {} /\ used = {} /\ nodes = {} /\ config = {}
    /\ lock = [t \in Tokens |-> NoJoin]
    /\ pc = [j \in Joins |-> "idle"]

Next ==
    \/ \E t \in Tokens : CreatePairToken(t) \/ Expire(t)
    \/ \E j \in Joins : \/ Begin(j) \/ SelectForUpdate(j) \/ Validate(j)
                        \/ MarkUsed(j) \/ InsertNode(j) \/ Commit(j)
                        \/ Abort(j) \/ Join(j)
    \/ Crash
    \/ Over

Spec == Init /\ [][Next]_vars

(* The control plane goes on with what it has begun, and PostgreSQL grants a
   lock that is released again and again to each that waits for it. *)
FairSpec ==
    /\ Spec
    /\ \A j \in Joins : /\ SF_vars(SelectForUpdate(j))
                        /\ WF_vars(Validate(j) \/ MarkUsed(j) \/ InsertNode(j)
                                   \/ Commit(j) \/ Join(j))

-----------------------------------------------------------------------------
TypeOK ==
    /\ issued \subseteq Tokens
    /\ expired \subseteq issued
    /\ used \subseteq issued
    /\ nodes \subseteq Joins
    /\ lock \in [Tokens -> Joins \cup {NoJoin}]
    /\ pc \in [Joins -> Locking \cup {"idle", "begun", "invalid", "taken",
                                       "failed", "created", "done"}]
    /\ config \subseteq Joins

(* "One-time pairing token": however requests with the same token interleave,
   fail and are repeated, it makes at most one node. *)
TokenSpentOnce == \A i, j \in nodes : i.token = j.token => i = j

(* `flexctl join` reports success for a committed node only: the token on
   disk is one AuthenticateNodeToken finds. *)
JoinedIsPaired == config \subseteq nodes

(* The committed rows are a ledger: to whoever reads them the whole of PairNode,
   its five statements, its lock and everything that can cut it off, is one step
   that spends a token and enters its node under a free name, or is nothing. *)
Ledger == INSTANCE PairLedger WITH spent <- used, members <- nodes

LedgerSpec == Ledger!Spec

(* No attempt waits for ever, for the token's lock or for the name: each request
   is answered. *)
EveryJoinAnswered ==
    \A j \in Joins : pc[j] = "begun" ~>
        pc[j] \in {"invalid", "taken", "failed", "done"}
=============================================================================
