----------------------------- MODULE UserPolicy -----------------------------
(***************************************************************************)
(* Signing up (internal/users) and the access policy in Headscale          *)
(* (internal/policy).  A signup commits a row of users, creates the        *)
(* Headscale user and refreshes the policy, which is generated from all    *)
(* rows and replaces the one in force; when that fails the row is deleted  *)
(* again.  The control plane does the same once before it serves.          *)
(*                                                                         *)
(* Reading the slugs and pushing the policy are two steps without a lock.  *)
(* A policy is the tags it declares and the pairs of tags it lets through. *)
(* Left out: the port and the owner of the tags, which are the same in all *)
(* of them, passwords, sessions and the audit log.                         *)
(***************************************************************************)
EXTENDS Integers, FiniteSets

CONSTANTS Slugs,
          Signups,       \* signup requests, [slug] records
          MaxRestarts,   \* bound on restarts of the control plane
          Faults         \* what may go wrong, a subset of FaultKinds

(***************************************************************************)
(*   overlap  signups run concurrently;                                    *)
(*   hs       a call to Headscale fails, with or without effect;           *)
(*   odd      Headscale answers 400 or 409 to CreateUser though the user   *)
(*            does not exist, which the client takes for that it does;     *)
(*   db       a statement fails, with or without effect;                   *)
(*   cancel   the request's context ends, because the client hangs up or   *)
(*            its 30 seconds are over: every later call made with it       *)
(*            fails, the rollback included;                                *)
(*   restart  the control plane is killed and restarted.                   *)
(***************************************************************************)
FaultKinds == {"overlap", "hs", "odd", "db", "cancel", "restart"}

ASSUME SignupsAssumption == \A s \in Signups : s.slug \in Slugs
ASSUME RestartsAssumption == MaxRestarts \in Nat

VARIABLES
    rows,      \* slug -> the signups (at most one) whose row is in users
    hsUsers,   \* slugs that are users of Headscale
    policy,    \* the policy in force
    pc,        \* signup -> where its handler is
    seen,      \* signup -> the slugs its Refresh has read
    boot,      \* where Initialize is, "up" once the control plane serves
    bootSeen,  \* the slugs its Refresh has read
    cancelled, \* signups whose context has ended
    logged,    \* signups of which the log has a failed insert or rollback
    restarts

vars == <<rows, hsUsers, policy, pc, seen, boot, bootSeen, cancelled, logged, restarts>>

-----------------------------------------------------------------------------
(* SELECT slug FROM users. *)
allSlugs == {x \in Slugs : rows[x] # {}}

(* Two tags and one rule for each slug. *)
GenerateACL(slugs) ==
    [tags |-> {"device", "env"} \X slugs,
     acls |-> {<<<<"device", x>>, <<"env", x>>>> : x \in slugs}]

emptyPolicy ==
    [tags |-> {<<"placeholder">>}, acls |-> {<<<<"placeholder">>, <<"placeholder">>>>}]

(* What Refresh pushes when it has read slugs. *)
PolicyOf(slugs) == IF slugs = {} THEN emptyPolicy ELSE GenerateACL(slugs)

(* A device of the user x reaches its environments under p. *)
Recognizes(p, x) ==
    /\ {<<"device", x>>, <<"env", x>>} \subseteq p.tags
    /\ <<<<"device", x>>, <<"env", x>>>> \in p.acls

(* Headscale's users after a CreateUser for x that counts as a success: that the
   user exists already is no error, nor is what is taken for it. *)
Added(x) == {hsUsers \cup {x}} \cup (IF "odd" \in Faults THEN {hsUsers} ELSE {})

InHand == {"inserted", "user", "read", "undo"}

Goto(s, p) == pc' = [pc EXCEPT ![s] = p]

(* A call to Headscale, or a statement, with the request's context fails. *)
MayFail(s) == "hs" \in Faults \/ s \in cancelled
StatementMayFail(s) == "db" \in Faults \/ s \in cancelled

(* The row of a signup, if the slug is free. *)
Inserted(s) == [rows EXCEPT ![s.slug] = IF @ = {} THEN {s} ELSE @]

(* Signup inserts the row, or the slug is taken.  An insert that fails is logged
   and answered with an error, also when it is the answer that was lost. *)
Signup(s) ==
    /\ boot = "up" /\ pc[s] = "idle"
    /\ (\E x \in Signups : pc[x] \in InHand) => "overlap" \in Faults
    /\ \/ /\ s \notin cancelled
          /\ rows' = Inserted(s)
          /\ Goto(s, IF rows[s.slug] = {} THEN "inserted" ELSE "refused")
          /\ UNCHANGED logged
       \/ /\ StatementMayFail(s)
          /\ rows' \in {rows, Inserted(s)}
          /\ Goto(s, "failed")
          /\ logged' = logged \cup {s}
    /\ UNCHANGED <<hsUsers, policy, seen, boot, bootSeen, cancelled, restarts>>

(* OnUserCreated, its first half: ErrUserAlreadyExists is as good as success. *)
CreateUser(s) ==
    /\ pc[s] = "inserted"
    /\ \/ /\ s \notin cancelled
          /\ hsUsers' \in Added(s.slug)
          /\ Goto(s, "user")
       \/ /\ MayFail(s)
          /\ hsUsers' \in {hsUsers, hsUsers \cup {s.slug}}
          /\ Goto(s, "undo")
    /\ UNCHANGED <<rows, policy, seen, boot, bootSeen, cancelled, logged, restarts>>

(* Refresh reads the slugs ... *)
ReadSlugs(s) ==
    /\ pc[s] = "user"
    /\ \/ /\ s \notin cancelled
          /\ seen' = [seen EXCEPT ![s] = allSlugs]
          /\ Goto(s, "read")
       \/ /\ StatementMayFail(s)
          /\ Goto(s, "undo")
          /\ UNCHANGED seen
    /\ UNCHANGED <<rows, hsUsers, policy, boot, bootSeen, cancelled, logged, restarts>>

(* Mutated form of SetPolicy: an error of the push is only logged. *)
SetPolicyLogged(s) ==
    /\ pc[s] = "read"
    /\ policy' = PolicyOf(seen[s]) \/ (MayFail(s) /\ UNCHANGED policy)
    /\ Goto(s, "ok")
    /\ UNCHANGED <<rows, hsUsers, seen, boot, bootSeen, cancelled, logged, restarts>>

(* ... and replaces the policy. *)
SetPolicy(s) ==
    /\ pc[s] = "read"
    /\ \/ /\ s \notin cancelled
          /\ policy' = PolicyOf(seen[s])
          /\ Goto(s, "ok")
       \/ /\ MayFail(s)
          /\ policy' \in {policy, PolicyOf(seen[s])}
          /\ Goto(s, "undo")
    /\ UNCHANGED <<rows, hsUsers, seen, boot, bootSeen, cancelled, logged, restarts>>

(* Mutated form of HardDelete: the handler answers with the error at once. *)
HardDeleteForgotten(s) ==
    /\ pc[s] = "undo"
    /\ Goto(s, "failed")
    /\ UNCHANGED <<rows, hsUsers, policy, seen, boot, bootSeen, cancelled, logged, restarts>>

(* The rollback, made with the request's context too.  That it failed is only
   logged; the answer is the same error. *)
HardDelete(s) ==
    /\ pc[s] = "undo"
    /\ LET without == [rows EXCEPT ![s.slug] = @ \ {s}] IN
       \/ /\ s \notin cancelled
          /\ rows' = without
          /\ UNCHANGED logged
       \/ /\ StatementMayFail(s)
          /\ rows' \in {rows, without}
          /\ logged' = logged \cup {s}
    /\ Goto(s, "failed")
    /\ UNCHANGED <<hsUsers, policy, seen, boot, bootSeen, cancelled, restarts>>

(* The client hangs up, or middleware.Timeout ends the context of a request whose
   client is still there. *)
Cancel(s) ==
    /\ "cancel" \in Faults
    /\ pc[s] \in InHand \cup {"idle"}
    /\ cancelled' = cancelled \cup {s}
    /\ UNCHANGED <<rows, hsUsers, policy, pc, seen, boot, bootSeen, logged, restarts>>

-----------------------------------------------------------------------------
(* Initialize: the owner of the tags is created, then the policy refreshed.
   If any of it fails the process exits and is started again. *)
BootCreate ==
    /\ boot = "down"
    /\ boot' \in {"created"} \cup (IF "hs" \in Faults THEN {"down"} ELSE {})
    /\ UNCHANGED <<rows, hsUsers, policy, pc, seen, bootSeen, cancelled, logged, restarts>>

BootRead ==
    /\ boot = "created"
    /\ bootSeen' = allSlugs
    /\ boot' \in {"read"} \cup (IF "db" \in Faults THEN {"down"} ELSE {})
    /\ UNCHANGED <<rows, hsUsers, policy, pc, seen, cancelled, logged, restarts>>

(* Mutated form of BootPush: Initialize does not refresh. *)
BootPushSkipped ==
    /\ boot = "read"
    /\ boot' = "up"
    /\ UNCHANGED <<rows, hsUsers, policy, pc, seen, bootSeen, cancelled, logged, restarts>>

BootPush ==
    /\ boot = "read"
    /\ \/ boot' = "up" /\ policy' = PolicyOf(bootSeen)
       \/ "hs" \in Faults /\ boot' = "down" /\ policy' \in {policy, PolicyOf(bootSeen)}
    /\ UNCHANGED <<rows, hsUsers, pc, seen, bootSeen, cancelled, logged, restarts>>

(* Requests in hand die with the process and nothing is rolled back. *)
Restart ==
    /\ "restart" \in Faults /\ restarts < MaxRestarts
    /\ restarts' = restarts + 1
    /\ boot' = "down"
    /\ pc' = [s \in Signups |-> IF pc[s] \in InHand THEN "killed" ELSE pc[s]]
    /\ UNCHANGED <<rows, hsUsers, policy, seen, bootSeen, cancelled, logged>>

-----------------------------------------------------------------------------
Init ==
    /\ rows = [x \in Slugs |-> {}]
    /\ hsUsers = {} /\ policy = emptyPolicy
    /\ pc = [s \in Signups |-> "idle"]
    /\ seen = [s \in Signups |-> {}]
    /\ boot = "down" /\ bootSeen = {}
    /\ cancelled = {} /\ logged = {} /\ restarts = 0

Next ==
    \/ \E s \in Signups : \/ Signup(s) \/ CreateUser(s) \/ ReadSlugs(s)
                          \/ SetPolicy(s) \/ HardDelete(s) \/ Cancel(s)
    \/ BootCreate \/ BootRead \/ BootPush \/ Restart

Spec == Init /\ [][Next]_vars

-----------------------------------------------------------------------------
TypeOK ==
    /\ rows \in [Slugs -> SUBSET Signups]
    /\ \A x \in Slugs : \A s, r \in rows[x] : s = r /\ s.slug = x
    /\ hsUsers \subseteq Slugs
    /\ policy \in {PolicyOf(slugs) : slugs \in SUBSET Slugs}
    /\ pc \in [Signups -> InHand \cup {"idle", "refused", "ok", "failed", "killed"}]
    /\ seen \in [Signups -> SUBSET Slugs]
    /\ boot \in {"down", "created", "read", "up"}
    /\ bootSeen \subseteq Slugs
    /\ cancelled \subseteq Signups /\ logged \subseteq Signups
    /\ restarts \in 0..MaxRestarts

(* OnUserCreated creates the user and "refreshes the ACL policy so the user's
   tags are recognized": the policy in force has the rules of every user whose
   signup succeeded, for good. *)
SignedUpRecognized ==
    \A s \in Signups : pc[s] = "ok" => Recognizes(policy, s.slug) /\ s.slug \in hsUsers

(* "the signup handler will compensate by deleting the user row", wherever the
   signup fails: every row is that of a signup that is under way, has succeeded or
   died with the process, or the log tells that it could not be taken back.  A row
   of none of these would keep its slug and its email taken and nobody would
   know. *)
LeftoverIsLogged ==
    \A x \in Slugs : \A s \in rows[x] :
        pc[s] \in InHand \cup {"ok", "killed"} \/ s \in logged

(* Initialize repairs what an overwritten, failed or interrupted refresh left:
   the policy in force when the control plane starts to serve is that of the
   rows. *)
BootRepairs == [][boot # "up" /\ boot' = "up" => policy' = PolicyOf(allSlugs')]_vars
=============================================================================
