-------------------------- MODULE UserPolicyProofs --------------------------
(***************************************************************************)
(* What Refresh guarantees for any number of users: the policy of the rows *)
(* whenever the control plane starts to serve, and, if no two signups      *)
(* overlap, rules for every user who signed up, through failures of        *)
(* Headscale and of the database, cancelled requests and restarts.         *)
(***************************************************************************)
EXTENDS UserPolicy, TLAPS

(* Nothing is in hand while the control plane starts, so the slugs Initialize
   has read stay those of the rows. *)
Booting ==
    /\ rows \in [Slugs -> SUBSET Signups]
    /\ DOMAIN pc = Signups
    /\ boot # "up" => \A s \in Signups : pc[s] \notin InHand
    /\ boot = "read" => bootSeen = allSlugs

LEMMA BootInductive == Booting /\ [Next]_vars => Booting'
<1> SUFFICES ASSUME Booting, [Next]_vars
             PROVE  Booting'
  OBVIOUS
<1> USE SignupsAssumption DEF Booting, InHand
<1>1. ASSUME NEW s \in Signups, Signup(s)
      PROVE  Booting'
  BY <1>1 DEF Signup, Inserted, Goto
<1>2. ASSUME NEW s \in Signups, HardDelete(s)
      PROVE  Booting'
  BY <1>2 DEF HardDelete, Goto
<1>3. ASSUME NEW s \in Signups, CreateUser(s) \/ ReadSlugs(s) \/ SetPolicy(s)
      PROVE  Booting'
  BY <1>3 DEF CreateUser, Added, ReadSlugs, SetPolicy, Goto, allSlugs
<1>4. ASSUME NEW s \in Signups, Cancel(s)
      PROVE  Booting'
  BY <1>4 DEF Cancel, allSlugs
<1>5. CASE BootCreate
  BY <1>5 DEF BootCreate, allSlugs
<1>6. CASE BootRead
  BY <1>6 DEF BootRead, allSlugs
<1>7. CASE BootPush
  BY <1>7 DEF BootPush, allSlugs
<1>8. CASE Restart
  BY <1>8 DEF Restart, allSlugs
<1>9. CASE UNCHANGED vars
  BY <1>9 DEF vars, allSlugs
<1> QED BY <1>1, <1>2, <1>3, <1>4, <1>5, <1>6, <1>7, <1>8, <1>9 DEF Next

(* The policy in force when the control plane starts to serve is that of the
   rows, whatever earlier refreshes overwrote or failed to push. *)
THEOREM InitializeRepairs == Spec => BootRepairs
<1>1. Init => Booting
  BY DEF Init, Booting, InHand
<1>2. Booting /\ [Next]_vars =>
        [boot # "up" /\ boot' = "up" => policy' = PolicyOf(allSlugs')]_vars
  <2> SUFFICES ASSUME Booting, Next, boot # "up", boot' = "up"
               PROVE  policy' = PolicyOf(allSlugs')
    BY DEF vars
  <2>1. BootPush
    BY DEF Next, Signup, CreateUser, ReadSlugs, SetPolicy, HardDelete, Cancel,
           BootCreate, BootRead, Restart
  <2> QED BY <2>1 DEF BootPush, Booting, allSlugs
<1> QED BY <1>1, <1>2, BootInductive, PTL DEF Spec, BootRepairs

-----------------------------------------------------------------------------
(* A refresh recognizes every user it has read. *)
LEMMA RefreshRecognizes ==
  ASSUME NEW slugs, NEW x \in slugs
  PROVE  Recognizes(PolicyOf(slugs), x)
BY DEF Recognizes, PolicyOf, GenerateACL

(* One signup at a time: what its Refresh has read is what the rows are when
   it is pushed, and it includes all who signed up before. *)
OneAtATime ==
    /\ \A s, r \in Signups : pc[s] \in InHand /\ pc[r] \in InHand => s = r
    /\ \A s \in Signups : pc[s] \in InHand \cup {"ok"} => s \in rows[s.slug]
    /\ \A s \in Signups : pc[s] \in {"user", "read"} => s.slug \in hsUsers
    /\ \A s \in Signups : pc[s] = "read" => seen[s] = allSlugs
    /\ \A x \in Slugs : \A s, r \in rows[x] : s = r

Recognizing == Booting /\ DOMAIN seen = Signups /\ OneAtATime /\ SignedUpRecognized

LEMMA RecognizedInductive ==
  ASSUME "overlap" \notin Faults, "odd" \notin Faults, Recognizing, [Next]_vars
  PROVE  Recognizing'
<1>0. Booting'
  BY BootInductive DEF Recognizing
<1> USE SignupsAssumption DEF Recognizing, Booting, OneAtATime, SignedUpRecognized, InHand
<1>1. ASSUME NEW s \in Signups, Signup(s)
      PROVE  Recognizing'
  BY <1>0, <1>1 DEF Signup, Inserted, Goto
<1>2. ASSUME NEW s \in Signups, CreateUser(s)
      PROVE  Recognizing'
  BY <1>0, <1>2 DEF CreateUser, Added, Goto, allSlugs
<1>3. ASSUME NEW s \in Signups, ReadSlugs(s)
      PROVE  Recognizing'
  BY <1>0, <1>3 DEF ReadSlugs, Goto, allSlugs
<1>4. ASSUME NEW s \in Signups, SetPolicy(s)
      PROVE  Recognizing'
  <2>1. \A r \in Signups : pc[r] = "ok" \/ r = s => r.slug \in seen[s]
    BY <1>4 DEF SetPolicy, allSlugs
  <2>2. \A r \in Signups : pc[r] = "ok" \/ r = s => Recognizes(PolicyOf(seen[s]), r.slug)
    BY <2>1, RefreshRecognizes
  <2> QED BY <1>0, <1>4, <2>2 DEF SetPolicy, Goto, allSlugs
<1>5. ASSUME NEW s \in Signups, HardDelete(s)
      PROVE  Recognizing'
  BY <1>0, <1>5 DEF HardDelete, Goto
<1>6. ASSUME NEW s \in Signups, Cancel(s)
      PROVE  Recognizing'
  BY <1>0, <1>6 DEF Cancel, allSlugs
<1>7. CASE BootCreate \/ BootRead
  BY <1>0, <1>7 DEF BootCreate, BootRead, allSlugs
<1>8. CASE BootPush
  <2>1. \A r \in Signups : pc[r] = "ok" => r.slug \in bootSeen
    BY <1>8 DEF BootPush, allSlugs
  <2>2. \A r \in Signups : pc[r] = "ok" => Recognizes(PolicyOf(bootSeen), r.slug)
    BY <2>1, RefreshRecognizes
  <2> QED BY <1>0, <1>8, <2>2 DEF BootPush, allSlugs
<1>9. CASE Restart
  BY <1>0, <1>9 DEF Restart, allSlugs
<1>10. CASE UNCHANGED vars
  BY <1>0, <1>10 DEF vars, allSlugs
<1> QED BY <1>1, <1>2, <1>3, <1>4, <1>5, <1>6, <1>7, <1>8, <1>9, <1>10 DEF Next

(* If signups do not overlap and CreateUser's 400 and 409 mean what the client
   takes them for, the policy in force has the rules of every user whose signup
   succeeded: no failed, cancelled or interrupted signup and no restart takes them
   away. *)
THEOREM SerialSignupsRecognized ==
  ASSUME "overlap" \notin Faults, "odd" \notin Faults
  PROVE  Spec => []SignedUpRecognized
<1>1. Init => Recognizing
  BY DEF Init, Recognizing, Booting, OneAtATime, SignedUpRecognized, InHand
<1>2. Recognizing /\ [Next]_vars => Recognizing'
  BY RecognizedInductive
<1>3. Recognizing => SignedUpRecognized
  BY DEF Recognizing
<1> QED BY <1>1, <1>2, <1>3, PTL DEF Spec

-----------------------------------------------------------------------------
LEMMA TypeInductive == TypeOK /\ [Next]_vars => TypeOK'
<1> SUFFICES ASSUME TypeOK, [Next]_vars
             PROVE  TypeOK'
  OBVIOUS
<1> USE SignupsAssumption, RestartsAssumption DEF TypeOK, InHand
<1>1. ASSUME NEW s \in Signups, Signup(s) \/ HardDelete(s)
      PROVE  TypeOK'
  BY <1>1 DEF Signup, Inserted, HardDelete, Goto
<1>2. ASSUME NEW s \in Signups, CreateUser(s) \/ Cancel(s)
      PROVE  TypeOK'
  BY <1>2 DEF CreateUser, Added, Cancel, Goto
<1>3. ASSUME NEW s \in Signups, ReadSlugs(s) \/ SetPolicy(s)
      PROVE  TypeOK'
  BY <1>3 DEF ReadSlugs, SetPolicy, Goto, allSlugs
<1>4. CASE BootCreate \/ BootRead \/ BootPush
  BY <1>4 DEF BootCreate, BootRead, BootPush, allSlugs
<1>5. CASE Restart
  BY <1>5 DEF Restart
<1>6. CASE UNCHANGED vars
  BY <1>6 DEF vars
<1> QED BY <1>1, <1>2, <1>3, <1>4, <1>5, <1>6 DEF Next

LEMMA TypeInit == Init => TypeOK
BY RestartsAssumption DEF Init, TypeOK, PolicyOf, InHand

(* The tables and handlers are what they are declared to be: a slug has one row
   at most, and the policy in force is always one some Refresh made, whole. *)
THEOREM PolicyTypes == Spec => []TypeOK
BY TypeInit, TypeInductive, PTL DEF Spec

(* A failed signup is undone or its row is accounted for in the log, whatever
   Headscale, the database, the request's context and a restart do and however
   signups overlap: every error path of signup leads through the rollback. *)
THEOREM FailedSignupUndone == Spec => []LeftoverIsLogged
<1>1. Init => LeftoverIsLogged
  BY DEF Init, LeftoverIsLogged
<1>2. TypeOK /\ LeftoverIsLogged /\ [Next]_vars => LeftoverIsLogged'
  <2> SUFFICES ASSUME TypeOK, LeftoverIsLogged, [Next]_vars
               PROVE  LeftoverIsLogged'
    OBVIOUS
  <2> USE SignupsAssumption DEF TypeOK, LeftoverIsLogged, InHand
  <2>1. ASSUME NEW s \in Signups, Signup(s)
        PROVE  LeftoverIsLogged'
    BY <2>1 DEF Signup, Inserted, Goto
  <2>2. ASSUME NEW s \in Signups, HardDelete(s)
        PROVE  LeftoverIsLogged'
    BY <2>2 DEF HardDelete, Goto
  <2>3. ASSUME NEW s \in Signups, CreateUser(s) \/ ReadSlugs(s) \/ SetPolicy(s)
        PROVE  LeftoverIsLogged'
    BY <2>3 DEF CreateUser, ReadSlugs, SetPolicy, Goto
  <2>4. ASSUME NEW s \in Signups, Cancel(s)
        PROVE  LeftoverIsLogged'
    BY <2>4 DEF Cancel
  <2>5. CASE BootCreate \/ BootRead \/ BootPush
    BY <2>5 DEF BootCreate, BootRead, BootPush
  <2>6. CASE Restart
    BY <2>6 DEF Restart
  <2>7. CASE UNCHANGED vars
    BY <2>7 DEF vars
  <2> QED BY <2>1, <2>2, <2>3, <2>4, <2>5, <2>6, <2>7 DEF Next
<1> QED BY <1>1, <1>2, TypeInit, TypeInductive, PTL DEF Spec
=============================================================================
