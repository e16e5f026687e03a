--------------------------- MODULE CSITesterProofs ---------------------------
(***************************************************************************)
(* Proofs about CSITester, for every set of faults: with                   *)
(* --terminate-on-exit a tester that was set up leaves nothing, unless a   *)
(* deletion fails.                                                         *)
(***************************************************************************)
EXTENDS CSITester, TLAPS

(* What a tester has set up so far, or not deleted yet, when no call has   *)
(* failed.                                                                 *)
SoFar ==
  CASE stage = "profile"                      -> {}
    [] stage = "policy"                       -> {"profile"}
    [] stage = "role"                         -> {"profile", "policy"}
    [] stage = "attach"                       -> Resource
    [] stage = "add"                          -> Resource \cup {"attached"}
    [] stage \in {"ec2", "test", "terminate"} -> Resource \cup Link
    [] stage = "remove"                       -> Resource \cup Link
    [] stage = "delprofile"                   -> Resource \cup {"attached"}
    [] stage = "detach"                       -> {"policy", "role", "attached"}
    [] stage = "delpolicy"                    -> {"policy", "role"}
    [] stage = "delrole"                      -> {"role"}
    [] OTHER                                  -> {}

SmoothInv ==
  ~undone /\ deleted =>
    /\ stage \in CreateStep \cup {"ec2", "test"} \cup DeleteStep =>
         iam = SoFar /\ known = iam \cap Resource
    /\ stage \in CreateStep \cup {"ec2"} => ec2 = "none"
    /\ stage \in DeleteStep => terminate
    /\ stage \in DeleteStep \ {"terminate"} => ec2 = "none"
    /\ stage \in Ended => (terminate => iam = {} /\ ec2 = "none")

(* Nothing is deleted before something failed or Down was called.          *)
CreateInv == stage \in CreateStep \cup {"ec2", "test"} => ~undone /\ deleted

IInv == TypeOK /\ CreateInv /\ SmoothInv

LEMMA InitIInv == Init => IInv
  BY DEF Init, IInv, TypeOK, CreateInv, SmoothInv, SoFar,
         Resource, Link, CreateStep, DeleteStep, Ended

LEMMA MakeKeeps ==
  ASSUME IInv,
         NEW s, NEW r, NEW n, Make(s, r, n),
         <<s, r, n>> \in {<<"profile", "profile", "policy">>,
                          <<"policy", "policy", "role">>,
                          <<"role", "role", "attach">>,
                          <<"attach", "attached", "add">>,
                          <<"add", "member", "ec2">>}
  PROVE IInv'
<1> USE DEF Resource, Link, CreateStep, DeleteStep, Ended
<1>1. CASE iam' = iam \cup {r} /\ known' = known \cup ({r} \cap Resource)
           /\ stage' = n /\ UNCHANGED undone
  <2>1. TypeOK'
    BY <1>1 DEF IInv, TypeOK, Make
  <2>3. iam = SoFar /\ known = iam \cap Resource /\ ec2 = "none" /\ ~undone /\ deleted
    BY DEF IInv, CreateInv, SmoothInv, Make
  <2>4. iam' = SoFar' /\ known' = iam' \cap Resource
    BY <1>1, <2>3 DEF SoFar, Make
  <2>5. CreateInv' /\ SmoothInv'
    BY <1>1, <2>3, <2>4 DEF Make, CreateInv, SmoothInv
  <2>6. QED BY <2>1, <2>5 DEF IInv
<1>2. CASE Undo /\ UNCHANGED <<iam, known>>
  BY <1>2 DEF IInv, TypeOK, Make, Undo, CreateInv, SmoothInv
<1>3. QED BY <1>1, <1>2 DEF Make

LEMMA TryKeeps ==
  ASSUME IInv, NEW p, NEW g \in Resource \cup Link, NEW s, NEW o,
         Try(p, g, s, o), UNCHANGED <<ec2, terminate, undone>>,
         \/ <<stage, g, s>> \in {<<"remove", "member", "delprofile">>,
                                 <<"delprofile", "profile", "detach">>,
                                 <<"detach", "attached", "delpolicy">>,
                                 <<"delpolicy", "policy", "delrole">>}
         \/ stage = "delrole" /\ g = "role" /\ s \in Ended,
         o \in DeleteStep \cup Ended
  PROVE IInv'
<1> USE DEF Resource, Link, CreateStep, DeleteStep, Ended
<1>1. CASE iam' = iam \ {g} /\ stage' = s /\ known' = known \ {g} /\ UNCHANGED deleted
  <2>1. TypeOK'
    BY <1>1 DEF IInv, TypeOK
  <2>2. CreateInv'
    BY <1>1 DEF CreateInv
  <2>3. SmoothInv'
    BY <1>1 DEF IInv, SmoothInv, SoFar
  <2>4. QED BY <2>1, <2>2, <2>3 DEF IInv
<1>2. CASE stage' = o /\ deleted' = FALSE /\ UNCHANGED <<iam, known>>
  BY <1>2 DEF IInv, TypeOK, CreateInv, SmoothInv
<1>3. QED BY <1>1, <1>2 DEF Try

(* A deletion that is left out: something has failed before.               *)
LEMMA SkipKeeps ==
  ASSUME IInv, NEW s \in {"detach", "delrole"} \cup Ended, Skip(s),
         stage \in DeleteStep, UNCHANGED <<ec2, terminate, undone>>,
         undone \/ ~deleted
  PROVE IInv'
  BY DEF IInv, TypeOK, CreateInv, SmoothInv, Skip,
         CreateStep, DeleteStep, Ended

LEMMA NextIInv == IInv /\ [Next]_vars => IInv'
<1> SUFFICES ASSUME IInv, [Next]_vars PROVE IInv'
  OBVIOUS
<1> USE DEF Resource, Link, CreateStep, DeleteStep, Ended
<1>0. Returned \in Ended
  BY DEF Returned
<1>1. CASE CreateInstanceProfile \/ CreatePolicy \/ CreateRole
           \/ AttachRolePolicy \/ AddRoleToInstanceProfile
  BY <1>1, MakeKeeps DEF CreateInstanceProfile, CreatePolicy, CreateRole,
                         AttachRolePolicy, AddRoleToInstanceProfile
<1>2. CASE CreateInstance
  <2>1. ~undone /\ deleted /\ iam = Resource \cup Link /\ known = Resource /\ ec2 = "none"
    BY <1>2 DEF CreateInstance, IInv, CreateInv, SmoothInv, SoFar
  <2>2. TypeOK'
    BY <1>2 DEF CreateInstance, Undo, IInv, TypeOK
  <2>3. CASE stage' = "test" /\ UNCHANGED <<undone, known>>
    <3>1. iam' = SoFar' /\ known' = iam' \cap Resource /\ deleted' = deleted
      BY <1>2, <2>1, <2>3 DEF CreateInstance, SoFar
    <3>2. QED BY <2>1, <2>2, <2>3, <3>1 DEF IInv, CreateInv, SmoothInv
  <2>4. CASE stage' = "panic" /\ undone' = TRUE
    BY <2>2, <2>4 DEF IInv, CreateInv, SmoothInv
  <2>5. QED BY <1>2, <2>3, <2>4 DEF CreateInstance
<1>3. CASE Test
  BY <1>3 DEF Test, IInv, TypeOK, CreateInv, SmoothInv, SoFar
<1>4. CASE Terminate
  <2>1. TypeOK' /\ CreateInv'
    BY <1>4 DEF Terminate, IInv, TypeOK, CreateInv
  <2>2. CASE ~undone /\ deleted /\ deleted'
    <3>1. iam = Resource \cup Link /\ known = Resource /\ terminate
      BY <1>4, <2>2 DEF Terminate, IInv, SmoothInv, SoFar
    <3>2. stage' = "remove" /\ ec2' = "none" /\ UNCHANGED <<iam, known, terminate>>
      BY <1>4, <2>2 DEF Terminate
    <3>3. iam' = SoFar' /\ known' = iam' \cap Resource
      BY <3>1, <3>2 DEF SoFar
    <3>4. QED BY <2>1, <3>1, <3>2, <3>3 DEF IInv, SmoothInv
  <2>3. CASE ~(~undone /\ deleted /\ deleted')
    BY <1>4, <2>1, <2>3 DEF Terminate, IInv, SmoothInv
  <2>4. QED BY <2>2, <2>3
<1>5. ASSUME ~undone /\ deleted, stage \in DeleteStep
      PROVE known = SoFar \cap Resource
  BY <1>5 DEF IInv, SmoothInv
<1>6. CASE RemoveRole
  <2>1. "profile" \notin known \/ "role" \notin known => undone \/ ~deleted
    BY <1>5, <1>6 DEF RemoveRole, SoFar, IInv, TypeOK
  <2>2. stage = "remove" /\ UNCHANGED <<ec2, terminate, undone>>
    BY <1>6 DEF RemoveRole
  <2>3. CASE Try("member" \in iam, "member", "delprofile", "detach")
    <3>1. <<stage, "member", "delprofile">> \in {<<"remove", "member", "delprofile">>,
            <<"detach", "attached", "delpolicy">>}
      BY <2>2
    <3>2. QED BY <2>2, <2>3, <3>1, TryKeeps
  <2>4. ASSUME NEW s \in {"detach", "panic"}, Skip(s),
               "profile" \notin known \/ "role" \notin known
        PROVE IInv'
    BY <2>1, <2>2, <2>4, SkipKeeps
  <2>5. QED BY <1>6, <2>3, <2>4 DEF RemoveRole
<1>7. CASE DeleteInstanceProfile
  BY <1>7, TryKeeps DEF DeleteInstanceProfile
<1>8. CASE DetachRolePolicy
  <2>1. "policy" \notin known \/ "role" \notin known => undone \/ ~deleted
    BY <1>5, <1>8 DEF DetachRolePolicy, SoFar, IInv, TypeOK
  <2>2. stage = "detach" /\ UNCHANGED <<ec2, terminate, undone>>
    BY <1>8 DEF DetachRolePolicy
  <2>3. CASE Try("attached" \in iam, "attached", "delpolicy", "delrole")
    <3>1. <<stage, "attached", "delpolicy">> \in {<<"remove", "member", "delprofile">>,
            <<"detach", "attached", "delpolicy">>}
      BY <2>2
    <3>2. QED BY <2>2, <2>3, <3>1, TryKeeps
  <2>4. ASSUME NEW s \in {"delrole", "panic"}, Skip(s),
               "policy" \notin known \/ "role" \notin known
        PROVE IInv'
    BY <2>1, <2>2, <2>4, SkipKeeps
  <2>5. QED BY <1>8, <2>3, <2>4 DEF DetachRolePolicy
<1>9. CASE DeletePolicy
  BY <1>9, TryKeeps DEF DeletePolicy
<1>10. CASE DeleteRole
  BY <1>0, <1>5, <1>10, TryKeeps, SkipKeeps DEF DeleteRole, SoFar
<1>11. CASE UNCHANGED vars
  BY <1>11 DEF vars, IInv, TypeOK, CreateInv, SmoothInv, SoFar
<1>12. QED
  BY <1>1, <1>2, <1>3, <1>4, <1>6, <1>7, <1>8, <1>9, <1>10, <1>11 DEF Next

LEMMA SpecIInv == Spec => []IInv
  BY InitIInv, NextIInv, PTL DEF Spec

(* The IAM resources, the records and the stages keep their types.         *)
THEOREM CSITypeCorrect == Spec => []TypeOK
<1>1. IInv => TypeOK
  BY DEF IInv
<1>2. QED BY <1>1, SpecIInv, PTL

(* With --terminate-on-exit, and once NewTester has returned a tester, the *)
(* deletions, each refused by AWS while a link exists, come in an order    *)
(* that leaves nothing, unless one of them fails.                          *)
THEOREM LeavesNothing == Spec => []NothingLeft
<1>1. IInv => NothingLeft
  BY DEF IInv, SmoothInv, NothingLeft
<1>2. QED BY <1>1, SpecIInv, PTL
=============================================================================
