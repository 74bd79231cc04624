----------------------------- MODULE Outcomes_proofs -----------------------------
(* What the program says of its work is true, for any number of devices,      *)
(* files, workers and retries.                                                *)
EXTENDS Outcomes, FiniteSetTheorems, SequenceTheorems, WellFoundedInduction, TLAPS

\* What is not studied in a behaviour stands still, so every part has the steps of its
\* own specification.
LEMMA PartsAlone ==
    OutcomesSpec =>
      /\ Task!Init /\ [][Task!Next]_taskVars
      /\ Group!Init /\ [][Group!Next]_groupVars
      /\ Store!Init /\ [][Store!Next]_storeVars
      /\ Dialogue!Init /\ [][Dialogue!Next]_dialogueVars
      /\ Transfer!Init /\ [][Transfer!Next]_transferVars
      /\ Sessions!Init /\ [][Sessions!Next]_sessionVars
      /\ Health!Init /\ [][Health!Next]_healthVars
      /\ Logs!Init /\ [][Logs!Next]_logVars
      /\ Bills!Init /\ [][Bills!Next]_billingVars
      /\ Init /\ [][Next]_vars
<1>1. OutcomesInit => /\ Task!Init /\ Group!Init /\ Store!Init /\ Dialogue!Init
                      /\ Transfer!Init /\ Sessions!Init /\ Health!Init /\ Logs!Init
                      /\ Bills!Init /\ Init
  BY DEF OutcomesInit
<1>2. [OutcomesNext]_all =>
        /\ [Task!Next]_taskVars /\ [Group!Next]_groupVars /\ [Store!Next]_storeVars
        /\ [Dialogue!Next]_dialogueVars /\ [Transfer!Next]_transferVars
        /\ [Sessions!Next]_sessionVars /\ [Health!Next]_healthVars /\ [Logs!Next]_logVars
        /\ [Bills!Next]_billingVars /\ [Next]_vars
  BY DEF OutcomesNext, all, QuotaPart, TaskPart, GroupPart, StorePart, DialoguePart,
         TransferPart, SessionsPart, HealthPart, LogsPart, BillingPart
<1> QED
  BY <1>1, <1>2, PTL DEF OutcomesSpec

LEMMA OnePart == OutcomesSpec => [](part \in Choices)
<1>1. OutcomesInit => part \in Choices
  BY DEF OutcomesInit
<1>2. part \in Choices /\ [OutcomesNext]_all => (part \in Choices)'
  BY DEF OutcomesNext, all, QuotaPart, TaskPart, GroupPart, StorePart, DialoguePart,
         TransferPart, SessionsPart, HealthPart, LogsPart, BillingPart
<1> QED
  BY <1>1, <1>2, PTL DEF OutcomesSpec

-------------------------------------------------------------------------------
(* Numbers and places.                                                     *)

\* A set of natural numbers has a least one.
LEMMA Least ==
    ASSUME NEW T \in SUBSET Nat, T # {}
    PROVE  \E x \in T : \A y \in T : x <= y
<1> DEFINE R == OpToRel(<, Nat)
<1>1. IsWellFoundedOn(R, Nat)
  BY NatLessThanWellFounded
<1>2. \A x, y \in Nat : <<y, x>> \in R <=> y < x
  BY DEF OpToRel
<1> HIDE DEF R
<1>3. PICK x \in T : \A y \in T : <<y, x>> \notin R
  BY <1>1, WFMin
<1>4. ASSUME NEW y \in T PROVE x <= y
  <2>1. x \in Nat /\ y \in Nat /\ ~(y < x)
    BY <1>2, <1>3
  <2> QED
    BY <2>1
<1> QED
  BY <1>4

\* Bounded numbers have a greatest.
LEMMA Greatest ==
    ASSUME NEW T \in SUBSET Nat, T # {}, NEW n \in Nat, \A y \in T : y <= n
    PROVE  \E x \in T : \A y \in T : y <= x
<1> DEFINE U == {k \in Nat : \A y \in T : y <= k}
<1>1. U \in SUBSET Nat /\ U # {}
  OBVIOUS
<1>2. PICK k \in U : \A u \in U : k <= u
  BY <1>1, Least, Zenon
<1>3. k \in Nat /\ \A y \in T : y <= k
  BY <1>2
<1>4. k \in T
  <2> SUFFICES ASSUME k \notin T PROVE FALSE
    OBVIOUS
  <2>1. ASSUME NEW y \in T PROVE y \in Nat /\ y <= k - 1
    <3>1. y \in Nat /\ y <= k /\ y # k /\ k \in Nat
      BY <1>3
    <3> QED
      BY <3>1
  <2>2. k - 1 \in Nat
    <3>1. PICK y \in T : TRUE
      OBVIOUS
    <3>2. y \in Nat /\ y <= k - 1
      BY <2>1
    <3> QED
      BY <1>3, <3>2
  <2>3. k - 1 \in U
    BY <2>1, <2>2
  <2> QED
    BY <1>2, <1>3, <2>3
<1> QED
  BY <1>3, <1>4

LEMMA Largest ==
    ASSUME NEW T \in SUBSET Nat, T # {}, NEW n \in Nat, \A y \in T : y <= n
    PROVE  Logs!Max(T) \in T /\ \A y \in T : y <= Logs!Max(T)
<1>1. \E x \in T : \A y \in T : x >= y
  BY Greatest
<1>2. Logs!Max(T) \in T /\ \A y \in T : Logs!Max(T) >= y
  BY <1>1, Zenon DEF Logs!Max
<1> QED
  BY <1>2

LEMMA Smallest ==
    ASSUME NEW T \in SUBSET Nat, T # {}
    PROVE  Logs!Min(T) \in T /\ \A y \in T : Logs!Min(T) <= y
<1>1. \E x \in T : \A y \in T : x <= y
  BY Least
<1> QED
  BY <1>1, Zenon DEF Logs!Min

\* Places are counted as FiniteSets counts them.
LEMMA Counting == \A T : Logs!Cardinality(T) = Cardinality(T)
  BY DEF Logs!Cardinality, Cardinality

LEMMA Places ==
    ASSUME NEW A \in SUBSET Nat, NEW n \in Nat, \A p \in A : p <= n
    PROVE  /\ IsFiniteSet(A) /\ Cardinality(A) \in Nat
           /\ \A B \in SUBSET A : /\ IsFiniteSet(B) /\ Cardinality(B) \in Nat
                                  /\ Cardinality(B) <= Cardinality(A)
<1>1. IsFiniteSet(A)
  BY FS_BoundedSetOfNaturals
<1>2. ASSUME NEW B \in SUBSET A
      PROVE  IsFiniteSet(B) /\ Cardinality(B) \in Nat /\ Cardinality(B) <= Cardinality(A)
  BY <1>1, FS_Subset, FS_CardinalityType
<1> QED
  BY <1>1, <1>2, FS_CardinalityType

\* The newest that fit: when there is room left, all of them.
LEMMA NewestThatFit ==
    ASSUME NEW A \in SUBSET Nat, NEW n \in Nat, \A p \in A : p <= n, NEW room \in Nat,
           NEW T, T = {p \in A : Cardinality({q \in A : q >= p}) <= room}
    PROVE  /\ T \subseteq A /\ Cardinality(T) \in 0..room
           /\ Cardinality(T) # room => T = A
<1> DEFINE From(p) == {q \in A : q >= p}
<1>1. T \subseteq A /\ \A p \in A : p \in T <=> Cardinality(From(p)) <= room
  OBVIOUS
<1>2. /\ IsFiniteSet(T) /\ Cardinality(T) \in Nat
      /\ \A p : From(p) \in SUBSET A /\ IsFiniteSet(From(p)) /\ Cardinality(From(p)) \in Nat
  BY <1>1, Places
<1>3. Cardinality(T) <= room
  <2>1. CASE T = {}
    <3>1. Cardinality(T) = 0
      BY <2>1, FS_EmptySet, Zenon
    <3> QED
      BY <3>1
  <2>2. CASE T # {}
    <3>1. PICK t \in T : \A y \in T : t <= y
      BY <1>1, <2>2, Least
    <3>2. T \subseteq From(t)
      BY <1>1, <3>1
    <3>3. Cardinality(T) <= Cardinality(From(t))
      BY <1>2, <3>2, FS_Subset
    <3> QED
      BY <1>1, <1>2, <3>1, <3>3
  <2> QED
    BY <2>1, <2>2
<1>4. ASSUME T # A PROVE Cardinality(T) = room
  <2>1. A \ T \in SUBSET Nat /\ A \ T # {} /\ \A y \in A \ T : y <= n
    BY <1>1, <1>4
  <2>2. PICK p \in A \ T : \A y \in A \ T : y <= p
    BY <2>1, Greatest
  <2>3. Cardinality(From(p)) > room
    BY <1>1, <1>2, <2>2
  <2>4. From(p) \subseteq T \cup {p}
    <3>1. ASSUME NEW q \in From(p), q \notin T PROVE q = p
      <4>1. q \in A \ T /\ q >= p /\ q \in Nat /\ p \in Nat
        BY <2>2, <3>1
      <4> QED
        BY <2>2, <4>1
    <3> QED
      BY <3>1
  <2>5. IsFiniteSet(T \cup {p}) /\ Cardinality(T \cup {p}) = Cardinality(T) + 1
    BY <1>2, <2>2, FS_AddElement
  <2>6. Cardinality(From(p)) <= Cardinality(T) + 1
    <3>1. From(p) \in SUBSET (T \cup {p})
      BY <2>4, Zenon
    <3>2. Cardinality(From(p)) <= Cardinality(T \cup {p})
      BY <3>1, <2>5, FS_Subset, Zenon
    <3> QED
      BY <2>5, <3>2
  <2> QED
    BY <1>2, <1>3, <2>3, <2>6
<1> QED
  BY <1>1, <1>2, <1>3, <1>4

\* Of places in their order, each has its rank, and ranks grow no faster than places.
Rank(A, i) == Cardinality({j \in A : j <= i})

LEMMA RankGrows ==
    ASSUME NEW A \in SUBSET Nat, NEW n \in Nat, \A p \in A : p <= n,
           NEW i \in A, NEW j \in A, i <= j
    PROVE  /\ Rank(A, i) \in Nat /\ Rank(A, j) \in Nat
           /\ Rank(A, i) <= Rank(A, j) /\ Rank(A, j) - Rank(A, i) <= j - i
<1> DEFINE To(k) == {p \in A : p <= k}
<1>1. \A k : To(k) \in SUBSET A /\ IsFiniteSet(To(k)) /\ Cardinality(To(k)) \in Nat
  BY Places
<1>2. i \in Nat /\ j \in Nat
  OBVIOUS
<1>3. To(i) \in SUBSET To(j)
  <2>1. ASSUME NEW p \in To(i) PROVE p \in A /\ p <= j
    <3>1. p \in A /\ p \in Nat /\ p <= i
      BY <2>1
    <3> QED
      BY <1>2, <3>1
  <2> QED
    BY <2>1
<1>4. Cardinality(To(i)) <= Cardinality(To(j))
  BY <1>1, <1>3, FS_Subset, Zenon
<1>5. To(j) \in SUBSET (To(i) \cup ((i + 1)..j))
  <2>1. ASSUME NEW p \in To(j) PROVE p \in To(i) \cup ((i + 1)..j)
    <3>1. p \in A /\ p \in Nat /\ p <= j
      BY <2>1
    <3>2. p <= i \/ p \in (i + 1)..j
      BY <1>2, <3>1
    <3> QED
      BY <3>1, <3>2
  <2> QED
    BY <2>1
<1>6. IsFiniteSet((i + 1)..j) /\ Cardinality((i + 1)..j) = j - i
  <2>1. i + 1 \in Int /\ j \in Int
    BY <1>2
  <2>2. /\ IsFiniteSet((i + 1)..j)
        /\ Cardinality((i + 1)..j) = IF i + 1 > j THEN 0 ELSE j - (i + 1) + 1
    BY <2>1, FS_Interval, Zenon
  <2> QED
    BY <1>2, <2>2
<1>7. To(i) \cap ((i + 1)..j) = {}
  BY <1>2
<1>8. /\ IsFiniteSet(To(i) \cup ((i + 1)..j))
      /\ Cardinality(To(i) \cup ((i + 1)..j)) = Cardinality(To(i)) + (j - i)
  <2>1. /\ IsFiniteSet(To(i) \cup ((i + 1)..j))
        /\ Cardinality(To(i) \cup ((i + 1)..j))
             = Cardinality(To(i)) + Cardinality((i + 1)..j) - Cardinality({})
    BY <1>1, <1>6, <1>7, FS_Union
  <2>2. Cardinality({}) = 0
    BY FS_EmptySet
  <2> QED
    BY <1>1, <1>2, <1>6, <2>1, <2>2
<1>9. Cardinality(To(j)) <= Cardinality(To(i)) + (j - i)
  <2>1. Cardinality(To(j)) <= Cardinality(To(i) \cup ((i + 1)..j))
    BY <1>5, <1>8, FS_Subset, Zenon
  <2> QED
    BY <1>8, <2>1
<1>10. Rank(A, i) = Cardinality(To(i)) /\ Rank(A, j) = Cardinality(To(j))
  BY DEF Rank
<1> QED
  BY <1>1, <1>2, <1>4, <1>9, <1>10

LEMMA RankExists ==
    ASSUME NEW A \in SUBSET Nat, NEW n \in Nat, \A p \in A : p <= n,
           NEW k \in 1..Cardinality(A)
    PROVE  \E i \in A : Rank(A, i) = k
<1> DEFINE To(i) == {p \in A : p <= i}
           U == {i \in A : Cardinality(To(i)) >= k}
<1>1. \A i : To(i) \in SUBSET A /\ IsFiniteSet(To(i)) /\ Cardinality(To(i)) \in Nat
  BY Places
<1>2. IsFiniteSet(A) /\ Cardinality(A) \in Nat /\ k \in Nat /\ k >= 1 /\ k <= Cardinality(A)
  BY Places
<1>3. A # {}
  BY <1>2, FS_EmptySet
<1>4. PICK m \in A : \A y \in A : y <= m
  BY <1>3, Greatest
<1>5. To(m) = A
  BY <1>4
<1>6. U # {} /\ U \in SUBSET Nat
  BY <1>2, <1>4, <1>5
<1>7. PICK i \in U : \A y \in U : i <= y
  BY <1>6, Least, Zenon
<1>8. i \in A /\ Cardinality(To(i)) >= k
  BY <1>7
<1>9. ASSUME Cardinality(To(i)) > k PROVE FALSE
  <2> DEFINE B == To(i) \ {i}
  <2>0. i \in To(i) /\ i \in Nat
    BY <1>8
  <2>1. IsFiniteSet(B) /\ Cardinality(B) = Cardinality(To(i)) - 1
    <3>1. IsFiniteSet(To(i)) /\ Cardinality(To(i)) \in Nat
      BY <1>1
    <3> HIDE DEF To
    <3> QED
      BY <2>0, <3>1, FS_RemoveElement
  <2>2. B # {} /\ Cardinality(B) >= k
    <3>1. Cardinality(To(i)) \in Nat
      BY <1>1
    <3>2. Cardinality(B) >= k /\ Cardinality(B) # 0
      BY <1>2, <1>9, <2>1, <3>1
    <3> QED
      BY <3>2, FS_EmptySet, Zenon
  <2>3. B \in SUBSET Nat /\ \A y \in B : y <= n
    OBVIOUS
  <2>4. PICK b \in B : \A y \in B : y <= b
    BY <2>2, <2>3, Greatest, Zenon
  <2>5. b \in A /\ b \in Nat /\ i \in Nat /\ b < i
    BY <1>8, <2>4
  <2>6. To(b) = B
    <3>1. ASSUME NEW p \in To(b) PROVE p \in B
      BY <2>5, <3>1
    <3>2. ASSUME NEW p \in B PROVE p \in To(b)
      BY <2>4, <3>2
    <3> QED
      BY <3>1, <3>2
  <2>7. b \in U
    BY <2>2, <2>5, <2>6
  <2> QED
    BY <1>7, <2>5, <2>7
<1> QED
  BY <1>1, <1>2, <1>8, <1>9 DEF Rank

-------------------------------------------------------------------------------
(* The task of one device.                                                 *)

\* The page goes by the document while it is not final, and by the returned value once
\* Celery calls the task a success.  So each of the three has to be earned, or come of a
\* group with nothing to back up, and a task that Celery calls a success has to have
\* returned something.
Earned ==
    /\ taskDoc.status = "success" => worked \/ returned = "empty"
    /\ returned = "good" => worked
    /\ taskAt = "ending" => returned # "none"
    /\ celery = "SUCCESS" => returned # "none"
    /\ returned \in {"none"} \cup Task!Values

LEMMA PageSaysSo == Earned => Task!SuccessIsTrue
  BY DEF Earned, Task!SuccessIsTrue, Task!Page, Task!Early, Task!CountOnly, Task!Values

LEMMA EarnedInit == Task!Init => Earned
  BY DEF Task!Init, Earned

\* A value is returned, and the document says failed, stopped or, after the executor's
\* success or when there is nothing to back up, success.
LEMMA ReturnStep ==
    ASSUME Earned, NEW says, NEW value \in Task!Values, Task!Return(says, value),
           says = "success" => worked' \/ value = "empty", value = "good" => worked'
    PROVE  Earned'
  BY DEF Earned, Task!Return, Task!Says, Task!Values

LEMMA TaskSteps == Earned /\ Task!Task => Earned'
<1> SUFFICES ASSUME Earned, Task!Task PROVE Earned'
  OBVIOUS
<1> USE DEF Task!environment
<1>0. {"good", "bad", "count", "empty"} \subseteq Task!Values
  BY DEF Task!Values
<1>1. CASE Task!Begin
  BY <1>1 DEF Task!Begin, Earned
<1>2. CASE Task!Checks
  <2>1. CASE UNCHANGED <<celery, returned>> /\ Task!Says("running", FALSE) /\ taskAt' \in {"breaker", "run"}
    BY <1>2, <2>1 DEF Task!Checks, Earned, Task!Says
  <2>2. CASE \E says \in {"stopped", "failed"} : Task!Return(says, "bad")
    BY <1>0, <1>2, <2>2, ReturnStep DEF Task!Checks
  <2> QED
    BY <1>2, <2>1, <2>2 DEF Task!Checks
<1>3. CASE Task!Breaker
  BY <1>0, <1>3, ReturnStep DEF Task!Breaker, Earned
<1>4. CASE Task!Slot
  BY <1>0, <1>4, ReturnStep DEF Task!Slot, Earned
<1>5. CASE Task!Run
  BY <1>0, <1>5, ReturnStep DEF Task!Run, Earned
<1>6. CASE Task!Failed
  <2>1. CASE Task!Return("failed", "bad")
    BY <1>0, <1>6, <2>1, ReturnStep DEF Task!Failed
  <2>2. CASE Task!Says("retrying", FALSE) /\ taskAt' = "waiting" /\ celery' = "RETRY" /\ UNCHANGED returned
    BY <1>6, <2>2 DEF Task!Failed, Task!Says, Earned
  <2> QED
    BY <1>6, <2>1, <2>2 DEF Task!Failed
<1>7. CASE Task!Finish
  BY <1>7 DEF Task!Finish, Earned
<1>8. CASE Task!SoftLimit
  BY <1>0, <1>8, ReturnStep DEF Task!SoftLimit, Earned
<1>9. CASE Task!Die
  BY <1>9 DEF Task!Die, Earned
<1>10. CASE Task!GroupChecks
  <2>1. CASE UNCHANGED <<celery, returned>> /\ Task!Says("running", FALSE) /\ taskAt' = "connect"
    BY <1>10, <2>1 DEF Task!GroupChecks, Earned, Task!Says
  <2>2. CASE \/ Task!Return("failed", "bad") \/ Task!Return("stopped", "count")
             \/ Task!Return("success", "empty")
    BY <1>0, <2>2, ReturnStep
  <2> QED
    BY <1>10, <2>1, <2>2 DEF Task!GroupChecks
<1>11. CASE Task!Connect
  BY <1>11 DEF Task!Connect, Earned
<1>12. CASE Task!GroupDevice \/ Task!GroupFails
  BY <1>0, <1>12, ReturnStep DEF Task!GroupDevice, Task!GroupFails
<1> QED
  BY <1>1, <1>2, <1>3, <1>4, <1>5, <1>6, <1>7, <1>8, <1>9, <1>10, <1>11, <1>12
     DEF Task!Task, Task!Group

LEMMA UserSteps == Earned /\ Task!Users => Earned'
<1> SUFFICES ASSUME Earned, Task!Users PROVE Earned'
  OBVIOUS
<1>1. CASE Task!Register
  BY <1>1 DEF Task!Register, Task!Says, Earned
<1>2. CASE Task!Cancel
  BY <1>2 DEF Task!Cancel, Task!Revoke, Task!Says, Earned
<1>3. CASE Task!StopAll
  BY <1>3 DEF Task!StopAll, Task!Revoke, Earned
<1>4. CASE Task!Unstop \/ Task!Edit
  BY <1>4 DEF Task!Unstop, Task!Edit, Earned
<1> QED
  BY <1>1, <1>2, <1>3, <1>4 DEF Task!Users

LEMMA EarnedStep == Earned /\ [Task!Next]_taskVars => Earned'
<1>1. Earned /\ UNCHANGED taskVars => Earned'
  BY DEF taskVars, Earned
<1> QED
  BY <1>1, TaskSteps, UserSteps DEF Task!Next

\* Whatever overtakes what, the request its own task or a user the end of it, the page
\* never calls a backup a success that no attempt made, but for a group with nothing to
\* back up and one of which the page only has the counts (task_status, run_backup_task,
\* run_vpn_group_backups_task).
THEOREM SuccessHolds == OutcomesSpec => []SuccessIsTrue
<1>1. Earned => SuccessIsTrue
  BY PageSaysSo DEF SuccessIsTrue
<1> QED
  BY <1>1, EarnedInit, EarnedStep, PartsAlone, PTL

-------------------------------------------------------------------------------
(* The task of a group.                                                    *)

\* What is counted while the group's task runs: the devices it has not gone through
\* are the ones its counts leave out.
GroupCounts == [total: Nat, good: Nat, bad: Nat]
Working == groupAt \in {"connect", "device", "guarded", "close"}
GroupInv ==
    /\ left \subseteq Members
    /\ DOMAIN groupDoc = {"status", "result"}
    /\ groupDoc.result \in GroupCounts \cup {Group!NoResult}
    /\ groupAt \in {"none", "queued", "loaded"} => groupDoc.result = Group!NoResult
    /\ Working => /\ groupDoc.result \in GroupCounts
                  /\ groupDoc.status = "running"
                  /\ groupDoc.result.good + groupDoc.result.bad + Group!Cardinality(left)
                       = groupDoc.result.total
    /\ groupAt = "guarded" => current \in left
    /\ groupAt = "close" => left = {}
    /\ Group!CountsAddUp

\* The group's devices are counted as FiniteSets counts them.
LEMMA LeftCounted ==
    ASSUME NEW S \in SUBSET Members
    PROVE  /\ Group!Cardinality(S) \in Nat /\ (S = {} => Group!Cardinality(S) = 0)
           /\ \A x \in S : Group!Cardinality(S \ {x}) = Group!Cardinality(S) - 1
<1>1. \A T : Group!Cardinality(T) = Cardinality(T)
  BY DEF Group!Cardinality, Cardinality
<1>2. IsFiniteSet(S)
  BY OutcomesAssumption, FS_Subset
<1> QED
  BY <1>1, <1>2, FS_CardinalityType, FS_RemoveElement, FS_EmptySet

LEMMA NoCounts == Group!NoResult \notin GroupCounts
<1> SUFFICES ASSUME NEW r \in GroupCounts, r = Group!NoResult PROVE FALSE
  OBVIOUS
<1>1. "total" \in DOMAIN r /\ "total" \notin DOMAIN Group!NoResult
  BY DEF GroupCounts, Group!NoResult
<1> QED
  BY <1>1

\* However the task ends, its last result stays within what it counted.
LEMMA GroupEnds ==
    ASSUME GroupInv, NEW says, NEW r \in GroupCounts \cup {Group!NoResult}, Group!End(says, r),
           r # Group!NoResult => /\ says # "running"
                                 /\ r.good + r.bad <= r.total
                                 /\ says \in {"success", "stopped"} => r.good + r.bad = r.total
    PROVE  GroupInv'
<1>1. groupAt' = "over" /\ left' = {} /\ groupDoc' = [status |-> says, result |-> r]
  BY DEF Group!End, Group!Says
<1>2. Group!CountsAddUp'
  BY <1>1 DEF Group!CountsAddUp
<1> QED
  BY <1>1, <1>2 DEF GroupInv, Working

LEMMA GroupStep == GroupInv /\ [Group!Next]_groupVars => GroupInv'
<1> SUFFICES ASSUME GroupInv, [Group!Next]_groupVars PROVE GroupInv'
  OBVIOUS
<1>1. ASSUME UNCHANGED <<groupAt, left, current, groupDoc>> PROVE GroupInv'
  BY <1>1 DEF GroupInv, Working, Group!CountsAddUp
<1>2. Group!Cardinality(left) \in Nat /\ (left = {} => Group!Cardinality(left) = 0)
      /\ \A x \in left : Group!Cardinality(left \ {x}) = Group!Cardinality(left) - 1
  BY LeftCounted DEF GroupInv
<1>3. CASE Group!Send \/ Group!Users \/ UNCHANGED groupVars
  <2>1. CASE UNCHANGED <<groupAt, left, current, groupDoc>>
    BY <1>1, <2>1
  <2>2. CASE groupAt = "none" /\ groupAt' = "queued" /\ UNCHANGED <<left, current, groupDoc>>
    BY <2>2 DEF GroupInv, Working, Group!CountsAddUp
  <2> QED
    BY <1>3, <2>1, <2>2 DEF Group!Send, Group!SendDevice, Group!SendGroup, Group!Users,
         Group!EditGroup, Group!EditDevice, Group!Stop, Group!settings, groupVars
<1>4. CASE Group!Load
  <2>1. CASE Group!End("failed", Group!NoResult)
    BY <2>1, GroupEnds
  <2>2. CASE Group!End("success", [total |-> 0, good |-> 0, bad |-> 0])
    BY <2>2, GroupEnds DEF GroupCounts
  <2>3. CASE groupAt' = "loaded" /\ left' = sent \cap Group!Scheduled
             /\ UNCHANGED <<current, armed, groupDoc>>
    BY <1>4, <2>3 DEF Group!Load, GroupInv, Working, Group!CountsAddUp, Group!Scheduled
  <2> QED
    BY <1>4, <2>1, <2>2, <2>3 DEF Group!Load
<1>5. CASE Group!Start
  <2> DEFINE n == Group!Cardinality(left)
  <2>1. CASE Group!End("stopped", [total |-> n, good |-> 0, bad |-> n])
    BY <1>2, <2>1, GroupEnds DEF GroupCounts
  <2>2. CASE /\ groupDoc' = [status |-> "running", result |-> [total |-> n, good |-> 0, bad |-> 0]]
             /\ groupAt' \in {"connect", "device"} /\ UNCHANGED <<left, current, armed>>
    <3>1. [total |-> n, good |-> 0, bad |-> 0] \in GroupCounts
      BY <1>2 DEF GroupCounts
    <3> QED
      BY <1>2, <2>2, <3>1 DEF GroupInv, Working, Group!CountsAddUp
  <2> QED
    BY <1>5, <2>1, <2>2 DEF Group!Start, Group!All, Group!Says
<1>6. CASE Group!VpnFails
  <2> DEFINE old == groupDoc.result
             none == [old EXCEPT !.good = 0]
             r == [none EXCEPT !.bad = old.total]
  <2>1. old \in GroupCounts /\ Group!End("failed", r)
    BY <1>6 DEF Group!VpnFails, GroupInv, Working
  <2>2. r \in GroupCounts /\ r.good + r.bad <= r.total
    <3> HIDE DEF old
    <3>1. none \in GroupCounts /\ none.good = 0 /\ none.total = old.total /\ old.total \in Nat
      BY <2>1 DEF GroupCounts
    <3> HIDE DEF none
    <3> QED
      BY <3>1 DEF GroupCounts
  <2> HIDE DEF r
  <2>3. r \in GroupCounts \cup {Group!NoResult} /\ "failed" \notin {"running", "success", "stopped"}
    BY <2>2
  <2> QED
    BY <2>1, <2>2, <2>3, GroupEnds
<1>7. CASE Group!Connect
  BY <1>7 DEF Group!Connect, Group!settings, GroupInv, Working, Group!CountsAddUp
<1>8. CASE Group!NextDevice
  <2> DEFINE old == groupDoc.result
             r == [old EXCEPT !.bad = @ + Group!Cardinality(left)]
  <2>1. Working /\ old \in GroupCounts
        /\ old.good + old.bad + Group!Cardinality(left) = old.total
    BY <1>8 DEF Group!NextDevice, GroupInv, Working
  <2>2. r \in GroupCounts /\ r.good + r.bad = r.total /\ r.good + r.bad <= r.total
    <3> HIDE DEF old
    <3> QED
      BY <1>2, <2>1 DEF GroupCounts
  <2>3. CASE Group!End("stopped", r)
    <3> HIDE DEF r
    <3>1. r \in GroupCounts \cup {Group!NoResult} /\ "stopped" # "running"
      BY <2>2
    <3> QED
      BY <2>2, <2>3, <3>1, GroupEnds
  <2>4. CASE current' \in left /\ groupAt' = "guarded" /\ UNCHANGED <<left, groupDoc>>
    BY <2>1, <2>4 DEF GroupInv, Working, Group!CountsAddUp
  <2> QED
    BY <1>8, <2>3, <2>4 DEF Group!NextDevice, Group!GiveUp
<1>9. ASSUME NEW good \in BOOLEAN, Group!Outcome(good) PROVE GroupInv'
  <2> DEFINE r == groupDoc.result
             counts == [total |-> r.total, good |-> IF good THEN r.good + 1 ELSE r.good,
                        bad |-> IF good THEN r.bad ELSE r.bad + 1]
  <2>1. groupAt = "guarded" /\ current \in left /\ r \in GroupCounts
        /\ groupDoc.status = "running" /\ DOMAIN groupDoc = {"status", "result"}
        /\ r.good + r.bad + Group!Cardinality(left) = r.total
    BY <1>9 DEF Group!Outcome, GroupInv, Working
  <2>2. left' = left \ {current} /\ groupAt' = "device"
        /\ groupDoc' = [groupDoc EXCEPT !.result.good = IF good THEN @ + 1 ELSE @,
                                        !.result.bad = IF good THEN @ ELSE @ + 1]
    BY <1>9 DEF Group!Outcome
  <2>3. counts \in GroupCounts
    BY <2>1 DEF GroupCounts
  <2>4. DOMAIN groupDoc' = {"status", "result"} /\ groupDoc'.status = "running"
        /\ groupDoc'.result = counts
    BY <2>1, <2>2 DEF GroupCounts
  <2>5. counts.good + counts.bad + Group!Cardinality(left') = counts.total
    BY <1>2, <2>1, <2>2 DEF GroupCounts
  <2>6. left' \subseteq Members
    BY <2>2 DEF GroupInv
  <2> HIDE DEF counts
  <2> QED
    BY <2>2, <2>3, <2>4, <2>5, <2>6 DEF GroupInv, Working, Group!CountsAddUp
<1>10. CASE Group!Refused \/ Group!Backup \/ Group!Alarm
  <2>1. CASE UNCHANGED <<groupAt, left, current, groupDoc>>
    BY <1>1, <2>1
  <2>2. CASE \E good \in BOOLEAN : Group!Outcome(good)
    BY <1>9, <2>2
  <2> QED
    BY <1>10, <2>1, <2>2 DEF Group!Refused, Group!Backup, Group!Alarm
<1>11. CASE Group!Error
  <2>1. Group!End("failed", groupDoc.result) /\ (groupDoc.result # Group!NoResult => Working)
    BY <1>11 DEF Group!Error, GroupInv, Working
  <2>2. groupDoc.result # Group!NoResult => groupDoc.result.good + groupDoc.result.bad <= groupDoc.result.total
    BY <1>2, <2>1 DEF GroupInv, GroupCounts
  <2>3. groupDoc.result \in GroupCounts \cup {Group!NoResult}
    BY DEF GroupInv
  <2> QED
    BY <2>1, <2>2, <2>3, GroupEnds
<1>12. CASE Group!Disconnect
  BY <1>12 DEF Group!Disconnect, Group!settings, GroupInv, Working, Group!CountsAddUp
<1>13. CASE Group!Finish
  <2> DEFINE says == IF groupDoc.result.bad = 0 THEN "success" ELSE "failed"
  <2>1. Working /\ left = {} /\ groupDoc.result \in GroupCounts
    BY <1>13 DEF Group!Finish, GroupInv, Working
  <2>2. Group!Cardinality(left) = 0
    BY <1>2, <2>1
  <2>3. groupDoc.result.good + groupDoc.result.bad = groupDoc.result.total
        /\ groupDoc.result.total \in Nat
    BY <2>1, <2>2 DEF GroupInv, GroupCounts
  <2>4. Group!End(says, groupDoc.result) /\ says \in {"success", "failed"}
    BY <1>13 DEF Group!Finish
  <2> HIDE DEF says
  <2> QED
    BY <2>1, <2>3, <2>4, GroupEnds
<1> QED
  BY <1>3, <1>4, <1>5, <1>6, <1>7, <1>8, <1>10, <1>11, <1>12, <1>13 DEF Group!Next, Group!Task

\* Whatever ends the task of a group, a stop at any device, the tunnel, the alarms or the
\* last device, its result accounts for every device (run_vpn_group_backups_task).
THEOREM GroupCountsAddUp == OutcomesSpec => []CountsAddUp
<1>1. Group!Init => GroupInv
  BY DEF Group!Init, GroupInv, Working, Group!CountsAddUp
<1>2. GroupInv => CountsAddUp
  BY DEF GroupInv, CountsAddUp
<1> QED
  BY <1>1, <1>2, GroupStep, PartsAlone, PTL

-------------------------------------------------------------------------------
(* The files.                                                              *)

\* A file that an attempt may call its own: made after its script began, or so shortly
\* before it that the clocks may differ.
Recent(path, began) == path # Store!NoFile /\ path.time + Tolerance >= began

Path == [folder: {Target[d] : d \in Devices}, time: Nat]
Records ==
    [at: Store!Places, device: Devices \cup {CHOOSE d \in Devices : TRUE}, began: Nat,
     path: Path \cup {Store!NoFile}, ok: BOOLEAN]

\* The row copies what the attempt holds, so what an attempt holds from the moment it has
\* found a file has to be recent already; and the time its script began is set once, before
\* there is a file.
Held ==
    /\ clock \in Nat
    /\ \A f \in files : f.name \in Path
    /\ attempt \in [Attempts -> Records]
    /\ \A a \in Attempts :
          /\ attempt[a].began <= clock
          /\ attempt[a].at # "idle" => attempt[a].device \in Devices
          /\ attempt[a].at \in {"idle", "checks", "script", "pick"} => ~attempt[a].ok
          /\ attempt[a].ok => Recent(attempt[a].path, attempt[a].began)
    /\ \A r \in rows : r.ok => Recent(r.path, r.began)

LEMMA PathIsFile == \A path \in Path : path # Store!NoFile
  <1> SUFFICES ASSUME NEW path \in Path, path = Store!NoFile PROVE FALSE
    OBVIOUS
  <1>1. "time" \in DOMAIN path /\ "time" \notin DOMAIN Store!NoFile
    BY DEF Path, Store!NoFile
  <1> QED
    BY <1>1

LEMMA HeldInit == Store!Init => Held
  BY DEF Store!Init, Held, Store!Idle, Records, Store!Places

\* The attempt may end anywhere, and begins anew without a file.
LEMMA AttemptReplaced ==
    ASSUME Held, NEW a \in Attempts, NEW new \in Records,
           attempt' = [attempt EXCEPT ![a] = new], clock' = clock,
           \A f \in files' : f.name \in Path,
           new.began <= clock, new.at # "idle" => new.device \in Devices,
           new.at \in {"idle", "checks", "script", "pick"} => ~new.ok,
           new.ok => Recent(new.path, new.began),
           \A r \in rows' : r.ok => Recent(r.path, r.began)
    PROVE  Held'
  BY DEF Held, Recent

\* The ways an attempt goes on: to the next place, with a result, or to its end.
LEMMA ToKeeps ==
    ASSUME Held, NEW a \in Attempts, NEW place \in Store!Places, Store!To(a, place), clock' = clock,
           \A f \in files' : f.name \in Path, rows' = rows,
           place \in {"idle", "checks", "script", "pick"} => ~attempt[a].ok,
           attempt[a].at # "idle"
    PROVE  Held'
<1> DEFINE new == [attempt[a] EXCEPT !.at = place]
<1>1. new \in Records /\ new.began = attempt[a].began /\ new.ok = attempt[a].ok
      /\ new.device = attempt[a].device
      /\ new.path = attempt[a].path /\ new.at = place
  BY DEF Held, Records
<1>2. attempt' = [attempt EXCEPT ![a] = new]
  BY DEF Store!To, Held
<1>3. /\ new.began <= clock /\ (new.ok => Recent(new.path, new.began))
      /\ new.device \in Devices
      /\ \A r \in rows' : r.ok => Recent(r.path, r.began)
  BY <1>1 DEF Held
<1> HIDE DEF new
<1> QED
  BY <1>1, <1>2, <1>3, AttemptReplaced

LEMMA ResultKeeps ==
    ASSUME Held, NEW a \in Attempts, NEW place \in {"verify", "persist"}, NEW good \in BOOLEAN,
           NEW path \in Path \cup {Store!NoFile}, Store!Result(a, place, good, path), clock' = clock,
           \A f \in files' : f.name \in Path, rows' = rows,
           good => Recent(path, attempt[a].began), attempt[a].at # "idle"
    PROVE  Held'
<1> DEFINE new == [attempt[a] EXCEPT !.at = place, !.ok = good, !.path = path]
<1>1. new \in Records /\ new.began = attempt[a].began /\ new.ok = good
      /\ new.device = attempt[a].device
      /\ new.path = path /\ new.at = place
  BY DEF Held, Records, Store!Places
<1>2. attempt' = [attempt EXCEPT ![a] = new]
  BY DEF Store!Result, Held
<1>3. /\ new.began <= clock /\ (new.ok => Recent(new.path, new.began))
      /\ new.device \in Devices
      /\ \A r \in rows' : r.ok => Recent(r.path, r.began)
  BY <1>1 DEF Held
<1> HIDE DEF new
<1> QED
  BY <1>1, <1>2, <1>3, AttemptReplaced

LEMMA EndKeeps ==
    ASSUME Held, NEW a \in Attempts, attempt' = [attempt EXCEPT ![a] = Store!Idle],
           clock' = clock, files' = files,
           \A r \in rows' : r.ok => Recent(r.path, r.began)
    PROVE  Held'
<1>1. Store!Idle \in Records /\ Store!Idle.began <= clock /\ ~Store!Idle.ok /\ Store!Idle.at = "idle"
  BY DEF Store!Idle, Records, Store!Places, Held
<1>2. \A f \in files' : f.name \in Path
  BY DEF Held
<1> HIDE DEF Store!Idle
<1> QED
  BY <1>1, <1>2, AttemptReplaced

\* An attempt (run_backup_for_device_id).
LEMMA AttemptKeeps ==
    ASSUME Held, NEW a \in Attempts, Store!Attempt(a)
    PROVE  Held'
<1> USE OutcomesAssumption DEF Store!database
<1>1. attempt[a] \in Records /\ \A f \in files : f.name \in Path
  BY DEF Held
<1>2. ASSUME NEW d \in Devices, Store!Start(a, d) PROVE Held'
  <2> DEFINE new == [Store!Idle EXCEPT !.at = "checks", !.device = d, !.began = clock]
  <2>1. Store!Idle \in Records /\ ~Store!Idle.ok /\ clock \in Nat
    BY DEF Store!Idle, Records, Store!Places, Held
  <2>2. new \in Records /\ new.began = clock /\ new.ok = Store!Idle.ok /\ new.device = d
    <3> HIDE DEF Store!Idle
    <3> QED
      BY <2>1 DEF Records, Store!Places
  <2>3. /\ attempt' = [attempt EXCEPT ![a] = new] /\ clock' = clock
        /\ \A f \in files' : f.name \in Path
        /\ \A r \in rows' : r.ok => Recent(r.path, r.began)
    BY <1>1, <1>2 DEF Store!Start, Held
  <2>4. ~new.ok /\ new.began <= clock
    BY <2>1, <2>2
  <2> HIDE DEF new
  <2> QED
    BY <2>2, <2>3, <2>4, AttemptReplaced
<1>3. CASE Store!Refuse(a)
  BY <1>1, <1>3, ResultKeeps DEF Store!Refuse
<1>4. CASE Store!Precheck(a)
  <2> DEFINE old == attempt[a]
             new == [old EXCEPT !.at = "script", !.began = clock]
  <2>1. old \in Records /\ ~old.ok /\ old.device \in Devices /\ clock \in Nat
    BY <1>1, <1>4 DEF Store!Precheck, Held
  <2>2. new \in Records /\ new.began = clock /\ new.ok = old.ok /\ new.device \in Devices
    <3> HIDE DEF old
    <3> QED
      BY <2>1 DEF Records, Store!Places
  <2>3. attempt' = [attempt EXCEPT ![a] = new] /\ clock' = clock
    BY <1>4 DEF Store!Precheck, Held
  <2>4. /\ \A f \in files' : f.name \in Path
        /\ \A r \in rows' : r.ok => Recent(r.path, r.began)
    BY <1>1, <1>4 DEF Store!Precheck, Held
  <2>5. ~new.ok /\ new.began <= clock
    BY <2>1, <2>2
  <2> HIDE DEF new
  <2> QED
    BY <2>2, <2>3, <2>4, <2>5, AttemptReplaced
<1>5. ASSUME NEW good \in BOOLEAN, Store!WriteFile(a, good) PROVE Held'
  <2>1. attempt[a].device \in Devices
    BY <1>5 DEF Store!WriteFile, Held
  <2>2. Store!Mine(a) \in Path /\ Store!Mine(a).time = clock
    BY <2>1 DEF Store!Mine, Path, Held
  <2>3. \A f \in files' : f.name \in Path
    BY <1>1, <1>5, <2>2 DEF Store!WriteFile, Store!Without
  <2>4. Recent(Store!Mine(a), attempt[a].began)
    BY <2>2, PathIsFile DEF Recent, Held, Records
  <2>5. clock' = clock /\ rows' = rows /\ ~attempt[a].ok /\ attempt[a].at # "idle"
    BY <1>5 DEF Store!WriteFile, Held
  <2>6. CASE Store!Result(a, "verify", TRUE, Store!Mine(a)) \/ Store!Result(a, "persist", FALSE, Store!NoFile)
    BY <2>2, <2>3, <2>4, <2>5, <2>6, ResultKeeps
  <2>7. CASE Store!To(a, "pick")
    BY <2>3, <2>5, <2>7, ToKeeps DEF Store!Places
  <2> QED
    BY <1>5, <2>6, <2>7 DEF Store!WriteFile
<1>6. CASE Store!NoNewFile(a)
  <2>1. CASE Store!To(a, "pick")
    BY <1>1, <1>6, <2>1, ToKeeps DEF Store!NoNewFile, Held, Store!Places
  <2>2. CASE Store!Result(a, "persist", FALSE, Store!NoFile)
    BY <1>1, <1>6, <2>2, ResultKeeps DEF Store!NoNewFile
  <2> QED
    BY <1>6, <2>1, <2>2 DEF Store!NoNewFile
<1>7. CASE Store!NameDirectory(a) \/ Store!Die(a)
  <2>1. \A r \in rows : r.ok => Recent(r.path, r.began)
    BY DEF Held
  <2>2. /\ attempt' = [attempt EXCEPT ![a] = Store!Idle]
        /\ clock' = clock /\ files' = files /\ rows' = rows
    BY <1>7 DEF Store!NameDirectory, Store!Die
  <2> QED
    BY <2>1, <2>2, EndKeeps
<1>8. CASE Store!Pick(a)
  <2>1. clock' = clock /\ files' = files /\ rows' = rows /\ attempt[a].at # "idle"
    BY <1>8 DEF Store!Pick
  <2>2. CASE Store!Result(a, "persist", FALSE, Store!NoFile)
    BY <1>1, <2>1, <2>2, ResultKeeps
  <2>3. ASSUME NEW n \in Store!Fresh(a), Store!Result(a, "verify", TRUE, n) PROVE Held'
    <3>1. n \in Path /\ n.time + Tolerance >= attempt[a].began
      BY <1>1, <2>3 DEF Store!Fresh, Store!Listed
    <3>2. Recent(n, attempt[a].began)
      BY <3>1, PathIsFile DEF Recent
    <3> QED
      BY <1>1, <2>1, <2>3, <3>1, <3>2, ResultKeeps
  <2> QED
    BY <1>8, <2>2, <2>3 DEF Store!Pick
<1>9. CASE Store!Verify(a)
  <2>1. clock' = clock /\ files' = files /\ rows' = rows /\ attempt[a].at # "idle"
    BY <1>9 DEF Store!Verify
  <2>2. CASE Store!To(a, "quota")
    BY <1>1, <2>1, <2>2, ToKeeps DEF Store!Places
  <2>3. CASE Store!Result(a, "persist", FALSE, attempt[a].path)
    BY <1>1, <2>1, <2>3, ResultKeeps DEF Records
  <2> QED
    BY <1>9, <2>2, <2>3 DEF Store!Verify
<1>10. CASE Store!Quota(a)
  <2>1. /\ clock' = clock /\ rows' = rows /\ attempt[a].at # "idle"
        /\ \A f \in files' : f.name \in Path
    BY <1>1, <1>10 DEF Store!Quota, Store!Without
  <2>2. CASE Store!To(a, "persist")
    BY <2>1, <2>2, ToKeeps DEF Store!Places
  <2>3. CASE Store!Result(a, "persist", FALSE, Store!NoFile)
    BY <2>1, <2>3, ResultKeeps
  <2> QED
    BY <1>10, <2>2, <2>3 DEF Store!Quota
<1>11. CASE Store!Persist(a)
  <2> DEFINE mine == [device |-> attempt[a].device, ok |-> attempt[a].ok,
                      began |-> attempt[a].began, path |-> attempt[a].path,
                      made |-> clock, twin |-> FALSE]
  <2>1. rows' \subseteq rows \cup {mine, [mine EXCEPT !.twin = TRUE]}
    BY <1>11 DEF Store!Persist
  <2>2. \A r \in {mine, [mine EXCEPT !.twin = TRUE]} : r.ok => Recent(r.path, r.began)
    BY DEF Held
  <2>3. \A r \in rows' : r.ok => Recent(r.path, r.began)
    BY <2>1, <2>2 DEF Held
  <2>4. attempt' = [attempt EXCEPT ![a] = Store!Idle] /\ clock' = clock /\ files' = files
    BY <1>11 DEF Store!Persist
  <2> QED
    BY <2>3, <2>4, EndKeeps
<1> QED
  BY <1>2, <1>3, <1>4, <1>5, <1>6, <1>7, <1>8, <1>9, <1>10, <1>11 DEF Store!Attempt

\* The purges, the users and the clock (retention, clear_failed, the device pages).
LEMMA OthersKeep == Held /\ (Store!Tick \/ Store!Purges \/ Store!Users) => Held'
<1> SUFFICES ASSUME Held, Store!Tick \/ Store!Purges \/ Store!Users PROVE Held'
  OBVIOUS
<1>1. /\ attempt' = attempt /\ rows' \subseteq rows /\ files' \subseteq files
      /\ clock' = clock \/ clock' = clock + 1
  <2> USE DEF Store!database
  <2>1. ASSUME NEW old, Store!Take(old) PROVE attempt' = attempt /\ rows' = rows
                                        /\ files' \subseteq files /\ clock' = clock
    BY <2>1 DEF Store!Take
  <2>2. CASE Store!PurgeExpired \/ Store!PurgeFailed \/ Store!ClearFailed
    BY <2>1, <2>2, Zenon DEF Store!PurgeExpired, Store!PurgeFailed, Store!ClearFailed
  <2>3. CASE Store!CommitPurge \/ Store!CrashPurge \/ Store!Users \/ Store!Tick
    BY <2>3 DEF Store!CommitPurge, Store!CrashPurge, Store!Users, Store!SetDevice, Store!Tick
  <2> QED
    BY <2>2, <2>3 DEF Store!Purges
<1>2. clock' \in Nat /\ clock <= clock'
  BY <1>1 DEF Held
<1>3. \A a \in Attempts : attempt'[a].began <= clock'
  <2>1. \A a \in Attempts : attempt[a].began \in Nat /\ attempt[a].began <= clock
    BY DEF Held, Records
  <2> QED
    BY <1>1, <1>2, <2>1 DEF Held
<1> QED
  BY <1>1, <1>2, <1>3 DEF Held, Recent

LEMMA HeldStep == Held /\ [Store!Next]_storeVars => Held'
<1>1. Held /\ UNCHANGED storeVars => Held'
  BY DEF storeVars, Held, Recent
<1> QED
  BY <1>1, AttemptKeeps, OthersKeep DEF Store!Next

\* A backup recorded as a success names a file no older than the tolerance before its
\* script began, whatever other attempts and the purges do in the directory
\* (execute_backup).
THEOREM SuccessIsFresh == OutcomesSpec => []NoStaleSuccess
<1>1. Held => NoStaleSuccess
  BY DEF Held, NoStaleSuccess, Store!NoStaleSuccess, Recent
<1> QED
  BY <1>1, HeldInit, HeldStep, PartsAlone, PTL

-------------------------------------------------------------------------------
(* The dialogue with a device.                                             *)

\* Pieces of answers and prompts; an answer ends at the first prompt.
Items == [cmd: Nat, part: Nat]
Ends(u, k) ==
    /\ k \in 1..Len(u) /\ u[k] = Dialogue!Prompt
    /\ \A j \in 1..(k - 1) : u[j] # Dialogue!Prompt
Before(u, k) == {u[j] : j \in 1..(k - 1)}
Asked(u) == Dialogue!Prompt \in Dialogue!ToSet(u)
WholeOrNone(S, c) == S \in {{}, Dialogue!ToSet(Dialogue!Answer(c))}
\* What was read and what is still to come, up to the end of the answer, is one whole
\* answer, or nothing when the device did not know the command.
Complete(u, S, c) == Asked(u) => \E k \in 1..Len(u) : Ends(u, k) /\ WholeOrNone(S \cup Before(u, k), c)

LEMMA PromptItem == Dialogue!Prompt \in Items
  BY DEF Dialogue!Prompt, Items

LEMMA SetOf ==
    ASSUME NEW s \in Seq(Items)
    PROVE  /\ Dialogue!ToSet(s) = {s[i] : i \in 1..Len(s)} /\ Len(s) \in Nat
           /\ Dialogue!ToSet(s) \subseteq Items
  BY DEF Dialogue!ToSet

LEMMA SetOfConcat ==
    ASSUME NEW s \in Seq(Items), NEW t \in Seq(Items)
    PROVE  Dialogue!ToSet(s \o t) = Dialogue!ToSet(s) \cup Dialogue!ToSet(t)
<1> DEFINE u == s \o t
<1>1. /\ u \in Seq(Items) /\ Len(u) = Len(s) + Len(t) /\ Len(s) \in Nat /\ Len(t) \in Nat
      /\ \A i \in 1..Len(s) : u[i] = s[i]
      /\ \A i \in 1..Len(t) : u[Len(s) + i] = t[i]
  BY ConcatProperties
<1> HIDE DEF u
<1>2. ASSUME NEW x \in Dialogue!ToSet(u) PROVE x \in Dialogue!ToSet(s) \cup Dialogue!ToSet(t)
  <2>1. PICK i \in 1..Len(u) : x = u[i]
    BY <1>1, <1>2, SetOf
  <2>2. CASE i <= Len(s)
    BY <1>1, <2>1, <2>2, SetOf
  <2>3. CASE i > Len(s)
    <3>1. i - Len(s) \in 1..Len(t) /\ i = Len(s) + (i - Len(s))
      BY <1>1, <2>1, <2>3
    <3> QED
      BY <1>1, <2>1, <3>1, SetOf
  <2> QED
    BY <1>1, <2>1, <2>2, <2>3
<1>3. ASSUME NEW i \in 1..Len(s) PROVE s[i] \in Dialogue!ToSet(u)
  BY <1>1, SetOf
<1>4. ASSUME NEW i \in 1..Len(t) PROVE t[i] \in Dialogue!ToSet(u)
  <2>1. Len(s) + i \in 1..Len(u) /\ u[Len(s) + i] = t[i]
    BY <1>1
  <2> QED
    BY <1>1, <2>1, SetOf
<1> QED
  BY <1>2, <1>3, <1>4, SetOf DEF u

\* There is one end.
LEMMA OneEnd ==
    ASSUME NEW u \in Seq(Items), NEW i \in 1..Len(u), NEW k \in 1..Len(u),
           u[i] = Dialogue!Prompt, Ends(u, k)
    PROVE  k <= i /\ (Ends(u, i) => i = k)
  BY DEF Ends

\* A line that drops takes the end away, and never brings another.
LEMMA CompletePrefix ==
    ASSUME NEW s \in Seq(Items), NEW t \in Seq(Items), NEW S, NEW c, Complete(s \o t, S, c)
    PROVE  Complete(s, S, c)
<1> DEFINE u == s \o t
<1>1. /\ u \in Seq(Items) /\ Len(u) = Len(s) + Len(t) /\ Len(s) \in Nat /\ Len(t) \in Nat
      /\ \A i \in 1..Len(s) : u[i] = s[i]
  BY ConcatProperties
<1> HIDE DEF u
<1> SUFFICES ASSUME Asked(s)
             PROVE  \E k \in 1..Len(s) : Ends(s, k) /\ WholeOrNone(S \cup Before(s, k), c)
  BY DEF Complete
<1>2. PICK i \in 1..Len(s) : s[i] = Dialogue!Prompt
  BY SetOf DEF Asked
<1>3. i \in 1..Len(u) /\ u[i] = Dialogue!Prompt
  BY <1>1, <1>2
<1>4. Asked(u)
  BY <1>1, <1>3, SetOf DEF Asked
<1>5. PICK k \in 1..Len(u) : Ends(u, k) /\ WholeOrNone(S \cup Before(u, k), c)
  BY <1>4 DEF Complete, u
<1>6. k <= i
  BY <1>1, <1>3, <1>5, OneEnd
<1>7. k \in 1..Len(s) /\ \A j \in 1..k : u[j] = s[j]
  BY <1>1, <1>6
<1>8. Before(s, k) = Before(u, k)
  <2>1. \A j \in 1..(k - 1) : u[j] = s[j]
    BY <1>1, <1>5, <1>7
  <2> QED
    BY <2>1, Zenon DEF Before
<1>9. Ends(s, k)
  BY <1>1, <1>5, <1>7 DEF Ends
<1> QED
  BY <1>5, <1>7, <1>8, <1>9

\* What is taken before the end goes on being part of the answer ...
LEMMA CompleteSkip ==
    ASSUME NEW s \in Seq(Items), NEW t \in Seq(Items), NEW S, NEW c, Complete(s \o t, S, c),
           ~Asked(s)
    PROVE  /\ Complete(t, S \cup Dialogue!ToSet(s), c)
           /\ Complete(s \o t, S \cup Dialogue!ToSet(s), c)
<1> DEFINE u == s \o t
<1>1. /\ u \in Seq(Items) /\ Len(u) = Len(s) + Len(t) /\ Len(s) \in Nat /\ Len(t) \in Nat
      /\ \A i \in 1..Len(s) : u[i] = s[i]
      /\ \A i \in 1..Len(t) : u[Len(s) + i] = t[i]
  BY ConcatProperties
<1>2. Asked(u) <=> Asked(t)
  BY SetOfConcat DEF Asked
<1> HIDE DEF u
<1>3. \A i \in 1..Len(s) : s[i] # Dialogue!Prompt
  BY SetOf DEF Asked
<1> SUFFICES ASSUME Asked(u)
             PROVE  \E k \in 1..Len(u), n \in 1..Len(t) :
                       /\ Ends(u, k) /\ Ends(t, n)
                       /\ WholeOrNone((S \cup Dialogue!ToSet(s)) \cup Before(u, k), c)
                       /\ WholeOrNone((S \cup Dialogue!ToSet(s)) \cup Before(t, n), c)
  BY <1>2, Zenon DEF Complete, u
<1>4. PICK k \in 1..Len(u) : Ends(u, k) /\ WholeOrNone(S \cup Before(u, k), c)
  BY DEF Complete, u
<1>5. k > Len(s)
  BY <1>1, <1>3, <1>4 DEF Ends
<1>6. PICK n \in 1..Len(t) : k = Len(s) + n
  <2>1. k - Len(s) \in 1..Len(t) /\ k = Len(s) + (k - Len(s))
    BY <1>1, <1>5
  <2> QED
    BY <2>1
<1>7. Ends(t, n)
  <2>1. t[n] = Dialogue!Prompt
    BY <1>1, <1>4, <1>6 DEF Ends
  <2>2. ASSUME NEW j \in 1..(n - 1) PROVE t[j] # Dialogue!Prompt
    <3>1. j \in 1..Len(t) /\ Len(s) + j \in 1..(k - 1)
      BY <1>1, <1>6
    <3> QED
      BY <1>1, <1>4, <3>1 DEF Ends
  <2> QED
    BY <2>1, <2>2 DEF Ends
<1>8. Before(u, k) = Dialogue!ToSet(s) \cup Before(t, n)
  <2>1. ASSUME NEW x \in Before(u, k) PROVE x \in Dialogue!ToSet(s) \cup Before(t, n)
    <3>1. PICK j \in 1..(k - 1) : x = u[j]
      BY <2>1 DEF Before
    <3>2. CASE j <= Len(s)
      BY <1>1, <3>1, <3>2, SetOf
    <3>3. CASE j > Len(s)
      <4>1. j - Len(s) \in 1..(n - 1) /\ j - Len(s) \in 1..Len(t) /\ j = Len(s) + (j - Len(s))
        BY <1>1, <1>6, <3>1, <3>3
      <4> QED
        BY <1>1, <3>1, <4>1 DEF Before
    <3> QED
      BY <1>1, <3>1, <3>2, <3>3
  <2>2. ASSUME NEW j \in 1..Len(s) PROVE s[j] \in Before(u, k)
    BY <1>1, <1>5, <1>6 DEF Before
  <2>3. ASSUME NEW j \in 1..(n - 1) PROVE t[j] \in Before(u, k)
    <3>1. j \in 1..Len(t) /\ Len(s) + j \in 1..(k - 1)
      BY <1>1, <1>6
    <3> QED
      BY <1>1, <3>1 DEF Before
  <2> QED
    BY <2>1, <2>2, <2>3, SetOf DEF Before
<1>9. /\ (S \cup Dialogue!ToSet(s)) \cup Before(u, k) = S \cup Before(u, k)
      /\ (S \cup Dialogue!ToSet(s)) \cup Before(t, n) = S \cup Before(u, k)
  BY <1>8
<1> QED
  BY <1>4, <1>7, <1>9

\* ... and another prompt behind the end changes nothing.
LEMMA CompleteMore ==
    ASSUME NEW u \in Seq(Items), NEW S, NEW c, Complete(u, S, c), Asked(u)
    PROVE  Complete(u \o <<Dialogue!Prompt>>, S, c) /\ Asked(u \o <<Dialogue!Prompt>>)
<1> DEFINE v == u \o <<Dialogue!Prompt>>
<1>1. <<Dialogue!Prompt>> \in Seq(Items)
  BY PromptItem
<1>2. /\ v \in Seq(Items) /\ Len(v) >= Len(u) /\ Len(u) \in Nat /\ Len(v) \in Nat
      /\ \A i \in 1..Len(u) : v[i] = u[i]
  BY <1>1, ConcatProperties
<1> HIDE DEF v
<1>3. PICK k \in 1..Len(u) : Ends(u, k) /\ WholeOrNone(S \cup Before(u, k), c)
  BY DEF Complete
<1>4. \A j \in 1..k : v[j] = u[j]
  BY <1>2
<1>5. k \in 1..Len(v) /\ Ends(v, k) /\ Before(v, k) = Before(u, k)
  BY <1>2, <1>3, <1>4 DEF Ends, Before
<1>6. Asked(v)
  BY <1>2, <1>5, SetOf DEF Asked, Ends
<1> QED
  BY <1>3, <1>5, <1>6 DEF Complete, v

\* What is taken up to the first prompt is the answer.
LEMMA CompleteTaken ==
    ASSUME NEW s \in Seq(Items), NEW S, NEW c, Complete(s, S, c), Asked(s),
           NEW end, end = CHOOSE i \in DOMAIN s : /\ s[i] = Dialogue!Prompt
                                         /\ \A j \in 1..(i - 1) : s[j] # Dialogue!Prompt
    PROVE  /\ end \in 1..Len(s) /\ SubSeq(s, 1, end - 1) \in Seq(Items)
           /\ WholeOrNone(S \cup Dialogue!ToSet(SubSeq(s, 1, end - 1)), c)
<1>1. PICK k \in 1..Len(s) : Ends(s, k) /\ WholeOrNone(S \cup Before(s, k), c)
  BY DEF Complete
<1>2. DOMAIN s = 1..Len(s) /\ Len(s) \in Nat
  OBVIOUS
<1>3. end \in 1..Len(s) /\ Ends(s, end)
  <2>1. \E i \in DOMAIN s : s[i] = Dialogue!Prompt /\ \A j \in 1..(i - 1) : s[j] # Dialogue!Prompt
    BY <1>1, <1>2 DEF Ends
  <2>2. /\ end \in DOMAIN s /\ s[end] = Dialogue!Prompt
        /\ \A j \in 1..(end - 1) : s[j] # Dialogue!Prompt
    BY <2>1, Zenon
  <2> QED
    BY <1>2, <2>2 DEF Ends
<1>4. end = k
  BY <1>1, <1>3, OneEnd DEF Ends
<1> DEFINE p == SubSeq(s, 1, k - 1)
<1>5. p \in Seq(Items) /\ Len(p) = k - 1 /\ \A i \in 1..(k - 1) : p[i] = s[i]
  <2>1. \A i \in 1..(k - 1) : s[i] \in Items
    BY <1>2
  <2> QED
    BY <1>2, <2>1, SubSeqProperties
<1> HIDE DEF p
<1>6. Dialogue!ToSet(p) = Before(s, k)
  BY <1>5, SetOf DEF Before
<1> QED
  BY <1>1, <1>3, <1>4, <1>5, <1>6 DEF p

-------------------------------------------------------------------------------
\* A method that asks how an answer ended, and keeps no other answer.
Careful == Dialogue!method.keeps.stops = "ended" /\ Dialogue!method.keeps.keeps # "any"
\* What such a method reads belongs to the command it sent.
Trusted == Careful /\ ~late /\ (cut => ~Dialogue!method.reads.eof)

Methods == UNION {Dialogue!ToSet(s) : s \in Dialogue!Scripts}
\* None of them reads by silence or has the device send the file.
Sound(m) ==
    m.keeps.stops = "ended" /\ m.keeps.keeps # "any"
      => m.reads.ends = "prompt" /\ m.http = FALSE /\ m.keeps.keeps \in {"ended", "none"}

Whole(q) == \E c \in 1..Cmds : Dialogue!ToSet(q) = Dialogue!ToSet(Dialogue!Answer(c))
Unread == Dialogue!Waiting \o coming

DialogueTypes ==
    /\ script \in Seq(Methods) /\ script # <<>> /\ cmd \in 0..Cmds
    /\ coming \in Seq(Items) /\ arrived \in Seq(Items) /\ buffer \in Seq(Items)
    /\ Careful => got \in Seq(Items)
    /\ at # "done" => saved = <<>>
    /\ at \in {"open", "login"} => best.text = <<>>

\* While an answer is awaited, its end is still to be read unless the line dropped; an
\* answer whose end was seen is whole, and so is what is remembered and saved.
Reads == Complete(Unread, Dialogue!ToSet(got), cmd) /\ (~cut => Asked(Unread))
DialogueInv ==
    /\ DialogueTypes
    /\ Trusted =>
         /\ best.text # <<>> => Whole(best.text)
         /\ saved # <<>> => Whole(saved)
         /\ at = "reading" => Reads
         /\ at = "judge" /\ ok => WholeOrNone(Dialogue!ToSet(got), cmd)


LEMMA ScriptsSound ==
    ASSUME NEW s \in Dialogue!Scripts
    PROVE  \E m, n : s \in {<<m>>, <<m, n>>} /\ Sound(m) /\ Sound(n)
<1> USE DEF Sound, Dialogue!Method, Dialogue!Login, Dialogue!Reads, Dialogue!Keeps, Dialogue!Silent
<1>1. CASE s \in {Dialogue!OltCli, Dialogue!Vsol}
  <2> DEFINE m == Dialogue!OltCli[1]  n == Dialogue!Vsol[1]
  <2>1. Dialogue!OltCli = <<m>> /\ Dialogue!Vsol = <<n>>
    BY DEF Dialogue!OltCli, Dialogue!Vsol
  <2>2. /\ m.reads.ends = "prompt" /\ m.http = FALSE /\ m.keeps.keeps = "ended"
    BY DEF Dialogue!OltCli, Dialogue!OltCliReads, Dialogue!OltCliKeeps
  <2>3. n.keeps.stops # "ended"
    BY DEF Dialogue!Vsol, Dialogue!VsolKeeps
  <2> HIDE DEF m, n
  <2> QED
    BY <1>1, <2>1, <2>2, <2>3
<1>2. CASE s \in {Dialogue!HuaweiOlt, Dialogue!ZteOlt, Dialogue!DigistarOlt}
  <2> DEFINE m == s[1]
  <2>1. s = <<m>>
    BY <1>2 DEF Dialogue!HuaweiOlt, Dialogue!ZteOlt, Dialogue!DigistarOlt
  <2>2. m.keeps.keeps = "any"
    BY <1>2 DEF Dialogue!HuaweiOlt, Dialogue!HuaweiKeeps, Dialogue!ZteOlt, Dialogue!ZteKeeps,
         Dialogue!DigistarOlt, Dialogue!DigistarKeeps
  <2> HIDE DEF m
  <2> QED
    BY <2>1, <2>2
<1>3. CASE s \in {Dialogue!IntelbrasTelnet, Dialogue!IntelbrasSsh, Dialogue!SwitchHuaweiLegacy}
  <2> DEFINE m == s[1]
  <2>1. s = <<m>>
    BY <1>3 DEF Dialogue!IntelbrasTelnet, Dialogue!IntelbrasSsh, Dialogue!SwitchHuaweiLegacy
  <2>2. m.keeps.keeps = "any"
    BY <1>3 DEF Dialogue!IntelbrasTelnet, Dialogue!IntelbrasSsh, Dialogue!SwitchHuaweiLegacy,
         Dialogue!IntelbrasKeeps
  <2> HIDE DEF m
  <2> QED
    BY <2>1, <2>2
<1>4. CASE s = Dialogue!FiberhomeOlt
  <2> DEFINE m == Dialogue!FiberhomeNetmiko  n == Dialogue!FiberhomePexpect
  <2>1. n.reads.ends = "prompt" /\ n.http = FALSE /\ n.keeps.keeps = "none"
    BY DEF Dialogue!FiberhomePexpect, Dialogue!FiberhomeReads
  <2>2. m.keeps.stops # "ended"
    BY DEF Dialogue!FiberhomeNetmiko
  <2> QED
    BY <1>4, <2>1, <2>2 DEF Dialogue!FiberhomeOlt
<1>5. CASE s = Dialogue!SwitchCisco
  <2> DEFINE m == Dialogue!CiscoNetmiko  n == Dialogue!CiscoTelnet
  <2>1. m.keeps.stops # "ended" /\ n.keeps.stops # "ended"
    BY DEF Dialogue!CiscoNetmiko, Dialogue!CiscoTelnet
  <2> QED
    BY <1>5, <2>1 DEF Dialogue!SwitchCisco
<1>6. CASE s \in {Dialogue!ByProfile, Dialogue!SwitchHuawei, Dialogue!HuaweiNe, Dialogue!DatacomOlt,
                  Dialogue!SwitchDatacom, Dialogue!SwitchTplink, Dialogue!MikrotikRos, Dialogue!Basic}
  <2> USE DEF Dialogue!ByProfile, Dialogue!SwitchHuawei, Dialogue!HuaweiNe, Dialogue!DatacomOlt,
           Dialogue!SwitchDatacom, Dialogue!SwitchTplink, Dialogue!MikrotikRos, Dialogue!Basic
  <2> DEFINE m == s[1]
  <2>1. s = <<m>>
    BY <1>6
  <2>2. m.keeps.stops # "ended"
    BY <1>6 DEF Dialogue!Longer, Dialogue!SwitchHuaweiKeeps, Dialogue!HuaweiNeKeeps
  <2> HIDE DEF m
  <2> QED
    BY <2>1, <2>2
<1> QED
  BY <1>1, <1>2, <1>3, <1>4, <1>5, <1>6, Zenon DEF Dialogue!Scripts

LEMMA ScriptTypes ==
    /\ \A s \in Dialogue!Scripts : s \in Seq(Methods) /\ s # <<>>
    /\ \A m \in Methods : Sound(m)
<1>1. ASSUME NEW s \in Dialogue!Scripts
      PROVE  /\ s \in Seq(Dialogue!ToSet(s)) /\ s # <<>>
             /\ \A m \in Dialogue!ToSet(s) : Sound(m)
  <2>1. PICK m, n : s \in {<<m>>, <<m, n>>} /\ Sound(m) /\ Sound(n)
    BY ScriptsSound
  <2>2. CASE s = <<m>>
    <3>1. Len(s) = 1 /\ s[1] = m /\ s \in Seq({m}) /\ DOMAIN s = {1}
      BY <2>2
    <3>2. Dialogue!ToSet(s) = {m}
      BY <3>1 DEF Dialogue!ToSet
    <3> QED
      BY <2>1, <2>2, <3>1, <3>2
  <2>3. CASE s = <<m, n>>
    <3>1. Len(s) = 2 /\ s[1] = m /\ s[2] = n /\ s \in Seq({m, n}) /\ DOMAIN s = {1, 2}
      BY <2>3
    <3>2. Dialogue!ToSet(s) = {m, n}
      BY <3>1 DEF Dialogue!ToSet
    <3> QED
      BY <2>1, <2>3, <3>1, <3>2
  <2> QED
    BY <2>1, <2>2, <2>3
<1>2. ASSUME NEW s \in Dialogue!Scripts PROVE s \in Seq(Methods)
  <2>1. \A x \in 1..Len(s) : s[x] \in Methods
    <3>1. \A x \in 1..Len(s) : s[x] \in Dialogue!ToSet(s)
      BY <1>1
    <3> QED
      BY <1>2, <3>1 DEF Methods
  <2>2. s = [x \in 1..Len(s) |-> s[x]] /\ Len(s) \in Nat
    BY <1>1
  <2> QED
    BY <2>1, <2>2
<1> QED
  BY <1>1, <1>2 DEF Methods

LEMMA MethodSound ==
    ASSUME DialogueTypes, Careful
    PROVE  /\ Dialogue!method.reads.ends = "prompt" /\ Dialogue!method.http = FALSE
           /\ Dialogue!method.keeps.keeps \in {"ended", "none"}
<1>1. Dialogue!method \in Methods
  BY DEF DialogueTypes, Dialogue!method
<1>2. Sound(Dialogue!method)
  BY <1>1, ScriptTypes
<1> QED
  BY <1>2 DEF Sound, Careful

\* The device answers a command with all its pieces, or with none.
LEMMA Replied ==
    ASSUME NEW c \in Nat, Parts \in Nat, NEW r \in Dialogue!Replies(c)
    PROVE  r \in Seq(Items) /\ Complete(r, {}, c) /\ Asked(r)
<1> DEFINE a == Dialogue!Answer(c)  p == <<Dialogue!Prompt>>
<1>1. a \in Seq(Items) /\ p \in Seq(Items)
  BY PromptItem DEF Dialogue!Answer, Items
<1>2. ~Asked(a)
  <2>1. \A x \in DOMAIN a : a[x] # Dialogue!Prompt
    BY DEF Dialogue!Answer, Dialogue!Prompt
  <2> QED
    BY <2>1 DEF Asked, Dialogue!ToSet
<1>3. /\ Len(p) = 1 /\ p[1] = Dialogue!Prompt
  OBVIOUS
<1>4. Asked(p) /\ Ends(p, 1) /\ Before(p, 1) = {}
  <2> HIDE DEF p
  <2>1. 1 \in 1..Len(p) /\ 1..(1 - 1) = {}
    BY <1>3
  <2>2. Before(p, 1) = {}
    BY <2>1 DEF Before
  <2>3. Asked(p)
    BY <1>1, <1>3, <2>1, SetOf DEF Asked
  <2> QED
    BY <1>3, <2>1, <2>2, <2>3 DEF Ends
<1>5. Complete(p, {}, c)
  BY <1>3, <1>4 DEF Complete, WholeOrNone
<1> DEFINE u == a \o p  n == Len(a)
<1>6. /\ u \in Seq(Items) /\ Len(u) = n + 1 /\ n \in Nat
      /\ \A x \in 1..n : u[x] = a[x]
      /\ u[n + 1] = Dialogue!Prompt
  BY <1>1, <1>3, ConcatProperties
<1>7. \A x \in 1..n : a[x] # Dialogue!Prompt
  BY <1>1, <1>2, SetOf DEF Asked
<1>8. Before(u, n + 1) = Dialogue!ToSet(a)
  <2> HIDE DEF a, u
  <2> QED
    BY <1>1, <1>6, SetOf DEF Before
<1>9. Ends(u, n + 1)
  <2> HIDE DEF a, u
  <2> QED
    BY <1>6, <1>7 DEF Ends
<1>10. Asked(u)
  <2> HIDE DEF a, u
  <2> QED
    BY <1>6, SetOf DEF Asked
<1>11. Complete(u, {}, c)
  <2>1. n + 1 \in 1..Len(u) /\ {} \cup Before(u, n + 1) = Dialogue!ToSet(Dialogue!Answer(c))
    BY <1>6, <1>8
  <2> HIDE DEF u
  <2> QED
    BY <1>9, <2>1 DEF Complete, WholeOrNone
<1> QED
  BY <1>1, <1>4, <1>5, <1>6, <1>10, <1>11 DEF Dialogue!Replies

LEMMA QueueTypes ==
    ASSUME DialogueTypes
    PROVE  /\ Dialogue!Waiting \in Seq(Items) /\ Unread \in Seq(Items)
           /\ Unread = Dialogue!Waiting \o coming
           /\ <<>> \in Seq(Items)
  BY DEF DialogueTypes, Dialogue!Waiting, Unread

\* There is a first prompt.
LEMMA FirstEnd ==
    ASSUME NEW s \in Seq(Items), Asked(s)
    PROVE  \E k \in 1..Len(s) : Ends(s, k)
<1> DEFINE T == {k \in 1..Len(s) : s[k] = Dialogue!Prompt}
<1>1. Len(s) \in Nat /\ T \in SUBSET Nat /\ T # {}
  BY SetOf DEF Asked
<1>2. PICK k \in T : \A y \in T : k <= y
  BY <1>1, Least, Zenon
<1>3. k \in 1..Len(s) /\ s[k] = Dialogue!Prompt
  BY <1>2
<1>4. ASSUME NEW j \in 1..(k - 1), s[j] = Dialogue!Prompt PROVE FALSE
  <2>1. j \in T
    BY <1>1, <1>3, <1>4
  <2>2. k <= j
    BY <1>2, <2>1
  <2> QED
    BY <1>1, <1>3, <2>2
<1> QED
  BY <1>3, <1>4 DEF Ends

LEMMA ChosenEnd ==
    ASSUME NEW s \in Seq(Items), Asked(s),
           NEW end, end = CHOOSE i \in DOMAIN s : /\ s[i] = Dialogue!Prompt
                                                  /\ \A j \in 1..(i - 1) : s[j] # Dialogue!Prompt
    PROVE  end \in 1..Len(s) /\ Ends(s, end)
<1>1. PICK k \in 1..Len(s) : Ends(s, k)
  BY FirstEnd
<1>2. DOMAIN s = 1..Len(s) /\ Len(s) \in Nat
  OBVIOUS
<1>3. \E i \in DOMAIN s : s[i] = Dialogue!Prompt /\ \A j \in 1..(i - 1) : s[j] # Dialogue!Prompt
  BY <1>1, <1>2 DEF Ends
<1>4. /\ end \in DOMAIN s /\ s[end] = Dialogue!Prompt
      /\ \A j \in 1..(end - 1) : s[j] # Dialogue!Prompt
  BY <1>3, Zenon
<1> QED
  BY <1>2, <1>4 DEF Ends

LEMMA CutOut ==
    ASSUME NEW s \in Seq(Items), NEW m \in Nat \ {0}, NEW n \in Nat, n <= Len(s)
    PROVE  SubSeq(s, m, n) \in Seq(Items)
<1>1. \A x \in m..n : s[x] \in Items
  OBVIOUS
<1> QED
  BY <1>1, SubSeqProperties

\* Taking text up to the first prompt.
LEMMA Taken ==
    ASSUME DialogueTypes, Dialogue!PromptSeen, Dialogue!TakeToPrompt
    PROVE  /\ buffer' \in Seq(Items) /\ arrived' \in Seq(Items)
           /\ Careful => got' \in Seq(Items)
<1> DEFINE w == Dialogue!Waiting
           end == CHOOSE i \in DOMAIN w : w[i] = Dialogue!Prompt /\ \A j \in 1..(i - 1) : w[j] # Dialogue!Prompt
           rest == SubSeq(w, end + 1, Len(w))
           text == SubSeq(w, 1, end - 1)
<1>1. w \in Seq(Items) /\ Asked(w) /\ <<>> \in Seq(Items)
  BY QueueTypes DEF Dialogue!PromptSeen, Asked
<1>2. /\ \/ buffer' = rest /\ arrived' = <<>>
         \/ buffer' = <<>> /\ arrived' = rest
      /\ got' = got \o text
  BY DEF Dialogue!TakeToPrompt
<1> HIDE DEF w
<1>3. end \in 1..Len(w)
  BY <1>1, ChosenEnd
<1> HIDE DEF end
<1>4. rest \in Seq(Items) /\ text \in Seq(Items)
  <2>1. /\ end + 1 \in Nat \ {0} /\ Len(w) \in Nat /\ Len(w) <= Len(w)
        /\ 1 \in Nat \ {0} /\ end - 1 \in Nat /\ end - 1 <= Len(w)
    BY <1>1, <1>3
  <2> QED
    BY <1>1, <2>1, CutOut
<1> HIDE DEF rest, text
<1>5. Careful => got \o text \in Seq(Items)
  <2>1. Careful => got \in Seq(Items)
    BY DEF DialogueTypes
  <2> QED
    BY <1>4, <2>1, ConcatProperties
<1> QED
  BY <1>1, <1>2, <1>4, <1>5

-------------------------------------------------------------------------------
\* After the last method, or before the first command of the next one.
LEMMA NextMethodKeeps ==
    ASSUME DialogueInv, at # "done", Dialogue!NextMethod
    PROVE  DialogueInv'
<1>1. /\ coming' = <<>> /\ arrived' = <<>> /\ buffer' = <<>> /\ cmd' = 0
      /\ got' = <<>> /\ best' = Dialogue!NoText /\ saved' = saved
      /\ at' \in {"open", "failed"}
  BY DEF Dialogue!NextMethod, Dialogue!Close
<1>2. script' \in Seq(Methods) /\ script' # <<>>
  <2>1. CASE Len(script) > 1
    <3>1. script' = Tail(script) /\ script \in Seq(Methods) /\ script # <<>>
      BY <2>1 DEF Dialogue!NextMethod, DialogueInv, DialogueTypes
    <3>2. Tail(script) \in Seq(Methods) /\ Len(Tail(script)) = Len(script) - 1
      BY <3>1, HeadTailProperties
    <3>3. Len(Tail(script)) # 0
      BY <2>1, <3>1, <3>2
    <3>4. Tail(script) # <<>>
      BY <3>2, <3>3, EmptySeq
    <3> QED
      BY <3>1, <3>2, <3>4
  <2>2. CASE ~(Len(script) > 1)
    BY <2>2 DEF Dialogue!NextMethod, DialogueInv, DialogueTypes
  <2> QED
    BY <2>1, <2>2
<1>3. /\ saved' = <<>> /\ best'.text = <<>> /\ <<>> \in Seq(Items) /\ cmd' \in 0..Cmds
  BY <1>1, OutcomesAssumption DEF OutcomesAssumption, DialogueInv, DialogueTypes, Dialogue!NoText
<1> QED
  BY <1>1, <1>2, <1>3 DEF DialogueInv, DialogueTypes

\* A step that touches neither what is remembered nor what is awaited.
LEMMA Untouched ==
    ASSUME DialogueInv, DialogueTypes', UNCHANGED <<script, best, saved>>,
           late => late', cut => cut', at' \notin {"reading", "judge"}
    PROVE  DialogueInv'
<1>1. Trusted' => Trusted
  BY DEF Trusted, Careful, Dialogue!method
<1>2. /\ (best.text # <<>> => Whole(best.text))' <=> (best.text # <<>> => Whole(best.text))
      /\ (saved # <<>> => Whole(saved))' <=> (saved # <<>> => Whole(saved))
  BY DEF Whole
<1> QED
  BY <1>1, <1>2 DEF DialogueInv

\* The same while the same answer is read, or when its reading begins.
LEMMA Awaiting ==
    ASSUME DialogueInv, DialogueTypes', UNCHANGED <<script, best, saved>>,
           late => late', cut => cut', at' = "reading", Trusted /\ Trusted' => Reads'
    PROVE  DialogueInv'
<1>1. Trusted' => Trusted
  BY DEF Trusted, Careful, Dialogue!method
<1>2. /\ (best.text # <<>> => Whole(best.text))' <=> (best.text # <<>> => Whole(best.text))
      /\ (saved # <<>> => Whole(saved))' <=> (saved # <<>> => Whole(saved))
  BY DEF Whole
<1> QED
  BY <1>1, <1>2 DEF DialogueInv

\* The same when the reading ends.
LEMMA Judging ==
    ASSUME DialogueInv, DialogueTypes', UNCHANGED <<script, best, saved>>,
           late => late', cut => cut', at' = "judge",
           Trusted /\ Trusted' /\ ok' => WholeOrNone(Dialogue!ToSet(got'), cmd')
    PROVE  DialogueInv'
<1>1. Trusted' => Trusted
  BY DEF Trusted, Careful, Dialogue!method
<1>2. /\ (best.text # <<>> => Whole(best.text))' <=> (best.text # <<>> => Whole(best.text))
      /\ (saved # <<>> => Whole(saved))' <=> (saved # <<>> => Whole(saved))
      /\ WholeOrNone(Dialogue!ToSet(got), cmd)' <=> WholeOrNone(Dialogue!ToSet(got'), cmd')
  BY DEF Whole, WholeOrNone
<1> QED
  BY <1>1, <1>2 DEF DialogueInv

LEMMA PromptAppended ==
    ASSUME NEW q \in Seq(Items)
    PROVE  /\ Append(q, Dialogue!Prompt) \in Seq(Items)
           /\ Append(q, Dialogue!Prompt) = q \o <<Dialogue!Prompt>>
  BY PromptItem, AppendProperties, AppendIsConcat

\* Before a command is sent.
LEMMA SessionKeeps ==
    ASSUME DialogueInv, Dialogue!Session
    PROVE  DialogueInv'
<1>1. DialogueTypes /\ <<>> \in Seq(Items)
  BY DEF DialogueInv
<1>2. CASE Dialogue!Open
  <2>1. /\ at = "open" /\ at' = "login" /\ UNCHANGED <<script, cmd, got, best, saved>>
        /\ coming' = <<Dialogue!Prompt>> /\ arrived' = <<>> /\ buffer' = <<>>
    BY <1>2 DEF Dialogue!Open, Dialogue!result
  <2>2. <<Dialogue!Prompt>> \in Seq(Items)
    BY PromptItem
  <2>3. best.text = <<>> /\ saved = <<>>
    BY <1>1, <2>1 DEF DialogueTypes
  <2>4. DialogueTypes'
    BY <1>1, <2>1, <2>2, <2>3 DEF DialogueTypes, Careful, Dialogue!method
  <2> QED
    BY <2>1, <2>3, <2>4 DEF DialogueInv
<1>3. CASE Dialogue!OpenFails
  <2>1. CASE opens > 0
    <3>1. /\ at \in {"open", "login"} /\ at' = "open"
          /\ UNCHANGED <<script, cmd, coming, arrived, buffer, got, best, saved, cut, late>>
      BY <1>3, <2>1 DEF Dialogue!OpenFails, Dialogue!result, Dialogue!dialogue, Dialogue!bounds
    <3>2. DialogueTypes'
      BY <1>1, <3>1 DEF DialogueTypes, Careful, Dialogue!method
    <3> QED
      BY <3>1, <3>2, Untouched
  <2>2. CASE ~(opens > 0)
    <3>1. Dialogue!NextMethod /\ at # "done"
      BY <1>3, <2>2 DEF Dialogue!OpenFails
    <3> QED
      BY <3>1, NextMethodKeeps
  <2> QED
    BY <2>1, <2>2
<1>4. CASE Dialogue!Nudge
  <2>1. /\ at = "login" /\ coming' = Append(coming, Dialogue!Prompt)
        /\ UNCHANGED <<script, at, cmd, arrived, buffer, got, best, saved, cut, late>>
    BY <1>4 DEF Dialogue!Nudge, Dialogue!result
  <2>2. coming' \in Seq(Items)
    BY <1>1, <2>1, PromptAppended DEF DialogueTypes
  <2>3. DialogueTypes'
    BY <1>1, <2>1, <2>2 DEF DialogueTypes, Careful, Dialogue!method
  <2> QED
    BY <2>1, <2>3, Untouched
<1>5. CASE Dialogue!LoggedIn
  <2>1. /\ at = "login" /\ at' = "ready" /\ Dialogue!PromptSeen /\ Dialogue!TakeToPrompt
        /\ UNCHANGED <<script, cmd, coming, best, saved, cut, late>>
    BY <1>5 DEF Dialogue!LoggedIn, Dialogue!bounds
  <2>2. /\ buffer' \in Seq(Items) /\ arrived' \in Seq(Items)
        /\ Careful => got' \in Seq(Items)
    BY <1>1, <2>1, Taken
  <2>3. DialogueTypes'
    BY <1>1, <2>1, <2>2 DEF DialogueTypes, Careful, Dialogue!method
  <2> QED
    BY <2>1, <2>3, Untouched
<1> QED
  BY <1>2, <1>3, <1>4, <1>5 DEF Dialogue!Session

LEMMA DialogueInitially == Dialogue!Init => DialogueInv
<1> SUFFICES ASSUME Dialogue!Init PROVE DialogueInv
  OBVIOUS
<1>1. script \in Seq(Methods) /\ script # <<>> /\ <<>> \in Seq(Items)
  BY ScriptTypes DEF Dialogue!Init
<1>2. 0 \in 0..Cmds /\ Dialogue!NoText.text = <<>>
  BY OutcomesAssumption DEF OutcomesAssumption, Dialogue!NoText
<1> QED
  BY <1>1, <1>2 DEF Dialogue!Init, DialogueInv, DialogueTypes

-------------------------------------------------------------------------------
\* What a device sends, and when the line drops.
LEMMA Regroup ==
    \A p, q, h, t \in Seq(Items) : (p \o (q \o h)) \o t = (p \o q) \o (h \o t)
<1> SUFFICES ASSUME NEW p \in Seq(Items), NEW q \in Seq(Items),
                    NEW h \in Seq(Items), NEW t \in Seq(Items)
             PROVE  (p \o (q \o h)) \o t = (p \o q) \o (h \o t)
  OBVIOUS
<1>1. p \o (q \o h) = (p \o q) \o h
  BY ConcatAssociative
<1>2. p \o q \in Seq(Items)
  BY ConcatProperties
<1>3. ((p \o q) \o h) \o t = (p \o q) \o (h \o t)
  BY <1>2, ConcatAssociative
<1> QED
  BY <1>1, <1>3

LEMMA ArriveKeeps ==
    ASSUME DialogueInv, Dialogue!Arrive
    PROVE  DialogueInv'
<1>1. /\ coming # <<>> /\ at \in {"login", "ready", "sync", "reading"}
      /\ arrived' = Append(arrived, Head(coming)) /\ coming' = Tail(coming)
      /\ UNCHANGED <<script, at, cmd, buffer, got, best, saved, cut, late>>
  BY DEF Dialogue!Arrive, Dialogue!Online, Dialogue!result, Dialogue!bounds
<1>2. DialogueTypes
  BY DEF DialogueInv
<1>3. /\ coming \in Seq(Items) /\ arrived \in Seq(Items) /\ buffer \in Seq(Items)
      /\ Head(coming) \in Items /\ <<Head(coming)>> \in Seq(Items) /\ Tail(coming) \in Seq(Items)
      /\ arrived' \in Seq(Items) /\ arrived' = arrived \o <<Head(coming)>>
  <2>1. coming \in Seq(Items) /\ arrived \in Seq(Items) /\ buffer \in Seq(Items)
    BY <1>2 DEF DialogueTypes
  <2>2. Head(coming) \in Items /\ Tail(coming) \in Seq(Items)
    BY <1>1, <2>1, HeadTailProperties
  <2> QED
    BY <1>1, <2>1, <2>2, AppendProperties, AppendIsConcat
<1>4. DialogueTypes'
  BY <1>1, <1>2, <1>3 DEF DialogueTypes, Careful, Dialogue!method
<1>5. Unread' = Unread
  <2>1. buffer \in Seq(Items) /\ arrived \in Seq(Items)
    BY <1>3
  <2>2. PICK y \in Seq(Items) : y = Tail(coming)
    BY <1>3
  <2>3. PICK x \in Seq(Items) : x = <<Head(coming)>>
    BY <1>3
  <2>4. x \o y = coming
    BY <1>1, <1>3, <2>2, <2>3
  <2> HIDE DEF Items
  <2>5. \A q, h, t \in Seq(Items) : (buffer \o (q \o h)) \o t = (buffer \o q) \o (h \o t)
    BY <2>1, Regroup
  <2>6. \A h, t \in Seq(Items) : (buffer \o (arrived \o h)) \o t = (buffer \o arrived) \o (h \o t)
    BY <2>1, <2>5
  <2>7. (buffer \o (arrived \o x)) \o y = (buffer \o arrived) \o (x \o y)
    BY <2>6
  <2> QED
    BY <1>1, <1>3, <2>2, <2>3, <2>4, <2>7 DEF Unread, Dialogue!Waiting
<1>6. Reads' <=> Reads
  BY <1>1, <1>5 DEF Reads, Complete, Asked, WholeOrNone
<1>7. CASE at # "reading"
  BY <1>1, <1>4, <1>7, Untouched
<1>8. CASE at = "reading"
  BY <1>1, <1>4, <1>6, <1>8, Awaiting DEF DialogueInv
<1> QED
  BY <1>7, <1>8

LEMMA CutKeeps ==
    ASSUME DialogueInv, Dialogue!Cut
    PROVE  DialogueInv'
<1>1. /\ at \in {"login", "ready", "sync", "reading"} /\ cut' = TRUE /\ coming' = <<>>
      /\ UNCHANGED <<script, at, cmd, arrived, buffer, got, best, saved, late>>
  BY DEF Dialogue!Cut, Dialogue!Online, Dialogue!result
<1>2. DialogueTypes /\ <<>> \in Seq(Items)
  BY DEF DialogueInv
<1>3. DialogueTypes'
  BY <1>1, <1>2 DEF DialogueTypes, Careful, Dialogue!method
<1>4. CASE at # "reading"
  BY <1>1, <1>3, <1>4, Untouched
<1>5. CASE at = "reading"
  <2>1. ASSUME Reads PROVE Reads'
    <3>1. Dialogue!Waiting \in Seq(Items) /\ coming \in Seq(Items)
      BY <1>2, QueueTypes DEF DialogueTypes
    <3>2. Complete(Dialogue!Waiting, Dialogue!ToSet(got), cmd)
      BY <2>1, <3>1, CompletePrefix DEF Reads, Unread
    <3>3. Unread' = Dialogue!Waiting
      <4>1. Unread' = Dialogue!Waiting \o <<>>
        BY <1>1 DEF Unread, Dialogue!Waiting
      <4> QED
        BY <3>1, <4>1, ConcatEmptySeq
    <3> QED
      BY <1>1, <3>2, <3>3 DEF Reads
  <2> QED
    BY <1>1, <1>3, <1>5, <2>1, Awaiting DEF DialogueInv
<1> QED
  BY <1>4, <1>5

-------------------------------------------------------------------------------
\* One command.
LEMMA ReadyKeeps ==
    ASSUME DialogueInv, Dialogue!Blank \/ Dialogue!Synced
    PROVE  DialogueInv'
<1>1. DialogueTypes /\ <<>> \in Seq(Items)
  BY DEF DialogueInv
<1>2. CASE Dialogue!Blank
  <2>1. /\ at' = "sync" /\ got' = <<>> /\ arrived' = <<>>
        /\ coming' \in {coming, Append(coming, Dialogue!Prompt)} /\ at # "done"
        /\ UNCHANGED <<script, cmd, buffer, best, saved, cut, late>>
    BY <1>2 DEF Dialogue!Blank, Dialogue!bounds
  <2>2. coming' \in Seq(Items)
    BY <1>1, <2>1, PromptAppended DEF DialogueTypes
  <2>3. DialogueTypes'
    BY <1>1, <2>1, <2>2 DEF DialogueTypes, Careful, Dialogue!method
  <2> QED
    BY <2>1, <2>3, Untouched
<1>3. CASE Dialogue!Synced
  <2>1. /\ at = "sync" /\ at' = "ready"
        /\ UNCHANGED <<script, cmd, coming, best, saved, cut, late>>
    BY <1>3 DEF Dialogue!Synced, Dialogue!bounds
  <2>2. /\ buffer' \in Seq(Items) /\ arrived' \in Seq(Items)
        /\ Careful => got' \in Seq(Items)
    <3>1. CASE Dialogue!PromptSeen
      BY <1>1, <1>3, <3>1, Taken DEF Dialogue!Synced
    <3>2. CASE ~Dialogue!PromptSeen
      BY <1>1, <1>3, <3>2, QueueTypes DEF Dialogue!Synced, DialogueTypes
    <3> QED
      BY <3>1, <3>2
  <2>3. DialogueTypes'
    BY <1>1, <2>1, <2>2 DEF DialogueTypes, Careful, Dialogue!method
  <2> QED
    BY <2>1, <2>3, Untouched
<1> QED
  BY <1>2, <1>3

LEMMA SendKeeps ==
    ASSUME DialogueInv, Dialogue!Send
    PROVE  DialogueInv'
<1>1. /\ at = "ready" /\ at' = "reading" /\ got' = <<>> /\ arrived' \in {arrived, <<>>}
      /\ late' = (late \/ coming \o buffer \o arrived' # <<>>)
      /\ UNCHANGED <<script, cmd, buffer, best, saved, cut>>
  BY DEF Dialogue!Send
<1>2. /\ DialogueTypes /\ <<>> \in Seq(Items)
      /\ coming \in Seq(Items) /\ arrived' \in Seq(Items) /\ buffer \in Seq(Items)
      /\ cmd \in Nat /\ Parts \in Nat
  <2>1. /\ DialogueTypes /\ coming \in Seq(Items) /\ arrived \in Seq(Items)
        /\ buffer \in Seq(Items) /\ cmd \in 0..Cmds
    BY DEF DialogueInv, DialogueTypes
  <2>2. Cmds \in Nat /\ Parts \in Nat /\ <<>> \in Seq(Items)
    BY OutcomesAssumption DEF OutcomesAssumption
  <2>3. arrived' \in Seq(Items)
    BY <1>1, <2>1, <2>2
  <2> QED
    BY <2>1, <2>2, <2>3
<1>3. CASE cut
  <2>1. coming' = coming
    BY <1>3 DEF Dialogue!Send
  <2>2. DialogueTypes'
    BY <1>1, <1>2, <2>1 DEF DialogueTypes, Careful, Dialogue!method
  <2>3. ASSUME ~late' PROVE Reads'
    <3>1. coming = <<>> /\ buffer = <<>> /\ arrived' = <<>>
      <4>1. (coming \o buffer) \o arrived' = <<>>
        BY <1>1, <2>3
      <4>2. coming \o buffer = <<>> /\ arrived' = <<>>
        BY <1>2, <4>1, ConcatEqualIffEmpty
      <4> QED
        BY <1>2, <4>2, ConcatEqualIffEmpty
    <3>2. Unread' = <<>>
      BY <1>1, <2>1, <3>1 DEF Unread, Dialogue!Waiting
    <3>3. ~Asked(<<>>)
      BY DEF Asked, Dialogue!ToSet
    <3> QED
      BY <1>1, <1>3, <3>2, <3>3 DEF Reads, Complete
  <2> QED
    BY <1>1, <2>2, <2>3, Awaiting DEF Trusted
<1>4. CASE ~cut
  <2>1. PICK r \in Dialogue!Replies(cmd) : coming' = coming \o r
    BY <1>4 DEF Dialogue!Send
  <2>2. r \in Seq(Items) /\ Complete(r, {}, cmd) /\ Asked(r)
    BY <1>2, Replied
  <2>3. DialogueTypes'
    <3>1. coming' \in Seq(Items)
      BY <1>2, <2>1, <2>2
    <3> QED
      BY <1>1, <1>2, <3>1 DEF DialogueTypes, Careful, Dialogue!method
  <2>4. ASSUME ~late' PROVE Reads'
    <3>1. coming = <<>> /\ buffer = <<>> /\ arrived' = <<>>
      <4>1. (coming \o buffer) \o arrived' = <<>>
        BY <1>1, <2>4
      <4>2. coming \o buffer = <<>> /\ arrived' = <<>>
        BY <1>2, <4>1, ConcatEqualIffEmpty
      <4> QED
        BY <1>2, <4>2, ConcatEqualIffEmpty
    <3>2. Unread' = r
      <4>1. Unread' = (<<>> \o <<>>) \o (<<>> \o r)
        BY <1>1, <2>1, <3>1 DEF Unread, Dialogue!Waiting
      <4>2. <<>> \o <<>> = <<>> /\ <<>> \o r = r
        BY <1>2, <2>2, ConcatEmptySeq
      <4> QED
        BY <4>1, <4>2
    <3>3. Dialogue!ToSet(got') = {}
      BY <1>1 DEF Dialogue!ToSet
    <3> QED
      BY <1>1, <2>2, <3>2, <3>3 DEF Reads
  <2> QED
    BY <1>1, <2>3, <2>4, Awaiting DEF Trusted
<1> QED
  BY <1>3, <1>4

\* The end is in what has arrived.
LEMMA MatchKeeps ==
    ASSUME DialogueInv, Dialogue!Match
    PROVE  DialogueInv'
<1>1. /\ at = "reading" /\ at' = "judge" /\ Dialogue!PromptSeen /\ Dialogue!TakeToPrompt
      /\ UNCHANGED <<script, cmd, coming, best, saved, cut, late>>
  BY DEF Dialogue!Match, Dialogue!Reading, Dialogue!Ended, Dialogue!bounds
<1>2. DialogueTypes
  BY DEF DialogueInv
<1>3. /\ buffer' \in Seq(Items) /\ arrived' \in Seq(Items)
      /\ Careful => got' \in Seq(Items)
  BY <1>1, <1>2, Taken
<1>4. DialogueTypes'
  BY <1>1, <1>2, <1>3 DEF DialogueTypes, Careful, Dialogue!method
<1>5. ASSUME Trusted PROVE WholeOrNone(Dialogue!ToSet(got'), cmd')
  <2> DEFINE w == Dialogue!Waiting
             end == CHOOSE i \in DOMAIN w : /\ w[i] = Dialogue!Prompt
                                            /\ \A j \in 1..(i - 1) : w[j] # Dialogue!Prompt
             text == SubSeq(w, 1, end - 1)
  <2>1. got' = got \o text
    BY <1>1 DEF Dialogue!TakeToPrompt
  <2>2. w \in Seq(Items) /\ coming \in Seq(Items) /\ Asked(w) /\ got \in Seq(Items)
    BY <1>1, <1>2, <1>5, QueueTypes DEF Dialogue!PromptSeen, Asked, DialogueTypes, Trusted
  <2>3. Complete(w \o coming, Dialogue!ToSet(got), cmd)
    BY <1>1, <1>5 DEF DialogueInv, Reads, Unread
  <2> HIDE DEF w
  <2>4. Complete(w, Dialogue!ToSet(got), cmd)
    BY <2>2, <2>3, CompletePrefix
  <2>5. /\ text \in Seq(Items)
        /\ WholeOrNone(Dialogue!ToSet(got) \cup Dialogue!ToSet(text), cmd)
    BY <2>2, <2>4, CompleteTaken
  <2> HIDE DEF end, text
  <2>6. Dialogue!ToSet(got') = Dialogue!ToSet(got) \cup Dialogue!ToSet(text)
    BY <2>1, <2>2, <2>5, SetOfConcat
  <2> QED
    BY <1>1, <2>5, <2>6
<1> QED
  BY <1>1, <1>4, <1>5, Judging

\* What is read before the end is text, and may or may not be kept in the buffer.
LEMMA ReadOn ==
    ASSUME DialogueInv, at = "reading", ~Dialogue!PromptSeen, Careful
    PROVE  /\ Dialogue!Waiting \in Seq(Items) /\ coming \in Seq(Items) /\ got \in Seq(Items)
           /\ got \o Dialogue!Waiting \in Seq(Items)
           /\ Trusted =>
                /\ Complete(coming, Dialogue!ToSet(got \o Dialogue!Waiting), cmd)
                /\ Complete(Dialogue!Waiting \o coming, Dialogue!ToSet(got \o Dialogue!Waiting), cmd)
                /\ ~cut => Asked(coming) /\ Asked(Dialogue!Waiting \o coming)
<1> DEFINE w == Dialogue!Waiting
<1>1. w \in Seq(Items) /\ coming \in Seq(Items) /\ got \in Seq(Items) /\ ~Asked(w)
  BY QueueTypes DEF DialogueInv, DialogueTypes, Dialogue!PromptSeen, Asked
<1>2. Trusted => /\ Complete(w \o coming, Dialogue!ToSet(got), cmd)
                 /\ ~cut => Asked(w \o coming)
  BY DEF DialogueInv, Reads, Unread
<1> HIDE DEF w
<1>3. got \o w \in Seq(Items) /\ Dialogue!ToSet(got \o w) = Dialogue!ToSet(got) \cup Dialogue!ToSet(w)
  BY <1>1, SetOfConcat, ConcatProperties
<1>4. ASSUME Trusted
      PROVE  /\ Complete(coming, Dialogue!ToSet(got \o w), cmd)
             /\ Complete(w \o coming, Dialogue!ToSet(got \o w), cmd)
  BY <1>1, <1>2, <1>3, <1>4, CompleteSkip
<1>5. Asked(w \o coming) => Asked(coming)
  BY <1>1, SetOfConcat DEF Asked
<1> QED
  BY <1>1, <1>2, <1>3, <1>4, <1>5 DEF w

LEMMA PageKeeps ==
    ASSUME DialogueInv, Dialogue!Page
    PROVE  DialogueInv'
<1>1. /\ at = "reading" /\ at' = at /\ ~Dialogue!PromptSeen
      /\ got' = got \o Dialogue!Waiting /\ buffer' = <<>> /\ arrived' = <<>>
      /\ coming' = coming \/ (~cut /\ coming' = Append(coming, Dialogue!Prompt))
      /\ UNCHANGED <<script, cmd, best, saved, cut, late>>
  BY DEF Dialogue!Page, Dialogue!Reading
<1>2. DialogueTypes /\ <<>> \in Seq(Items) /\ coming \in Seq(Items)
  BY DEF DialogueInv, DialogueTypes
<1>3. /\ coming' \in Seq(Items)
      /\ coming' # coming => ~cut /\ coming' = coming \o <<Dialogue!Prompt>>
  BY <1>1, <1>2, PromptAppended
<1>4. DialogueTypes'
  BY <1>1, <1>2, <1>3, ReadOn DEF DialogueTypes, Careful, Dialogue!method
<1>5. ASSUME Trusted PROVE Reads'
  <2>1. /\ Complete(coming, Dialogue!ToSet(got'), cmd)
        /\ ~cut => Asked(coming)
    BY <1>1, <1>5, ReadOn DEF Trusted
  <2>2. /\ Complete(coming', Dialogue!ToSet(got'), cmd)
        /\ ~cut => Asked(coming')
    BY <1>2, <1>3, <2>1, CompleteMore
  <2>3. Unread' = coming'
    <3>1. Unread' = (<<>> \o <<>>) \o coming'
      BY <1>1 DEF Unread, Dialogue!Waiting
    <3>2. <<>> \o <<>> = <<>> /\ <<>> \o coming' = coming'
      BY <1>2, <1>3, ConcatEmptySeq
    <3> QED
      BY <3>1, <3>2
  <2> QED
    BY <1>1, <2>2, <2>3 DEF Reads
<1> QED
  BY <1>1, <1>4, <1>5, Awaiting

LEMMA PauseKeeps ==
    ASSUME DialogueInv, Dialogue!Pause
    PROVE  DialogueInv'
<1>1. /\ at = "reading" /\ at' = at /\ ~Dialogue!PromptSeen
      /\ got' = got \o Dialogue!Waiting /\ buffer' = Dialogue!Waiting /\ arrived' = <<>>
      /\ UNCHANGED <<script, cmd, coming, best, saved, cut, late>>
  BY DEF Dialogue!Pause, Dialogue!Reading
<1>2. DialogueTypes /\ <<>> \in Seq(Items) /\ Dialogue!Waiting \in Seq(Items)
  BY QueueTypes DEF DialogueInv
<1>3. DialogueTypes'
  BY <1>1, <1>2, ReadOn DEF DialogueTypes, Careful, Dialogue!method
<1>4. ASSUME Trusted PROVE Reads'
  <2>1. /\ Complete(Dialogue!Waiting \o coming, Dialogue!ToSet(got'), cmd)
        /\ ~cut => Asked(Dialogue!Waiting \o coming)
    BY <1>1, <1>4, ReadOn DEF Trusted
  <2>2. Unread' = Dialogue!Waiting \o coming
    <3>1. Unread' = (Dialogue!Waiting \o <<>>) \o coming
      BY <1>1 DEF Unread, Dialogue!Waiting
    <3>2. Dialogue!Waiting \o <<>> = Dialogue!Waiting
      BY <1>2, ConcatEmptySeq
    <3> QED
      BY <3>1, <3>2
  <2> QED
    BY <1>1, <2>1, <2>2 DEF Reads
<1> QED
  BY <1>1, <1>3, <1>4, Awaiting

\* Answers whose end was not seen are not whole; a dropped line is not an end, unless
\* the method takes it for one.
LEMMA EndlessKeeps ==
    ASSUME DialogueInv, Dialogue!TimeOut \/ Dialogue!Eof \/ Dialogue!Silence
    PROVE  DialogueInv'
<1>1. DialogueTypes /\ <<>> \in Seq(Items) /\ Dialogue!Waiting \in Seq(Items)
  BY QueueTypes DEF DialogueInv
<1>2. CASE Dialogue!NextMethod /\ at # "done"
  BY <1>2, NextMethodKeeps
<1>3. ASSUME at = "reading", at' = "judge", ~Dialogue!PromptSeen,
             got' = got \o Dialogue!Waiting, buffer' \in {Dialogue!Waiting, <<>>}, arrived' = <<>>,
             UNCHANGED <<script, cmd, coming, best, saved, cut, late>>,
             ok' => cut /\ Dialogue!method.reads.eof
      PROVE  DialogueInv'
  <2>1. DialogueTypes'
    BY <1>1, <1>3, ReadOn DEF DialogueTypes, Careful, Dialogue!method
  <2>2. ~(Trusted /\ ok')
    BY <1>3 DEF Trusted
  <2> QED
    BY <1>3, <2>1, <2>2, Judging
<1>4. CASE Dialogue!TimeOut
  BY <1>2, <1>3, <1>4 DEF Dialogue!TimeOut, Dialogue!Reading, Dialogue!Ended, Dialogue!bounds
<1>5. CASE Dialogue!Eof
  BY <1>2, <1>3, <1>5 DEF Dialogue!Eof, Dialogue!Reading, Dialogue!Ended, Dialogue!bounds
<1>6. CASE Dialogue!Silence
  <2>1. /\ at = "reading" /\ at' = "judge" /\ Dialogue!method.reads.ends = "silence"
        /\ buffer' = <<>> /\ arrived' = <<>>
        /\ UNCHANGED <<script, cmd, coming, best, saved, cut, late>>
    BY <1>6 DEF Dialogue!Silence, Dialogue!Ended, Dialogue!bounds
  <2>2. ~Careful
    BY <1>1, <2>1, MethodSound
  <2>3. DialogueTypes'
    BY <1>1, <2>1, <2>2 DEF DialogueTypes, Careful, Dialogue!method
  <2> QED
    BY <2>1, <2>2, <2>3, Judging DEF Trusted
<1> QED
  BY <1>4, <1>5, <1>6

-------------------------------------------------------------------------------
\* What becomes of the text.
LEMMA JudgeKeeps ==
    ASSUME DialogueInv, Dialogue!Judge
    PROVE  DialogueInv'
<1>1. /\ at = "judge" /\ got' = <<>> /\ ok' = FALSE
      /\ UNCHANGED <<script, late, cut>>
  BY DEF Dialogue!Judge, Dialogue!bounds
<1>2. PICK good \in BOOLEAN :
         /\ good => got # <<>>
         /\ best' = Dialogue!Longest(good)
         /\ IF cmd > 0 /\ good /\ Dialogue!Allows(Dialogue!method.keeps.stops) THEN
               /\ UNCHANGED cmd
               /\ IF Dialogue!method.keeps.writes = "got"
                  THEN saved' = got /\ at' = "done" /\ Dialogue!Close
                  ELSE at' = "choose" /\ UNCHANGED <<saved, Dialogue!dialogue>>
            ELSE /\ UNCHANGED <<saved, Dialogue!dialogue>>
                 /\ IF cmd < Cmds THEN cmd' = cmd + 1 /\ at' = "ready"
                    ELSE at' = "choose" /\ UNCHANGED cmd
  BY DEF Dialogue!Judge
<1>3. DialogueTypes /\ <<>> \in Seq(Items) /\ saved = <<>> /\ cmd \in 0..Cmds /\ Cmds \in Nat
  BY <1>1, OutcomesAssumption DEF DialogueInv, DialogueTypes, OutcomesAssumption
<1>4. /\ at' \in {"ready", "choose", "done"}
      /\ cmd' = cmd \/ (cmd < Cmds /\ cmd' = cmd + 1)
      /\ UNCHANGED <<coming, arrived, buffer>>
           \/ (coming' = <<>> /\ arrived' = <<>> /\ buffer' = <<>>)
      /\ saved' # saved =>
           /\ saved' = got /\ at' = "done" /\ cmd > 0
           /\ Dialogue!Allows(Dialogue!method.keeps.stops)
  BY <1>2, Zenon DEF Dialogue!Close, Dialogue!dialogue
<1>5. DialogueTypes'
  <2>1. cmd' \in 0..Cmds
    BY <1>3, <1>4
  <2>2. coming' \in Seq(Items) /\ arrived' \in Seq(Items) /\ buffer' \in Seq(Items)
    BY <1>3, <1>4 DEF DialogueTypes
  <2>3. at' # "done" => saved' = <<>>
    BY <1>3, <1>4
  <2>4. at' \notin {"open", "login"}
    BY <1>4
  <2> QED
    BY <1>1, <1>3, <2>1, <2>2, <2>3, <2>4 DEF DialogueTypes
\* What a careful method keeps has ended.
<1>6. ASSUME Trusted, got # <<>>, ok, cmd > 0 PROVE Whole(got)
  <2>1. WholeOrNone(Dialogue!ToSet(got), cmd) /\ got \in Seq(Items)
    BY <1>1, <1>3, <1>6 DEF DialogueInv, DialogueTypes, Trusted
  <2>2. Dialogue!ToSet(got) # {}
    <3>1. 1 \in 1..Len(got)
      <4>1. Len(got) \in Nat \ {0}
        BY <1>6, <2>1, EmptySeq
      <4> QED
        BY <4>1
    <3>2. got[1] \in Dialogue!ToSet(got)
      BY <2>1, <3>1, SetOf
    <3> QED
      BY <3>2
  <2>3. cmd \in 1..Cmds
    BY <1>3, <1>6
  <2> QED
    BY <2>1, <2>2, <2>3 DEF WholeOrNone, Whole
<1>7. ASSUME Trusted, saved' # <<>> PROVE Whole(saved')
  <2>1. saved' = got /\ cmd > 0 /\ Dialogue!Allows(Dialogue!method.keeps.stops)
    BY <1>3, <1>4, <1>7
  <2>2. ok
    BY <1>7, <2>1 DEF Dialogue!Allows, Trusted, Careful
  <2> QED
    BY <1>6, <1>7, <2>1, <2>2
<1>8. ASSUME Trusted, best'.text # <<>> PROVE Whole(best'.text)
  <2>1. CASE best' = best
    BY <1>7, <1>8, <2>1 DEF DialogueInv
  <2>2. CASE best' # best
    <3>1. /\ cmd > 0 /\ Dialogue!Allows(Dialogue!method.keeps.keeps)
          /\ best' = [text |-> got, good |-> good]
      BY <1>2, <2>2 DEF Dialogue!Longest
    <3>2. ok
      BY <1>3, <1>8, <3>1, MethodSound DEF Trusted, Dialogue!Allows
    <3>3. best'.text = got
      BY <3>1
    <3> QED
      BY <1>6, <1>8, <3>1, <3>2, <3>3
  <2> QED
    BY <2>1, <2>2
<1>9. Trusted' <=> Trusted
  BY <1>1 DEF Trusted, Careful, Dialogue!method
<1>10. /\ Whole(best.text)' <=> Whole(best'.text)
       /\ Whole(saved)' <=> Whole(saved')
  BY DEF Whole
<1> QED
  BY <1>1, <1>4, <1>5, <1>7, <1>8, <1>9, <1>10 DEF DialogueInv

LEMMA ChooseKeeps ==
    ASSUME DialogueInv, Dialogue!Choose \/ Dialogue!Upload
    PROVE  DialogueInv'
<1>1. at = "choose" /\ DialogueTypes /\ <<>> \in Seq(Items)
  BY DEF DialogueInv, Dialogue!Choose, Dialogue!Upload
<1>2. CASE Dialogue!Choose
  <2>1. CASE ~best.good
    BY <1>1, <1>2, <2>1, NextMethodKeeps DEF Dialogue!Choose
  <2>2. CASE best.good
    <3>1. /\ saved' = best.text /\ at' = "done"
          /\ coming' = <<>> /\ arrived' = <<>> /\ buffer' = <<>>
          /\ UNCHANGED <<script, cmd, got, best, late, cut>>
      BY <1>2, <2>2 DEF Dialogue!Choose, Dialogue!Close, Dialogue!bounds
    <3>2. DialogueTypes'
      BY <1>1, <3>1 DEF DialogueTypes, Careful, Dialogue!method
    <3>3. Trusted' <=> Trusted
      BY <3>1 DEF Trusted, Careful, Dialogue!method
    <3>4. /\ Whole(best.text)' <=> Whole(best.text)
          /\ Whole(saved)' <=> Whole(best.text)
      BY <3>1 DEF Whole
    <3> QED
      BY <3>1, <3>2, <3>3, <3>4 DEF DialogueInv
  <2> QED
    BY <2>1, <2>2
<1>3. CASE Dialogue!Upload
  <2>1. /\ at' \in {"done", "failed"} /\ (at' = "failed" => saved' = saved)
        /\ coming' = <<>> /\ arrived' = <<>> /\ buffer' = <<>>
        /\ UNCHANGED <<script, cmd, got, best, late, cut>> /\ Dialogue!method.http
    BY <1>3 DEF Dialogue!Upload, Dialogue!Close, Dialogue!bounds
  <2>2. DialogueTypes'
    BY <1>1, <2>1 DEF DialogueTypes, Careful, Dialogue!method
  <2>3. ~Careful
    <3>1. Careful => Dialogue!method.http = FALSE
      BY <1>1, MethodSound
    <3> QED
      BY <2>1, <3>1, Zenon
  <2>4. ~Trusted'
    BY <2>1, <2>3 DEF Trusted, Careful, Dialogue!method
  <2> QED
    BY <2>2, <2>4 DEF DialogueInv
<1> QED
  BY <1>2, <1>3

LEMMA DialogueStep == DialogueInv /\ [Dialogue!Next]_dialogueVars => DialogueInv'
<1>1. ASSUME DialogueInv, UNCHANGED dialogueVars PROVE DialogueInv'
  <2>1. UNCHANGED <<script, at, cmd, coming, arrived, buffer, got, ok, best, saved, cut, late>>
    BY <1>1 DEF dialogueVars
  <2>2. DialogueTypes' /\ (Trusted' <=> Trusted)
    BY <1>1, <2>1 DEF DialogueInv, DialogueTypes, Trusted, Careful, Dialogue!method
  <2>3. /\ Whole(best.text)' <=> Whole(best.text)
        /\ Whole(saved)' <=> Whole(saved)
        /\ Reads' <=> Reads
        /\ WholeOrNone(Dialogue!ToSet(got), cmd)' <=> WholeOrNone(Dialogue!ToSet(got), cmd)
    BY <2>1 DEF Whole, Reads, Unread, Dialogue!Waiting, Complete, Asked, WholeOrNone
  <2> QED
    BY <1>1, <2>1, <2>2, <2>3 DEF DialogueInv
<1> QED
  BY <1>1, ArriveKeeps, CutKeeps, SessionKeeps, ReadyKeeps, SendKeeps, MatchKeeps, PageKeeps,
     PauseKeeps, EndlessKeeps, JudgeKeeps, ChooseKeeps DEF Dialogue!Next, Dialogue!Command

LEMMA SavedFollows == DialogueInv => SavedIsWhole
  BY DEF DialogueInv, SavedIsWhole, Dialogue!SavedIsWhole, Trusted, Careful, Whole

\* What a script that asks how an answer ended saves is one whole answer, however the
\* answer arrives, wherever the reader pauses, pages or gives up, and whichever method
\* it has come to (run_olt_cli_backup, _collect_telnet_command_with_pager).
THEOREM SavedWhole == OutcomesSpec => []SavedIsWhole
  BY DialogueInitially, DialogueStep, SavedFollows, PartsAlone, PTL

-------------------------------------------------------------------------------
(* The log lines.                                                          *)

\* A list is in the order of its numbers, but for lines that were stored late and those
\* they came late for; the page has whatever it went past; and a list that is read to be
\* rewritten keeps, as long as none of it is gone, every line no further back than it is
\* in the list, which is why a page that is half way does not lose a line by it.
Lines == [seq: Nat, mine: BOOLEAN]
Stages == {"idle", "push", "peek", "pop", "trim"}
Pages == [at: {"idle", "count", "scan"}, end: Nat, found: SUBSET Nat, room: Nat]
LogTypes ==
    /\ log \in Seq(Lines) /\ clear.keep \in Seq(Lines)
    /\ counter \in Nat /\ top \in Nat /\ cursor \in Nat
    /\ writer \in [Writers -> [at: Stages, line: Lines]]
    /\ page \in Pages
UpTo(s, n) == \A p \in DOMAIN s : s[p].seq <= n
Distinct(s) == \A p, q \in DOMAIN s : s[p].seq = s[q].seq => p = q
Sorted(s) ==
    \A p, q \in DOMAIN s : p < q /\ s[q].seq < s[p].seq => s[p].seq \in excused /\ s[q].seq \in excused
Bounds ==
    /\ cursor <= top /\ top <= counter
    /\ \A f \in page.found : f <= top
    /\ UpTo(log, top) /\ UpTo(clear.keep, top)
Storing(w) == writer[w].at = "push"
Unlike(s, w) == \A p \in DOMAIN s : s[p].seq # writer[w].line.seq
Fresh ==
    /\ \A w \in Writers : Storing(w) =>
           /\ writer[w].line.seq <= counter /\ writer[w].line.seq # top
           /\ Unlike(log, w) /\ Unlike(clear.keep, w)
    /\ \A v, w \in Writers : Storing(v) /\ Storing(w) /\ writer[v].line.seq = writer[w].line.seq => v = w
InPlace ==
    \A i \in DOMAIN clear.keep, q, r \in DOMAIN log :
        log[q] = clear.keep[i] /\ log[r] = clear.keep[1] => q - r >= i - 1
Passed(l) == l.mine /\ cursor < l.seq /\ \E f \in page.found : l.seq <= f
Gathered ==
    \A p \in DOMAIN log : p > page.end /\ Passed(log[p]) => log[p].seq \in page.found \cup excused
Given ==
    \A p \in DOMAIN log : log[p].mine /\ log[p].seq <= cursor => log[p].seq \in shown \cup excused
LogInv ==
    /\ LogTypes /\ Bounds /\ Fresh
    /\ Distinct(log) /\ Distinct(clear.keep) /\ Sorted(log) /\ Sorted(clear.keep)
    /\ InPlace /\ Gathered /\ Given

LEMMA GivenIsShown == LogInv => NothingSkipped
<1>1. Logs!ToSet(log) = {log[p] : p \in DOMAIN log}
  BY DEF Logs!ToSet
<1> QED
  BY <1>1 DEF LogInv, Given, NothingSkipped, Logs!NothingSkipped

LEMMA NoLineTyped == Logs!NoLine \in Lines
  BY Zenon DEF Logs!NoLine, Lines

LEMMA LogInitially == Logs!Init => LogInv
<1> SUFFICES ASSUME Logs!Init PROVE LogInv
  OBVIOUS
<1>1. /\ log = <<>> /\ clear.keep = <<>> /\ counter = 0 /\ top = 0 /\ cursor = 0
      /\ page = [at |-> "idle", end |-> 0, found |-> {}, room |-> 0]
      /\ writer = [w \in Writers |-> [at |-> "idle", line |-> Logs!NoLine]]
  BY DEF Logs!Init, Logs!NoClear, Logs!NoPage, Logs!Quiet
<1>2. LogTypes
  BY <1>1, NoLineTyped DEF LogTypes, Pages, Stages
<1>3. DOMAIN log = {} /\ DOMAIN clear.keep = {}
  BY <1>1
<1>4. \A w \in Writers : ~Storing(w)
  BY <1>1 DEF Storing
<1> QED
  BY <1>1, <1>2, <1>3, <1>4 DEF LogInv, Bounds, UpTo, Distinct, Sorted, Fresh, InPlace, Gathered, Given

\* A step that adds no line: the list may lose some from its front, a worker move on,
\* the page give up or begin anew, and the clearing end.
Calmer ==
    /\ writer' \in [Writers -> [at: Stages, line: Lines]]
    /\ \A w \in Writers : Storing(w)' => Storing(w) /\ writer'[w].line = writer[w].line
Restarts ==
    /\ page' \in Pages
    /\ page'.found = {} \/ (page'.found = page.found /\ page'.end = page.end)
Shorter(d) ==
    /\ log' \in Seq(Lines)
    /\ \A p \in DOMAIN log' : p \in Nat /\ p + d \in DOMAIN log /\ log'[p] = log[p + d]

LEMMA AddsNothing ==
    ASSUME LogInv, NEW d \in Nat, Shorter(d), Calmer, Restarts,
           clear'.keep = clear.keep \/ clear'.keep = <<>>,
           UNCHANGED <<counter, top, cursor, shown, excused>>
    PROVE  LogInv'
<1>1. LogTypes'
  <2>1. clear'.keep \in Seq(Lines)
    <3>1. <<>> \in Seq(Lines) /\ clear.keep \in Seq(Lines)
      BY EmptySeq DEF LogInv, LogTypes
    <3> QED
      BY <3>1
  <2> QED
    BY <2>1 DEF LogInv, LogTypes, Shorter, Calmer, Restarts
<1>2. \A i \in DOMAIN clear'.keep : i \in DOMAIN clear.keep /\ clear'.keep[i] = clear.keep[i]
  OBVIOUS
<1>3. Bounds'
  <2>1. UpTo(log, top)' /\ UpTo(clear.keep, top)'
    BY <1>2 DEF LogInv, Bounds, UpTo, Shorter
  <2>2. \A f \in page'.found : f <= top
    BY DEF LogInv, Bounds, Restarts
  <2> QED
    BY <2>1, <2>2 DEF LogInv, Bounds
<1>4. Fresh'
  <2>1. ASSUME NEW w \in Writers, Storing(w)' PROVE Unlike(log, w)' /\ Unlike(clear.keep, w)'
    BY <1>2, <2>1 DEF LogInv, Fresh, Unlike, Shorter, Calmer
  <2> QED
    BY <2>1 DEF LogInv, Fresh, Calmer
<1>5. Distinct(log)' /\ Distinct(clear.keep)'
  <2>1. ASSUME NEW p \in DOMAIN log', NEW q \in DOMAIN log', log'[p].seq = log'[q].seq PROVE p = q
    <3>1. p + d = q + d
      BY <2>1 DEF LogInv, Distinct, Shorter
    <3> QED
      BY <3>1 DEF Shorter
  <2> QED
    BY <1>2, <2>1 DEF LogInv, Distinct
<1>6. Sorted(log)' /\ Sorted(clear.keep)'
  <2>1. ASSUME NEW p \in DOMAIN log', NEW q \in DOMAIN log', p < q, log'[q].seq < log'[p].seq
        PROVE  log'[p].seq \in excused /\ log'[q].seq \in excused
    <3>1. p + d < q + d /\ p + d \in DOMAIN log /\ q + d \in DOMAIN log
      BY <2>1 DEF Shorter
    <3> QED
      BY <2>1, <3>1 DEF LogInv, Sorted, Shorter
  <2> QED
    BY <1>2, <2>1 DEF LogInv, Sorted
<1>7. InPlace'
  <2>1. ASSUME NEW i \in DOMAIN clear'.keep, NEW q \in DOMAIN log', NEW r \in DOMAIN log',
               log'[q] = clear'.keep[i], log'[r] = clear'.keep[1]
        PROVE  q - r >= i - 1
    <3>1. clear'.keep = clear.keep
      BY <1>2
    <3>2. (q + d) - (r + d) >= i - 1
      BY <2>1, <3>1 DEF LogInv, InPlace, Shorter
    <3> QED
      BY <3>2 DEF Shorter
  <2> QED
    BY <2>1 DEF InPlace
<1>8. Gathered'
  <2>1. ASSUME NEW p \in DOMAIN log', p > page'.end, Passed(log[p])'
        PROVE  log'[p].seq \in page'.found \cup excused
    <3>1. page'.found = page.found /\ page'.end = page.end
      BY <2>1 DEF Restarts, Passed
    <3>2. p + d \in DOMAIN log /\ p + d > page.end /\ log'[p] = log[p + d]
      BY <2>1, <3>1 DEF Shorter, LogInv, LogTypes, Pages
    <3>3. Passed(log[p + d])
      BY <2>1, <3>1, <3>2 DEF Passed
    <3> QED
      BY <3>1, <3>2, <3>3 DEF LogInv, Gathered
  <2> QED
    BY <2>1 DEF Gathered
<1>9. Given'
  BY DEF LogInv, Given, Shorter
<1> QED
  BY <1>1, <1>3, <1>4, <1>5, <1>6, <1>7, <1>8, <1>9 DEF LogInv

\* The same list, worker, page or clearing.
LEMMA Same ==
    ASSUME LogInv
    PROVE  /\ UNCHANGED log => Shorter(0)
           /\ UNCHANGED writer => Calmer
           /\ UNCHANGED page => Restarts
<1>1. \A p \in DOMAIN log : p \in Nat /\ p + 0 = p
  BY DEF LogInv, LogTypes
<1> QED
  BY <1>1 DEF LogInv, LogTypes, Shorter, Calmer, Restarts, Storing

LEMMA Moves ==
    ASSUME LogInv, NEW w \in Writers,
           \/ \E to \in Stages \ {"push"} : Logs!Go(w, to)
           \/ writer' = [writer EXCEPT ![w] = Logs!Quiet]
    PROVE  Calmer
<1>1. \A v \in Writers : writer[v] \in [at: Stages, line: Lines]
  BY DEF LogInv, LogTypes
<1>2. CASE \E to \in Stages \ {"push"} : Logs!Go(w, to)
  <2>1. PICK to \in Stages \ {"push"} : writer' = [writer EXCEPT ![w].at = to]
    BY <1>2 DEF Logs!Go
  <2>2. /\ \A v \in Writers \ {w} : writer'[v] = writer[v]
        /\ writer'[w] = [writer[w] EXCEPT !.at = to]
        /\ writer' \in [Writers -> [at: Stages, line: Lines]]
    BY <2>1 DEF LogInv, LogTypes
  <2>3. writer'[w].at = to /\ writer'[w].line = writer[w].line
    BY <1>1, <2>2
  <2> QED
    BY <2>2, <2>3 DEF Calmer, Storing
<1>3. CASE writer' = [writer EXCEPT ![w] = Logs!Quiet]
  <2>1. Logs!Quiet \in [at: Stages, line: Lines] /\ Logs!Quiet.at = "idle"
    BY NoLineTyped DEF Logs!Quiet, Stages
  <2>2. /\ \A v \in Writers \ {w} : writer'[v] = writer[v]
        /\ writer'[w] = Logs!Quiet
        /\ writer' \in [Writers -> [at: Stages, line: Lines]]
    BY <1>3, <2>1 DEF LogInv, LogTypes
  <2> QED
    BY <2>1, <2>2 DEF Calmer, Storing
<1> QED
  BY <1>2, <1>3

LEMMA FrontCut ==
    ASSUME LogInv, NEW m \in Nat \ {0}, log' = SubSeq(log, m, Len(log))
    PROVE  Shorter(m - 1)
<1>1. log \in Seq(Lines) /\ Len(log) \in Nat /\ DOMAIN log = 1..Len(log)
  BY DEF LogInv, LogTypes
<1>2. \A i \in m..Len(log) : log[i] \in Lines
  BY <1>1
<1>3. /\ log' \in Seq(Lines)
      /\ Len(log') = IF m <= Len(log) THEN Len(log) - m + 1 ELSE 0
      /\ \A i \in 1..(Len(log) - m + 1) : log'[i] = log[m + i - 1]
  BY <1>1, <1>2, SubSeqProperties
<1>4. DOMAIN log' = 1..Len(log')
  BY <1>3
<1> QED
  BY <1>1, <1>3, <1>4 DEF Shorter

LEMMA SmallStepsKeep ==
    ASSUME LogInv,
           \/ \E w \in Writers : Logs!Peek(w) \/ Logs!Pop(w) \/ Logs!Trim(w) \/ Logs!Fail(w)
           \/ Logs!Ask \/ Logs!CountLines \/ Logs!AskFails \/ Logs!Age
    PROVE  LogInv'
<1>1. ASSUME NEW w \in Writers, Logs!Peek(w) \/ Logs!Fail(w) PROVE LogInv'
  <2>1. UNCHANGED <<log, page, counter, top, cursor, shown, excused, clear>>
    BY <1>1 DEF Logs!Peek, Logs!Fail, Stages, Logs!readers
  <2>2. Calmer
    <3>1. \/ \E to \in Stages \ {"push"} : Logs!Go(w, to)
          \/ writer' = [writer EXCEPT ![w] = Logs!Quiet]
      BY <1>1 DEF Logs!Peek, Logs!Fail, Stages
    <3> QED
      BY <3>1, Moves
  <2> QED
    BY <2>1, <2>2, Same, AddsNothing
<1>2. ASSUME NEW w \in Writers, Logs!Pop(w) PROVE LogInv'
  <2>1. UNCHANGED <<page, counter, top, cursor, shown, excused, clear>>
    BY <1>2 DEF Logs!Pop, Logs!readers
  <2>2. Calmer
    <3>1. \E to \in Stages \ {"push"} : Logs!Go(w, to)
      BY <1>2 DEF Logs!Pop, Stages
    <3> QED
      BY <3>1, Moves
  <2>3. Shorter(1)
    <3>1. log' = SubSeq(log, 2, Len(log)) /\ 2 \in Nat \ {0} /\ 2 - 1 = 1
      BY <1>2 DEF Logs!Pop
    <3>2. Shorter(2 - 1)
      BY <3>1, FrontCut
    <3> QED
      BY <3>1, <3>2
  <2> QED
    BY <2>1, <2>2, <2>3, Same, AddsNothing
<1>3. ASSUME NEW w \in Writers, Logs!Trim(w) PROVE LogInv'
  <2>1. UNCHANGED <<page, counter, top, cursor, shown, excused, clear>>
    BY <1>3 DEF Logs!Trim, Logs!readers
  <2>2. Calmer
    BY <1>3, Moves DEF Logs!Trim
  <2> DEFINE m == Logs!Max({1, Len(log) - MaxLines + 1})
  <2>3. m \in Nat \ {0}
    <3>1. Len(log) \in Nat /\ MaxLines \in Nat
      BY OutcomesAssumption DEF LogInv, LogTypes
    <3>2. \E x \in {1, Len(log) - MaxLines + 1} : \A y \in {1, Len(log) - MaxLines + 1} : x >= y
      BY <3>1
    <3>3. m \in {1, Len(log) - MaxLines + 1} /\ \A y \in {1, Len(log) - MaxLines + 1} : m >= y
      BY <3>2, Zenon DEF Logs!Max
    <3> QED
      BY <3>1, <3>3
  <2>4. log' = SubSeq(log, m, Len(log))
    BY <1>3 DEF Logs!Trim
  <2> HIDE DEF m
  <2>5. Shorter(m - 1) /\ m - 1 \in Nat
    BY <2>3, <2>4, FrontCut
  <2> QED
    BY <2>1, <2>2, <2>5, Same, AddsNothing
<1>4. CASE Logs!Ask
  <2>1. UNCHANGED <<log, writer, counter, top, shown, excused, clear>>
    BY <1>4 DEF Logs!Ask
  <2>2. cursor' = cursor
    BY <1>4 DEF Logs!Ask, LogInv, LogTypes, Bounds
  <2>3. Restarts
    <3>1. page' = page \/ page' = [page EXCEPT !.at = "count"]
      BY <1>4 DEF Logs!Ask
    <3>2. page \in Pages /\ "count" \in {"idle", "count", "scan"}
      BY DEF LogInv, LogTypes
    <3> QED
      BY <3>1, <3>2 DEF Restarts, Pages
  <2> QED
    BY <2>1, <2>2, <2>3, Same, AddsNothing
<1>5. CASE Logs!CountLines \/ Logs!AskFails
  <2>1. UNCHANGED <<log, writer, counter, top, cursor, shown, excused, clear>>
    BY <1>5 DEF Logs!CountLines, Logs!AskFails
  <2>2. Limit \in Nat /\ Len(log) \in Nat
    BY OutcomesAssumption DEF LogInv, LogTypes
  <2>3. Restarts
    <3>1. \/ page' = [at |-> "idle", end |-> 0, found |-> {}, room |-> 0]
          \/ page' = [at |-> "scan", end |-> Len(log), found |-> {}, room |-> Limit]
      BY <1>5 DEF Logs!CountLines, Logs!AskFails, Logs!NoPage
    <3> QED
      BY <2>2, <3>1 DEF Restarts, Pages
  <2> QED
    BY <2>1, <2>3, Same, AddsNothing
<1>6. CASE Logs!Age
  BY <1>6, Same, AddsNothing DEF Logs!Age, Logs!readers
<1> QED
  BY <1>1, <1>2, <1>3, <1>4, <1>5, <1>6

LEMMA Numbered ==
    /\ \A l \in Lines : l.seq \in Nat
    /\ \A s \in Seq(Lines) : \A p \in DOMAIN s : s[p].seq \in Nat
<1>1. \A l \in Lines : l.seq \in Nat
  BY DEF Lines
<1>2. \A s \in Seq(Lines) : \A p \in DOMAIN s : s[p] \in Lines
  OBVIOUS
<1> QED
  BY <1>1, <1>2

LEMMA NumberKeeps ==
    ASSUME LogInv, NEW w \in Writers, NEW mine \in BOOLEAN, Logs!Number(w, mine)
    PROVE  LogInv'
<1> DEFINE line == [seq |-> counter + 1, mine |-> mine]
<1>1. /\ counter' = counter + 1
      /\ writer' = [writer EXCEPT ![w] = [at |-> "push", line |-> line]]
      /\ UNCHANGED <<log, top, page, cursor, shown, excused, clear>>
  BY DEF Logs!Number, Logs!readers
<1>2. counter \in Nat /\ writer \in [Writers -> [at: Stages, line: Lines]]
  BY DEF LogInv, LogTypes
<1>3. line \in Lines
  <2>1. counter + 1 \in Nat
    BY <1>2
  <2> QED
    BY <2>1, Zenon DEF Lines
<1>4. line.seq = counter + 1
  OBVIOUS
<1> HIDE DEF line
<1>5. /\ writer' \in [Writers -> [at: Stages, line: Lines]]
      /\ writer'[w].at = "push" /\ writer'[w].line = line
      /\ \A v \in Writers \ {w} : writer'[v] = writer[v]
  BY <1>1, <1>2, <1>3 DEF Stages
<1>6. LogTypes'
  BY <1>1, <1>2, <1>5 DEF LogInv, LogTypes
<1>7. Bounds'
  BY <1>1, <1>2 DEF LogInv, LogTypes, Bounds, UpTo
<1>8. /\ top < counter + 1
      /\ \A p \in DOMAIN log : log[p].seq < counter + 1
      /\ \A p \in DOMAIN clear.keep : clear.keep[p].seq < counter + 1
      /\ \A v \in Writers : Storing(v) => writer[v].line.seq < counter + 1
  <2>1. /\ \A p \in DOMAIN log : log[p].seq \in Nat
        /\ \A p \in DOMAIN clear.keep : clear.keep[p].seq \in Nat
        /\ \A v \in Writers : writer[v].line.seq \in Nat
    <3>1. log \in Seq(Lines) /\ clear.keep \in Seq(Lines) /\ \A v \in Writers : writer[v].line \in Lines
      BY <1>2 DEF LogInv, LogTypes
    <3> QED
      BY <3>1, Numbered
  <2> QED
    BY <1>2, <2>1 DEF LogInv, LogTypes, Bounds, UpTo, Fresh
<1>9. Fresh'
  <2>1. ASSUME NEW v \in Writers, Storing(v)'
        PROVE  /\ writer'[v].line.seq <= counter' /\ writer'[v].line.seq # top'
               /\ Unlike(log, v)' /\ Unlike(clear.keep, v)'
    <3>1. CASE v = w
      BY <1>1, <1>2, <1>4, <1>5, <1>8, <3>1 DEF Unlike, LogInv, LogTypes
    <3>2. CASE v # w
      <4>1. Storing(v) /\ writer'[v] = writer[v]
        BY <1>5, <2>1, <3>2 DEF Storing
      <4>2. /\ writer[v].line.seq <= counter /\ writer[v].line.seq # top
            /\ Unlike(log, v) /\ Unlike(clear.keep, v)
        BY <4>1 DEF LogInv, Fresh
      <4>3. writer[v].line \in Lines
        BY <1>2
      <4>4. writer[v].line.seq <= counter + 1
        BY <1>2, <4>2, <4>3, Numbered
      <4> QED
        BY <1>1, <4>1, <4>2, <4>4 DEF Unlike
    <3> QED
      BY <3>1, <3>2
  <2>2. ASSUME NEW v \in Writers, NEW u \in Writers, Storing(v)', Storing(u)',
               writer'[v].line.seq = writer'[u].line.seq
        PROVE  v = u
    BY <1>2, <1>4, <1>5, <1>8, <2>2 DEF LogInv, Fresh, Storing
  <2> QED
    BY <2>1, <2>2 DEF Fresh
<1>10. /\ Distinct(log)' /\ Distinct(clear.keep)' /\ Sorted(log)' /\ Sorted(clear.keep)'
       /\ InPlace' /\ Gathered' /\ Given'
  BY <1>1 DEF LogInv, Distinct, Sorted, InPlace, Gathered, Passed, Given
<1> QED
  BY <1>6, <1>7, <1>9, <1>10 DEF LogInv

\* A line is stored behind those it comes late for, and they are excused with it.
LEMMA PushKeeps ==
    ASSUME LogInv, NEW w \in Writers, Logs!Push(w)
    PROVE  LogInv'
<1> DEFINE line == writer[w].line
           n == Len(log)
<1>1. /\ writer[w].at = "push" /\ log' = Append(log, line)
      /\ top' = Logs!Max({top, line.seq})
      /\ UNCHANGED <<counter, page, cursor, shown, clear>>
      /\ \E to \in Stages \ {"push"} : Logs!Go(w, to)
  BY DEF Logs!Push, Logs!readers, Stages
<1>2. /\ line \in Lines /\ line.seq \in Nat /\ top \in Nat /\ counter \in Nat
      /\ log \in Seq(Lines) /\ n \in Nat /\ DOMAIN log = 1..n
  BY Numbered DEF LogInv, LogTypes
<1>3. /\ line.seq <= counter /\ line.seq # top
      /\ \A p \in DOMAIN log : log[p].seq # line.seq
      /\ \A p \in DOMAIN clear.keep : clear.keep[p].seq # line.seq
  BY <1>1 DEF LogInv, Fresh, Storing, Unlike
<1>4. \A p \in DOMAIN log : log[p].seq \in Nat /\ log[p].seq <= top
  BY <1>2, Numbered DEF LogInv, Bounds, UpTo
<1>5. /\ excused \subseteq excused'
      /\ line.seq < top => /\ line.seq \in excused'
                           /\ \A p \in DOMAIN log : log[p].seq > line.seq => log[p].seq \in excused'
  <2>1. Logs!Numbers({l \in Logs!ToSet(log) : l.seq > line.seq})
          = {log[p].seq : p \in {q \in DOMAIN log : log[q].seq > line.seq}}
    BY DEF Logs!Numbers, Logs!ToSet
  <2>2. excused' = IF line.seq < top
                   THEN excused \cup {line.seq} \cup Logs!Numbers({l \in Logs!ToSet(log) : l.seq > line.seq})
                   ELSE excused
    BY DEF Logs!Push
  <2> QED
    BY <2>1, <2>2
<1>6. /\ top' \in {top, line.seq} /\ top' >= top /\ top' >= line.seq /\ top' \in Nat
  <2>1. \E x \in {top, line.seq} : \A y \in {top, line.seq} : x >= y
    BY <1>2
  <2>2. top' \in {top, line.seq} /\ \A y \in {top, line.seq} : top' >= y
    BY <1>1, <2>1, Zenon DEF Logs!Max
  <2> QED
    BY <1>2, <2>2
<1>7. /\ log' \in Seq(Lines) /\ DOMAIN log' = 1..(n + 1)
      /\ \A p \in 1..n : log'[p] = log[p]
      /\ log'[n + 1] = line
  BY <1>1, <1>2
<1>8. /\ Calmer /\ ~Storing(w)'
  <2>1. Calmer
    BY <1>1, Moves
  <2>2. writer'[w].at # "push"
    BY <1>1 DEF Logs!Go, LogInv, LogTypes
  <2> QED
    BY <2>1, <2>2 DEF Storing
<1> HIDE DEF line, n
<1>9. LogTypes'
  BY <1>1, <1>6, <1>7, <1>8 DEF LogInv, LogTypes, Calmer
<1>10. Bounds'
  <2>1. UpTo(log, top)'
    BY <1>2, <1>4, <1>6, <1>7 DEF UpTo
  <2>2. UpTo(clear.keep, top)'
    <3>1. \A p \in DOMAIN clear.keep : clear.keep[p].seq \in Nat
      BY Numbered DEF LogInv, LogTypes
    <3> QED
      BY <1>1, <1>2, <1>6, <3>1 DEF LogInv, Bounds, UpTo
  <2>3. (\A f \in page.found : f <= top)'
    BY <1>1, <1>2, <1>6 DEF LogInv, LogTypes, Pages, Bounds
  <2> QED
    <3>1. cursor \in Nat /\ cursor <= top /\ top <= counter
      BY DEF LogInv, LogTypes, Bounds
    <3>2. cursor' <= top' /\ top' <= counter'
      BY <1>1, <1>2, <1>3, <1>6, <3>1
    <3> QED
      BY <2>1, <2>2, <2>3, <3>2 DEF Bounds
<1>11. Fresh'
  <2>1. ASSUME NEW v \in Writers, Storing(v)'
        PROVE  /\ v # w /\ Storing(v) /\ writer'[v].line = writer[v].line
               /\ writer[v].line.seq # line.seq
    BY <1>1, <1>8, <2>1 DEF LogInv, Fresh, Calmer, line, Storing
  <2>2. ASSUME NEW v \in Writers, Storing(v)'
        PROVE  /\ writer'[v].line.seq <= counter' /\ writer'[v].line.seq # top'
               /\ Unlike(log, v)' /\ Unlike(clear.keep, v)'
    <3>1. Unlike(log, v)'
      BY <1>2, <1>7, <2>1, <2>2 DEF LogInv, Fresh, Unlike
    <3> QED
      BY <1>1, <1>6, <2>1, <2>2, <3>1 DEF LogInv, Fresh, Unlike
  <2> QED
    BY <2>1, <2>2 DEF LogInv, Fresh
<1>12. Distinct(log)' /\ Distinct(clear.keep)'
  BY <1>1, <1>2, <1>3, <1>7 DEF LogInv, Distinct
<1>13. Sorted(log)' /\ Sorted(clear.keep)'
  <2>1. ASSUME NEW p \in DOMAIN log', NEW q \in DOMAIN log', p < q, log'[q].seq < log'[p].seq
        PROVE  log'[p].seq \in excused' /\ log'[q].seq \in excused'
    <3>1. CASE q \in 1..n
      BY <1>2, <1>5, <1>7, <2>1, <3>1 DEF LogInv, Sorted
    <3>2. CASE q = n + 1
      <4>1. p \in DOMAIN log /\ log'[p] = log[p]
        BY <1>2, <1>7, <2>1, <3>2
      <4>2. line.seq < log[p].seq /\ line.seq < top
        BY <1>2, <1>4, <1>7, <2>1, <3>2, <4>1
      <4> QED
        BY <1>5, <1>7, <3>2, <4>1, <4>2
    <3> QED
      BY <1>2, <1>7, <3>1, <3>2
  <2>2. Sorted(clear.keep)'
    BY <1>1, <1>5 DEF LogInv, Sorted
  <2> QED
    BY <2>1, <2>2 DEF Sorted
<1>14. InPlace'
  <2>1. ASSUME NEW i \in DOMAIN clear.keep, NEW q \in DOMAIN log', NEW r \in DOMAIN log',
               log'[q] = clear.keep[i], log'[r] = clear.keep[1]
        PROVE  q - r >= i - 1
    <3>1. 1 \in DOMAIN clear.keep
      <4>1. clear.keep \in Seq(Lines)
        BY DEF LogInv, LogTypes
      <4> QED
        BY <4>1
    <3>2. q # n + 1 /\ r # n + 1
      BY <1>3, <1>7, <2>1, <3>1
    <3>3. q \in DOMAIN log /\ r \in DOMAIN log /\ log[q] = clear.keep[i] /\ log[r] = clear.keep[1]
      BY <1>2, <1>7, <2>1, <3>2
    <3> QED
      BY <3>3 DEF LogInv, InPlace
  <2> QED
    BY <1>1, <2>1 DEF InPlace
<1>15. Gathered'
  <2>1. ASSUME NEW p \in DOMAIN log', p > page.end, Passed(log[p])'
        PROVE  log'[p].seq \in page.found \cup excused'
    <3>1. CASE p \in 1..n
      BY <1>1, <1>2, <1>5, <1>7, <2>1, <3>1 DEF LogInv, Gathered, Passed
    <3>2. CASE p = n + 1
      <4>1. PICK f \in page.found : line.seq <= f
        BY <1>1, <1>7, <2>1, <3>2 DEF Passed
      <4>2. f <= top /\ f \in Nat
        BY DEF LogInv, LogTypes, Pages, Bounds
      <4>3. line.seq < top
        BY <1>2, <1>3, <4>1, <4>2
      <4> QED
        BY <1>5, <1>7, <3>2, <4>3
    <3> QED
      BY <1>2, <1>7, <3>1, <3>2
  <2> QED
    BY <1>1, <2>1 DEF Gathered
<1>16. Given'
  <2>1. ASSUME NEW p \in DOMAIN log', log'[p].mine, log'[p].seq <= cursor
        PROVE  log'[p].seq \in shown \cup excused'
    <3>1. CASE p \in 1..n
      BY <1>2, <1>5, <1>7, <2>1, <3>1 DEF LogInv, Given
    <3>2. CASE p = n + 1
      <4>1. line.seq < top
        BY <1>2, <1>3, <1>7, <2>1, <3>2 DEF LogInv, LogTypes, Bounds
      <4> QED
        BY <1>5, <1>7, <3>2, <4>1
    <3> QED
      BY <1>2, <1>7, <3>1, <3>2
  <2> QED
    BY <1>1, <2>1 DEF Given
<1> QED
  BY <1>9, <1>10, <1>11, <1>12, <1>13, <1>14, <1>15, <1>16 DEF LogInv

-------------------------------------------------------------------------------
(* The page reads a chunk.                                                 *)

\* The chunk as places of the list.
LEMMA ChunkPlaces ==
    ASSUME LogInv
    PROVE  /\ Logs!Span \subseteq DOMAIN log
           /\ \A p \in Logs!Span : p > page.end - Chunk /\ p <= page.end
           /\ \A p \in DOMAIN log :
                  p <= page.end => p \in Logs!Span \/ (p <= page.end - Chunk /\ \A k \in Logs!Span : p < k)
<1> DEFINE low == Logs!Max({1, page.end - Chunk + 1})
           high == Logs!Min({page.end, Len(log)})
<1>1. page.end \in Nat /\ Chunk \in Nat /\ Len(log) \in Nat /\ DOMAIN log = 1..Len(log)
  BY OutcomesAssumption DEF LogInv, LogTypes, Pages
<1>2. low \in {1, page.end - Chunk + 1} /\ \A y \in {1, page.end - Chunk + 1} : low >= y
  <2>1. \E x \in {1, page.end - Chunk + 1} : \A y \in {1, page.end - Chunk + 1} : x >= y
    BY <1>1
  <2> QED
    BY <2>1, Zenon DEF Logs!Max
<1>3. high \in {page.end, Len(log)} /\ \A y \in {page.end, Len(log)} : high <= y
  <2>1. \E x \in {page.end, Len(log)} : \A y \in {page.end, Len(log)} : x <= y
    BY <1>1
  <2> QED
    BY <2>1, Zenon DEF Logs!Min
<1>4. Logs!Span = low..high
  BY DEF Logs!Span
<1> HIDE DEF low, high
<1>5. low \in Int /\ high \in Int /\ low >= 1 /\ low >= page.end - Chunk + 1
      /\ high <= page.end /\ high <= Len(log)
  BY <1>1, <1>2, <1>3
<1>6. ASSUME NEW p \in DOMAIN log, p <= page.end, p \notin Logs!Span
      PROVE  p <= page.end - Chunk /\ p < low
  <2>1. p \in Nat /\ p >= 1 /\ p <= high
    BY <1>1, <1>3, <1>6
  <2>2. p < low
    BY <1>4, <1>5, <1>6, <2>1
  <2>3. low = page.end - Chunk + 1
    BY <1>2, <2>1, <2>2
  <2> QED
    BY <1>1, <2>1, <2>2, <2>3
<1>7. ASSUME NEW p \in Logs!Span PROVE p \in DOMAIN log /\ p > page.end - Chunk /\ p <= page.end /\ low <= p
  BY <1>1, <1>4, <1>5, <1>7
<1>8. ASSUME NEW p \in DOMAIN log, p <= page.end, p \notin Logs!Span
      PROVE  p <= page.end - Chunk /\ \A k \in Logs!Span : p < k
  <2>1. p \in Nat /\ p <= page.end - Chunk /\ p < low
    BY <1>1, <1>6, <1>8
  <2>2. ASSUME NEW k \in Logs!Span PROVE p < k
    <3>1. low <= k /\ k \in Int
      BY <1>4, <1>5, <1>7, <2>2
    <3> QED
      BY <1>5, <2>1, <3>1
  <2> QED
    BY <2>1, <2>2
<1> QED
  BY <1>7, <1>8

\* The lines it takes, and when it takes all there are.
LEMMA ChunkTaken ==
    ASSUME LogInv
    PROVE  /\ Logs!Taken \subseteq Logs!Ahead /\ Logs!Ahead \subseteq Logs!Span
           /\ Logs!Known \subseteq Logs!Span
           /\ Logs!Cardinality(Logs!Taken) \in 0..page.room
           /\ Logs!Cardinality(Logs!Taken) # page.room => Logs!Taken = Logs!Ahead
<1>1. Logs!Ahead \subseteq Logs!Span /\ Logs!Known \subseteq Logs!Span
  BY DEF Logs!Ahead, Logs!Known
<1>2. Len(log) \in Nat /\ page.room \in Nat /\ Logs!Span \in SUBSET Nat /\ \A p \in Logs!Span : p <= Len(log)
  <2>1. log \in Seq(Lines) /\ page.room \in Nat
    BY DEF LogInv, LogTypes, Pages
  <2>2. Logs!Span \subseteq 1..Len(log) /\ Len(log) \in Nat
    BY <2>1, ChunkPlaces
  <2> QED
    BY <2>1, <2>2
<1>3. Logs!Taken = {p \in Logs!Ahead : Cardinality({q \in Logs!Ahead : q >= p}) <= page.room}
  BY Counting DEF Logs!Taken
<1>4. Logs!Ahead \in SUBSET Nat /\ \A p \in Logs!Ahead : p <= Len(log)
  BY <1>1, <1>2
<1>5. /\ Logs!Taken \subseteq Logs!Ahead /\ Cardinality(Logs!Taken) \in 0..page.room
      /\ Cardinality(Logs!Taken) # page.room => Logs!Taken = Logs!Ahead
  BY <1>2, <1>3, <1>4, NewestThatFit
<1> QED
  BY <1>1, <1>5, Counting

Found == page.found \cup {log[p].seq : p \in Logs!Taken}

LEMMA FoundTyped ==
    ASSUME LogInv
    PROVE  Found \in SUBSET Nat /\ \A f \in Found : f <= top
<1>1. Logs!Taken \subseteq DOMAIN log
  BY ChunkPlaces, ChunkTaken
<1>2. \A p \in DOMAIN log : log[p].seq \in Nat /\ log[p].seq <= top
  BY Numbered DEF LogInv, LogTypes, Bounds, UpTo
<1>3. page.found \in SUBSET Nat /\ \A f \in page.found : f <= top
  BY DEF LogInv, LogTypes, Pages, Bounds
<1> QED
  BY <1>1, <1>2, <1>3 DEF Found

\* When the chunk does not fill the page, whatever is not before it, or comes before a
\* line that is known, was found or is excused.
LEMMA ChunkPassed ==
    ASSUME LogInv, Logs!Cardinality(Logs!Taken) # page.room,
           NEW p \in DOMAIN log, p > page.end - Chunk \/ Logs!Known # {},
           log[p].mine, cursor < log[p].seq, NEW f \in Found, log[p].seq <= f
    PROVE  log[p].seq \in Found \cup excused
<1>1. /\ DOMAIN log = 1..Len(log) /\ Len(log) \in Nat /\ page.end \in Nat /\ Chunk \in Nat
      /\ cursor \in Nat /\ \A q \in DOMAIN log : log[q].seq \in Nat
  BY OutcomesAssumption, Numbered DEF LogInv, LogTypes, Pages
<1>2. /\ Logs!Taken = Logs!Ahead /\ Logs!Ahead \subseteq Logs!Span /\ Logs!Known \subseteq Logs!Span
      /\ Logs!Span \subseteq DOMAIN log
  BY ChunkPlaces, ChunkTaken
<1>3. CASE p > page.end
  <2>1. CASE f \in page.found
    BY <1>3, <2>1 DEF LogInv, Gathered, Passed, Found
  <2>2. CASE f \notin page.found
    <3>1. PICK q \in Logs!Taken : f = log[q].seq
      BY <2>2 DEF Found
    <3>2. q \in DOMAIN log /\ q <= page.end
      BY <1>2, <3>1, ChunkPlaces
    <3>3. q < p
      BY <1>1, <1>3, <3>2
    <3>4. CASE log[p].seq = log[q].seq
      BY <3>1, <3>4 DEF Found
    <3>5. CASE log[p].seq < log[q].seq
      BY <3>2, <3>3, <3>5 DEF LogInv, Sorted
    <3> QED
      BY <1>1, <3>1, <3>2, <3>4, <3>5
  <2> QED
    BY <2>1, <2>2
<1>4. ASSUME NEW k \in Logs!Known, p < k PROVE log[p].seq \in excused
  <2>1. k \in DOMAIN log /\ log[k].seq <= cursor
    BY <1>2 DEF Logs!Known
  <2>2. log[k].seq < log[p].seq
    BY <1>1, <2>1
  <2> QED
    BY <1>4, <2>1, <2>2 DEF LogInv, Sorted
<1>5. CASE p <= page.end /\ p \in Logs!Span
  <2>1. CASE p \in Logs!Ahead
    BY <1>2, <2>1 DEF Found
  <2>2. CASE p \notin Logs!Ahead
    <3>1. PICK k \in Logs!Known : ~(p > k)
      BY <1>5, <2>2 DEF Logs!Ahead
    <3>2. k \in DOMAIN log /\ log[k].seq <= cursor
      BY <1>2 DEF Logs!Known
    <3>3. k # p
      BY <1>1, <3>2
    <3>4. p < k
      BY <1>1, <3>1, <3>2, <3>3
    <3> QED
      BY <1>4, <3>4
  <2> QED
    BY <2>1, <2>2
<1>6. CASE p <= page.end /\ p \notin Logs!Span
  <2>1. p <= page.end - Chunk /\ \A k \in Logs!Span : p < k
    BY <1>6, ChunkPlaces
  <2>2. PICK k \in Logs!Known : TRUE
    BY <1>1, <2>1
  <2> QED
    BY <1>2, <1>4, <2>1
<1> QED
  BY <1>1, <1>3, <1>5, <1>6

\* The page goes on to the chunk before.
LEMMA ReadsOn ==
    ASSUME LogInv, Logs!Cardinality(Logs!Taken) # page.room, ~(page.end <= Chunk),
           page' = [page EXCEPT !.end = @ - Chunk, !.found = Found,
                                !.room = @ - Logs!Cardinality(Logs!Taken)],
           UNCHANGED <<counter, log, top, writer, cursor, shown, excused, clear>>
    PROVE  LogInv'
<1>1. page \in Pages /\ page.end \in Nat /\ page.room \in Nat /\ Chunk \in Nat
  BY OutcomesAssumption DEF LogInv, LogTypes, Pages
<1>2. page.end - Chunk \in Nat /\ page.room - Logs!Cardinality(Logs!Taken) \in Nat
  <2>1. Logs!Cardinality(Logs!Taken) \in 0..page.room
    BY ChunkTaken
  <2> QED
    BY <1>1, <2>1
<1>3. page' \in Pages /\ page'.end = page.end - Chunk /\ page'.found = Found
  BY <1>1, <1>2, FoundTyped DEF Pages
<1>4. LogTypes'
  BY <1>3 DEF LogInv, LogTypes, Pages
<1>5. Bounds'
  BY <1>3, FoundTyped DEF LogInv, Bounds, UpTo
<1>6. Gathered'
  <2>1. ASSUME NEW p \in DOMAIN log, p > page.end - Chunk, Passed(log[p])'
        PROVE  log[p].seq \in Found \cup excused
    <3>1. PICK f \in Found : log[p].seq <= f
      BY <1>3, <2>1 DEF Passed
    <3>2. log[p].mine /\ cursor < log[p].seq
      BY <2>1 DEF Passed
    <3> QED
      BY <2>1, <3>1, <3>2, ChunkPassed
  <2> QED
    BY <1>3, <2>1 DEF Gathered
<1>7. /\ Fresh' /\ Distinct(log)' /\ Distinct(clear.keep)' /\ Sorted(log)' /\ Sorted(clear.keep)'
      /\ InPlace' /\ Given'
  BY DEF LogInv, Fresh, Storing, Unlike, Distinct, Sorted, InPlace, Given
<1> QED
  BY <1>4, <1>5, <1>6, <1>7 DEF LogInv

\* The page is given what was found.  When it stopped because it was full, or because
\* the list had shrunk away, what lies before is excused.
LEMMA ReadsNoMore ==
    ASSUME LogInv,
           Logs!Cardinality(Logs!Taken) = page.room \/ Logs!Known # {} \/ Logs!Span = {} \/ page.end <= Chunk,
           page' = Logs!NoPage, cursor' = Logs!NewCursor(Found), shown' = shown \cup Found,
           excused' = IF Logs!Cardinality(Logs!Taken) = page.room \/ Logs!Span = {}
                      THEN excused \cup Logs!Numbers({l \in Logs!ToSet(log) : l.seq < cursor'})
                      ELSE excused,
           UNCHANGED <<counter, log, top, writer, clear>>
    PROVE  LogInv'
<1>1. /\ cursor \in Nat /\ top \in Nat /\ cursor <= top
      /\ \A p \in DOMAIN log : p \in Nat /\ log[p].seq \in Nat
      /\ page.end \in Nat /\ Chunk \in Nat
  BY OutcomesAssumption, Numbered DEF LogInv, LogTypes, Bounds, Pages
<1>2. cursor' \in {cursor} \cup Found /\ \A y \in {cursor} \cup Found : y <= cursor'
  <2>1. {cursor} \cup Found \in SUBSET Nat /\ \A y \in {cursor} \cup Found : y <= top
    BY <1>1, FoundTyped
  <2>2. cursor' = Logs!Max({cursor} \cup Found)
    BY DEF Logs!NewCursor
  <2> QED
    BY <1>1, <2>1, <2>2, Largest
<1>3. cursor' \in Nat /\ cursor' <= top /\ cursor <= cursor'
  BY <1>1, <1>2, FoundTyped
<1>4. page' \in Pages /\ page'.found = {}
  BY DEF Logs!NoPage, Pages
<1>5. excused \subseteq excused'
  OBVIOUS
<1>6. LogTypes' /\ Bounds'
  BY <1>3, <1>4 DEF LogInv, LogTypes, Bounds, UpTo
<1>7. Fresh' /\ Distinct(log)' /\ Distinct(clear.keep)' /\ InPlace'
  BY DEF LogInv, Fresh, Storing, Unlike, Distinct, InPlace
<1>8. Sorted(log)' /\ Sorted(clear.keep)'
  BY <1>5 DEF LogInv, Sorted
<1>9. Gathered'
  BY <1>4 DEF Gathered, Passed
<1>10. Given'
  <2>1. ASSUME NEW p \in DOMAIN log, log[p].mine, log[p].seq <= cursor'
        PROVE  log[p].seq \in shown' \cup excused'
    <3>1. CASE log[p].seq <= cursor
      BY <1>5, <2>1, <3>1 DEF LogInv, Given
    <3>2. CASE cursor < log[p].seq
      <4>1. cursor' \in Found
        BY <1>1, <1>2, <1>3, <2>1, <3>2
      <4>2. CASE log[p].seq = cursor'
        BY <4>1, <4>2
      <4>3. CASE log[p].seq < cursor' /\ (Logs!Cardinality(Logs!Taken) = page.room \/ Logs!Span = {})
        <5>1. log[p] \in Logs!ToSet(log)
          BY DEF Logs!ToSet
        <5>2. log[p].seq \in Logs!Numbers({l \in Logs!ToSet(log) : l.seq < cursor'})
          BY <4>3, <5>1 DEF Logs!Numbers
        <5> QED
          BY <4>3, <5>2
      <4>4. CASE Logs!Cardinality(Logs!Taken) # page.room /\ Logs!Span # {}
        <5>1. p > page.end - Chunk \/ Logs!Known # {}
          <6>1. p >= 1
            BY DEF LogInv, LogTypes
          <6> QED
            BY <1>1, <4>4, <6>1
        <5>2. log[p].seq \in Found \cup excused
          BY <2>1, <3>2, <4>1, <4>4, <5>1, ChunkPassed
        <5> QED
          BY <1>5, <5>2
      <4> QED
        BY <1>1, <1>3, <2>1, <4>2, <4>3, <4>4
    <3> QED
      BY <1>1, <3>1, <3>2
  <2> QED
    BY <2>1 DEF Given
<1> QED
  BY <1>6, <1>7, <1>8, <1>9, <1>10 DEF LogInv

LEMMA ScanKeeps == LogInv /\ Logs!Scan => LogInv'
<1> SUFFICES ASSUME LogInv, Logs!Scan PROVE LogInv'
  OBVIOUS
<1> DEFINE stops == \/ Logs!Cardinality(Logs!Taken) = page.room \/ Logs!Known # {}
                    \/ Logs!Span = {} \/ page.end <= Chunk
<1>1. UNCHANGED <<counter, log, top, writer, clear>>
  BY DEF Logs!Scan
<1>2. CASE stops
  <2>1. /\ page' = Logs!NoPage /\ cursor' = Logs!NewCursor(Found) /\ shown' = shown \cup Found
        /\ excused' = IF Logs!Cardinality(Logs!Taken) = page.room \/ Logs!Span = {}
                      THEN excused \cup Logs!Numbers({l \in Logs!ToSet(log) : l.seq < cursor'})
                      ELSE excused
    BY <1>2 DEF Logs!Scan, Found
  <2> QED
    BY <1>1, <1>2, <2>1, ReadsNoMore
<1>3. CASE ~stops
  <2>1. /\ page' = [page EXCEPT !.end = @ - Chunk, !.found = Found,
                                !.room = @ - Logs!Cardinality(Logs!Taken)]
        /\ UNCHANGED <<cursor, shown, excused>>
    BY <1>3 DEF Logs!Scan, Found
  <2> QED
    BY <1>1, <1>3, <2>1, ReadsOn
<1> QED
  BY <1>2, <1>3

-------------------------------------------------------------------------------
(* The list is read to be rewritten.                                       *)

\* What is kept stands in the order of the list, and no further forward in it.
LEMMA KeptInOrder ==
    ASSUME LogInv, NEW who
    PROVE  \E n \in Nat : \E g \in [1..n -> DOMAIN log] :
             /\ Logs!Kept(who) = [k \in 1..n |-> log[g[k]]]
             /\ \A i, j \in 1..n : i < j => g[i] < g[j] /\ g[j] - g[i] >= j - i
<1> DEFINE A == {i \in DOMAIN log : Logs!Keeps(who, log[i])}
           n == Logs!Cardinality(A)
           Nth(k) == CHOOSE i \in A : Logs!Cardinality({j \in A : j <= i}) = k
           g == [k \in 1..n |-> Nth(k)]
<1>1. log \in Seq(Lines) /\ DOMAIN log = 1..Len(log) /\ Len(log) \in Nat
  BY DEF LogInv, LogTypes
<1>2. A \in SUBSET Nat /\ A \subseteq DOMAIN log /\ \A i \in A : i <= Len(log)
  BY <1>1
<1>3. Logs!Kept(who) = [k \in 1..n |-> log[Nth(k)]]
  BY DEF Logs!Kept
<1> HIDE DEF A
<1>4. n = Cardinality(A) /\ n \in Nat
  BY <1>1, <1>2, Places, Counting
<1>5. ASSUME NEW k \in 1..n PROVE Nth(k) \in A /\ Rank(A, Nth(k)) = k
  <2>1. \A i : Rank(A, i) = Logs!Cardinality({j \in A : j <= i})
    BY Counting DEF Rank
  <2>2. \E i \in A : Rank(A, i) = k
    BY <1>1, <1>2, <1>4, RankExists
  <2>3. \E i \in A : Logs!Cardinality({j \in A : j <= i}) = k
    BY <2>1, <2>2, Zenon
  <2>4. Nth(k) \in A /\ Logs!Cardinality({j \in A : j <= Nth(k)}) = k
    BY <2>3, Zenon
  <2> QED
    BY <2>1, <2>4, Zenon
<1>6. g \in [1..n -> DOMAIN log] /\ \A k \in 1..n : g[k] \in A /\ Rank(A, g[k]) = k
  BY <1>2, <1>5
<1>7. Logs!Kept(who) = [k \in 1..n |-> log[g[k]]]
  BY <1>3
<1> HIDE DEF g, n
<1>8. ASSUME NEW i \in 1..n, NEW j \in 1..n, i < j
      PROVE  g[i] < g[j] /\ g[j] - g[i] >= j - i
  <2>1. /\ g[i] \in A /\ g[j] \in A /\ g[i] \in Nat /\ g[j] \in Nat
        /\ Rank(A, g[i]) = i /\ Rank(A, g[j]) = j
    BY <1>2, <1>6
  <2>2. ASSUME g[j] <= g[i] PROVE FALSE
    <3>1. Rank(A, g[j]) <= Rank(A, g[i])
      BY <1>1, <1>2, <2>1, <2>2, RankGrows
    <3> QED
      BY <1>4, <1>8, <2>1, <3>1
  <2>3. g[i] < g[j]
    BY <2>1, <2>2
  <2>4. Rank(A, g[j]) - Rank(A, g[i]) <= g[j] - g[i]
    <3>1. g[i] <= g[j]
      BY <2>1, <2>3
    <3> QED
      BY <1>1, <1>2, <2>1, <3>1, RankGrows
  <2> QED
    BY <1>4, <2>1, <2>3, <2>4
<1> QED
  BY <1>4, <1>6, <1>7, <1>8

LEMMA ClearReadKeeps ==
    ASSUME LogInv, NEW who, Logs!ClearRead(who)
    PROVE  LogInv'
<1>1. /\ clear'.keep = Logs!Kept(who)
      /\ UNCHANGED <<counter, log, top, writer, page, cursor, shown, excused>>
  BY DEF Logs!ClearRead, Logs!readers
<1>2. PICK n \in Nat : \E g \in [1..n -> DOMAIN log] :
             /\ Logs!Kept(who) = [k \in 1..n |-> log[g[k]]]
             /\ \A i, j \in 1..n : i < j => g[i] < g[j] /\ g[j] - g[i] >= j - i
  BY KeptInOrder
<1>3. PICK g \in [1..n -> DOMAIN log] :
             /\ Logs!Kept(who) = [k \in 1..n |-> log[g[k]]]
             /\ \A i, j \in 1..n : i < j => g[i] < g[j] /\ g[j] - g[i] >= j - i
  BY <1>2
<1>4. log \in Seq(Lines) /\ \A p \in DOMAIN log : p \in Nat /\ log[p] \in Lines
  BY DEF LogInv, LogTypes
<1>5. /\ DOMAIN clear'.keep = 1..n
      /\ \A k \in 1..n : k \in Nat /\ g[k] \in DOMAIN log /\ g[k] \in Nat /\ clear'.keep[k] = log[g[k]]
  BY <1>1, <1>3, <1>4
<1>6. clear'.keep \in Seq(Lines)
  BY <1>1, <1>3, <1>4
<1>7. LogTypes' /\ Bounds'
  BY <1>1, <1>5, <1>6 DEF LogInv, LogTypes, Bounds, UpTo
<1>8. Fresh'
  <2>1. ASSUME NEW w \in Writers, Storing(w) PROVE Unlike(clear.keep, w)'
    BY <1>1, <1>5, <2>1 DEF LogInv, Fresh, Unlike
  <2> QED
    BY <1>1, <2>1 DEF LogInv, Fresh, Storing, Unlike
<1>9. \A i, j \in 1..n : i # j => g[i] # g[j]
  BY <1>3, <1>5
<1>10. Distinct(clear.keep)'
  BY <1>5, <1>9 DEF LogInv, Distinct
<1>11. Sorted(clear.keep)'
  <2>1. ASSUME NEW p \in 1..n, NEW q \in 1..n, p < q, log[g[q]].seq < log[g[p]].seq
        PROVE  log[g[p]].seq \in excused /\ log[g[q]].seq \in excused
    <3>1. g[p] < g[q] /\ g[p] \in DOMAIN log /\ g[q] \in DOMAIN log
      BY <1>3, <1>5, <2>1
    <3> QED
      BY <2>1, <3>1 DEF LogInv, Sorted
  <2> QED
    BY <1>1, <1>5, <2>1 DEF Sorted
<1>12. InPlace'
  <2>1. ASSUME NEW i \in 1..n, NEW q \in DOMAIN log, NEW r \in DOMAIN log,
               log[q] = log[g[i]], log[r] = log[g[1]]
        PROVE  q - r >= i - 1
    <3>1. 1 \in 1..n /\ i >= 1 /\ i \in Nat
      OBVIOUS
    <3>2. q = g[i] /\ r = g[1]
      BY <1>5, <2>1, <3>1 DEF LogInv, Distinct
    <3>3. i = 1 \/ g[i] - g[1] >= i - 1
      BY <1>3, <3>1
    <3> QED
      BY <1>5, <3>1, <3>2, <3>3
  <2>2. ASSUME NEW i \in 1..n PROVE 1 \in 1..n
    OBVIOUS
  <2> QED
    BY <1>1, <1>5, <2>1, <2>2 DEF InPlace
<1>13. Distinct(log)' /\ Sorted(log)' /\ Gathered' /\ Given'
  BY <1>1 DEF LogInv, Distinct, Sorted, Gathered, Passed, Given
<1> QED
  BY <1>7, <1>8, <1>10, <1>11, <1>12, <1>13 DEF LogInv

\* The list becomes what was read of it, or nothing happens.
LEMMA RewriteKeeps ==
    ASSUME LogInv, Logs!Rewrite
    PROVE  LogInv'
<1> DEFINE s == clear.keep
<1>1. clear'.keep = <<>> /\ UNCHANGED <<counter, top, writer, page, cursor, shown>>
  BY DEF Logs!Rewrite, Logs!NoClear, Logs!readers
<1>2. CASE UNCHANGED <<log, excused>>
  BY <1>1, <1>2, Same, AddsNothing
<1>3. CASE /\ log' = s
           /\ excused' = IF Logs!ToSet(s) \subseteq Logs!ToSet(log) THEN excused
                         ELSE excused \cup Logs!Numbers(Logs!ToSet(s))
  <2>1. s \in Seq(Lines) /\ log \in Seq(Lines) /\ \A p \in DOMAIN s : p \in Nat /\ 1 \in DOMAIN s
    BY DEF LogInv, LogTypes
  <2>2. excused \subseteq excused'
    BY <1>3
  <2>3. \/ \A p \in DOMAIN s : s[p].seq \in excused'
        \/ \A p \in DOMAIN s : \E q \in DOMAIN log : log[q] = s[p]
    <3>1. \A p \in DOMAIN s : s[p] \in Logs!ToSet(s)
      BY DEF Logs!ToSet
    <3>2. \A l \in Logs!ToSet(log) : \E q \in DOMAIN log : log[q] = l
      BY DEF Logs!ToSet
    <3>3. CASE Logs!ToSet(s) \subseteq Logs!ToSet(log)
      BY <3>1, <3>2, <3>3
    <3>4. CASE ~(Logs!ToSet(s) \subseteq Logs!ToSet(log))
      BY <1>3, <3>1, <3>4 DEF Logs!Numbers
    <3> QED
      BY <3>3, <3>4
  <2>4. LogTypes' /\ Bounds'
    <3>1. <<>> \in Seq(Lines) /\ DOMAIN <<>> = {}
      BY EmptySeq
    <3> QED
      BY <1>1, <1>3, <3>1 DEF LogInv, LogTypes, Bounds, UpTo
  <2>5. DOMAIN clear'.keep = {}
    BY <1>1
  <2>6. Fresh'
    BY <1>1, <1>3, <2>5 DEF LogInv, Fresh, Storing, Unlike
  <2>7. Distinct(log)' /\ Distinct(clear.keep)' /\ Sorted(log)' /\ Sorted(clear.keep)' /\ InPlace'
    BY <1>3, <2>2, <2>5 DEF LogInv, Distinct, Sorted, InPlace
  <2>8. Gathered'
    <3>1. ASSUME NEW p \in DOMAIN s, p > page.end, Passed(s[p])
          PROVE  s[p].seq \in page.found \cup excused'
      <4>1. CASE s[p].seq \in excused'
        BY <4>1
      <4>2. CASE s[p].seq \notin excused'
        <5>1. PICK q \in DOMAIN log : log[q] = s[p]
          BY <2>3, <4>2
        <5>2. PICK r \in DOMAIN log : log[r] = s[1]
          BY <2>1, <2>3, <4>2
        <5>3. q - r >= p - 1
          BY <5>1, <5>2 DEF LogInv, InPlace
        <5>4. q > page.end
          <6>1. q \in Nat /\ r \in Nat /\ r >= 1 /\ p \in Nat /\ page.end \in Nat
            BY <2>1 DEF LogInv, LogTypes, Pages
          <6> QED
            BY <3>1, <5>3, <6>1
        <5> QED
          BY <2>2, <3>1, <5>1, <5>4 DEF LogInv, Gathered
      <4> QED
        BY <4>1, <4>2
    <3> QED
      BY <1>1, <1>3, <3>1 DEF Gathered, Passed
  <2>9. Given'
    <3>1. ASSUME NEW p \in DOMAIN s, s[p].mine, s[p].seq <= cursor
          PROVE  s[p].seq \in shown \cup excused'
      BY <2>2, <2>3, <3>1 DEF LogInv, Given
    <3> QED
      BY <1>1, <1>3, <3>1 DEF Given
  <2> QED
    BY <2>4, <2>6, <2>7, <2>8, <2>9 DEF LogInv
<1> QED
  BY <1>2, <1>3 DEF Logs!Rewrite

LEMMA LogStep == LogInv /\ [Logs!Next]_logVars => LogInv'
<1>1. ASSUME LogInv, UNCHANGED logVars PROVE LogInv'
  <2>1. UNCHANGED <<log, writer, page, counter, top, cursor, shown, excused, clear>>
    BY <1>1 DEF logVars
  <2> QED
    BY <1>1, <2>1, Same, AddsNothing
<1> QED
  BY <1>1, SmallStepsKeep, NumberKeeps, PushKeeps, ScanKeeps, ClearReadKeeps, RewriteKeeps DEF Logs!Next

\* A page is given every line it passes, whatever workers, prunings and clearings do to
\* the list between its reads, for any size of list, chunk and page: but for the lines
\* stored late, passed over or stored anew (_scan_recent_entries).
THEOREM NoLineSkipped == OutcomesSpec => []NothingSkipped
  BY LogInitially, LogStep, GivenIsShown, PartsAlone, PTL

-------------------------------------------------------------------------------
(* The sessions.                                                           *)

SessionProofs == INSTANCE VpnSession_proofs WITH Testers <- {}, Isolated <- FALSE

LEMMA SessionsSpec == Sessions!Init /\ [][Sessions!Next]_sessionVars => SessionProofs!Spec
<1>1. Sessions!Init => SessionProofs!Init
  BY DEF Sessions!Init, SessionProofs!Init
<1>2. [Sessions!Next]_sessionVars => [SessionProofs!Next]_(SessionProofs!vars)
  BY DEF
      Sessions!Begin, SessionProofs!Begin, Sessions!LockGroup, SessionProofs!LockGroup,
      Sessions!LockGlobal, SessionProofs!LockGlobal, Sessions!GiveUp,
      SessionProofs!GiveUp, Sessions!Clean, SessionProofs!Clean, Sessions!Up,
      SessionProofs!Up, Sessions!ConnectFails, SessionProofs!ConnectFails,
      Sessions!Stuck, SessionProofs!Stuck, Sessions!Reset, SessionProofs!Reset,
      Sessions!Finish, SessionProofs!Finish, Sessions!Close, SessionProofs!Close,
      Sessions!UnlockGlobal, SessionProofs!UnlockGlobal, Sessions!UnlockGroup,
      SessionProofs!UnlockGroup, Sessions!TestConnect, SessionProofs!TestConnect,
      Sessions!TestDisconnect, SessionProofs!TestDisconnect, Sessions!Kill,
      SessionProofs!Kill, Sessions!Step, SessionProofs!Step, Sessions!Next,
      SessionProofs!Next, Sessions!CleanupOf, SessionProofs!CleanupOf,
      Sessions!FreeGroups, SessionProofs!FreeGroups, Sessions!Tunnels,
      SessionProofs!Tunnels, Sessions!Host, SessionProofs!Host, Sessions!Go,
      SessionProofs!Go, Sessions!Connecting, SessionProofs!Connecting, Sessions!Closing,
      SessionProofs!Closing, Sessions!Testing, SessionProofs!Testing, Sessions!locks,
      SessionProofs!locks, sessionVars, SessionProofs!vars
<1> QED
  BY <1>1, <1>2, PTL DEF SessionProofs!Spec

\* What VpnSession asks of its constants.
LEMMA SessionsAssumed ==
    /\ {} \subseteq Workers /\ HostOf \in [Workers -> Hosts] /\ FALSE \in BOOLEAN
    /\ FALSE => \A v, w \in Workers : HostOf[v] = HostOf[w] => v = w
    /\ Retries \in Nat \ {0} /\ None \notin Workers
  BY OutcomesAssumption

\* Without isolated workers one session of vpn_session is open in the whole system,
\* although locks time out and workers are killed (acquire_lock).
THEOREM OneSessionAtATime == OutcomesSpec => []OneSession
<1>1. SessionProofs!OneSession => OneSession
  BY DEF OneSession, Sessions!OneSession, SessionProofs!OneSession, Sessions!Open, SessionProofs!Open
<1>2. SessionProofs!Spec => []SessionProofs!OneSession
  BY SessionsAssumed, SessionProofs!SharedSession
<1> QED
  BY <1>1, <1>2, SessionsSpec, PartsAlone, PTL

LEMMA SessionsTyped == OutcomesSpec => []Sessions!TypeOK
<1>1. SessionProofs!TypeOK => Sessions!TypeOK
  BY DEF SessionProofs!TypeOK, Sessions!TypeOK, SessionProofs!Phases, Sessions!Phases,
         SessionProofs!Connecting, Sessions!Connecting, SessionProofs!Closing,
         Sessions!Closing, SessionProofs!Testing, Sessions!Testing
<1>2. SessionProofs!Spec => []SessionProofs!TypeOK
  BY SessionsAssumed, SessionProofs!SessionTypes
<1> QED
  BY <1>1, <1>2, SessionsSpec, PartsAlone, PTL

-------------------------------------------------------------------------------
(* The limits of a plan, for any number of handlers and any limit.         *)

\* Whatever the handler, it claims, commits, gives up or takes away.
LEMMA QuotaSteps ==
    ASSUME TypeOK, Next
    PROVE  \/ \E a \in Actors, size \in Sizes : Claim(a, size)
           \/ \E a \in Actors : Commit(a) \/ Meter(a) \/ Abandon(a)
           \/ \E size \in 1..MaxSize : Drop(size)
           \/ StoreFailed \/ PurgeFailed
           \/ NewMonth
           \/ ChangePlan
<1>1. kind \in {"devices", "users"} => 1 \in Sizes
  BY DEF Sizes
<1>2. 1 \in 1..MaxSize /\ Sizes \subseteq 1..MaxSize
  BY QuotaAssumption DEF Sizes
<1>3. ASSUME NEW a \in Actors, Act(a)
      PROVE  \/ \E size \in Sizes : Claim(a, size)
             \/ Drop(1)
             \/ Commit(a) \/ Meter(a) \/ Abandon(a)
  BY <1>1, <1>3, Zenon DEF Act, Users, CreateDevice, AddUser, EditUser, AdminAddUser,
                    AdminEditUser, AdminToggleUser, StoreBackup, ReadMeter
<1>4. ASSUME Remove PROVE PurgeFailed \/ \E size \in 1..MaxSize : Drop(size)
  BY <1>2, <1>4 DEF Remove, DeleteDevice, DeleteUser, AdminDeleteUser, PurgeBackup
<1> QED
  BY <1>2, <1>3, <1>4 DEF Next

\* What is claimed is no idle handler, and there is room for its kind.
LEMMA ClaimTyped ==
    ASSUME TypeOK, NEW a \in Actors, NEW size \in Sizes, Claim(a, size)
    PROVE  /\ claim'[a] \in Claims /\ claim'[a] # Idle
           /\ claim'[a].size = size
           /\ \A b \in Actors \ {a} : claim'[b] = claim[b]
<1>1. size \in 1..MaxSize
  BY QuotaAssumption DEF Sizes
<1>2. claim'[a] = [size |-> size, seen |-> used, fresh |-> ~metered]
  BY DEF Claim, TypeOK
<1>3. claim'[a] \in Claims /\ claim'[a].size = size
  BY <1>1, <1>2 DEF Claims, TypeOK
<1>4. Idle.size = 0
  BY DEF Idle
<1> QED
  BY <1>1, <1>3, <1>4 DEF Claim, TypeOK

\* The types survive every step.
LEMMA QuotaTypesStep == TypeOK /\ [Next]_vars => TypeOK'
<1> SUFFICES ASSUME TypeOK, [Next]_vars PROVE TypeOK'
  OBVIOUS
<1>1. Sizes \subseteq 1..MaxSize /\ 1..MaxSize \subseteq Nat
  BY QuotaAssumption DEF Sizes
<1>2. \A a \in Pending : claim[a] \in Claims /\ claim[a].size \in Nat /\ claim[a].seen \in Nat
  BY <1>1 DEF Pending, TypeOK, Claims
<1>3. ASSUME NEW a \in Actors, NEW size \in Sizes, Claim(a, size) PROVE TypeOK'
  <2>1. claim' \in [Actors -> Claims \cup {Idle}]
    BY <1>3, ClaimTyped DEF Claim, TypeOK
  <2>2. kind' = kind /\ Sizes' = Sizes
    BY <1>3 DEF Claim, Sizes
  <2>3. \A b \in Pending' : claim'[b].size \in Sizes'
    BY <1>3, <2>2, ClaimTyped DEF Pending, TypeOK
  <2>4. free' \in BOOLEAN
    BY <1>3 DEF Claim, TypeOK
  <2> QED
    BY <1>3, <2>1, <2>2, <2>3, <2>4 DEF Claim, TypeOK, plan
<1>4. ASSUME NEW a \in Actors, Commit(a) \/ Meter(a) \/ Abandon(a) PROVE TypeOK'
  <2>1. a \in Pending
    BY <1>4 DEF Commit, Meter, Abandon, Pending
  <2>2. claim' = [claim EXCEPT ![a] = Idle] /\ kind' = kind /\ Sizes' = Sizes
    BY <1>4 DEF Commit, Meter, Abandon, Sizes
  <2>3. claim' \in [Actors -> Claims \cup {Idle}]
    BY <2>2 DEF TypeOK
  <2>4. \A b \in Pending' : claim'[b].size \in Sizes'
    BY <2>2 DEF Pending, TypeOK
  <2>5. used' \in Nat /\ metered' \in BOOLEAN
    <3>1. CASE Commit(a)
      <4>1. PICK n \in Copies : used' = used + n * claim[a].size
        BY <3>1 DEF Commit
      <4>2. n \in {1, 2}
        BY DEF Copies
      <4> QED
        BY <1>2, <2>1, <3>1, <4>1, <4>2 DEF Commit, TypeOK
    <3>2. CASE Meter(a)
      <4>1. used' = used \/ used' = claim[a].seen + claim[a].size
        BY <3>2 DEF Meter
      <4>2. metered' = metered \/ metered' = TRUE
        BY <3>2, Zenon DEF Meter
      <4>3. metered' \in BOOLEAN
        BY <4>2, Zenon DEF TypeOK
      <4> QED
        BY <1>2, <2>1, <4>1, <4>3 DEF TypeOK
    <3>3. CASE Abandon(a)
      BY <3>3 DEF Abandon, TypeOK
    <3> QED
      BY <1>4, <3>1, <3>2, <3>3
  <2> QED
    BY <1>4, <2>2, <2>3, <2>4, <2>5 DEF Commit, Meter, Abandon, TypeOK, plan
<1>5. ASSUME NEW size \in 1..MaxSize, Drop(size) PROVE TypeOK'
  BY <1>1, <1>5 DEF Drop, TypeOK, plan, Pending, Sizes
<1>6. CASE NewMonth
  <2>1. claim' \in [Actors -> Claims \cup {Idle}] /\ Pending' = {}
    BY <1>6 DEF NewMonth, Pending
  <2> QED
    BY <1>6, <2>1 DEF NewMonth, TypeOK, plan
<1>7. CASE ChangePlan
  BY <1>7 DEF ChangePlan, TypeOK, Pending, Sizes
<1>8. CASE UNCHANGED vars
  BY <1>8 DEF vars, TypeOK, Pending, Sizes
<1>9. CASE StoreFailed \/ PurgeFailed
  <2>1. unchecked' \in Nat
    <3>1. CASE StoreFailed
      <4>1. PICK size \in Sizes, n \in Copies : unchecked' = unchecked + n * size
        BY <3>1 DEF StoreFailed
      <4>2. size \in Nat /\ (n = 1 \/ n = 2)
        BY <1>1 DEF Copies
      <4> QED
        BY <4>1, <4>2 DEF TypeOK
    <3>2. CASE PurgeFailed
      <4>1. PICK size \in Sizes : size <= unchecked /\ unchecked' = unchecked - size
        BY <3>2 DEF PurgeFailed
      <4> QED
        BY <1>1, <4>1 DEF TypeOK
    <3> QED
      BY <1>9, <3>1, <3>2
  <2> QED
    BY <1>9, <2>1 DEF StoreFailed, PurgeFailed, TypeOK, plan, Pending, Sizes
<1> QED
  BY <1>3, <1>4, <1>5, <1>6, <1>7, <1>8, <1>9, QuotaSteps

LEMMA QuotaTypesInit == Init => TypeOK
<1> SUFFICES ASSUME Init PROVE TypeOK
  OBVIOUS
<1>1. Pending = {} /\ claim \in [Actors -> Claims \cup {Idle}]
  BY DEF Init, Pending
<1>2. limit \in 0..MaxLimit \cup {NoPlan} /\ used \in Nat
  BY QuotaAssumption DEF Init
<1>3. unlimited \in BOOLEAN /\ metered \in BOOLEAN /\ free \in BOOLEAN
  BY Zenon DEF Init
<1> QED
  BY <1>1, <1>2, <1>3 DEF Init, TypeOK

\* Every counter and every claim of a handler stays of its type, for any plan and
\* any number of handlers (plan_limits_service).
THEOREM QuotaTypes == Spec => []TypeOK
  BY QuotaTypesInit, QuotaTypesStep, PTL DEF Spec

-------------------------------------------------------------------------------
(* The limit.                                                              *)

\* What is under way is counted as if it were there already: a handler that finds
\* room leaves at most the others' share above the limit.
Reserved ==
    IF Stored
    THEN used + Cardinality(Pending) * Weight <= (MaxLimit - 1) + Cardinality(Actors) * Weight
    ELSE /\ used <= MaxLimit
         /\ \A a \in Pending : claim[a].seen + claim[a].size <= MaxLimit
PlanInv == TypeOK /\ (free \/ Reserved)

\* Handlers can be counted.
LEMMA SomeActors ==
    ASSUME NEW S \in SUBSET Actors
    PROVE  /\ IsFiniteSet(S)
           /\ Cardinality(S) \in Nat /\ Cardinality(Actors) \in Nat \ {0}
           /\ Cardinality(S) <= Cardinality(Actors)
<1>1. IsFiniteSet(Actors) /\ Actors # {}
  BY QuotaAssumption
<1>2. IsFiniteSet(S) /\ Cardinality(S) <= Cardinality(Actors)
  BY <1>1, FS_Subset
<1> QED
  BY <1>1, <1>2, FS_CardinalityType, FS_EmptySet

LEMMA WeightTyped == Weight \in Nat /\ (kind \in {"devices", "users"} => Weight = 1)
                     /\ (kind = "storage" => Weight = 2 * MaxSize)
  BY QuotaAssumption DEF Weight

\* More handlers weigh no less.
LEMMA Heavier ==
    ASSUME NEW m \in Nat, NEW n \in Nat, NEW w \in Nat, m <= n
    PROVE  m * w <= n * w /\ m * w \in Nat /\ n * w \in Nat /\ (m + 1) * w = m * w + w
<1>1. PICK k \in Nat : n = m + k
  <2>1. n - m \in Nat /\ n = m + (n - m)
    OBVIOUS
  <2> QED
    BY <2>1
<1>2. (m + k) * w = m * w + k * w /\ m * w \in Nat /\ k * w \in Nat
  OBVIOUS
<1> QED
  BY <1>1, <1>2

\* A handler that ends makes the others one fewer.
LEMMA EndedPending ==
    ASSUME TypeOK, NEW a \in Pending, claim' = [claim EXCEPT ![a] = Idle]
    PROVE  /\ Pending' = Pending \ {a}
           /\ Cardinality(Pending) = Cardinality(Pending') + 1
           /\ Cardinality(Pending') \in Nat
<1>1. Pending' = Pending \ {a}
  BY DEF Pending, TypeOK
<1>2. Pending \in SUBSET Actors
  BY DEF Pending
<1>3. IsFiniteSet(Pending) /\ Cardinality(Pending) \in Nat
  BY <1>2, SomeActors
<1>4. Cardinality(Pending \ {a}) = Cardinality(Pending) - 1
  BY <1>3, FS_RemoveElement
<1>5. Cardinality(Pending \ {a}) \in Nat
  BY <1>2, SomeActors
<1> QED
  BY <1>1, <1>3, <1>4, <1>5

\* Who may add something is within the limit as it is.
LEMMA RoomLeft ==
    ASSUME TypeOK, NEW a \in Actors, NEW size \in Sizes, Claim(a, size)
    PROVE  free' \/ (used + size <= MaxLimit /\ used <= MaxLimit - 1)
<1>1. size \in 1..MaxSize /\ MaxLimit \in Nat
  BY QuotaAssumption DEF Sizes
<1>2. CASE Bounded(size)
  <2>1. limit # NoPlan /\ limit # 0 /\ used + unchecked + size <= limit
    BY <1>2 DEF Claim, Bounded, Room
  <2>2. limit \in 1..MaxLimit /\ used \in Nat /\ unchecked \in Nat /\ size \in Nat
    BY <1>1, <2>1 DEF TypeOK
  <2> QED
    BY <1>1, <2>1, <2>2
<1>3. CASE ~Bounded(size)
  BY <1>3 DEF Claim
<1> QED
  BY <1>2, <1>3

\* The reservation survives a claim ...
LEMMA ClaimStep ==
    ASSUME TypeOK, Reserved, NEW a \in Actors, NEW size \in Sizes, Claim(a, size)
    PROVE  free' \/ Reserved'
<1> SUFFICES ASSUME ~free' PROVE Reserved'
  OBVIOUS
<1>1. kind' = kind /\ used' = used /\ Stored' = Stored /\ Weight' = Weight
  BY DEF Claim, Stored, Weight
<1>2. used + size <= MaxLimit /\ used <= MaxLimit - 1 /\ used \in Nat /\ MaxLimit \in Nat
  BY RoomLeft, QuotaAssumption DEF TypeOK
<1>3. CASE Stored
  <2>1. Pending' \in SUBSET Actors
    BY DEF Pending
  <2>2. Cardinality(Pending') * Weight <= Cardinality(Actors) * Weight
        /\ Cardinality(Pending') * Weight \in Nat /\ Cardinality(Actors) * Weight \in Nat
    BY <2>1, SomeActors, Heavier, WeightTyped
  <2> QED
    BY <1>1, <1>2, <1>3, <2>2 DEF Reserved
<1>4. CASE ~Stored
  <2>1. claim'[a].seen + claim'[a].size <= MaxLimit
    BY <1>2 DEF Claim, TypeOK
  <2>2. \A b \in Pending' : b # a => b \in Pending /\ claim'[b] = claim[b]
    BY DEF Pending, Claim, TypeOK
  <2> QED
    BY <1>1, <1>2, <1>4, <2>1, <2>2 DEF Reserved
<1> QED
  BY <1>3, <1>4

\* ... and the end of a handler, which adds no more than its share.
LEMMA EndStep ==
    ASSUME TypeOK, Reserved, NEW a \in Actors, Commit(a) \/ Meter(a) \/ Abandon(a)
    PROVE  Reserved'
<1>1. a \in Pending /\ claim' = [claim EXCEPT ![a] = Idle]
      /\ kind' = kind /\ Stored' = Stored /\ Weight' = Weight
  BY DEF Commit, Meter, Abandon, Pending, Stored, Weight
<1>2. claim[a].size \in Sizes /\ claim[a] \in Claims
  BY <1>1 DEF TypeOK, Pending
<1>3. claim[a].size \in 1..MaxSize /\ claim[a].seen \in Nat /\ MaxSize \in Nat
  BY <1>2, QuotaAssumption DEF Claims
<1>4. CASE Stored
  <2>1. used' \in Nat /\ used' <= used + Weight
    <3>1. CASE Commit(a)
      <4>1. PICK n \in Copies : used' = used + n * claim[a].size
        BY <3>1 DEF Commit
      <4>2. CASE kind = "storage"
        <5>1. n \in {1, 2} /\ Weight = 2 * MaxSize
          BY <4>2, WeightTyped DEF Copies
        <5> QED
          BY <1>3, <4>1, <5>1 DEF TypeOK
      <4>3. CASE kind \in {"devices", "users"}
        <5>1. n = 1 /\ Weight = 1 /\ claim[a].size = 1
          BY <1>2, <4>3, WeightTyped DEF Copies, Sizes
        <5> QED
          BY <4>1, <5>1 DEF TypeOK
      <4> QED
        BY <1>4, <4>2, <4>3 DEF Stored, TypeOK, Kinds
    <3>2. CASE Abandon(a) \/ Meter(a)
      BY <1>4, <3>2, WeightTyped DEF Abandon, Meter, TypeOK
    <3> QED
      BY <3>1, <3>2
  <2>2. Cardinality(Pending) = Cardinality(Pending') + 1 /\ Cardinality(Pending') \in Nat
    BY <1>1, EndedPending
  <2>3. Cardinality(Pending) * Weight = Cardinality(Pending') * Weight + Weight
        /\ Cardinality(Pending') * Weight \in Nat
    <3>1. \A m \in Nat, w \in Nat : (m + 1) * w = m * w + w /\ m * w \in Nat
      BY Heavier
    <3> QED
      BY <2>2, <3>1, WeightTyped
  <2>4. Cardinality(Actors) * Weight \in Nat /\ MaxLimit \in Nat /\ Weight \in Nat /\ used \in Nat
    BY SomeActors, Heavier, WeightTyped, QuotaAssumption DEF TypeOK
  <2> QED
    BY <1>1, <1>4, <2>1, <2>3, <2>4 DEF Reserved
<1>5. CASE ~Stored
  <2>1. used' <= MaxLimit
    BY <1>1, <1>5 DEF Reserved, Commit, Meter, Abandon
  <2>2. \A b \in Pending' : b \in Pending /\ claim'[b] = claim[b]
    BY <1>1 DEF Pending, TypeOK
  <2> QED
    BY <1>1, <1>5, <2>1, <2>2 DEF Reserved
<1> QED
  BY <1>4, <1>5

LEMMA PlanStep == PlanInv /\ [Next]_vars => PlanInv'
<1> SUFFICES ASSUME PlanInv, [Next]_vars PROVE PlanInv'
  OBVIOUS
<1>1. TypeOK /\ TypeOK'
  BY QuotaTypesStep DEF PlanInv
<1>2. free => free'
  BY QuotaSteps, <1>1 DEF Claim, Commit, Meter, Abandon, Drop, StoreFailed, PurgeFailed,
                             NewMonth, ChangePlan, vars
<1>3. ASSUME Reserved PROVE free' \/ Reserved'
  <2>1. ASSUME NEW a \in Actors, NEW size \in Sizes, Claim(a, size) PROVE free' \/ Reserved'
    BY <1>1, <1>3, <2>1, ClaimStep
  <2>2. ASSUME NEW a \in Actors, Commit(a) \/ Meter(a) \/ Abandon(a) PROVE Reserved'
    BY <1>1, <1>3, <2>2, EndStep
  <2>3. ASSUME NEW size \in 1..MaxSize, Drop(size) PROVE Reserved'
    <3>1. Pending' = Pending /\ Weight' = Weight /\ Stored' = Stored /\ Stored
          /\ used' = used - size
      BY <2>3 DEF Drop, Pending, Weight, Stored
    <3>2. used - size <= used
      BY <1>1, QuotaAssumption DEF TypeOK
    <3>3. Cardinality(Pending) * Weight \in Nat /\ Cardinality(Actors) * Weight \in Nat
      BY SomeActors, Heavier, WeightTyped DEF Pending
    <3> QED
      BY <1>1, <1>3, <3>1, <3>2, <3>3, QuotaAssumption DEF Reserved, TypeOK
  <2>4. CASE NewMonth
    BY <2>4, QuotaAssumption DEF NewMonth, Reserved, Stored, Pending
  <2>5. CASE ChangePlan \/ UNCHANGED vars
    BY <1>3, <2>5 DEF ChangePlan, vars, Reserved, Stored, Weight, Pending
  <2>6. CASE StoreFailed \/ PurgeFailed
    BY <1>3, <2>6 DEF StoreFailed, PurgeFailed, Reserved, Stored, Weight, Pending, plan
  <2> QED
    BY <1>1, <2>1, <2>2, <2>3, <2>4, <2>5, <2>6, QuotaSteps
<1> QED
  BY <1>1, <1>2, <1>3 DEF PlanInv

LEMMA PlanInit == Init => PlanInv
<1> SUFFICES ASSUME Init PROVE Reserved
  BY QuotaTypesInit DEF PlanInv
<1>1. Pending = {} /\ Cardinality({}) = 0
  BY FS_EmptySet DEF Init, Pending
<1>2. Cardinality(Actors) \in Nat \ {0} /\ Weight \in Nat /\ MaxLimit \in Nat \ {0}
  BY SomeActors, WeightTyped, QuotaAssumption
<1>3. used <= Weight /\ used \in Nat /\ used <= 1
  BY <1>2, WeightTyped DEF Init
<1>4. Weight <= Cardinality(Actors) * Weight
      /\ Cardinality(Actors) * Weight \in Nat /\ 0 * Weight = 0 /\ 1 * Weight = Weight
  BY <1>2, Heavier
<1> QED
  BY <1>1, <1>2, <1>3, <1>4 DEF Init, Reserved

\* Requests that count at the same time exceed a plan by what they add together and
\* no more, however many follow one another, and a month's meter never exceeds it
\* (check_can_add_device, check_can_add_user, check_storage_before_backup,
\* consume_download_bytes).
THEOREM PlanHolds == Spec => []WithinPlan
<1>1. PlanInv => WithinPlan
  <2> SUFFICES ASSUME PlanInv, ~free, Stored
               PROVE  used <= (MaxLimit - 1) + Cardinality(Actors) * Weight
    BY DEF PlanInv, Reserved, WithinPlan
  <2>1. Cardinality(Pending) * Weight \in Nat /\ Cardinality(Actors) * Weight \in Nat
    BY SomeActors, Heavier, WeightTyped DEF Pending
  <2> QED
    BY <2>1, QuotaAssumption DEF PlanInv, Reserved, TypeOK
<1> QED
  BY <1>1, PlanInit, PlanStep, PTL DEF Spec

-------------------------------------------------------------------------------
(* The types of the task of a device.                                      *)

Documents == [status: Task!Status, done: BOOLEAN]
TaskTypes ==
    /\ mode \in Task!Modes /\ off \in Task!Reasons
    /\ registered \in BOOLEAN /\ taskTries \in 0..MaxRetries
    /\ celery \in {"PENDING", "STARTED", "RETRY"} \cup Task!Final
    /\ taskStop \in BOOLEAN /\ taskRow \in BOOLEAN /\ worked \in BOOLEAN
TaskSays ==
    /\ taskAt \in Task!Places /\ returned \in {"none"} \cup Task!Values
    /\ taskDoc \in Documents

LEMMA TaskTyped == /\ Task!TypeOK <=> TaskTypes /\ TaskSays
                   /\ TaskTypes' /\ TaskSays' => Task!TypeOK'
  BY Zenon DEF Task!TypeOK, TaskTypes, TaskSays, Documents

LEMMA TaskSaysStep == TaskSays /\ [Task!Next]_taskVars => TaskSays'
<1> SUFFICES ASSUME TaskSays, [Task!Next]_taskVars PROVE TaskSays'
  OBVIOUS
<1>1. ASSUME NEW says \in Task!Status, NEW done \in BOOLEAN, Task!Says(says, done)
      PROVE  taskDoc' \in Documents
  BY <1>1, Zenon DEF Task!Says, Documents
<1>2. ASSUME NEW says \in Task!Status, NEW value \in Task!Values, Task!Return(says, value)
      PROVE  TaskSays'
  <2>1. taskDoc' \in Documents
    BY <1>1, <1>2 DEF Task!Return
  <2> QED
    BY <1>2, <2>1 DEF Task!Return, TaskSays, Task!Places
<1>3. {"queued", "running", "retrying", "success", "failed", "stopped"} \subseteq Task!Status
  BY DEF Task!Status
<1>v. {"good", "bad", "count", "empty"} \subseteq Task!Values
  BY DEF Task!Values
<1> HIDE DEF Documents, Task!Status, Task!Values
<1> USE DEF TaskSays, Task!Places
<1>4. CASE Task!Begin \/ Task!Finish \/ Task!Die
  BY <1>4 DEF Task!Begin, Task!Finish, Task!Die
<1>5. CASE Task!Checks
  BY <1>1, <1>2, <1>3, <1>v, <1>5 DEF Task!Checks
<1>6. CASE Task!Breaker \/ Task!Slot
  BY <1>2, <1>3, <1>v, <1>6 DEF Task!Breaker, Task!Slot
<1>7. CASE Task!Run
  BY <1>2, <1>3, <1>v, <1>7 DEF Task!Run
<1>8. CASE Task!Failed
  BY <1>1, <1>2, <1>3, <1>v, <1>8 DEF Task!Failed
<1>9. CASE Task!SoftLimit
  BY <1>2, <1>3, <1>v, <1>9 DEF Task!SoftLimit
<1>10. CASE Task!Users
  BY <1>1, <1>3, <1>10 DEF Task!Users, Task!Register, Task!Cancel, Task!StopAll, Task!Unstop,
                          Task!Edit, Task!Revoke
<1>11. CASE UNCHANGED taskVars
  BY <1>11 DEF taskVars
<1>12. CASE Task!GroupChecks
  BY <1>1, <1>2, <1>3, <1>v, <1>12 DEF Task!GroupChecks
<1>13. CASE Task!Connect
  BY <1>13 DEF Task!Connect
<1>14. CASE Task!GroupDevice \/ Task!GroupFails
  BY <1>2, <1>3, <1>v, <1>14 DEF Task!GroupDevice, Task!GroupFails
<1> QED
  BY <1>4, <1>5, <1>6, <1>7, <1>8, <1>9, <1>10, <1>11, <1>12, <1>13, <1>14
     DEF Task!Next, Task!Task, Task!Group

LEMMA TaskTypesStep == TaskTypes /\ [Task!Next]_taskVars => TaskTypes'
<1> SUFFICES ASSUME TaskTypes, [Task!Next]_taskVars PROVE TaskTypes'
  OBVIOUS
<1> USE DEF Task!environment
<1>0. off \in Task!Reasons
  BY DEF TaskTypes
<1>1. /\ mode' = mode
      /\ off' \in Task!Reasons /\ registered' \in {registered, TRUE}
      /\ taskStop' \in {taskStop, TRUE, FALSE} /\ taskRow' \in {taskRow, TRUE}
      /\ worked' \in {worked, TRUE, worked \/ taskAt = "device"}
  <2>1. CASE Task!Begin \/ Task!Finish \/ Task!Die \/ Task!Checks \/ Task!Breaker \/ Task!Slot
    BY <1>0, <2>1 DEF Task!Begin, Task!Finish, Task!Die, Task!Checks, Task!Breaker, Task!Slot
  <2>2. CASE Task!Run \/ Task!Failed \/ Task!SoftLimit
    BY <1>0, <2>2 DEF Task!Run, Task!Failed, Task!SoftLimit
  <2>3. CASE Task!Users
    BY <1>0, <2>3 DEF Task!Users, Task!Register, Task!Cancel, Task!StopAll, Task!Unstop, Task!Edit
  <2>4. CASE UNCHANGED taskVars
    BY <1>0, <2>4 DEF taskVars
  <2>5. CASE Task!Group
    BY <1>0, <2>5 DEF Task!Group, Task!GroupChecks, Task!Connect, Task!GroupDevice, Task!GroupFails,
                Task!Return
  <2> QED
    BY <2>1, <2>2, <2>3, <2>4, <2>5 DEF Task!Next, Task!Task
<1>2. taskTries' = taskTries \/ (taskTries < MaxRetries /\ taskTries' = taskTries + 1)
  <2>1. CASE Task!Begin \/ Task!Finish \/ Task!Die \/ Task!Checks \/ Task!Breaker \/ Task!Slot
    BY <2>1 DEF Task!Begin, Task!Finish, Task!Die, Task!Checks, Task!Breaker, Task!Slot
  <2>2. CASE Task!Run \/ Task!Failed \/ Task!SoftLimit
    BY <2>2 DEF Task!Run, Task!Failed, Task!SoftLimit
  <2>3. CASE Task!Users
    BY <2>3 DEF Task!Users, Task!Register, Task!Cancel, Task!StopAll, Task!Unstop, Task!Edit
  <2>4. CASE UNCHANGED taskVars
    BY <2>4 DEF taskVars
  <2>5. CASE Task!Group
    BY <2>5 DEF Task!Group, Task!GroupChecks, Task!Connect, Task!GroupDevice, Task!GroupFails,
                Task!Return
  <2> QED
    BY <2>1, <2>2, <2>3, <2>4, <2>5 DEF Task!Next, Task!Task
<1>3. celery' \in {celery, "STARTED", "RETRY", "SUCCESS", "FAILURE", "REVOKED"}
  <2>1. CASE Task!Begin \/ Task!Finish \/ Task!Die \/ Task!Checks \/ Task!Breaker \/ Task!Slot
    BY <2>1 DEF Task!Begin, Task!Finish, Task!Die, Task!Checks, Task!Breaker, Task!Slot, Task!Return
  <2>2. CASE Task!Run \/ Task!Failed \/ Task!SoftLimit
    BY <2>2 DEF Task!Run, Task!Failed, Task!SoftLimit, Task!Return
  <2>3. CASE Task!Users
    BY <2>3 DEF Task!Users, Task!Register, Task!Cancel, Task!StopAll, Task!Unstop, Task!Edit,
                Task!Revoke
  <2>4. CASE UNCHANGED taskVars
    BY <2>4 DEF taskVars
  <2>5. CASE Task!Group
    BY <2>5 DEF Task!Group, Task!GroupChecks, Task!Connect, Task!GroupDevice, Task!GroupFails,
                Task!Return
  <2> QED
    BY <2>1, <2>2, <2>3, <2>4, <2>5 DEF Task!Next, Task!Task
<1>4. taskTries' \in 0..MaxRetries
  BY <1>2, OutcomesAssumption DEF TaskTypes
<1>5. celery' \in {"PENDING", "STARTED", "RETRY"} \cup Task!Final
  BY <1>3 DEF TaskTypes, Task!Final
<1> QED
  BY <1>1, <1>4, <1>5, Zenon DEF TaskTypes

LEMMA TaskTypesInit == Task!Init => Task!TypeOK
<1> SUFFICES ASSUME Task!Init PROVE TaskTypes /\ TaskSays
  BY TaskTyped
<1>1. taskTries \in 0..MaxRetries
  BY OutcomesAssumption DEF Task!Init
<1>2. TaskTypes
  BY <1>1, Zenon DEF TaskTypes, Task!Init, Task!Final
<1>3. taskDoc \in Documents
  BY Zenon DEF Documents, Task!Init, Task!Status
<1>4. TaskSays
  BY <1>3 DEF TaskSays, Task!Init, Task!Places
<1> QED
  BY <1>2, <1>4

-------------------------------------------------------------------------------
(* The types of a download.                                                *)

\* An execution leaves one dump at most, and one that is about to has left none; a list
\* is read before anything of it is counted.
DumpsCounted == temp <= runs /\ (fetchAt = "dump" => temp < runs)
TransferInv == Transfer!TypeOK /\ DumpsCounted /\ (fetchAt = "list" => fetched = {})

LEMMA TransferStep == TransferInv /\ [Transfer!Next]_transferVars => TransferInv'
<1> SUFFICES ASSUME TransferInv, [Transfer!Next]_transferVars PROVE TransferInv'
  OBVIOUS
<1> USE OutcomesAssumption DEF TransferInv, DumpsCounted, Transfer!TypeOK, Transfer!session,
       Transfer!device
<1>1. CASE Transfer!Run
  BY <1>1 DEF Transfer!Run
<1>2. CASE Transfer!Breaks \/ Transfer!Counted
  BY <1>2 DEF Transfer!Breaks, Transfer!Counted, Transfer!Raised, Transfer!Again
<1>3. CASE Transfer!List
  BY <1>3 DEF Transfer!List
<1>4. CASE Transfer!Removed \/ Transfer!Zip
  BY <1>4 DEF Transfer!Removed, Transfer!Zip
<1>5. CASE Transfer!Dump
  BY <1>5 DEF Transfer!Dump
<1>6. ASSUME NEW f \in Files, Transfer!Write(f) PROVE TransferInv'
  BY <1>6 DEF Transfer!Write
<1>7. ASSUME NEW f \in Files, Transfer!Fetch(f) PROVE TransferInv'
  BY <1>7 DEF Transfer!Fetch
<1>8. ASSUME NEW f \in Files, Transfer!FetchFails(f) PROVE TransferInv'
  <2>1. copy' \in {copy, [copy EXCEPT ![f] = [version |-> remote[f], whole |-> FALSE]]}
    BY <1>8 DEF Transfer!FetchFails
  <2>2. [version |-> remote[f], whole |-> FALSE] \in [version: 0..MaxVersion, whole: BOOLEAN]
    <3>1. remote[f] \in 0..MaxVersion
      OBVIOUS
    <3> QED
      BY <3>1, Zenon
  <2>3. copy' \in [Files -> [version: 0..MaxVersion, whole: BOOLEAN]]
    <3> DEFINE C == [version: 0..MaxVersion, whole: BOOLEAN]
               new == [version |-> remote[f], whole |-> FALSE]
    <3>1. copy \in [Files -> C] /\ new \in C
      BY <2>2
    <3> HIDE DEF C, new
    <3>2. [copy EXCEPT ![f] = new] \in [Files -> C]
      BY <3>1
    <3> QED
      BY <2>1, <3>1, <3>2 DEF new, C
  <2> QED
    BY <1>8, <2>3 DEF Transfer!FetchFails
<1>9. ASSUME NEW f \in Files, Transfer!Remove(f) PROVE TransferInv'
  BY <1>9 DEF Transfer!Remove
<1>10. CASE UNCHANGED transferVars
  BY <1>10 DEF transferVars
<1> QED
  BY <1>1, <1>2, <1>3, <1>4, <1>5, <1>6, <1>7, <1>8, <1>9, <1>10 DEF Transfer!Next

LEMMA TransferInit == Transfer!Init => TransferInv
  BY OutcomesAssumption DEF Transfer!Init, TransferInv, DumpsCounted, Transfer!TypeOK, Transfer!NoCopy

\* What is counted is forgotten when the first way breaks.  Until then a counted file is
\* not fetched again, so its copy stays what it was; the device's versions only grow.
FetchInv ==
    /\ \A f \in Files : begun[f] <= remote[f]
    /\ \A f \in fetched : copy[f].whole /\ copy[f].version >= begun[f]
    /\ fetchAt = "fetch" => fetched \cap todo = {}
    /\ fetchKind = "mikrotik" /\ (fetchAt = "delete" \/ (fetchAt = "success" /\ listed # {}))
          => fetched # {}

LEMMA FetchStep == TransferInv /\ FetchInv /\ [Transfer!Next]_transferVars => FetchInv'
<1> SUFFICES ASSUME TransferInv, FetchInv, [Transfer!Next]_transferVars PROVE FetchInv'
  OBVIOUS
<1>0. /\ remote \in [Files -> Nat] /\ begun \in [Files -> Nat]
      /\ copy \in [Files -> [version: Nat, whole: BOOLEAN]] /\ fetched \subseteq Files
      /\ fetchAt = "list" => fetched = {}
  BY OutcomesAssumption DEF TransferInv, Transfer!TypeOK
<1> USE DEF FetchInv, Transfer!session, Transfer!device
<1>1. CASE Transfer!Run
  BY <1>0, <1>1 DEF Transfer!Run
<1>2. CASE Transfer!List \/ Transfer!Dump
  BY <1>0, <1>2 DEF Transfer!List, Transfer!Dump
<1>3. CASE Transfer!Breaks \/ Transfer!Counted
  BY <1>0, <1>3 DEF Transfer!Breaks, Transfer!Counted, Transfer!Raised, Transfer!Again
<1>4. CASE Transfer!Removed \/ Transfer!Zip
  BY <1>4 DEF Transfer!Removed, Transfer!Zip
<1>5. ASSUME NEW f \in Files, Transfer!Write(f) PROVE FetchInv'
  <2>1. \A g \in Files : remote[g] <= remote'[g]
    BY <1>0, <1>5 DEF Transfer!Write
  <2> QED
    BY <1>0, <1>5, <2>1 DEF Transfer!Write
<1>6. ASSUME NEW f \in Files, Transfer!Fetch(f) PROVE FetchInv'
  <2>1. copy'[f].whole /\ copy'[f].version >= begun[f]
    BY <1>0, <1>6 DEF Transfer!Fetch
  <2>2. \A g \in fetched : copy'[g] = copy[g]
    BY <1>0, <1>6 DEF Transfer!Fetch
  <2> QED
    BY <1>0, <1>6, <2>1, <2>2 DEF Transfer!Fetch
<1>7. ASSUME NEW f \in Files, Transfer!FetchFails(f) PROVE FetchInv'
  <2>1. \A g \in fetched : copy'[g] = copy[g]
    BY <1>0, <1>7 DEF Transfer!FetchFails
  <2> QED
    BY <1>0, <1>7, <2>1 DEF Transfer!FetchFails
<1>8. ASSUME NEW f \in Files, Transfer!Remove(f) PROVE FetchInv'
  BY <1>8 DEF Transfer!Remove
<1>9. CASE UNCHANGED transferVars
  BY <1>9 DEF transferVars
<1> QED
  BY <1>1, <1>2, <1>3, <1>4, <1>5, <1>6, <1>7, <1>8, <1>9 DEF Transfer!Next

\* What a success counts as downloaded are whole copies of what the device kept when the
\* execution began or of something newer, wherever the first of the two ways broke, also
\* after files were removed (_download_via_paramiko, _download_via_sshpass).
THEOREM SuccessWasFetched == OutcomesSpec => []SuccessIsFetched
<1>1. Transfer!Init => FetchInv
  BY OutcomesAssumption DEF Transfer!Init, FetchInv
<1>2. FetchInv => SuccessIsFetched
  BY DEF FetchInv, SuccessIsFetched, Transfer!SuccessIsFetched
<1> QED
  BY <1>1, <1>2, TransferInit, TransferStep, FetchStep, PartsAlone, PTL

-------------------------------------------------------------------------------
(* The types of the task of a group.                                       *)

GroupSettings ==
    /\ groupOn \in BOOLEAN /\ member \in [Members -> {"in", "out", "off"}]
    /\ sent \subseteq Members /\ single \subseteq Members /\ groupStop \in BOOLEAN

LEMMA GroupSettingsStep == GroupSettings /\ [Group!Next]_groupVars => GroupSettings'
<1> SUFFICES ASSUME GroupSettings, [Group!Next]_groupVars PROVE GroupSettings'
  OBVIOUS
<1>1. /\ groupOn' \in {groupOn, ~groupOn} /\ groupStop' \in {groupStop, ~groupStop}
      /\ sent' \in SUBSET Members /\ single' \in SUBSET Members
      /\ \/ member' = member
         \/ \E d \in Members, to \in {"in", "out", "off"} : member' = [member EXCEPT ![d] = to]
  <2> USE DEF GroupSettings, Group!settings
  <2>1. CASE Group!Load \/ Group!Start \/ Group!VpnFails \/ Group!Connect \/ Group!NextDevice
    BY <2>1 DEF Group!Load, Group!Start, Group!VpnFails, Group!Connect, Group!NextDevice
  <2>2. CASE Group!Refused \/ Group!Backup \/ Group!Alarm
    BY <2>2 DEF Group!Refused, Group!Backup, Group!Alarm, Group!Outcome
  <2>3. CASE Group!Error \/ Group!Disconnect \/ Group!Finish
    BY <2>3 DEF Group!Error, Group!Disconnect, Group!Finish
  <2>4. CASE Group!Send
    BY <2>4 DEF Group!Send, Group!SendDevice, Group!SendGroup, Group!Active, Group!Scheduled
  <2>5. CASE Group!Users
    BY <2>5 DEF Group!Users, Group!EditGroup, Group!EditDevice, Group!Stop
  <2>6. CASE UNCHANGED groupVars
    BY <2>6 DEF groupVars
  <2> QED
    BY <2>1, <2>2, <2>3, <2>4, <2>5, <2>6 DEF Group!Next, Group!Task
<1>2. member' \in [Members -> {"in", "out", "off"}]
  BY <1>1 DEF GroupSettings
<1> QED
  BY <1>1, <1>2, Zenon DEF GroupSettings

\* How the task is: its document counts no more devices than the group has.
Says == groupDoc.status \in {"none", "running", "success", "failed", "stopped"}
Total == groupDoc.result # Group!NoResult => groupDoc.result.total \in Group!Count
GroupRuns ==
    /\ groupAt \in Group!Places /\ current \in Members \cup {Group!NoDevice}
    /\ armed \in BOOLEAN /\ Says /\ Total

LEMMA GroupTyped == /\ GroupInv /\ GroupSettings /\ GroupRuns => Group!TypeOK
<1> SUFFICES ASSUME GroupInv, GroupSettings, GroupRuns PROVE Group!TypeOK
  OBVIOUS
<1>1. groupDoc.result \in Group!Results \cup {Group!NoResult}
  <2> SUFFICES ASSUME groupDoc.result # Group!NoResult PROVE groupDoc.result \in Group!Results
    OBVIOUS
  <2> DEFINE r == groupDoc.result
  <2>1. r \in GroupCounts
    BY DEF GroupInv
  <2>2. r.good + r.bad <= r.total
    <3>1. Group!Cardinality(left) \in Nat
      BY LeftCounted DEF GroupInv
    <3> QED
      BY <2>1, <3>1 DEF GroupInv, GroupCounts, Group!CountsAddUp
  <2>3. r.total \in Group!Count /\ Group!Cardinality(Members) \in Nat
    BY LeftCounted DEF GroupRuns, Total
  <2> QED
    <3>1. r.total \in Nat /\ r.good \in Nat /\ r.bad \in Nat
          /\ r = [total |-> r.total, good |-> r.good, bad |-> r.bad]
      BY <2>1 DEF GroupCounts
    <3>2. r.total \in Group!Count /\ r.good \in Group!Count /\ r.bad \in Group!Count
      BY <2>2, <2>3, <3>1 DEF Group!Count
    <3> HIDE DEF r
    <3>3. r \in Group!Results
      BY <3>1, <3>2 DEF Group!Results
    <3> QED
      BY <3>3 DEF r
<1> QED
  BY <1>1, Zenon DEF GroupInv, GroupSettings, GroupRuns, Says, Group!TypeOK

LEMMA GroupRunsStep ==
    ASSUME GroupInv, GroupSettings, GroupRuns, [Group!Next]_groupVars
    PROVE  GroupRuns'
<1>1. ASSUME NEW says \in {"success", "failed", "stopped"}, NEW r, Group!End(says, r),
             r # Group!NoResult => r.total \in Group!Count
      PROVE  GroupRuns'
  <2>1. groupDoc' = [status |-> says, result |-> r] /\ groupAt' = "over"
        /\ current' = Group!NoDevice /\ armed' = FALSE
    BY <1>1 DEF Group!End, Group!Says
  <2> QED
    BY <1>1, <2>1 DEF GroupRuns, Says, Total, Group!Places, Group!Count
<1>2. Group!Cardinality(left) \in Group!Count /\ Group!Cardinality(left) \in Nat /\ 0 \in Group!Count
  <2>1. \A T : Group!Cardinality(T) = Cardinality(T)
    BY DEF Group!Cardinality, Cardinality
  <2>2. IsFiniteSet(Members) /\ left \in SUBSET Members
    BY OutcomesAssumption DEF GroupInv
  <2>3. Cardinality(left) <= Cardinality(Members) /\ Cardinality(Members) \in Nat /\ Cardinality(left) \in Nat
    BY <2>2, FS_Subset, FS_CardinalityType
  <2> QED
    BY <2>1, <2>3 DEF Group!Count
<1> USE DEF Group!settings
<1>3. ASSUME UNCHANGED <<groupAt, current, armed, groupDoc>> PROVE GroupRuns'
  BY <1>3 DEF GroupRuns, Says, Total, Group!Count
<1>4. ASSUME UNCHANGED groupDoc, groupAt' \in Group!Places, current' \in Members \cup {Group!NoDevice},
             armed' \in BOOLEAN
      PROVE  GroupRuns'
  BY <1>4 DEF GroupRuns, Says, Total, Group!Count
<1>5. CASE Group!Send \/ Group!Users \/ UNCHANGED groupVars
  <2>1. CASE UNCHANGED <<groupAt, current, armed, groupDoc>>
    BY <1>3, <2>1
  <2>2. CASE groupAt' = "queued" /\ UNCHANGED <<current, armed, groupDoc>>
    BY <1>4, <2>2 DEF GroupRuns, Group!Places
  <2> QED
    BY <1>5, <2>1, <2>2 DEF Group!Send, Group!SendDevice, Group!SendGroup, Group!Users,
         Group!EditGroup, Group!EditDevice, Group!Stop, groupVars
<1>6. CASE Group!Load
  <2>1. CASE Group!End("failed", Group!NoResult) \/ Group!End("success", [total |-> 0, good |-> 0, bad |-> 0])
    BY <1>1, <1>2, <2>1
  <2>2. CASE groupAt' = "loaded" /\ UNCHANGED <<current, armed, groupDoc>>
    BY <1>4, <2>2 DEF GroupRuns, Group!Places
  <2> QED
    BY <1>6, <2>1, <2>2 DEF Group!Load
<1>7. CASE Group!Start
  <2> DEFINE n == Group!Cardinality(left)
  <2>1. CASE Group!End("stopped", [total |-> n, good |-> 0, bad |-> n])
    BY <1>1, <1>2, <2>1
  <2>2. CASE /\ groupDoc' = [status |-> "running", result |-> [total |-> n, good |-> 0, bad |-> 0]]
             /\ groupAt' \in {"connect", "device"} /\ UNCHANGED <<current, armed>>
    BY <1>2, <2>2 DEF GroupRuns, Says, Total, Group!Places, Group!Count
  <2> QED
    BY <1>7, <2>1, <2>2 DEF Group!Start, Group!All, Group!Says
<1>8. CASE Group!VpnFails
  <2> DEFINE old == groupDoc.result
             none == [old EXCEPT !.good = 0]
             r == [none EXCEPT !.bad = old.total]
  <2>1. old \in GroupCounts /\ Group!End("failed", r) /\ old # Group!NoResult
    BY <1>8, NoCounts DEF Group!VpnFails, GroupInv, Working
  <2>2. old.total \in Group!Count
    BY <2>1 DEF GroupRuns, Total
  <2>3. r.total = old.total
    <3> HIDE DEF old
    <3> QED
      BY <2>1 DEF GroupCounts
  <2> HIDE DEF r, old
  <2> QED
    BY <1>1, <2>1, <2>2, <2>3
<1>9. CASE Group!Connect \/ Group!Disconnect
  BY <1>4, <1>9 DEF Group!Connect, Group!Disconnect, GroupRuns, Group!Places
<1>10. CASE Group!NextDevice
  <2> DEFINE old == groupDoc.result
             r == [old EXCEPT !.bad = @ + Group!Cardinality(left)]
  <2>1. old \in GroupCounts /\ old # Group!NoResult
    BY <1>10, NoCounts DEF Group!NextDevice, GroupInv, Working
  <2>2. old.total \in Group!Count
    BY <2>1 DEF GroupRuns, Total
  <2>3. r.total = old.total
    <3> HIDE DEF old
    <3> QED
      BY <2>1 DEF GroupCounts
  <2>4. CASE Group!End("stopped", r)
    <3> HIDE DEF r, old
    <3> QED
      BY <1>1, <2>2, <2>3, <2>4
  <2>5. CASE /\ current' \in left /\ groupAt' = "guarded" /\ armed' = TRUE
             /\ UNCHANGED groupDoc
    BY <1>4, <2>5 DEF GroupInv, Group!Places
  <2> QED
    BY <1>10, <2>4, <2>5 DEF Group!NextDevice, Group!GiveUp
<1>11. ASSUME NEW good \in BOOLEAN, Group!Outcome(good) PROVE GroupRuns'
  <2> DEFINE r == groupDoc.result
  <2>1. r \in GroupCounts /\ r # Group!NoResult /\ groupDoc.status = "running"
        /\ DOMAIN groupDoc = {"status", "result"}
    BY <1>11, NoCounts DEF Group!Outcome, GroupInv, Working
  <2>2. groupDoc' = [groupDoc EXCEPT !.result.good = IF good THEN @ + 1 ELSE @,
                                     !.result.bad = IF good THEN @ ELSE @ + 1]
        /\ groupAt' = "device" /\ current' = Group!NoDevice /\ armed' = FALSE
    BY <1>11 DEF Group!Outcome
  <2>3. groupDoc'.status = "running" /\ groupDoc'.result.total = r.total
    BY <2>1, <2>2 DEF GroupCounts
  <2>4. r.total \in Group!Count
    BY <2>1 DEF GroupRuns, Total
  <2> QED
    BY <2>2, <2>3, <2>4 DEF GroupRuns, Says, Total, Group!Places, Group!Count
<1>12. CASE Group!Refused \/ Group!Backup \/ Group!Alarm
  <2>1. CASE armed' = FALSE /\ UNCHANGED <<groupAt, current, groupDoc>>
    BY <1>4, <2>1 DEF GroupRuns
  <2>2. CASE \E good \in BOOLEAN : Group!Outcome(good)
    BY <1>11, <2>2
  <2> QED
    BY <1>12, <2>1, <2>2 DEF Group!Refused, Group!Backup, Group!Alarm
<1>13. CASE Group!Error
  <2>1. Group!End("failed", groupDoc.result)
        /\ (groupDoc.result # Group!NoResult => groupDoc.result.total \in Group!Count)
    BY <1>13 DEF Group!Error, GroupRuns, Total
  <2> QED
    BY <1>1, <2>1
<1>14. CASE Group!Finish
  <2> DEFINE says == IF groupDoc.result.bad = 0 THEN "success" ELSE "failed"
  <2>1. Group!End(says, groupDoc.result) /\ says \in {"success", "failed", "stopped"}
        /\ (groupDoc.result # Group!NoResult => groupDoc.result.total \in Group!Count)
    BY <1>14 DEF Group!Finish, GroupRuns, Total
  <2> HIDE DEF says
  <2> QED
    BY <1>1, <2>1
<1> QED
  BY <1>5, <1>6, <1>7, <1>8, <1>9, <1>10, <1>12, <1>13, <1>14 DEF Group!Next, Group!Task

LEMMA GroupRunsInit == Group!Init => GroupSettings /\ GroupRuns
<1> SUFFICES ASSUME Group!Init PROVE GroupSettings /\ GroupRuns
  OBVIOUS
<1>1. groupDoc.status = "none" /\ groupDoc.result = Group!NoResult
  BY DEF Group!Init
<1> QED
  BY <1>1 DEF Group!Init, GroupSettings, GroupRuns, Says, Total, Group!Places

-------------------------------------------------------------------------------
(* The types of the directory of backups and its rows.                     *)

Jobs ==
    [at: Store!Places, device: Devices, began: 0..MaxTime, path: Store!Paths, ok: BOOLEAN]
Rows ==
    [device: Devices, ok: BOOLEAN, began: 0..MaxTime, path: Store!Paths, made: 0..MaxTime,
     twin: BOOLEAN]
FileSet == [name: Store!Names, good: BOOLEAN]

StoreTypes ==
    /\ clock \in 0..MaxTime
    /\ files \in SUBSET FileSet
    /\ \A f, g \in files : f.name = g.name => f = g
    /\ attempt \in [Attempts -> Jobs]
DatabaseTypes ==
    /\ rows \in SUBSET Rows /\ purge \in SUBSET rows
    /\ status \in [Devices -> {"none", "success", "failure"}]
    /\ device \in [Devices -> {"on", "off", "gone"}]

LEMMA StoreTyped == /\ Store!TypeOK <=> StoreTypes /\ DatabaseTypes
                    /\ StoreTypes' /\ DatabaseTypes' => Store!TypeOK'
  BY Zenon DEF Store!TypeOK, StoreTypes, DatabaseTypes, Jobs, Rows, FileSet

LEMMA NoFileNamed == Store!NoFile \in Store!Paths
  BY DEF Store!Paths

LEMMA IdleTyped == Store!Idle \in Jobs
<1>1. (CHOOSE d \in Devices : TRUE) \in Devices /\ 0 \in 0..MaxTime
  BY OutcomesAssumption
<1>2. "idle" \in Store!Places
  BY DEF Store!Places
<1> QED
  BY <1>1, <1>2, NoFileNamed, Zenon DEF Store!Idle, Jobs

\* What a step may make of one attempt.
LEMMA JobChanged ==
    ASSUME NEW job \in Jobs
    PROVE  /\ \A place \in Store!Places : [job EXCEPT !.at = place] \in Jobs
           /\ \A place \in Store!Places, good \in BOOLEAN, path \in Store!Paths :
                [job EXCEPT !.at = place, !.ok = good, !.path = path] \in Jobs
           /\ \A place \in Store!Places, time \in 0..MaxTime :
                [job EXCEPT !.at = place, !.began = time] \in Jobs
           /\ \A place \in Store!Places, time \in 0..MaxTime, d \in Devices :
                [job EXCEPT !.at = place, !.device = d, !.began = time] \in Jobs
<1> HIDE DEF Store!Places, Store!Paths
<1>1. \A place \in Store!Places : [job EXCEPT !.at = place] \in Jobs
  BY DEF Jobs
<1>2. ASSUME NEW place \in Store!Places, NEW good \in BOOLEAN, NEW path \in Store!Paths
      PROVE  [job EXCEPT !.at = place, !.ok = good, !.path = path] \in Jobs
  BY DEF Jobs
<1>3. ASSUME NEW place \in Store!Places, NEW time \in 0..MaxTime
      PROVE  [job EXCEPT !.at = place, !.began = time] \in Jobs
  BY DEF Jobs
<1>4. ASSUME NEW place \in Store!Places, NEW time \in 0..MaxTime, NEW d \in Devices
      PROVE  [job EXCEPT !.at = place, !.device = d, !.began = time] \in Jobs
  BY DEF Jobs
<1> QED
  BY <1>1, <1>2, <1>3, <1>4

\* Files that share no name.
OneName(F) == \A f, g \in F : f.name = g.name => f = g

LEMMA FewerFiles ==
    ASSUME StoreTypes, files' \in SUBSET files
    PROVE  files' \in SUBSET FileSet /\ OneName(files')
  BY DEF StoreTypes, OneName

LEMMA AttemptFits ==
    ASSUME StoreTypes, NEW a \in Attempts, NEW job \in Jobs, UNCHANGED clock,
           attempt' = [attempt EXCEPT ![a] = job], files' \in SUBSET FileSet, OneName(files')
    PROVE  StoreTypes'
<1>1. attempt' \in [Attempts -> Jobs]
  BY DEF StoreTypes
<1> QED
  BY <1>1 DEF StoreTypes, OneName

LEMMA AttemptTypes ==
    ASSUME StoreTypes, NEW a \in Attempts, Store!Attempt(a)
    PROVE  StoreTypes'
<1> USE DEF Store!database
<1>1. /\ attempt[a] \in Jobs /\ clock \in 0..MaxTime /\ files \in SUBSET FileSet
      /\ attempt \in [Attempts -> Jobs]
      /\ OneName(files)
  BY DEF StoreTypes, OneName
<1>2. {"idle", "checks", "script", "pick", "verify", "quota", "persist"} \subseteq Store!Places
  BY DEF Store!Places
<1>3. ASSUME NEW place \in Store!Places, Store!To(a, place), UNCHANGED clock,
             files' \in SUBSET FileSet, OneName(files')
      PROVE  StoreTypes'
  <2>1. attempt' = [attempt EXCEPT ![a] = [attempt[a] EXCEPT !.at = place]]
    BY <1>1, <1>3 DEF Store!To
  <2> QED
    BY <1>1, <1>3, <2>1, JobChanged, AttemptFits
<1>4. ASSUME NEW place \in Store!Places, NEW good \in BOOLEAN, NEW path \in Store!Paths,
             Store!Result(a, place, good, path), UNCHANGED clock,
             files' \in SUBSET FileSet, OneName(files')
      PROVE  StoreTypes'
  <2>1. attempt' = [attempt EXCEPT ![a] = [attempt[a] EXCEPT !.at = place, !.ok = good, !.path = path]]
    BY <1>1, <1>4 DEF Store!Result
  <2>2. [attempt[a] EXCEPT !.at = place, !.ok = good, !.path = path] \in Jobs
    BY <1>1, JobChanged
  <2> QED
    BY <1>1, <1>4, <2>1, <2>2, AttemptFits
<1>5. ASSUME attempt' = [attempt EXCEPT ![a] = Store!Idle], UNCHANGED <<clock, files>>
      PROVE  StoreTypes'
  BY <1>1, <1>5, IdleTyped, AttemptFits
<1>6. ASSUME NEW d \in Devices, Store!Start(a, d) PROVE StoreTypes'
  <2>1. [Store!Idle EXCEPT !.at = "checks", !.device = d, !.began = clock] \in Jobs
    BY <1>1, <1>2, IdleTyped, JobChanged
  <2> QED
    BY <1>1, <1>6, <2>1, AttemptFits DEF Store!Start
<1>7. CASE Store!Refuse(a)
  BY <1>1, <1>2, <1>4, <1>7, NoFileNamed DEF Store!Refuse
<1>8. CASE Store!Precheck(a)
  <2>1. [attempt[a] EXCEPT !.at = "script", !.began = clock] \in Jobs
    BY <1>1, <1>2, JobChanged
  <2>2. attempt' = [attempt EXCEPT ![a] = [attempt[a] EXCEPT !.at = "script", !.began = clock]]
        /\ UNCHANGED <<clock, files>>
    BY <1>1, <1>8 DEF Store!Precheck
  <2> QED
    BY <1>1, <2>1, <2>2, AttemptFits
<1>9. ASSUME NEW good \in BOOLEAN, Store!WriteFile(a, good) PROVE StoreTypes'
  <2> DEFINE new == [name |-> Store!Mine(a), good |-> good]
  <2>1. Store!Mine(a) \in Store!Names
    BY <1>1 DEF Store!Mine, Store!Names, Jobs
  <2>2. new \in FileSet /\ new.name = Store!Mine(a)
    BY <2>1, Zenon DEF FileSet
  <2>3. files' = Store!Without(Store!Mine(a)) \cup {new} /\ UNCHANGED clock
    BY <1>9 DEF Store!WriteFile
  <2> HIDE DEF new
  <2>4. files' \in SUBSET FileSet /\ OneName(files')
    BY <1>1, <2>2, <2>3 DEF Store!Without, OneName
  <2>5. Store!Mine(a) \in Store!Paths
    BY <2>1 DEF Store!Paths
  <2>6. \/ Store!Result(a, "verify", TRUE, Store!Mine(a)) \/ Store!To(a, "pick")
        \/ Store!Result(a, "persist", FALSE, Store!NoFile)
    BY <1>9 DEF Store!WriteFile
  <2> QED
    BY <1>2, <1>3, <1>4, <2>3, <2>4, <2>5, <2>6, NoFileNamed
<1>10. CASE Store!NoNewFile(a)
  BY <1>1, <1>2, <1>3, <1>4, <1>10, NoFileNamed DEF Store!NoNewFile
<1>11. CASE Store!NameDirectory(a) \/ Store!Die(a)
  BY <1>5, <1>11 DEF Store!NameDirectory, Store!Die
<1>12. CASE Store!Pick(a)
  <2>1. Store!Fresh(a) \subseteq Store!Paths
    BY <1>1 DEF Store!Fresh, Store!Listed, Store!Paths, FileSet
  <2> HIDE DEF Store!Fresh
  <2> QED
    BY <1>1, <1>2, <1>4, <1>12, <2>1, NoFileNamed DEF Store!Pick
<1>13. CASE Store!Verify(a)
  <2>1. attempt[a].path \in Store!Paths
    BY <1>1 DEF Jobs
  <2> QED
    BY <1>1, <1>2, <1>3, <1>4, <1>13, <2>1 DEF Store!Verify
<1>14. CASE Store!Quota(a)
  <2>1. CASE Store!To(a, "persist") /\ UNCHANGED files
    BY <1>1, <1>2, <1>3, <1>14, <2>1 DEF Store!Quota
  <2>2. CASE Store!Result(a, "persist", FALSE, Store!NoFile) /\ files' = Store!Without(attempt[a].path)
    <3>1. files' \in SUBSET files
      BY <2>2 DEF Store!Without
    <3>2. files' \in SUBSET FileSet /\ OneName(files')
      BY <3>1, FewerFiles
    <3> QED
      BY <1>2, <1>4, <1>14, <2>2, <3>2, NoFileNamed DEF Store!Quota
  <2> QED
    BY <1>14, <2>1, <2>2 DEF Store!Quota
<1>15. CASE Store!Persist(a)
  BY <1>5, <1>15 DEF Store!Persist
<1> QED
  BY <1>6, <1>7, <1>8, <1>9, <1>10, <1>11, <1>12, <1>13, <1>14, <1>15 DEF Store!Attempt

LEMMA StoreTypesStep == StoreTypes /\ [Store!Next]_storeVars => StoreTypes'
<1> SUFFICES ASSUME StoreTypes, [Store!Next]_storeVars PROVE StoreTypes'
  OBVIOUS
<1>1. ASSUME UNCHANGED <<clock, attempt>>, files' \in SUBSET files PROVE StoreTypes'
  BY <1>1, FewerFiles DEF StoreTypes, OneName
<1>2. CASE Store!Tick
  BY <1>2, OutcomesAssumption DEF Store!Tick, StoreTypes
<1>3. CASE Store!Purges
  BY <1>1, <1>3 DEF Store!Purges, Store!PurgeExpired, Store!PurgeFailed, Store!ClearFailed, Store!Take,
             Store!CommitPurge, Store!CrashPurge
<1>4. CASE Store!Users
  BY <1>1, <1>4 DEF Store!Users, Store!SetDevice
<1>5. CASE UNCHANGED storeVars
  BY <1>1, <1>5 DEF storeVars
<1> QED
  BY <1>2, <1>3, <1>4, <1>5, AttemptTypes DEF Store!Next

LEMMA DatabaseStep == StoreTypes /\ DatabaseTypes /\ [Store!Next]_storeVars => DatabaseTypes'
<1> SUFFICES ASSUME StoreTypes, DatabaseTypes, [Store!Next]_storeVars PROVE DatabaseTypes'
  OBVIOUS
<1> USE DEF Store!database
<1>1. CASE UNCHANGED Store!database
  BY <1>1, Zenon DEF DatabaseTypes
<1>2. ASSUME NEW a \in Attempts, Store!Persist(a) PROVE DatabaseTypes'
  <2> DEFINE job == attempt[a]
             mine == [device |-> attempt[a].device, ok |-> attempt[a].ok, began |-> attempt[a].began,
                      path |-> attempt[a].path, made |-> clock, twin |-> FALSE]
  <2>1. job.device \in Devices /\ job.ok \in BOOLEAN /\ job.began \in 0..MaxTime
        /\ job.path \in Store!Paths /\ clock \in 0..MaxTime
    BY DEF StoreTypes, Jobs
  <2>2. mine \in Rows
    BY <2>1, Zenon DEF Rows
  <2>3. [mine EXCEPT !.twin = TRUE] \in Rows /\ mine.device \in Devices
    <3> HIDE DEF mine
    <3> QED
      BY <2>2 DEF Rows
  <2>4. UNCHANGED <<device, purge>>
        /\ \/ UNCHANGED <<rows, status>>
           \/ /\ \E twice \in BOOLEAN :
                   rows' = rows \cup {mine} \cup (IF twice THEN {[mine EXCEPT !.twin = TRUE]} ELSE {})
              /\ status' = [status EXCEPT ![mine.device] = IF mine.ok THEN "success" ELSE "failure"]
    BY <1>2 DEF Store!Persist
  <2> HIDE DEF mine
  <2>5. rows' \in SUBSET Rows /\ rows \in SUBSET rows'
    BY <2>2, <2>3, <2>4 DEF DatabaseTypes
  <2>6. status' \in [Devices -> {"none", "success", "failure"}]
    BY <2>1, <2>3, <2>4 DEF DatabaseTypes
  <2> QED
    BY <2>4, <2>5, <2>6 DEF DatabaseTypes
<1>3. ASSUME NEW a \in Attempts, Store!Attempt(a), ~Store!Persist(a) PROVE UNCHANGED Store!database
  BY <1>3 DEF Store!Attempt, Store!Start, Store!Refuse, Store!Precheck, Store!WriteFile,
              Store!NoNewFile, Store!NameDirectory, Store!Pick, Store!Verify, Store!Quota, Store!Die
<1>4. CASE Store!Purges
  <2>1. rows' \in SUBSET rows /\ purge' \in SUBSET rows' /\ UNCHANGED <<status, device>>
    BY <1>4 DEF DatabaseTypes, Store!Purges, Store!PurgeExpired, Store!PurgeFailed, Store!ClearFailed,
             Store!Take, Store!CommitPurge, Store!CrashPurge
  <2> QED
    BY <2>1 DEF DatabaseTypes
<1>5. ASSUME NEW d \in Devices, NEW to \in {"on", "off", "gone"}, Store!SetDevice(d, to)
      PROVE  DatabaseTypes'
  <2>1. rows' \in SUBSET rows /\ purge' = {} /\ UNCHANGED status
        /\ device' = [device EXCEPT ![d] = to]
    BY <1>5 DEF Store!SetDevice
  <2> QED
    BY <2>1 DEF DatabaseTypes
<1>6. CASE Store!Tick \/ UNCHANGED storeVars
  BY <1>1, <1>6 DEF Store!Tick, storeVars
<1> QED
  BY <1>1, <1>2, <1>3, <1>4, <1>5, <1>6 DEF Store!Next, Store!Users

LEMMA StoreTypesInit == Store!Init => StoreTypes /\ DatabaseTypes
<1> SUFFICES ASSUME Store!Init PROVE StoreTypes /\ DatabaseTypes
  OBVIOUS
<1>1. clock \in 0..MaxTime /\ files = {} /\ attempt = [a \in Attempts |-> Store!Idle]
  BY OutcomesAssumption DEF Store!Init
<1>2. StoreTypes
  <2> HIDE DEF Store!Idle
  <2> QED
    BY <1>1, IdleTyped DEF StoreTypes
<1> QED
  BY <1>2 DEF DatabaseTypes, Store!Init

-------------------------------------------------------------------------------
(* The health of a jump host.                                              *)

HealthProofs == INSTANCE JumpHostHealth_proofs WITH at <- healthAt

LEMMA SameFresh == \A w, end : Health!Fresh(w, end) = HealthProofs!Fresh(w, end)
  BY DEF Health!Fresh, HealthProofs!Fresh, Health!FoldFunctionOnSet,
     HealthProofs!FoldFunctionOnSet, Health!MapThenFoldSet, HealthProofs!MapThenFoldSet

LEMMA HealthSpec == Health!Init /\ [][Health!Next]_healthVars => HealthProofs!Spec
<1>1. Health!Init => HealthProofs!Init
  BY DEF Health!Init, HealthProofs!Init, Health!Unread, HealthProofs!Unread,
     Health!Empty, HealthProofs!Empty, Health!Ages, HealthProofs!Ages, Health!NoCounts,
     HealthProofs!NoCounts
<1>2. ASSUME NEW t \in Tasks, Health!Step(t) PROVE HealthProofs!Step(t)
  <2>1. Health!Look(t) => HealthProofs!Look(t)
    BY DEF Health!Look, HealthProofs!Look, Health!Go, HealthProofs!Go, Health!local,
       HealthProofs!local, Health!record, HealthProofs!record
  <2>2. Health!ReadWindow(t) => HealthProofs!ReadWindow(t)
    BY DEF Health!ReadWindow, HealthProofs!ReadWindow, Health!Go, HealthProofs!Go,
       Health!Stale, HealthProofs!Stale, Health!NoCounts, HealthProofs!NoCounts,
       Health!record, HealthProofs!record
  <2>3. Health!Prune(t) => HealthProofs!Prune(t)
    BY DEF Health!Prune, HealthProofs!Prune, Health!Go, HealthProofs!Go, Health!local,
       HealthProofs!local
  <2>4. Health!Judge(t) => HealthProofs!Judge(t)
    BY SameFresh DEF Health!Judge, HealthProofs!Judge, Health!Tripped,
       HealthProofs!Tripped, Health!Go, HealthProofs!Go, Health!Empty, HealthProofs!Empty,
       Health!Ages, HealthProofs!Ages, Health!NoCounts, HealthProofs!NoCounts
  <2>5. Health!Run(t) => HealthProofs!Run(t)
    BY DEF Health!Run, HealthProofs!Run, Health!Go, HealthProofs!Go, Health!Ends,
       HealthProofs!Ends, Health!record, HealthProofs!record
  <2>6. Health!ReadSlots(t) => HealthProofs!ReadSlots(t)
    BY DEF Health!ReadSlots, HealthProofs!ReadSlots, Health!Go, HealthProofs!Go,
       Health!Current, HealthProofs!Current, Health!Start, HealthProofs!Start, Health!Low,
       HealthProofs!Low, Health!record, HealthProofs!record
  <2>7. Health!CheckCool(t) => HealthProofs!CheckCool(t)
    BY DEF Health!CheckCool, HealthProofs!CheckCool, Health!Go, HealthProofs!Go,
       Health!Matters, HealthProofs!Matters, Health!Won, HealthProofs!Won,
       Health!Saturated, HealthProofs!Saturated, Health!Unread, HealthProofs!Unread,
       Health!record, HealthProofs!record
  <2>8. Health!Count(t) => HealthProofs!Count(t)
    BY DEF Health!Count, HealthProofs!Count, Health!Go, HealthProofs!Go, Health!Won,
       HealthProofs!Won, Health!More, HealthProofs!More, Health!Fewer, HealthProofs!Fewer,
       Health!Severe, HealthProofs!Severe, Health!SevereEnds, HealthProofs!SevereEnds,
       Health!Capped, HealthProofs!Capped, Health!Low, HealthProofs!Low, Health!High,
       HealthProofs!High, Health!AllowedMax, HealthProofs!AllowedMax, Health!Unread,
       HealthProofs!Unread
  <2>9. Health!Change(t) => HealthProofs!Change(t)
    BY DEF Health!Change, HealthProofs!Change, Health!Go, HealthProofs!Go,
       Health!NextSlots, HealthProofs!NextSlots, Health!Won, HealthProofs!Won,
       Health!Severe, HealthProofs!Severe, Health!SevereEnds, HealthProofs!SevereEnds,
       Health!Low, HealthProofs!Low, Health!High, HealthProofs!High, Health!AllowedMax,
       HealthProofs!AllowedMax, Health!local, HealthProofs!local
  <2>10. Health!Settle(t) => HealthProofs!Settle(t)
    BY DEF Health!Settle, HealthProofs!Settle, Health!Go, HealthProofs!Go, Health!Severe,
       HealthProofs!Severe, Health!SevereEnds, HealthProofs!SevereEnds, Health!Won,
       HealthProofs!Won, Health!Unread, HealthProofs!Unread
  <2>11. Health!Record(t) => HealthProofs!Record(t)
    BY DEF Health!Record, HealthProofs!Record, Health!Go, HealthProofs!Go,
       Health!Credited, HealthProofs!Credited, Health!Blamed, HealthProofs!Blamed,
       Health!Capped, HealthProofs!Capped, Health!Low, HealthProofs!Low
  <2> QED
    BY <1>2, <2>1, <2>2, <2>3, <2>4, <2>5, <2>6, <2>7, <2>8, <2>9, <2>10, <2>11 DEF Health!Step, HealthProofs!Step
<1>3. ASSUME NEW t \in Tasks, Health!Kill(t) PROVE HealthProofs!Kill(t)
  BY <1>3 DEF Health!Kill, HealthProofs!Kill, Health!Go, HealthProofs!Go, Health!Unread,
     HealthProofs!Unread, Health!Empty, HealthProofs!Empty, Health!Ages,
     HealthProofs!Ages, Health!NoCounts, HealthProofs!NoCounts, Health!record,
     HealthProofs!record
<1>4. Health!Reset => HealthProofs!Reset
  BY DEF Health!Reset, HealthProofs!Reset, Health!ResetOpen, HealthProofs!ResetOpen,
     Health!ResetOutcomes, HealthProofs!ResetOutcomes, Health!ResetAdaptive,
     HealthProofs!ResetAdaptive, Health!local, HealthProofs!local, Health!Empty,
     HealthProofs!Empty, Health!Ages, HealthProofs!Ages, Health!NoCounts,
     HealthProofs!NoCounts
<1>5. Health!Tick => HealthProofs!Tick
  BY DEF Health!Tick, HealthProofs!Tick, Health!Down, HealthProofs!Down, Health!Ages,
     HealthProofs!Ages, Health!NoCounts, HealthProofs!NoCounts, Health!Merge,
     HealthProofs!Merge, Health!Capped, HealthProofs!Capped, Health!Low,
     HealthProofs!Low, Health!local, HealthProofs!local
<1>6. [Health!Next]_healthVars => [HealthProofs!Next]_(HealthProofs!vars)
  BY <1>2, <1>3, <1>4, <1>5 DEF Health!Next, HealthProofs!Next, healthVars, HealthProofs!vars
<1> QED
  BY <1>1, <1>6, PTL DEF HealthProofs!Spec

LEMMA HealthTyped == OutcomesSpec => []Health!TypeOK
<1>1. HealthProofs!TypeOK => Health!TypeOK
  BY DEF Health!TypeOK, HealthProofs!TypeOK, Health!Places, HealthProofs!Places,
     Health!Ends, HealthProofs!Ends, Health!Ages, HealthProofs!Ages, Health!Counts,
     HealthProofs!Counts, Health!AllowedMax, HealthProofs!AllowedMax, Health!High,
     HealthProofs!High, Health!Low, HealthProofs!Low, Health!Most, HealthProofs!Most,
     Health!Start, HealthProofs!Start
<1>2. HealthProofs!Spec => []HealthProofs!TypeOK
  BY HostAssumption, HealthProofs!HealthTypes
<1> QED
  BY <1>1, <1>2, HealthSpec, PartsAlone, PTL

-------------------------------------------------------------------------------
(* Billing.                                                                *)

BillProofs == INSTANCE Billing_proofs

LEMMA BillsSpec == Bills!Init /\ [][Bills!Next]_billingVars => BillProofs!Spec
<1>1. Bills!Init => BillProofs!Init
  BY DEF Bills!Init, BillProofs!Init, Bills!NoTenant, BillProofs!NoTenant, Bills!Idle,
         BillProofs!Idle, Bills!NoUpdate, BillProofs!NoUpdate
<1>2. [Bills!Next]_billingVars => [BillProofs!Next]_(BillProofs!vars)
  BY DEF
      Bills!EnforceRead, BillProofs!EnforceRead, Bills!EnforceCommit,
      BillProofs!EnforceCommit, Bills!Register, BillProofs!Register, Bills!Checkout,
      BillProofs!Checkout, Bills!PayAgain, BillProofs!PayAgain, Bills!Pay, BillProofs!Pay,
      Bills!Ask, BillProofs!Ask, Bills!Load, BillProofs!Load, Bills!Process,
      BillProofs!Process, Bills!Administer, BillProofs!Administer, Bills!AddTenant,
      BillProofs!AddTenant, Bills!EditTenant, BillProofs!EditTenant, Bills!ToggleActive,
      BillProofs!ToggleActive, Bills!Trash, BillProofs!Trash, Bills!Restore,
      BillProofs!Restore, Bills!Purge, BillProofs!Purge, Bills!Tick, BillProofs!Tick,
      Bills!Enforce, BillProofs!Enforce, Bills!Client, BillProofs!Client, Bills!Payment,
      BillProofs!Payment, Bills!Admin, BillProofs!Admin, Bills!Next, BillProofs!Next,
      Bills!Changes, BillProofs!Changes, Bills!Commit, BillProofs!Commit, Bills!Judged,
      BillProofs!Judged, Bills!Overdue, BillProofs!Overdue, Bills!ShouldBlock,
      BillProofs!ShouldBlock, Bills!OverdueDays, BillProofs!OverdueDays, Bills!DueAt,
      BillProofs!DueAt, Bills!NewRow, BillProofs!NewRow, Bills!OnTrial, BillProofs!OnTrial,
      Bills!PendingPayment, BillProofs!PendingPayment, Bills!FromGateway,
      BillProofs!FromGateway, Bills!Settled, BillProofs!Settled, Bills!FreshSub,
      BillProofs!FreshSub, Bills!SubIds, BillProofs!SubIds, Bills!Restored,
      BillProofs!Restored, Bills!Exists, BillProofs!Exists, Bills!NoTenant,
      BillProofs!NoTenant, Bills!Purged, BillProofs!Purged, Bills!Idle, BillProofs!Idle,
      Bills!NoUpdate, BillProofs!NoUpdate, Bills!GatewayStatus, BillProofs!GatewayStatus,
      Bills!Cardinality, BillProofs!Cardinality, billingVars, BillProofs!vars
<1> QED
  BY <1>1, <1>2, PTL DEF BillProofs!Spec

LEMMA BillsTyped == OutcomesSpec => []Bills!TypeOK
<1>1. BillProofs!BillingAssumption
  BY OutcomesAssumption DEF BillProofs!BillingAssumption, BillProofs!IsFiniteSet, IsFiniteSet, Bills!Statuses
<1>2. BillProofs!Spec => []BillProofs!TypeOK
  BY <1>1, BillProofs!BillingTypes
<1>3. BillProofs!TypeOK => Bills!TypeOK
  BY DEF BillProofs!TypeOK, Bills!TypeOK, BillProofs!Rows, Bills!Rows,
         BillProofs!Statuses, Bills!Statuses, BillProofs!Dates, Bills!Dates,
         BillProofs!NoTenant, Bills!NoTenant, BillProofs!Purged, Bills!Purged,
         BillProofs!InvoiceStatus, Bills!InvoiceStatus, BillProofs!GatewayStatus,
         Bills!GatewayStatus, BillProofs!SubIds, Bills!SubIds, BillProofs!Idle,
         Bills!Idle, BillProofs!IsUpdate, Bills!IsUpdate, BillProofs!Columns,
         Bills!Columns, BillProofs!Cardinality, Bills!Cardinality
<1> QED
  BY <1>2, <1>3, PartsAlone, BillsSpec, PTL

\* However many payments are processed at once, no client is left with more ACTIVE
\* subscriptions than there are processes (_activate_subscription).
THEOREM SubscriptionsFew == OutcomesSpec => []SubscriptionsBounded
<1>1. BillProofs!IsFiniteSet(Handlers)
  BY OutcomesAssumption DEF BillProofs!IsFiniteSet, IsFiniteSet
<1>2. BillProofs!Spec => []BillProofs!SubscriptionsBounded
  BY <1>1, BillProofs!OneSubscriptionEach
<1>3. BillProofs!SubscriptionsBounded => SubscriptionsBounded
  BY DEF BillProofs!SubscriptionsBounded, SubscriptionsBounded, Bills!SubscriptionsBounded,
         BillProofs!Cardinality, Bills!Cardinality
<1> QED
  BY <1>2, <1>3, PartsAlone, BillsSpec, PTL

-------------------------------------------------------------------------------
(* The types of the log lines.                                             *)

\* Lines are numbered from one, and nothing is known of a number not yet given out.
Positive(s) == \A p \in DOMAIN s : s[p].seq >= 1
LinesKnown ==
    /\ Positive(log) /\ Positive(clear.keep)
    /\ \A w \in Writers : /\ writer[w].line.seq <= counter
                          /\ Storing(w) => writer[w].line.seq >= 1
PageFits ==
    /\ page.end <= MaxSeq /\ page.room <= Limit
    /\ \A f \in page.found : f >= 1
Marked == shown \in SUBSET (1..counter) /\ excused \in SUBSET (1..counter)
ListTypes ==
    /\ stream \in {"task", "global"} /\ aged \in 0..MaxAged
    /\ clear.at \in {"idle", "rewrite"} /\ counter <= MaxSeq
LogMore == LinesKnown /\ PageFits /\ Marked /\ ListTypes

\* Every line has a number of its own.
LEMMA LogCounted ==
    ASSUME LogInv, LinesKnown, counter <= MaxSeq
    PROVE  /\ Len(log) = Logs!Cardinality(Logs!Numbers(Logs!ToSet(log)))
           /\ Len(log) <= MaxSeq
<1> DEFINE N == Logs!Numbers(Logs!ToSet(log))
           f == [p \in 1..Len(log) |-> log[p].seq]
<1>1. /\ log \in Seq(Lines) /\ DOMAIN log = 1..Len(log) /\ Len(log) \in Nat /\ counter \in Nat
      /\ MaxSeq \in Nat
  BY OutcomesAssumption DEF LogInv, LogTypes
<1>2. N = {log[p].seq : p \in 1..Len(log)}
  BY <1>1 DEF Logs!Numbers, Logs!ToSet
<1>3. \A p \in 1..Len(log) : log[p].seq \in 1..MaxSeq
  <2>1. \A p \in DOMAIN log : log[p].seq \in Nat
    BY <1>1, Numbered
  <2> QED
    BY <1>1, <2>1 DEF LogInv, LogTypes, Bounds, UpTo, LinesKnown, Positive
<1> HIDE DEF N
<1>4. f \in Bijection(1..Len(log), N)
  <2>1. f \in [1..Len(log) -> N]
    BY <1>2
  <2>2. \A p, q \in 1..Len(log) : f[p] = f[q] => p = q
    BY <1>1 DEF LogInv, Distinct
  <2>3. \A n \in N : \E p \in 1..Len(log) : f[p] = n
    BY <1>2
  <2> HIDE DEF f
  <2> QED
    BY <2>1, <2>2, <2>3 DEF Bijection, Injection, Surjection, IsInjective
<1>5. IsFiniteSet(1..Len(log)) /\ Cardinality(1..Len(log)) = Len(log)
  <2>1. 1 \in Int /\ Len(log) \in Int
    BY <1>1
  <2>2. Cardinality(1..Len(log)) = IF 1 > Len(log) THEN 0 ELSE Len(log) - 1 + 1
    BY <2>1, FS_Interval
  <2>3. IsFiniteSet(1..Len(log))
    BY <2>1, FS_Interval
  <2> QED
    BY <1>1, <2>2, <2>3
<1>6. Cardinality(N) = Len(log) /\ IsFiniteSet(N)
  <2>1. ExistsBijection(1..Len(log), N)
    BY <1>4 DEF ExistsBijection
  <2> QED
    BY <1>5, <2>1, FS_Bijection
<1>7. Cardinality(N) <= MaxSeq
  <2>1. N \in SUBSET (1..MaxSeq)
    BY <1>2, <1>3
  <2>2. 1 \in Int /\ MaxSeq \in Int
    BY <1>1
  <2>3. IsFiniteSet(1..MaxSeq) /\ Cardinality(1..MaxSeq) = IF 1 > MaxSeq THEN 0 ELSE MaxSeq - 1 + 1
    BY <2>2, FS_Interval
  <2>4. Cardinality(N) <= Cardinality(1..MaxSeq)
    BY <2>1, <2>3, FS_Subset
  <2> QED
    BY <1>1, <2>3, <2>4
<1> QED
  BY <1>6, <1>7, Counting DEF N

LEMMA PageMoves ==
    ASSUME LogInv, LogInv', LinesKnown, PageFits, counter <= MaxSeq, [Logs!Next]_logVars
    PROVE  PageFits'
<1>1. ASSUME UNCHANGED page PROVE PageFits'
  BY <1>1 DEF PageFits
<1>2. ASSUME page' = Logs!NoPage PROVE PageFits'
  BY <1>2, OutcomesAssumption DEF PageFits, Logs!NoPage
<1>3. page \in Pages
  BY DEF LogInv, LogTypes
<1>4. CASE Logs!Ask
  <2>1. page' = page \/ page' = [page EXCEPT !.at = "count"]
    BY <1>4 DEF Logs!Ask
  <2>2. page'.end = page.end /\ page'.room = page.room /\ page'.found = page.found
    BY <1>3, <2>1 DEF Pages
  <2> QED
    BY <2>2 DEF PageFits
<1>5. CASE Logs!CountLines
  <2>1. page' = Logs!NoPage \/ page' = [at |-> "scan", end |-> Len(log), found |-> {}, room |-> Limit]
    BY <1>5 DEF Logs!CountLines
  <2>2. Len(log) <= MaxSeq /\ Limit \in Nat
    BY LogCounted, OutcomesAssumption
  <2> QED
    BY <1>2, <2>1, <2>2 DEF PageFits
<1>6. CASE Logs!Scan
  <2>1. CASE page' = Logs!NoPage
    BY <1>2, <2>1
  <2>2. CASE page' = [page EXCEPT !.end = @ - Chunk, !.found = Found,
                                  !.room = @ - Logs!Cardinality(Logs!Taken)]
    <3>1. page'.end = page.end - Chunk /\ page'.found = Found
          /\ page'.room = page.room - Logs!Cardinality(Logs!Taken)
      BY <1>3, <2>2 DEF Pages
    <3>2. page.end \in Nat /\ page.room \in Nat /\ Chunk \in Nat
          /\ Logs!Cardinality(Logs!Taken) \in Nat /\ MaxSeq \in Nat /\ Limit \in Nat
      BY <1>3, ChunkTaken, OutcomesAssumption DEF Pages
    <3>3. \A n \in Found : n >= 1
      <4>1. Logs!Taken \subseteq DOMAIN log
        BY ChunkPlaces, ChunkTaken
      <4> QED
        BY <4>1 DEF Found, PageFits, LinesKnown, Positive
    <3> QED
      BY <3>1, <3>2, <3>3 DEF PageFits
  <2> QED
    BY <1>6, <2>1, <2>2 DEF Logs!Scan, Found
<1>7. CASE Logs!AskFails
  BY <1>2, <1>7 DEF Logs!AskFails
<1>8. CASE UNCHANGED logVars
  BY <1>1, <1>8 DEF logVars
<1>9. ASSUME NEW w \in Writers,
             \/ \E mine \in BOOLEAN : Logs!Number(w, mine)
             \/ Logs!Push(w) \/ Logs!Peek(w) \/ Logs!Pop(w) \/ Logs!Trim(w) \/ Logs!Fail(w)
      PROVE  UNCHANGED page
  BY <1>9 DEF Logs!Number, Logs!Push, Logs!Peek, Logs!Pop, Logs!Trim, Logs!Fail, Logs!readers
<1>10. ASSUME (\E who \in {"me", "other", "script"} : Logs!ClearRead(who)) \/ Logs!Rewrite \/ Logs!Age
       PROVE  UNCHANGED page
  BY <1>10 DEF Logs!ClearRead, Logs!Rewrite, Logs!Age, Logs!readers
<1> QED
  BY <1>1, <1>4, <1>5, <1>6, <1>7, <1>8, <1>9, <1>10 DEF Logs!Next

LEMMA ListKeeps == LogInv /\ ListTypes /\ [Logs!Next]_logVars => ListTypes'
<1> SUFFICES ASSUME LogInv, ListTypes, [Logs!Next]_logVars PROVE ListTypes'
  OBVIOUS
<1> USE DEF ListTypes, Logs!readers
<1>1. counter \in Nat /\ MaxSeq \in Nat /\ MaxAged \in Nat
  BY OutcomesAssumption DEF LogInv, LogTypes
<1>2. CASE Logs!Ask \/ Logs!CountLines \/ Logs!Scan \/ Logs!AskFails
  BY <1>2 DEF Logs!Ask, Logs!CountLines, Logs!Scan, Logs!AskFails
<1>3. ASSUME NEW w \in Writers, NEW mine \in BOOLEAN, Logs!Number(w, mine) PROVE ListTypes'
  BY <1>1, <1>3 DEF Logs!Number
<1>4. ASSUME NEW w \in Writers, Logs!Push(w) \/ Logs!Peek(w) \/ Logs!Pop(w) \/ Logs!Trim(w) \/ Logs!Fail(w)
      PROVE  ListTypes'
  BY <1>4 DEF Logs!Push, Logs!Peek, Logs!Pop, Logs!Trim, Logs!Fail
<1>5. CASE (\E who \in {"me", "other", "script"} : Logs!ClearRead(who)) \/ Logs!Rewrite
  BY <1>5 DEF Logs!ClearRead, Logs!Rewrite, Logs!NoClear
<1>6. CASE Logs!Age
  BY <1>1, <1>6 DEF Logs!Age
<1>7. CASE UNCHANGED logVars
  BY <1>7 DEF logVars
<1> QED
  BY <1>2, <1>3, <1>4, <1>5, <1>6, <1>7 DEF Logs!Next

\* The same numbers, or fewer, or the next one.
LEMMA LinesKeep == LogInv /\ LogInv' /\ LinesKnown /\ [Logs!Next]_logVars => LinesKnown'
<1> SUFFICES ASSUME LogInv, LogInv', LinesKnown, [Logs!Next]_logVars PROVE LinesKnown'
  OBVIOUS
<1>1. counter \in Nat /\ counter' \in Nat
      /\ \A w \in Writers : writer[w] \in [at: Stages, line: Lines]
                         /\ writer[w].line.seq \in Nat /\ writer[w].line \in Lines
  BY Numbered DEF LogInv, LogTypes
<1>2. ASSUME Positive(log'), Positive(clear'.keep), Calmer, UNCHANGED counter,
             \A w \in Writers : writer'[w].line \in {writer[w].line, Logs!NoLine}
      PROVE  LinesKnown'
  <2>1. Logs!NoLine.seq = 0
    BY DEF Logs!NoLine
  <2> QED
    BY <1>1, <1>2, <2>1 DEF LinesKnown, Positive, Calmer
<1>3. ASSUME NEW w \in Writers,
             \/ \E to \in Stages \ {"push"} : Logs!Go(w, to)
             \/ writer' = [writer EXCEPT ![w] = Logs!Quiet]
      PROVE  Calmer /\ \A v \in Writers : writer'[v].line \in {writer[v].line, Logs!NoLine}
  <2>1. Calmer /\ writer \in [Writers -> [at: Stages, line: Lines]]
    BY <1>3, Moves DEF LogInv, LogTypes
  <2>2. CASE writer' = [writer EXCEPT ![w] = Logs!Quiet]
    BY <2>1, <2>2 DEF Logs!Quiet
  <2>3. ASSUME NEW to \in Stages, writer' = [writer EXCEPT ![w].at = to]
        PROVE  \A v \in Writers : writer'[v].line = writer[v].line
    <3>1. /\ \A v \in Writers \ {w} : writer'[v] = writer[v]
          /\ writer'[w] = [writer[w] EXCEPT !.at = to]
      BY <2>1, <2>3
    <3>2. writer'[w].line = writer[w].line
      BY <1>1, <3>1
    <3> QED
      BY <3>1, <3>2
  <2> QED
    BY <1>3, <2>1, <2>2, <2>3 DEF Logs!Go
<1>4. ASSUME NEW m \in Nat \ {0}, log' = SubSeq(log, m, Len(log)) PROVE Positive(log')
  <2>1. Shorter(m - 1)
    BY <1>4, FrontCut
  <2> QED
    BY <2>1 DEF Shorter, LinesKnown, Positive
<1>5. Positive(log) /\ Positive(clear.keep)
  BY DEF LinesKnown
<1>6. ASSUME UNCHANGED <<log, clear, writer, counter>> PROVE LinesKnown'
  BY <1>6 DEF LinesKnown, Positive, Storing
<1>7. CASE Logs!Ask \/ Logs!CountLines \/ Logs!Scan \/ Logs!AskFails \/ Logs!Age \/ UNCHANGED logVars
  BY <1>6, <1>7 DEF Logs!Ask, Logs!CountLines, Logs!Scan, Logs!AskFails, Logs!Age, Logs!readers, logVars
<1>8. ASSUME NEW w \in Writers, Logs!Peek(w) \/ Logs!Fail(w) PROVE LinesKnown'
  <2>1. UNCHANGED <<log, clear, counter>>
    BY <1>8 DEF Logs!Peek, Logs!Fail
  <2>2. \/ \E to \in Stages \ {"push"} : Logs!Go(w, to)
        \/ writer' = [writer EXCEPT ![w] = Logs!Quiet]
    BY <1>8 DEF Logs!Peek, Logs!Fail, Stages
  <2> QED
    BY <1>2, <1>3, <1>5, <2>1, <2>2
<1>9. ASSUME NEW w \in Writers, Logs!Pop(w) PROVE LinesKnown'
  <2>1. Positive(log') /\ UNCHANGED <<clear, counter>>
    <3>1. 2 \in Nat \ {0} /\ log' = SubSeq(log, 2, Len(log)) /\ UNCHANGED <<clear, counter>>
      BY <1>9 DEF Logs!Pop
    <3> QED
      BY <1>4, <3>1
  <2>2. \E to \in Stages \ {"push"} : Logs!Go(w, to)
    BY <1>9 DEF Logs!Pop, Stages
  <2> QED
    BY <1>2, <1>3, <1>5, <2>1, <2>2
<1>10. ASSUME NEW w \in Writers, Logs!Trim(w) PROVE LinesKnown'
  <2>1. Positive(log') /\ UNCHANGED <<clear, counter>>
    <3> DEFINE m == Logs!Max({1, Len(log) - MaxLines + 1})
    <3>1. Len(log) \in Nat /\ MaxLines \in Nat
      BY OutcomesAssumption DEF LogInv, LogTypes
    <3>2. \E x \in {1, Len(log) - MaxLines + 1} : \A y \in {1, Len(log) - MaxLines + 1} : x >= y
      BY <3>1
    <3>3. m \in {1, Len(log) - MaxLines + 1} /\ \A y \in {1, Len(log) - MaxLines + 1} : m >= y
      BY <3>2, Zenon DEF Logs!Max
    <3>4. m \in Nat \ {0}
      BY <3>1, <3>3
    <3>5. log' = SubSeq(log, m, Len(log)) /\ UNCHANGED <<clear, counter>>
      BY <1>10 DEF Logs!Trim
    <3> HIDE DEF m
    <3> QED
      BY <1>4, <3>4, <3>5
  <2>2. writer' = [writer EXCEPT ![w] = Logs!Quiet]
    BY <1>10 DEF Logs!Trim
  <2> QED
    BY <1>2, <1>3, <1>5, <2>1, <2>2
<1>11. ASSUME NEW w \in Writers, Logs!Push(w) PROVE LinesKnown'
  <2>1. /\ log' = Append(log, writer[w].line) /\ Storing(w) /\ UNCHANGED <<clear, counter>>
        /\ \E to \in Stages \ {"push"} : Logs!Go(w, to)
    BY <1>11 DEF Logs!Push, Storing, Stages
  <2>2. Positive(log')
    <3>1. log \in Seq(Lines) /\ writer[w].line \in Lines /\ writer[w].line.seq >= 1
      BY <1>1, <2>1 DEF LogInv, LogTypes, LinesKnown
    <3>2. /\ DOMAIN log = 1..Len(log) /\ DOMAIN log' = 1..(Len(log) + 1) /\ Len(log) \in Nat
          /\ \A p \in 1..Len(log) : log'[p] = log[p]
          /\ log'[Len(log) + 1] = writer[w].line
      BY <2>1, <3>1
    <3> QED
      BY <1>5, <3>1, <3>2 DEF Positive
  <2> QED
    BY <1>2, <1>3, <1>5, <2>1, <2>2
<1>12. ASSUME NEW w \in Writers, NEW mine \in BOOLEAN, Logs!Number(w, mine) PROVE LinesKnown'
  <2> DEFINE line == [seq |-> counter + 1, mine |-> mine]
  <2>1. /\ counter' = counter + 1 /\ line.seq = counter + 1
        /\ writer' = [writer EXCEPT ![w] = [at |-> "push", line |-> line]]
        /\ UNCHANGED <<log, clear>>
    BY <1>12 DEF Logs!Number
  <2> HIDE DEF line
  <2>2. /\ \A v \in Writers \ {w} : writer'[v] = writer[v]
        /\ writer'[w].line = line
    BY <2>1 DEF LogInv, LogTypes
  <2> QED
    BY <1>1, <1>5, <2>1, <2>2 DEF LinesKnown, Positive, Storing
<1>13. ASSUME NEW who, Logs!ClearRead(who) PROVE LinesKnown'
  <2>1. clear'.keep = Logs!Kept(who) /\ UNCHANGED <<log, writer, counter>>
    BY <1>13 DEF Logs!ClearRead
  <2>2. PICK n \in Nat : \E g \in [1..n -> DOMAIN log] :
               /\ Logs!Kept(who) = [k \in 1..n |-> log[g[k]]]
               /\ \A i, j \in 1..n : i < j => g[i] < g[j] /\ g[j] - g[i] >= j - i
    BY KeptInOrder
  <2>3. PICK g \in [1..n -> DOMAIN log] : Logs!Kept(who) = [k \in 1..n |-> log[g[k]]]
    BY <2>2
  <2>4. Positive(clear'.keep)
    BY <1>5, <2>1, <2>3 DEF Positive
  <2> QED
    BY <1>5, <2>1, <2>4 DEF LinesKnown, Positive, Storing
<1>14. CASE Logs!Rewrite
  <2>1. log' \in {log, clear.keep} /\ clear'.keep = <<>> /\ UNCHANGED <<writer, counter>>
    BY <1>14 DEF Logs!Rewrite, Logs!NoClear
  <2>2. Positive(log') /\ Positive(clear'.keep)
    BY <1>5, <2>1 DEF Positive
  <2> QED
    BY <2>1, <2>2 DEF LinesKnown, Positive, Storing
<1> QED
  BY <1>7, <1>8, <1>9, <1>10, <1>11, <1>12, <1>13, <1>14 DEF Logs!Next

\* Only numbers of lines that were stored are shown or excused.
LEMMA MarksKeep == LogInv /\ LogInv' /\ LinesKnown /\ PageFits /\ Marked /\ [Logs!Next]_logVars => Marked'
<1> SUFFICES ASSUME LogInv, LogInv', LinesKnown, PageFits, Marked, [Logs!Next]_logVars PROVE Marked'
  OBVIOUS
<1>1. /\ counter \in Nat /\ counter' \in Nat /\ top \in Nat /\ top <= counter
      /\ counter' \in {counter, counter + 1}
  <2>1. counter' \in {counter, counter + 1}
    <3>1. CASE Logs!Ask \/ Logs!CountLines \/ Logs!Scan \/ Logs!AskFails \/ Logs!Age
               \/ Logs!Rewrite \/ UNCHANGED logVars
      BY <3>1 DEF Logs!Ask, Logs!CountLines, Logs!Scan, Logs!AskFails, Logs!Age, Logs!Rewrite, logVars
    <3>2. ASSUME NEW w \in Writers, \/ \E mine \in BOOLEAN : Logs!Number(w, mine)
                 \/ Logs!Push(w) \/ Logs!Peek(w) \/ Logs!Pop(w) \/ Logs!Trim(w) \/ Logs!Fail(w)
          PROVE  counter' \in {counter, counter + 1}
      BY <3>2 DEF Logs!Number, Logs!Push, Logs!Peek, Logs!Pop, Logs!Trim, Logs!Fail
    <3>3. ASSUME NEW who, Logs!ClearRead(who) PROVE counter' = counter
      BY <3>3 DEF Logs!ClearRead
    <3> QED
      BY <3>1, <3>2, <3>3 DEF Logs!Next
  <2> QED
    BY <2>1 DEF LogInv, LogTypes, Bounds
<1>2. /\ \A p \in DOMAIN log : log[p].seq \in 1..counter
      /\ \A p \in DOMAIN clear.keep : clear.keep[p].seq \in 1..counter
      /\ \A w \in Writers : Storing(w) => writer[w].line.seq \in 1..counter
  <2>1. /\ \A p \in DOMAIN log : log[p].seq \in Nat
        /\ \A p \in DOMAIN clear.keep : clear.keep[p].seq \in Nat
    BY Numbered DEF LogInv, LogTypes
  <2>2. \A w \in Writers : writer[w].line.seq \in Nat
    BY Numbered DEF LogInv, LogTypes
  <2> QED
    BY <1>1, <2>1, <2>2 DEF LinesKnown, Positive, LogInv, Bounds, UpTo
<1>3. 1..counter \subseteq 1..counter'
  BY <1>1
<1>4. ASSUME NEW s, \A p \in DOMAIN s : s[p].seq \in 1..counter, NEW S \in SUBSET Logs!ToSet(s)
      PROVE  Logs!Numbers(S) \in SUBSET (1..counter)
  BY <1>4 DEF Logs!Numbers, Logs!ToSet
<1>5. ASSUME UNCHANGED <<shown, excused>> PROVE Marked'
  BY <1>3, <1>5 DEF Marked
<1> USE DEF Logs!readers
<1>6. CASE Logs!Ask \/ Logs!CountLines \/ Logs!AskFails \/ Logs!Age \/ UNCHANGED logVars
  BY <1>5, <1>6 DEF Logs!Ask, Logs!CountLines, Logs!AskFails, Logs!Age, logVars
<1>7. ASSUME NEW w \in Writers, \/ \E mine \in BOOLEAN : Logs!Number(w, mine)
             \/ Logs!Peek(w) \/ Logs!Pop(w) \/ Logs!Trim(w) \/ Logs!Fail(w)
      PROVE  Marked'
  BY <1>5, <1>7 DEF Logs!Number, Logs!Peek, Logs!Pop, Logs!Trim, Logs!Fail
<1>8. ASSUME NEW w \in Writers, Logs!Push(w) PROVE Marked'
  <2> DEFINE late_ == {l \in Logs!ToSet(log) : l.seq > writer[w].line.seq}
  <2>1. /\ shown' = shown /\ Storing(w)
        /\ excused' \in {excused, excused \cup {writer[w].line.seq} \cup Logs!Numbers(late_)}
    BY <1>8 DEF Logs!Push, Storing
  <2>2. Logs!Numbers(late_) \in SUBSET (1..counter)
    BY <1>2, <1>4
  <2> HIDE DEF late_
  <2> QED
    BY <1>2, <1>3, <2>1, <2>2 DEF Marked
<1>9. ASSUME NEW who, Logs!ClearRead(who) PROVE Marked'
  BY <1>5, <1>9 DEF Logs!ClearRead
<1>10. CASE Logs!Rewrite
  <2>1. shown' = shown /\ excused' \in {excused, excused \cup Logs!Numbers(Logs!ToSet(clear.keep))}
    BY <1>10 DEF Logs!Rewrite
  <2>2. Logs!Numbers(Logs!ToSet(clear.keep)) \in SUBSET (1..counter)
    BY <1>2, <1>4
  <2> QED
    BY <1>3, <2>1, <2>2 DEF Marked
<1>11. CASE Logs!Scan
  <2>1. /\ shown' \in {shown, shown \cup Found}
        /\ excused' \in {excused, excused \cup Logs!Numbers({l \in Logs!ToSet(log) : l.seq < cursor'})}
    BY <1>11 DEF Logs!Scan, Found
  <2>2. Logs!Numbers({l \in Logs!ToSet(log) : l.seq < cursor'}) \in SUBSET (1..counter)
    <3>1. {l \in Logs!ToSet(log) : l.seq < cursor'} \in SUBSET Logs!ToSet(log)
      OBVIOUS
    <3> QED
      BY <1>2, <1>4, <3>1
  <2>3. Found \in SUBSET (1..counter)
    <3>1. Logs!Taken \subseteq DOMAIN log
      BY ChunkPlaces, ChunkTaken
    <3>2. \A f \in page.found : f \in 1..counter
      BY <1>1 DEF PageFits, LogInv, LogTypes, Pages, Bounds
    <3> QED
      BY <1>2, <3>1, <3>2 DEF Found
  <2> QED
    BY <1>3, <2>1, <2>2, <2>3 DEF Marked
<1> QED
  BY <1>6, <1>7, <1>8, <1>9, <1>10, <1>11 DEF Logs!Next

LEMMA LogMoreInit == Logs!Init => LogMore
<1> SUFFICES ASSUME Logs!Init PROVE LogMore
  OBVIOUS
<1>1. /\ log = <<>> /\ clear.keep = <<>> /\ counter = 0 /\ aged = 0 /\ clear.at = "idle"
      /\ page = [at |-> "idle", end |-> 0, found |-> {}, room |-> 0] /\ shown = {} /\ excused = {}
      /\ writer = [w \in Writers |-> [at |-> "idle", line |-> [seq |-> 0, mine |-> TRUE]]]
      /\ stream \in {"task", "global"}
  BY DEF Logs!Init, Logs!NoClear, Logs!NoPage, Logs!Quiet, Logs!NoLine
<1>2. MaxSeq \in Nat /\ MaxAged \in Nat /\ Limit \in Nat
  BY OutcomesAssumption
<1> QED
  BY <1>1, <1>2 DEF LogMore, LinesKnown, Positive, PageFits, Marked, ListTypes, Storing

LEMMA LogMoreStep == LogInv /\ LogInv' /\ LogMore /\ [Logs!Next]_logVars => LogMore'
  BY LinesKeep, PageMoves, MarksKeep, ListKeeps DEF LogMore, ListTypes

LEMMA LogsTyped == LogInv /\ LogMore => Logs!TypeOK
<1> SUFFICES ASSUME LogInv, LogMore PROVE Logs!TypeOK
  OBVIOUS
<1> USE DEF LogMore
<1>1. /\ counter \in Nat /\ top \in Nat /\ cursor \in Nat /\ top <= counter /\ cursor <= top
      /\ MaxSeq \in Nat /\ counter <= MaxSeq
  BY OutcomesAssumption DEF LogInv, LogTypes, Bounds, ListTypes
<1>2. ASSUME NEW l \in Lines, l.seq <= counter PROVE l \in Logs!Line
  <2>1. l.seq \in 0..MaxSeq /\ l.mine \in BOOLEAN
    BY <1>1, <1>2 DEF Lines
  <2>2. l = [seq |-> l.seq, mine |-> l.mine]
    BY DEF Lines
  <2> QED
    BY <2>1, <2>2, Zenon DEF Logs!Line
<1>3. ASSUME NEW s \in Seq(Lines), UpTo(s, top) PROVE Logs!ToSet(s) \subseteq Logs!Line
  <2>1. \A p \in DOMAIN s : s[p] \in Lines /\ s[p].seq <= counter
    BY <1>1, <1>3, Numbered DEF UpTo
  <2>2. \A p \in DOMAIN s : s[p] \in Logs!Line
    BY <1>2, <2>1
  <2> QED
    BY <2>2 DEF Logs!ToSet
<1>4. Logs!ToSet(log) \subseteq Logs!Line /\ Logs!ToSet(clear.keep) \subseteq Logs!Line
  BY <1>3 DEF LogInv, LogTypes, Bounds
<1>5. writer \in [Writers -> [at: {"idle", "push", "peek", "pop", "trim"}, line: Logs!Line]]
  <2>1. writer \in [Writers -> [at: Stages, line: Lines]]
    BY DEF LogInv, LogTypes
  <2>2. ASSUME NEW w \in Writers PROVE writer[w] \in [at: {"idle", "push", "peek", "pop", "trim"}, line: Logs!Line]
    <3>1. writer[w].line \in Logs!Line
      BY <1>2, <2>1 DEF LinesKnown
    <3> HIDE DEF Logs!Line
    <3> QED
      BY <2>1, <3>1 DEF Stages
  <2> QED
    BY <2>1, <2>2
<1>6. page \in [at: {"idle", "count", "scan"}, end: 0..MaxSeq, found: SUBSET (1..MaxSeq), room: 0..Limit]
  <2>1. /\ page.at \in {"idle", "count", "scan"} /\ page.end \in Nat /\ page.found \in SUBSET Nat
        /\ page.room \in Nat
        /\ page = [at |-> page.at, end |-> page.end, found |-> page.found, room |-> page.room]
    BY DEF LogInv, LogTypes, Pages
  <2>2. page.end \in 0..MaxSeq /\ page.room \in 0..Limit
    BY <1>1, <2>1, OutcomesAssumption DEF PageFits
  <2>3. page.found \in SUBSET (1..MaxSeq)
    BY <1>1, <2>1 DEF PageFits, LogInv, Bounds
  <2> QED
    BY <2>1, <2>2, <2>3, Zenon
<1>7. /\ counter \in 0..MaxSeq /\ top \in 0..counter /\ cursor \in 0..counter
  BY <1>1
<1>8. Len(log) = Logs!Cardinality(Logs!Numbers(Logs!ToSet(log)))
  BY LogCounted, <1>1
<1> QED
  BY <1>4, <1>5, <1>6, <1>7, <1>8, Zenon DEF Logs!TypeOK, Marked, ListTypes

-------------------------------------------------------------------------------
(* The types of the dialogue.                                              *)

\* What a device sends, and the part of it that is text.
Sent == [cmd: 0..Cmds, part: 0..Parts]
Texts == Sent \ {Dialogue!Prompt}
QueuesTyped ==
    /\ coming \in Seq(Sent) /\ arrived \in Seq(Sent) /\ buffer \in Seq(Sent)
    /\ got \in Seq(Texts) /\ best.text \in Seq(Texts) /\ saved \in Seq(Texts)
SessionTyped ==
    /\ script \in Seq(Methods) /\ script # <<>> /\ cmd \in 0..Cmds
    /\ at \in {"open", "login", "ready", "sync", "reading", "judge", "choose", "done", "failed"}
    /\ opens \in 0..3 /\ enters \in 0..Enters /\ pauses \in 0..Pauses
EndsTyped == ok \in BOOLEAN /\ best.good \in BOOLEAN /\ cut \in BOOLEAN /\ late \in BOOLEAN

LEMMA SentFacts ==
    /\ Dialogue!Prompt \in Sent /\ Texts \subseteq Sent /\ Sent \subseteq Items
    /\ Seq(Texts) \subseteq Seq(Sent) /\ Seq(Sent) \subseteq Seq(Items)
    /\ <<>> \in Seq(Sent) /\ <<>> \in Seq(Texts)
    /\ <<Dialogue!Prompt>> \in Seq(Sent)
<1>1. Cmds \in Nat \ {0} /\ Parts \in Nat \ {0}
  BY OutcomesAssumption
<1>2. Dialogue!Prompt \in Sent
  BY <1>1 DEF Sent, Dialogue!Prompt
<1>3. Texts \subseteq Sent /\ Sent \subseteq Items
  BY <1>1 DEF Texts, Sent, Items
<1> QED
  BY <1>2, <1>3

\* What holds no prompt is text.
LEMMA TextOnly ==
    ASSUME NEW q \in Seq(Sent), \A i \in 1..Len(q) : q[i] # Dialogue!Prompt
    PROVE  q \in Seq(Texts)
<1>1. q = [i \in 1..Len(q) |-> q[i]] /\ Len(q) \in Nat /\ \A i \in 1..Len(q) : q[i] \in Sent
  OBVIOUS
<1>2. \A i \in 1..Len(q) : q[i] \in Texts
  BY <1>1 DEF Texts
<1> QED
  BY <1>1, <1>2

LEMMA WaitingTyped ==
    ASSUME QueuesTyped
    PROVE  /\ Dialogue!Waiting \in Seq(Sent)
           /\ ~Dialogue!PromptSeen => Dialogue!Waiting \in Seq(Texts)
<1>1. Dialogue!Waiting \in Seq(Sent)
  <2>1. buffer \in Seq(Sent) /\ arrived \in Seq(Sent)
    BY DEF QueuesTyped
  <2> QED
    BY <2>1, ConcatProperties DEF Dialogue!Waiting
<1>2. ASSUME ~Dialogue!PromptSeen PROVE Dialogue!Waiting \in Seq(Texts)
  <2> DEFINE w == Dialogue!Waiting
  <2>1. \A i \in 1..Len(w) : w[i] # Dialogue!Prompt
    <3>1. ~Asked(w) /\ w \in Seq(Items)
      BY <1>1, <1>2, SentFacts DEF Dialogue!PromptSeen, Asked
    <3> HIDE DEF w
    <3> QED
      BY <3>1, SetOf DEF Asked
  <2> HIDE DEF w
  <2>2. w \in Seq(Sent)
    BY <1>1 DEF w
  <2>3. w \in Seq(Texts)
    BY <2>1, <2>2, TextOnly
  <2> QED
    BY <2>3 DEF w
<1> QED
  BY <1>1, <1>2

LEMMA Longer ==
    ASSUME NEW q \in Seq(Texts), NEW r \in Seq(Texts)
    PROVE  q \o r \in Seq(Texts)
  BY ConcatProperties

LEMMA SentCut ==
    ASSUME NEW s \in Seq(Sent), NEW m \in Nat \ {0}, NEW n \in Nat, n <= Len(s)
    PROVE  /\ SubSeq(s, m, n) \in Seq(Sent)
           /\ Len(SubSeq(s, 1, n)) = n
           /\ \A i \in 1..n : SubSeq(s, 1, n)[i] = s[i]
<1>1. \A x \in m..n : s[x] \in Sent
  OBVIOUS
<1> QED
  BY <1>1, SubSeqProperties

LEMMA TakenTyped ==
    ASSUME QueuesTyped, Dialogue!PromptSeen, Dialogue!TakeToPrompt
    PROVE  /\ buffer' \in Seq(Sent) /\ arrived' \in Seq(Sent)
           /\ got' \in Seq(Texts)
<1> DEFINE w == Dialogue!Waiting
           end == CHOOSE i \in DOMAIN w : w[i] = Dialogue!Prompt /\ \A j \in 1..(i - 1) : w[j] # Dialogue!Prompt
           rest == SubSeq(w, end + 1, Len(w))
           text == SubSeq(w, 1, end - 1)
<1>1. w \in Seq(Sent) /\ w \in Seq(Items) /\ Asked(w)
  BY WaitingTyped, SentFacts DEF Dialogue!PromptSeen, Asked
<1>2. /\ \/ buffer' = rest /\ arrived' = <<>>
         \/ buffer' = <<>> /\ arrived' = rest
      /\ got' = got \o text
  BY DEF Dialogue!TakeToPrompt
<1> HIDE DEF w
<1>3. end \in 1..Len(w) /\ Ends(w, end)
  BY <1>1, ChosenEnd
<1> HIDE DEF end
<1>4. rest \in Seq(Sent) /\ text \in Seq(Texts)
  <2>1. /\ end + 1 \in Nat \ {0} /\ Len(w) \in Nat /\ Len(w) <= Len(w)
        /\ 1 \in Nat \ {0} /\ end - 1 \in Nat /\ end - 1 <= Len(w)
    BY <1>1, <1>3
  <2>2. rest \in Seq(Sent) /\ text \in Seq(Sent)
    BY <1>1, <2>1, SentCut
  <2>3. Len(text) = end - 1 /\ \A i \in 1..(end - 1) : text[i] = w[i]
    BY <1>1, <2>1, SentCut
  <2>4. \A i \in 1..(end - 1) : w[i] # Dialogue!Prompt
    BY <1>3 DEF Ends
  <2> HIDE DEF text
  <2>5. text \in Seq(Texts)
    BY <2>2, <2>3, <2>4, TextOnly
  <2> QED
    BY <2>2, <2>5
<1> HIDE DEF rest, text
<1>5. got \in Seq(Texts) /\ got \o text \in Seq(Texts)
  BY <1>4, Longer DEF QueuesTyped
<1> QED
  BY <1>2, <1>4, <1>5, SentFacts

\* Taking the prompts out leaves text.
LEMMA PiecesTyped ==
    ASSUME NEW q \in Seq(Sent)
    PROVE  Dialogue!Pieces(q) \in Seq(Texts)
<1> DEFINE A == {i \in DOMAIN q : q[i] # Dialogue!Prompt}
           n == Dialogue!Cardinality(A)
           Nth(k) == CHOOSE i \in A : Dialogue!Cardinality({j \in A : j <= i}) = k
<1>1. DOMAIN q = 1..Len(q) /\ Len(q) \in Nat /\ \A i \in DOMAIN q : q[i] \in Sent
  OBVIOUS
<1>2. \A T : Dialogue!Cardinality(T) = Cardinality(T)
  BY DEF Dialogue!Cardinality, Cardinality
<1>3. A \in SUBSET Nat /\ A \subseteq DOMAIN q /\ \A i \in A : i <= Len(q) /\ q[i] # Dialogue!Prompt
  BY <1>1
<1>4. Dialogue!Pieces(q) = [k \in 1..n |-> q[Nth(k)]]
  BY DEF Dialogue!Pieces
<1> HIDE DEF A
<1>5. n = Cardinality(A) /\ n \in Nat
  BY <1>1, <1>2, <1>3, Places
<1>6. ASSUME NEW k \in 1..n PROVE Nth(k) \in A
  <2>1. \A i : Rank(A, i) = Dialogue!Cardinality({j \in A : j <= i})
    BY <1>2 DEF Rank
  <2>2. \E i \in A : Rank(A, i) = k
    BY <1>1, <1>3, <1>5, RankExists
  <2>3. \E i \in A : Dialogue!Cardinality({j \in A : j <= i}) = k
    BY <2>1, <2>2, Zenon
  <2> QED
    BY <2>3, Zenon
<1> HIDE DEF Nth, n
<1>7. \A k \in 1..n : q[Nth(k)] \in Texts
  BY <1>1, <1>3, <1>6 DEF Texts
<1>8. [k \in 1..n |-> q[Nth(k)]] \in Seq(Texts)
  BY <1>5, <1>7
<1> QED
  BY <1>4, <1>8

\* What a device answers.
LEMMA AnswerTyped ==
    ASSUME NEW c \in 0..Cmds
    PROVE  /\ Dialogue!Answer(c) \in Seq(Texts)
           /\ \A r \in Dialogue!Replies(c) : r \in Seq(Sent)
<1>1. Cmds \in Nat \ {0} /\ Parts \in Nat \ {0}
  BY OutcomesAssumption
<1> DEFINE n == IF c = 0 THEN 1 ELSE Parts
<1>2. n \in Nat /\ \A i \in 1..n : i \in 0..Parts /\ i # 0
  BY <1>1
<1>3. Dialogue!Answer(c) = [i \in 1..n |-> [cmd |-> c, part |-> i]]
  BY DEF Dialogue!Answer
<1> HIDE DEF n
<1>4. \A i \in 1..n : [cmd |-> c, part |-> i] \in Texts
  BY <1>2 DEF Texts, Sent, Dialogue!Prompt
<1>5. Dialogue!Answer(c) \in Seq(Texts)
  BY <1>2, <1>3, <1>4
<1>6. Dialogue!Answer(c) \in Seq(Sent) /\ <<Dialogue!Prompt>> \in Seq(Sent)
  BY <1>5, SentFacts
<1>7. Dialogue!Answer(c) \o <<Dialogue!Prompt>> \in Seq(Sent)
  BY <1>6, ConcatProperties
<1> QED
  BY <1>5, <1>6, <1>7 DEF Dialogue!Replies

\* What was sent holds its types.
LEMMA QueuesStep ==
    ASSUME QueuesTyped, cmd \in 0..Cmds, Dialogue!Next
    PROVE  QueuesTyped'
<1>1. /\ coming \in Seq(Sent) /\ arrived \in Seq(Sent) /\ buffer \in Seq(Sent)
      /\ got \in Seq(Texts) /\ best.text \in Seq(Texts) /\ saved \in Seq(Texts)
      /\ Dialogue!Waiting \in Seq(Sent)
      /\ <<>> \in Seq(Sent) /\ <<>> \in Seq(Texts)
      /\ <<Dialogue!Prompt>> \in Seq(Sent) /\ Dialogue!Prompt \in Sent
  BY WaitingTyped, SentFacts DEF QueuesTyped
<1>2. \A q \in Seq(Sent) : Append(q, Dialogue!Prompt) \in Seq(Sent)
  BY <1>1
<1>3. ~Dialogue!PromptSeen => got \o Dialogue!Waiting \in Seq(Texts)
  BY <1>1, WaitingTyped, Longer
<1>4. CASE Dialogue!NextMethod
  BY <1>1, <1>4 DEF Dialogue!NextMethod, Dialogue!Close, Dialogue!NoText, QueuesTyped
<1>5. CASE Dialogue!Arrive
  <2>1. Tail(coming) \in Seq(Sent) /\ Append(arrived, Head(coming)) \in Seq(Sent)
    <3>1. coming # <<>>
      BY <1>5 DEF Dialogue!Arrive
    <3>2. Head(coming) \in Sent /\ Tail(coming) \in Seq(Sent)
      BY <1>1, <3>1, HeadTailProperties
    <3> QED
      BY <1>1, <3>2, AppendProperties
  <2> QED
    BY <1>1, <1>5, <2>1 DEF Dialogue!Arrive, Dialogue!result, QueuesTyped
<1>6. CASE Dialogue!Cut
  BY <1>1, <1>6 DEF Dialogue!Cut, Dialogue!result, QueuesTyped
<1>7. CASE Dialogue!Open
  BY <1>1, <1>7 DEF Dialogue!Open, Dialogue!result, QueuesTyped
<1>8. CASE Dialogue!OpenFails
  BY <1>1, <1>4, <1>8 DEF Dialogue!OpenFails, Dialogue!result, Dialogue!dialogue, QueuesTyped
<1>9. CASE Dialogue!Nudge
  BY <1>1, <1>2, <1>9 DEF Dialogue!Nudge, Dialogue!result, QueuesTyped
<1>10. CASE Dialogue!LoggedIn \/ Dialogue!Match
  BY <1>1, <1>10, TakenTyped DEF Dialogue!LoggedIn, Dialogue!Match, QueuesTyped
<1>11. CASE Dialogue!Blank
  BY <1>1, <1>2, <1>11 DEF Dialogue!Blank, QueuesTyped
<1>12. CASE Dialogue!Synced
  <2>1. buffer' \in Seq(Sent) /\ arrived' \in Seq(Sent) /\ got' \in Seq(Texts)
    BY <1>1, <1>12, TakenTyped DEF Dialogue!Synced
  <2> QED
    BY <1>1, <1>12, <2>1 DEF Dialogue!Synced, QueuesTyped
<1>13. CASE Dialogue!Send
  <2>1. coming' \in Seq(Sent)
    <3>1. CASE cut
      BY <1>1, <1>13, <3>1 DEF Dialogue!Send
    <3>2. CASE ~cut
      <4>1. PICK r \in Dialogue!Replies(cmd) : coming' = coming \o r
        BY <1>13, <3>2 DEF Dialogue!Send
      <4>2. r \in Seq(Sent)
        BY <4>1, AnswerTyped
      <4> QED
        BY <1>1, <4>1, <4>2, ConcatProperties
    <3> QED
      BY <3>1, <3>2
  <2>2. arrived' \in {arrived, <<>>} /\ got' = <<>> /\ UNCHANGED <<buffer, best, saved>>
    BY <1>13 DEF Dialogue!Send
  <2> QED
    BY <1>1, <2>1, <2>2 DEF QueuesTyped
<1>14. CASE Dialogue!Page
  BY <1>1, <1>2, <1>3, <1>14 DEF Dialogue!Page, QueuesTyped
<1>15. CASE Dialogue!Pause
  BY <1>1, <1>3, <1>15 DEF Dialogue!Pause, QueuesTyped
<1>16. CASE Dialogue!TimeOut
  BY <1>1, <1>3, <1>4, <1>16 DEF Dialogue!TimeOut, QueuesTyped
<1>17. CASE Dialogue!Eof
  BY <1>1, <1>3, <1>4, <1>17 DEF Dialogue!Eof, QueuesTyped
<1>18. CASE Dialogue!Silence
  <2>1. Dialogue!Pieces(Dialogue!Waiting) \in Seq(Texts)
    BY <1>1, PiecesTyped
  <2>2. got \o Dialogue!Pieces(Dialogue!Waiting) \in Seq(Texts)
    BY <1>1, <2>1, Longer
  <2> QED
    BY <1>1, <1>18, <2>2 DEF Dialogue!Silence, QueuesTyped
<1>19. CASE Dialogue!Judge
  <2>1. PICK good \in BOOLEAN : best' = Dialogue!Longest(good)
    BY <1>19 DEF Dialogue!Judge
  <2>2. best'.text \in {got, best.text}
    BY <2>1 DEF Dialogue!Longest
  <2>3. /\ saved' \in {got, saved} /\ got' = <<>>
        /\ UNCHANGED <<coming, arrived, buffer>>
             \/ (coming' = <<>> /\ arrived' = <<>> /\ buffer' = <<>>)
    BY <1>19 DEF Dialogue!Judge, Dialogue!Close, Dialogue!dialogue
  <2> QED
    BY <1>1, <2>2, <2>3 DEF QueuesTyped
<1>20. CASE Dialogue!Choose
  BY <1>1, <1>4, <1>20 DEF Dialogue!Choose, Dialogue!Close, QueuesTyped
<1>21. CASE Dialogue!Upload
  <2>1. Dialogue!Answer(1) \in Seq(Texts)
    <3>1. 1 \in 0..Cmds
      BY OutcomesAssumption
    <3> QED
      BY <3>1, AnswerTyped
  <2> QED
    BY <1>1, <1>21, <2>1 DEF Dialogue!Upload, Dialogue!Close, QueuesTyped
<1> QED
  BY <1>5, <1>6, <1>7, <1>8, <1>9, <1>10, <1>11, <1>12, <1>13, <1>14, <1>15, <1>16, <1>17,
     <1>18, <1>19, <1>20, <1>21 DEF Dialogue!Next, Dialogue!Session, Dialogue!Command

\* Every method opens at most three connections.
Opens(s) == \A m \in Dialogue!ToSet(s) : m.login.opens \in 0..3

LEMMA OpensFew ==
    ASSUME NEW s \in Dialogue!Scripts
    PROVE  Opens(s)
<1>1. \A m : Dialogue!ToSet(<<m>>) = {m}
  BY DEF Dialogue!ToSet
<1>2. \A m, n : Dialogue!ToSet(<<m, n>>) = {m, n}
  BY DEF Dialogue!ToSet
<1> USE DEF Dialogue!Method, Dialogue!Login
<1>3. ASSUME NEW p, NEW n \in {1, 2, 3}, NEW r, NEW k, NEW h
      PROVE  Opens(<<Dialogue!Method(Dialogue!Login(p, n), r, k, h)>>)
  BY <1>1, <1>3 DEF Opens
<1>4. ASSUME NEW p, NEW r, NEW k, NEW h, NEW q, NEW t, NEW l, NEW i, NEW n \in {1, 2, 3}, NEW j \in {1, 2, 3}
      PROVE  Opens(<<Dialogue!Method(Dialogue!Login(p, n), r, k, h),
                     Dialogue!Method(Dialogue!Login(q, j), t, l, i)>>)
  BY <1>2, <1>4 DEF Opens
<1>5. CASE s \in {Dialogue!OltCli, Dialogue!Vsol}
  BY <1>1, <1>5 DEF Opens, Dialogue!OltCli, Dialogue!Vsol, Dialogue!OltCliLogin
<1>6. CASE s = Dialogue!HuaweiOlt
  BY <1>1, <1>6 DEF Opens, Dialogue!HuaweiOlt, Dialogue!HuaweiLogin
<1>7. CASE s = Dialogue!ZteOlt
  BY <1>1, <1>7 DEF Opens, Dialogue!ZteOlt, Dialogue!ZteLogin
<1>8. CASE s = Dialogue!DigistarOlt
  BY <1>1, <1>8 DEF Opens, Dialogue!DigistarOlt, Dialogue!DigistarLogin
<1>9. CASE s = Dialogue!IntelbrasTelnet
  BY <1>1, <1>9 DEF Opens, Dialogue!IntelbrasTelnet, Dialogue!IntelbrasLogin
<1>10. CASE s = Dialogue!IntelbrasSsh
  BY <1>1, <1>10 DEF Opens, Dialogue!IntelbrasSsh
<1>11. CASE s = Dialogue!SwitchHuaweiLegacy
  BY <1>1, <1>11 DEF Opens, Dialogue!SwitchHuaweiLegacy, Dialogue!LegacyLogin
<1>12. CASE s = Dialogue!FiberhomeOlt
  BY <1>2, <1>12 DEF Opens, Dialogue!FiberhomeOlt, Dialogue!FiberhomeNetmiko, Dialogue!FiberhomePexpect,
     Dialogue!FiberhomeLogin
<1>13. CASE s = Dialogue!SwitchCisco
  BY <1>2, <1>13 DEF Opens, Dialogue!SwitchCisco, Dialogue!CiscoNetmiko, Dialogue!CiscoTelnet
<1>14. CASE s \in {Dialogue!ByProfile, Dialogue!SwitchHuawei, Dialogue!HuaweiNe, Dialogue!DatacomOlt}
  BY <1>1, <1>14 DEF Opens, Dialogue!ByProfile, Dialogue!SwitchHuawei, Dialogue!HuaweiNe, Dialogue!DatacomOlt
<1>15. CASE s \in {Dialogue!SwitchDatacom, Dialogue!SwitchTplink, Dialogue!MikrotikRos, Dialogue!Basic}
  BY <1>1, <1>15 DEF Opens, Dialogue!SwitchDatacom, Dialogue!SwitchTplink, Dialogue!MikrotikRos, Dialogue!Basic
<1> QED
  BY <1>5, <1>6, <1>7, <1>8, <1>9, <1>10, <1>11, <1>12, <1>13, <1>14, <1>15, Zenon DEF Dialogue!Scripts

LEMMA MethodOpens ==
    ASSUME NEW m \in Methods
    PROVE  m.login.opens \in 0..3
<1>1. PICK s \in Dialogue!Scripts : m \in Dialogue!ToSet(s)
  BY DEF Methods
<1> QED
  BY <1>1, OpensFew DEF Opens

LEMMA SessionStep ==
    ASSUME SessionTyped, DialogueTypes', Dialogue!Next
    PROVE  SessionTyped'
<1>1. script \in Seq(Methods) /\ script' \in Seq(Methods) /\ script' # <<>> /\ cmd' \in 0..Cmds
  BY DEF SessionTyped, DialogueTypes
<1>2. /\ at' \in {"open", "login", "ready", "sync", "reading", "judge", "choose", "done", "failed"}
      /\ opens' \in 0..3
  <2>1. opens \in 0..3 /\ at \in {"open", "login", "ready", "sync", "reading", "judge", "choose", "done", "failed"}
    BY DEF SessionTyped
  <2>2. CASE Dialogue!NextMethod
    <3>1. CASE Len(script) > 1
      <4>1. script[2] \in Methods /\ opens' = script[2].login.opens /\ at' = "open"
        BY <1>1, <2>2, <3>1 DEF Dialogue!NextMethod
      <4>2. script[2].login.opens \in 0..3
        BY <4>1, MethodOpens
      <4> QED
        BY <4>1, <4>2
    <3>2. CASE ~(Len(script) > 1)
      BY <2>1, <2>2, <3>2 DEF Dialogue!NextMethod
    <3> QED
      BY <3>1, <3>2
  <2>3. CASE Dialogue!Open \/ Dialogue!OpenFails
    BY <2>1, <2>2, <2>3 DEF Dialogue!Open, Dialogue!OpenFails
  <2>4. CASE Dialogue!Arrive \/ Dialogue!Cut \/ Dialogue!Nudge \/ Dialogue!LoggedIn
    BY <2>1, <2>4 DEF Dialogue!Arrive, Dialogue!Cut, Dialogue!Nudge, Dialogue!LoggedIn
  <2>5. CASE Dialogue!Blank \/ Dialogue!Synced \/ Dialogue!Send \/ Dialogue!Match
    BY <2>1, <2>5 DEF Dialogue!Blank, Dialogue!Synced, Dialogue!Send, Dialogue!Match, Dialogue!Ended
  <2>6. CASE Dialogue!Page \/ Dialogue!Pause \/ Dialogue!TimeOut \/ Dialogue!Eof \/ Dialogue!Silence
    BY <2>1, <2>2, <2>6 DEF Dialogue!Page, Dialogue!Pause, Dialogue!TimeOut, Dialogue!Eof,
       Dialogue!Silence, Dialogue!Ended
  <2>7. CASE Dialogue!Judge
    BY <2>1, <2>7 DEF Dialogue!Judge
  <2>8. CASE Dialogue!Choose
    BY <2>1, <2>2, <2>8 DEF Dialogue!Choose
  <2>9. CASE Dialogue!Upload
    BY <2>1, <2>9 DEF Dialogue!Upload
  <2> QED
    BY <2>3, <2>4, <2>5, <2>6, <2>7, <2>8, <2>9 DEF Dialogue!Next, Dialogue!Session, Dialogue!Command
<1>3. /\ enters' \in {enters, enters + 1} /\ (enters' = enters \/ enters < Enters)
      /\ pauses' \in {pauses, pauses + 1} /\ (pauses' = pauses \/ pauses < Pauses)
  <2>1. CASE Dialogue!NextMethod
    BY <2>1 DEF Dialogue!NextMethod
  <2>2. CASE Dialogue!Arrive \/ Dialogue!Cut \/ Dialogue!Open \/ Dialogue!OpenFails
    BY <2>1, <2>2 DEF Dialogue!Arrive, Dialogue!Cut, Dialogue!Open, Dialogue!OpenFails, Dialogue!bounds
  <2>3. CASE Dialogue!Nudge \/ Dialogue!LoggedIn \/ Dialogue!Blank \/ Dialogue!Synced
    BY <2>3 DEF Dialogue!Nudge, Dialogue!LoggedIn, Dialogue!Blank, Dialogue!Synced, Dialogue!bounds
  <2>4. CASE Dialogue!Send \/ Dialogue!Match \/ Dialogue!Page \/ Dialogue!Pause
    BY <2>4 DEF Dialogue!Send, Dialogue!Match, Dialogue!Page, Dialogue!Pause, Dialogue!bounds
  <2>5. CASE Dialogue!TimeOut \/ Dialogue!Eof \/ Dialogue!Silence
    BY <2>1, <2>5 DEF Dialogue!TimeOut, Dialogue!Eof, Dialogue!Silence, Dialogue!bounds
  <2>6. CASE Dialogue!Judge \/ Dialogue!Choose \/ Dialogue!Upload
    BY <2>1, <2>6 DEF Dialogue!Judge, Dialogue!Choose, Dialogue!Upload, Dialogue!bounds
  <2> QED
    BY <2>2, <2>3, <2>4, <2>5, <2>6 DEF Dialogue!Next, Dialogue!Session, Dialogue!Command
<1>4. enters' \in 0..Enters /\ pauses' \in 0..Pauses
  BY <1>3, OutcomesAssumption DEF SessionTyped
<1> QED
  BY <1>1, <1>2, <1>4 DEF SessionTyped

LEMMA EndsStep ==
    ASSUME EndsTyped, Dialogue!Next
    PROVE  EndsTyped'
<1>1. /\ ok' \in {ok, TRUE, FALSE} /\ cut' \in {cut, TRUE, FALSE}
      /\ \/ late' \in {late, FALSE}
         \/ late' = (late \/ coming \o buffer \o arrived' # <<>>)
      /\ best' \in {best, Dialogue!NoText} \/ \E good \in BOOLEAN : best' = Dialogue!Longest(good)
  <2>1. CASE Dialogue!NextMethod
    BY <2>1, Zenon DEF Dialogue!NextMethod
  <2>2. CASE Dialogue!Arrive \/ Dialogue!Cut \/ Dialogue!Open
    BY <2>2, Zenon DEF Dialogue!Arrive, Dialogue!Cut, Dialogue!Open, Dialogue!bounds, Dialogue!result
  <2>3. CASE Dialogue!OpenFails
    BY <2>1, <2>3, Zenon DEF Dialogue!OpenFails, Dialogue!bounds, Dialogue!result
  <2>4. CASE Dialogue!Nudge \/ Dialogue!LoggedIn \/ Dialogue!Blank \/ Dialogue!Synced
    BY <2>4, Zenon DEF Dialogue!Nudge, Dialogue!LoggedIn, Dialogue!Blank, Dialogue!Synced,
       Dialogue!bounds, Dialogue!result
  <2>5. CASE Dialogue!Send
    BY <2>5, Zenon DEF Dialogue!Send
  <2>6. CASE Dialogue!Match \/ Dialogue!Page \/ Dialogue!Pause \/ Dialogue!Silence
    BY <2>6, Zenon DEF Dialogue!Match, Dialogue!Page, Dialogue!Pause, Dialogue!Silence, Dialogue!Ended,
       Dialogue!bounds
  <2>7. CASE Dialogue!TimeOut \/ Dialogue!Eof
    BY <2>1, <2>7, Zenon DEF Dialogue!TimeOut, Dialogue!Eof, Dialogue!Ended, Dialogue!bounds
  <2>8. CASE Dialogue!Judge
    BY <2>8, Zenon DEF Dialogue!Judge, Dialogue!bounds
  <2>9. CASE Dialogue!Choose \/ Dialogue!Upload
    BY <2>1, <2>9, Zenon DEF Dialogue!Choose, Dialogue!Upload, Dialogue!bounds
  <2> QED
    BY <2>2, <2>3, <2>4, <2>5, <2>6, <2>7, <2>8, <2>9 DEF Dialogue!Next, Dialogue!Session, Dialogue!Command
<1>2. ok' \in BOOLEAN /\ cut' \in BOOLEAN /\ late' \in BOOLEAN
  BY <1>1, Zenon DEF EndsTyped
<1>3. best'.good \in BOOLEAN
  <2>1. CASE best' = best
    BY <2>1, Zenon DEF EndsTyped
  <2>2. CASE best' = Dialogue!NoText
    BY <2>2 DEF Dialogue!NoText
  <2>3. ASSUME NEW good \in BOOLEAN, best' = Dialogue!Longest(good) PROVE best'.good \in BOOLEAN
    <3>1. best' = best \/ best' = [text |-> got, good |-> good]
      BY <2>3, Zenon DEF Dialogue!Longest
    <3>2. ASSUME best' = [text |-> got, good |-> good] PROVE best'.good \in BOOLEAN
      BY <2>3, <3>2
    <3> QED
      BY <2>1, <3>1, <3>2
  <2> QED
    BY <1>1, <2>1, <2>2, <2>3
<1> QED
  BY <1>2, <1>3 DEF EndsTyped

DialogueTyped == DialogueInv /\ QueuesTyped /\ SessionTyped /\ EndsTyped

LEMMA DialogueTypedInit == Dialogue!Init => DialogueTyped
<1> SUFFICES ASSUME Dialogue!Init PROVE DialogueTyped
  OBVIOUS
<1>1. DialogueInv
  BY DialogueInitially
<1>2. QueuesTyped
  BY SentFacts DEF Dialogue!Init, QueuesTyped, Dialogue!NoText
<1>3. SessionTyped
  <2>1. script \in Seq(Methods) /\ script # <<>> /\ cmd \in 0..Cmds
    BY <1>1 DEF DialogueInv, DialogueTypes
  <2>2. Dialogue!method \in Methods
    BY <2>1 DEF Dialogue!method
  <2>3. opens \in 0..3
    BY <2>2, MethodOpens DEF Dialogue!Init
  <2> QED
    BY <2>1, <2>3, OutcomesAssumption DEF Dialogue!Init, SessionTyped
<1>4. EndsTyped
  BY DEF Dialogue!Init, EndsTyped, Dialogue!NoText
<1> QED
  BY <1>1, <1>2, <1>3, <1>4 DEF DialogueTyped

LEMMA DialogueTypedStep == DialogueTyped /\ [Dialogue!Next]_dialogueVars => DialogueTyped'
<1> SUFFICES ASSUME DialogueTyped, [Dialogue!Next]_dialogueVars PROVE DialogueTyped'
  OBVIOUS
<1>1. DialogueInv /\ DialogueInv' /\ DialogueTypes' /\ cmd \in 0..Cmds
  BY DialogueStep DEF DialogueTyped, DialogueInv, DialogueTypes
<1>2. CASE Dialogue!Next
  BY <1>1, <1>2, QueuesStep, SessionStep, EndsStep DEF DialogueTyped
<1>3. CASE UNCHANGED dialogueVars
  <2>1. QueuesTyped' /\ SessionTyped' /\ EndsTyped'
    BY <1>3, Zenon DEF DialogueTyped, QueuesTyped, SessionTyped, EndsTyped, dialogueVars
  <2> QED
    BY <1>1, <2>1 DEF DialogueTyped
<1> QED
  BY <1>2, <1>3

LEMMA DialogueTypedSays == DialogueTyped => Dialogue!TypeOK
<1> SUFFICES ASSUME DialogueTyped PROVE Dialogue!TypeOK
  OBVIOUS
<1>1. \A i \in DOMAIN script : \E s \in Dialogue!Scripts : script[i] \in Dialogue!ToSet(s)
  BY DEF DialogueTyped, SessionTyped, Methods
<1>2. \A q \in {coming, arrived, buffer, got, best.text, saved} :
        \A i \in DOMAIN q : q[i] \in [cmd : 0..Cmds, part : 0..Parts]
  <2>1. \A q \in {coming, arrived, buffer, got, best.text, saved} : q \in Seq(Sent)
    BY SentFacts DEF DialogueTyped, QueuesTyped
  <2>2. \A q \in Seq(Sent) : \A i \in DOMAIN q : q[i] \in Sent
    OBVIOUS
  <2>3. \A q \in {coming, arrived, buffer, got, best.text, saved} : \A i \in DOMAIN q : q[i] \in Sent
    BY <2>1, <2>2, Zenon
  <2> QED
    BY <2>3 DEF Sent
<1>3. ASSUME NEW q \in {got, best.text, saved} PROVE Dialogue!Prompt \notin Dialogue!ToSet(q)
  <2>1. q \in Seq(Texts)
    BY <1>3 DEF DialogueTyped, QueuesTyped
  <2>2. \A i \in DOMAIN q : q[i] # Dialogue!Prompt
    BY <2>1 DEF Texts
  <2> QED
    BY <2>2 DEF Dialogue!ToSet
<1> QED
  BY <1>1, <1>2, <1>3 DEF DialogueTyped, SessionTyped, EndsTyped, Dialogue!TypeOK

-------------------------------------------------------------------------------
(* The types of all parts.                                                 *)

\* Whatever part is studied, its variables hold what the code stores in them: also the
\* counts, states and texts that one step takes from another.
THEOREM OutcomesTypes == OutcomesSpec => []OutcomesTyped
<1>1. OutcomesSpec => []Task!TypeOK
  <2>1. Task!Init => TaskTypes /\ TaskSays
    BY TaskTypesInit, TaskTyped
  <2>2. TaskTypes /\ TaskSays => Task!TypeOK
    BY TaskTyped
  <2> QED
    BY <2>1, <2>2, TaskTypesStep, TaskSaysStep, PartsAlone, PTL
<1>2. OutcomesSpec => []Group!TypeOK
  <2>1. Group!Init => GroupInv /\ GroupSettings /\ GroupRuns
    BY GroupRunsInit DEF Group!Init, GroupInv, Working, Group!CountsAddUp
  <2>2. GroupInv /\ GroupSettings /\ GroupRuns /\ [Group!Next]_groupVars
        => (GroupInv /\ GroupSettings /\ GroupRuns)'
    BY GroupStep, GroupSettingsStep, GroupRunsStep
  <2>3. GroupInv /\ GroupSettings /\ GroupRuns => Group!TypeOK
    BY GroupTyped
  <2> QED
    BY <2>1, <2>2, <2>3, PartsAlone, PTL
<1>3. OutcomesSpec => []Store!TypeOK
  <2>1. StoreTypes /\ DatabaseTypes => Store!TypeOK
    BY StoreTyped
  <2> QED
    BY <2>1, StoreTypesInit, StoreTypesStep, DatabaseStep, PartsAlone, PTL
<1>4. OutcomesSpec => []Transfer!TypeOK
  <2>1. TransferInv => Transfer!TypeOK
    BY DEF TransferInv
  <2> QED
    BY <2>1, TransferInit, TransferStep, PartsAlone, PTL
<1>5. OutcomesSpec => []Logs!TypeOK
  BY LogInitially, LogStep, LogMoreInit, LogMoreStep, LogsTyped, PartsAlone, PTL
<1>6. OutcomesSpec => []Dialogue!TypeOK
  BY DialogueTypedInit, DialogueTypedStep, DialogueTypedSays, PartsAlone, PTL
<1>7. OutcomesSpec => []TypeOK
  BY QuotaTypesInit, QuotaTypesStep, PartsAlone, PTL
<1>8. /\ part \in Choices /\ TypeOK /\ Task!TypeOK /\ Group!TypeOK /\ Store!TypeOK
      /\ Dialogue!TypeOK /\ Transfer!TypeOK /\ Sessions!TypeOK /\ Health!TypeOK
      /\ Logs!TypeOK /\ Bills!TypeOK
      => OutcomesTyped
  BY Zenon DEF OutcomesTyped, Choices
<1> QED
  BY <1>1, <1>2, <1>3, <1>4, <1>5, <1>6, <1>7, <1>8, OnePart, SessionsTyped, HealthTyped, BillsTyped, PTL
===============================================================================
