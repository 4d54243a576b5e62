--------------------------- MODULE TaskQueueProofs ---------------------------
(***************************************************************************)
(* Proofs about TaskQueue, for every value of its constants.               *)
(***************************************************************************)
EXTENDS TaskQueue, SequenceTheorems, FiniteSetTheorems, WellFoundedInduction, TLAPS

-----------------------------------------------------------------------------
(***************************************************************************)
(* Lemmas about the operators the queue is built from.                     *)
(***************************************************************************)

\* A non-empty set of naturals has a least element: min() over the pending
\* tasks is defined.
LEMMA LeastElement ==
  ASSUME NEW S \in SUBSET Nat, S # {}
  PROVE  \E t \in S : \A u \in S : t <= u
<1> DEFINE Below(t) == 0 .. t
           T == {Below(t) : t \in S}
<1>1. T \subseteq FiniteSubsetsOf(Nat) /\ T # {}
  <2>1. \A t \in S : IsFiniteSet(Below(t)) /\ Below(t) \subseteq Nat
    BY FS_Interval
  <2> QED
    BY <2>1 DEF FiniteSubsetsOf
<1>2. PICK A \in T : \A B \in T : <<B, A>> \notin StrictSubsetOrdering(Nat)
  <2>1. IsWellFoundedOn(StrictSubsetOrdering(Nat), FiniteSubsetsOf(Nat))
    BY FS_StrictSubsetOrderingWellFounded
  <2> HIDE DEF T
  <2> QED
    BY <1>1, <2>1, WFMin
<1>3. PICK t \in S : A = Below(t)
  BY <1>2
<1>4. ASSUME NEW u \in S, ~(t <= u)
      PROVE  FALSE
  <2>1. Below(u) \subseteq Below(t) /\ t \in Below(t) /\ t \notin Below(u)
    BY <1>4
  <2>2. Below(u) \subseteq Nat /\ Below(t) \subseteq Nat
    OBVIOUS
  <2>3. <<Below(u), Below(t)>> \in StrictSubsetOrdering(Nat)
    BY <2>1, <2>2 DEF StrictSubsetOrdering
  <2> QED
    BY <1>2, <1>3, <2>3
<1> QED
  BY <1>4

\* What OldestIn returns: a member of the set that no other precedes, or 0.
LEMMA OldestInValue ==
  ASSUME NEW S \in SUBSET Nat
  PROVE  /\ S = {} => OldestIn(S) = 0
         /\ S # {} => OldestIn(S) \in S /\ \A u \in S : OldestIn(S) <= u
<1>1. CASE S = {}
  BY <1>1 DEF OldestIn
<1>2. CASE S # {}
  <2>1. OldestIn(S) = CHOOSE t \in S : \A u \in S : t <= u
    BY <1>2 DEF OldestIn
  <2> QED
    BY <1>2, <2>1, LeastElement, Zenon
<1> QED
  BY <1>1, <1>2

\* So the oldest time of a set of tasks is one of them, or 0.
LEMMA OldestInTyped ==
  ASSUME NEW n \in Nat, NEW S, S \subseteq 1 .. n
  PROVE  OldestIn(S) \in 0 .. n
<1>1. S \in SUBSET Nat
  OBVIOUS
<1>2. CASE S = {}
  BY <1>1, <1>2, OldestInValue
<1>3. CASE S # {}
  <2>1. OldestIn(S) \in S
    BY <1>1, <1>3, OldestInValue
  <2>2. 1 .. n \subseteq 0 .. n
    OBVIOUS
  <2> QED
    BY <2>1, <2>2, Zenon
<1> QED
  BY <1>2, <1>3

\* The members of a sequence are those of the set it is a sequence over.
LEMMA MembersTyped ==
  ASSUME NEW A, NEW s \in Seq(A)
  PROVE  ToSet(s) \subseteq A
  BY LenProperties, ElementOfSeq DEF ToSet

\* The tasks of a sequence form a finite set.
LEMMA MembersFinite ==
  ASSUME NEW n \in Nat, NEW S \in SUBSET (1 .. n)
  PROVE  IsFiniteSet(S) /\ Cardinality(S) \in Nat
<1>1. IsFiniteSet(1 .. n)
  BY FS_Interval
<1>2. IsFiniteSet(S)
  BY <1>1, FS_Subset
<1> QED
  BY <1>2, FS_CardinalityType

\* A listing of S in the order of s is a sequence of members of S.
LEMMA InOrderTyped ==
  ASSUME NEW n \in Nat, NEW S \in SUBSET (1 .. n), NEW s, NEW q \in InOrder(s, S)
  PROVE  /\ q \in Seq(S)
         /\ q \in Seq(1 .. n)
         /\ ToSet(q) \subseteq S
         /\ Len(q) \in Nat
<1>1. q \in [1 .. Cardinality(S) -> S]
  BY DEF InOrder, SetToSeqs
<1>2. Cardinality(S) \in Nat
  BY MembersFinite
<1>3. q \in Seq(S)
  BY <1>1, <1>2
<1> QED
  BY <1>3, SeqMonotonic, MembersTyped, LenProperties

\* Appending adds one member and one to the length.
LEMMA AppendMembers ==
  ASSUME NEW A, NEW s \in Seq(A), NEW e \in A
  PROVE  /\ Append(s, e) \in Seq(A)
         /\ Len(Append(s, e)) = Len(s) + 1
         /\ ToSet(Append(s, e)) = ToSet(s) \cup {e}
  BY AppendProperties, LenProperties DEF ToSet

\* Concatenation joins the members.
LEMMA ConcatMembers ==
  ASSUME NEW A, NEW s \in Seq(A), NEW q \in Seq(A)
  PROVE  /\ s \o q \in Seq(A)
         /\ Len(s \o q) = Len(s) + Len(q)
         /\ ToSet(s \o q) = ToSet(s) \cup ToSet(q)
<1>1. s \o q \in Seq(A) /\ Len(s \o q) = Len(s) + Len(q)
  BY ConcatProperties
<1>2. Range(s \o q) = Range(s) \cup Range(q)
  BY RangeConcatenation
<1>3. ToSet(s \o q) = Range(s \o q) /\ ToSet(s) = Range(s) /\ ToSet(q) = Range(q)
  BY DEF ToSet, Range
<1> QED
  BY <1>1, <1>2, <1>3

\* Popping an entry shortens the sequence by one and takes away no member but
\* the one popped.
LEMMA RemoveAtMembers ==
  ASSUME NEW A, NEW s \in Seq(A), NEW k \in 1 .. Len(s)
  PROVE  /\ RemoveAt(s, k) \in Seq(A)
         /\ Len(RemoveAt(s, k)) = Len(s) - 1
         /\ ToSet(RemoveAt(s, k)) \subseteq ToSet(s)
         /\ ToSet(s) \ {s[k]} \subseteq ToSet(RemoveAt(s, k))
<1> DEFINE front == SubSeq(s, 1, k - 1)
           back == SubSeq(s, k + 1, Len(s))
<1>1. Len(s) \in Nat /\ DOMAIN s = 1 .. Len(s) /\ \A i \in 1 .. Len(s) : s[i] \in A
  BY LenProperties, ElementOfSeq
<1>2. /\ front \in Seq(A)
      /\ Len(front) = k - 1
      /\ \A i \in 1 .. (k - 1) : front[i] = s[i]
  BY <1>1, SubSeqProperties
<1>3. /\ back \in Seq(A)
      /\ Len(back) = Len(s) - k
      /\ \A i \in 1 .. (Len(s) - k) : back[i] = s[k + i]
  <2>1. k + 1 \in Int /\ Len(s) \in Int /\ \A i \in (k + 1) .. Len(s) : s[i] \in A
    BY <1>1
  <2>2. /\ back \in Seq(A)
        /\ Len(back) = IF k + 1 <= Len(s) THEN Len(s) - (k + 1) + 1 ELSE 0
        /\ \A i \in 1 .. (Len(s) - (k + 1) + 1) : back[i] = s[(k + 1) + i - 1]
    BY <2>1, SubSeqProperties
  <2>3. \A i \in 1 .. (Len(s) - k) : (k + 1) + i - 1 = k + i
    BY <1>1
  <2>4. \A n \in Nat : \A j \in 1 .. n :
          n - (j + 1) + 1 = n - j /\ (~(j + 1 <= n) => n - j = 0)
    OBVIOUS
  <2> HIDE DEF back
  <2>5. Len(back) = Len(s) - k
    BY <1>1, <2>2, <2>4
  <2>6. \A i \in 1 .. (Len(s) - k) : back[i] = s[k + i]
    BY <1>1, <2>2, <2>3, <2>4
  <2> QED
    BY <2>2, <2>5, <2>6
<1> HIDE DEF front, back
<1>4. /\ front \o back \in Seq(A)
      /\ Len(front \o back) = Len(front) + Len(back)
      /\ ToSet(front \o back) = ToSet(front) \cup ToSet(back)
  BY <1>2, <1>3, ConcatMembers
<1>5. ToSet(front) = {s[i] : i \in 1 .. (k - 1)}
  BY <1>1, <1>2, LenProperties DEF ToSet
<1>6. ToSet(back) = {s[k + i] : i \in 1 .. (Len(s) - k)}
  BY <1>1, <1>3, LenProperties DEF ToSet
<1>7. ToSet(s) = {s[i] : i \in 1 .. Len(s)}
  BY <1>1 DEF ToSet
<1>8. {s[k + i] : i \in 1 .. (Len(s) - k)} = {s[i] : i \in (k + 1) .. Len(s)}
  <2>1. \A i \in (k + 1) .. Len(s) : i - k \in 1 .. (Len(s) - k) /\ k + (i - k) = i
    BY <1>1
  <2>2. \A i \in 1 .. (Len(s) - k) : k + i \in (k + 1) .. Len(s)
    BY <1>1
  <2> QED
    BY <2>1, <2>2
<1>9. RemoveAt(s, k) = front \o back
  BY DEF RemoveAt, front, back
<1>10. 1 .. Len(s) = (1 .. (k - 1)) \cup {k} \cup ((k + 1) .. Len(s))
  BY <1>1
<1>11. Len(RemoveAt(s, k)) = Len(s) - 1
  <2>1. Len(RemoveAt(s, k)) = (k - 1) + (Len(s) - k)
    BY <1>2, <1>3, <1>4, <1>9
  <2> QED
    BY <1>1, <2>1
<1>12. ToSet(RemoveAt(s, k)) =
         {s[i] : i \in 1 .. (k - 1)} \cup {s[i] : i \in (k + 1) .. Len(s)}
  BY <1>4, <1>5, <1>6, <1>8, <1>9
<1> QED
  BY <1>4, <1>7, <1>9, <1>10, <1>11, <1>12

\* Writing an entry of _completed keeps it a sequence of tasks.
LEMMA StoredTyped ==
  ASSUME NEW A, NEW s \in Seq(A), NEW t \in A
  PROVE  Stored(s, t) \in Seq(A)
<1>1. Append(s, t) \in Seq(A)
  BY AppendMembers
<1>2. [k \in DOMAIN s |-> IF idOf[s[k]] = idOf[t] THEN t ELSE s[k]] \in Seq(A)
  <2>1. Len(s) \in Nat /\ DOMAIN s = 1 .. Len(s) /\ \A k \in 1 .. Len(s) : s[k] \in A
    BY LenProperties, ElementOfSeq
  <2> QED
    BY <2>1
<1> QED
  BY <1>1, <1>2 DEF Stored

\* Trimming the bounded cache drops entries, nothing else.
LEMMA TrimmedTyped ==
  ASSUME NEW A, NEW s \in Seq(A)
  PROVE  Trimmed(s) \in Seq(A)
<1>1. Len(s) \in Nat /\ \A k \in 1 .. Len(s) : s[k] \in A
  BY LenProperties, ElementOfSeq
<1>2. CASE Len(s) > CacheMax
  <2>1. SubSeq(s, Len(s) - CacheMax + 1, Len(s)) \in Seq(A)
    BY <1>1, <1>2, QueueAssumption, SubSeqProperties DEF QueueAssumption
  <2> QED
    BY <1>2, <2>1 DEF Trimmed
<1>3. CASE ~(Len(s) > CacheMax)
  BY <1>3 DEF Trimmed
<1> QED
  BY <1>2, <1>3

-----------------------------------------------------------------------------
(***************************************************************************)
(* Type correctness.                                                       *)
(***************************************************************************)

\* In a typed state the numbers of the tasks created so far are tasks.
LEMMA CreatedAreTasks ==
  ASSUME TypeOK
  PROVE  /\ created \in Nat
         /\ 1 .. created \subseteq Task
         /\ 1 .. created \in SUBSET Nat
         /\ ToSet(pending) \subseteq 1 .. created
         /\ DOMAIN pending = 1 .. Len(pending) /\ Len(pending) \in Nat
         /\ \A k \in DOMAIN pending : pending[k] \in 1 .. created
<1>1. created \in 0 .. MaxTasks /\ pending \in Seq(1 .. created)
  BY DEF TypeOK
<1>2. MaxTasks \in Nat
  BY QueueAssumption DEF QueueAssumption
<1> QED
  BY <1>1, <1>2, MembersTyped, LenProperties, ElementOfSeq DEF Task

\* What complete and cancel do to the queue keeps every field in its type.
LEMMA RetireTyped ==
  ASSUME TypeOK, NEW i \in TaskIds, NEW k \in DOMAIN pending,
         NEW filed \in Seq(1 .. created), NEW state \in TaskState,
         Retire(i, k, filed, state)
  PROVE  /\ created' \in 0 .. MaxTasks
         /\ idOf' \in [Task -> TaskIds \cup {NoId}]
         /\ returned' \in [Task -> BOOLEAN]
         /\ pending' \in Seq(1 .. created')
         /\ completed' \in Seq(1 .. created')
         /\ processing' \subseteq TaskIds
         /\ states' \in [TaskIds -> TaskState \cup {Unknown}]
         /\ enqueueCount' \in 0 .. MaxEnqueues
         /\ oldest' \in 0 .. created'
         /\ held' \in [Drainers -> Seq(1 .. created')]
<1>1. UNCHANGED <<created, idOf, returned, enqueueCount, held>>
  BY DEF Retire
<1>2. pending' \in Seq(1 .. created)
  <2>1. k \in 1 .. Len(pending) /\ pending \in Seq(1 .. created)
    BY CreatedAreTasks DEF TypeOK
  <2>2. RemoveAt(pending, k) \in Seq(1 .. created)
    BY <2>1, RemoveAtMembers
  <2> QED
    BY <2>2 DEF Retire
<1>3. processing' \subseteq TaskIds
  BY DEF Retire, MarkDiscarded, TypeOK
<1>4. states' \in [TaskIds -> TaskState \cup {Unknown}]
  BY DEF Retire, StateSet, TypeOK
<1>5. oldest' \in 0 .. created
  <2>1. OldestIn(ToSet(pending) \ {pending[k]}) \in 0 .. created
    BY CreatedAreTasks, OldestInTyped
  <2> QED
    BY <2>1 DEF Retire, TypeOK
<1>6. completed' \in Seq(1 .. created)
  BY DEF Retire
<1> QED
  BY <1>1, <1>2, <1>3, <1>4, <1>5, <1>6 DEF TypeOK

\* Every step keeps every field in its type and within its bound.
LEMMA TypeStep ==
  ASSUME TypeOK, [Next]_qvars
  PROVE  TypeOK'
<1> USE QueueAssumption DEF QueueAssumption
<1>1. ASSUME NEW i \in TaskIds, Enqueue(i)
      PROVE  TypeOK'
  <2>1. created + 1 \in Task /\ 1 .. created \subseteq 1 .. created'
    BY <1>1, CreatedAreTasks DEF Enqueue, Task
  <2>2. /\ pending \in Seq(1 .. created') /\ completed \in Seq(1 .. created')
        /\ \A d \in Drainers : held[d] \in Seq(1 .. created')
    BY <2>1, SeqMonotonic DEF TypeOK
  <2>3. pending' \in Seq(1 .. created')
    <3>1. created + 1 \in 1 .. created'
      BY <1>1, CreatedAreTasks DEF Enqueue
    <3>2. Append(pending, created + 1) \in Seq(1 .. created')
      BY <2>2, <3>1, AppendMembers
    <3> QED
      BY <1>1, <3>2 DEF Enqueue
  <2>4. held' \in [Drainers -> Seq(1 .. created')]
    BY <1>1, <2>2 DEF Enqueue, TypeOK
  <2>5. states' \in [TaskIds -> TaskState \cup {Unknown}]
    BY <1>1 DEF Enqueue, TypeOK, TaskState
  <2>6. /\ created' \in 0 .. MaxTasks /\ oldest' \in 0 .. created'
        /\ enqueueCount' \in 0 .. MaxEnqueues
    BY <1>1 DEF Enqueue, OldestWith, TypeOK
  <2> QED
    BY <1>1, <2>1, <2>2, <2>3, <2>4, <2>5, <2>6 DEF Enqueue, TypeOK
<1>2. ASSUME NEW d \in Drainers, Drain(d)
      PROVE  TypeOK'
  <2> DEFINE idle == {t \in ToSet(pending) : idOf[t] \notin processing}
  <2>1. PICK q \in InOrder(pending, idle) : held' = [held EXCEPT ![d] = q]
    BY <1>2 DEF Drain
  <2>2. created \in Nat /\ idle \in SUBSET (1 .. created)
    BY CreatedAreTasks
  <2> HIDE DEF idle
  <2>3. q \in Seq(1 .. created)
    BY <2>1, <2>2, InOrderTyped
  <2> QED
    BY <1>2, <2>1, <2>3 DEF Drain, TypeOK, objects, counters
<1>3. ASSUME NEW d \in Drainers, Requeue(d)
      PROVE  TypeOK'
  <2> DEFINE gone == {t \in ToSet(Tail(held[d])) :
                        idOf[t] \notin PendingIds /\ idOf[t] \notin processing}
  <2>1. PICK q \in InOrder(held[d], gone) :
          /\ enqueueCount + Len(q) <= MaxEnqueues
          /\ pending' = pending \o q
          /\ enqueueCount' = enqueueCount + RequeueCount(q)
    BY <1>3 DEF Requeue
  <2>2. created \in Nat /\ gone \in SUBSET (1 .. created)
    <3>1. held[d] \in Seq(1 .. created) /\ held[d] # <<>>
      BY <1>3 DEF TypeOK, Requeue
    <3>2. ToSet(Tail(held[d])) \subseteq 1 .. created
      BY <3>1, HeadTailProperties, MembersTyped
    <3> QED
      BY <3>2, CreatedAreTasks
  <2> HIDE DEF gone
  <2>3. q \in Seq(1 .. created) /\ Len(q) \in Nat
    BY <2>1, <2>2, InOrderTyped
  <2>4. pending' \in Seq(1 .. created)
    BY <2>1, <2>3, ConcatMembers DEF TypeOK
  <2>5. enqueueCount' \in 0 .. MaxEnqueues
    BY <2>1, <2>3 DEF TypeOK, RequeueCount
  <2>6. held' \in [Drainers -> Seq(1 .. created)]
    BY <1>3, EmptySeq DEF TypeOK, Requeue
  <2> QED
    BY <1>3, <2>4, <2>5, <2>6 DEF Requeue, TypeOK, objects
<1>4. ASSUME NEW i \in TaskIds, MarkProcessing(i)
      PROVE  TypeOK'
  BY <1>4 DEF MarkProcessing, TypeOK, objects, counters
<1>5. ASSUME NEW i \in TaskIds, NEW to \in Targets, Transition(i, to)
      PROVE  TypeOK'
  <2>1. to \in TaskState
    BY <1>5 DEF Transition, CanTransition, Transitions, TaskState, Terminal
  <2> QED
    BY <1>5, <2>1 DEF Transition, TypeOK, objects, counters
<1>6. ASSUME NEW i \in TaskIds, NEW a \in Answers, Complete(i, a)
      PROVE  TypeOK'
  <2>1. PICK k \in DOMAIN pending :
          /\ Retire(i, k, Trimmed(Stored(completed, pending[k])), "completed")
          /\ response' = Answered(pending[k], a)
          /\ completeCount' = completeCount + 1
          /\ UNCHANGED cancelCount
    BY <1>6 DEF Complete
  <2>2. Trimmed(Stored(completed, pending[k])) \in Seq(1 .. created)
    BY CreatedAreTasks, StoredTyped, TrimmedTyped DEF TypeOK
  <2>3. "completed" \in TaskState
    BY DEF TaskState, Terminal
  <2>4. response' \in [Task -> Response]
    BY <2>1, CreatedAreTasks DEF Answered, TypeOK, Response
  <2>5. completeCount' \in Nat /\ cancelCount' \in Nat
    BY <2>1 DEF TypeOK
  <2> HIDE DEF QueueAssumption
  <2> QED
    BY <2>1, <2>2, <2>3, <2>4, <2>5, RetireTyped, SMTT(20) DEF TypeOK
<1>7. ASSUME NEW i \in TaskIds, Cancel(i)
      PROVE  TypeOK'
  <2>1. PICK k \in DOMAIN pending :
          /\ Retire(i, k, Stored(completed, pending[k]), "canceled")
          /\ response' = [response EXCEPT ![pending[k]] = Canceled]
          /\ cancelCount' = cancelCount + 1
          /\ UNCHANGED completeCount
    BY <1>7 DEF Cancel
  <2>2. Stored(completed, pending[k]) \in Seq(1 .. created)
    BY CreatedAreTasks, StoredTyped DEF TypeOK
  <2>3. "canceled" \in TaskState
    BY DEF TaskState, Terminal
  <2>4. response' \in [Task -> Response]
    BY <2>1, CreatedAreTasks DEF TypeOK, Response
  <2>5. completeCount' \in Nat /\ cancelCount' \in Nat
    BY <2>1 DEF TypeOK
  <2> HIDE DEF QueueAssumption
  <2> QED
    BY <2>1, <2>2, <2>3, <2>4, <2>5, RetireTyped, SMTT(20) DEF TypeOK
<1>8. ASSUME NEW i \in TaskIds, NEW s, SetAuth(i, s)
      PROVE  TypeOK'
  BY <1>8 DEF SetAuth, TypeOK, TaskState, objects, counters
<1>9. ASSUME NEW t \in Task, NEW r \in FailTexts, FailResponse(t, r)
      PROVE  TypeOK'
  BY <1>9 DEF FailResponse, TypeOK, Response, counters
<1>10. ASSUME NEW t \in Task, GiveUp(t)
       PROVE  TypeOK'
  BY <1>10 DEF GiveUp, TypeOK, counters
<1>11. CASE UNCHANGED qvars
  BY <1>11 DEF qvars, objects, counters, TypeOK
<1> QED
  BY <1>1, <1>2, <1>3, <1>4, <1>5, <1>6, <1>7, <1>8, <1>9, <1>10, <1>11 DEF Next

\* Every field of the queue keeps its type and its bound, whatever the
\* callers do and however large the bounds are.
THEOREM TypeCorrect == Spec => []TypeOK
<1>1. Init => TypeOK
  <2> SUFFICES ASSUME Init PROVE TypeOK
    OBVIOUS
  <2>1. <<>> \in Seq(1 .. created)
    BY EmptySeq
  <2> QED
    BY <2>1, QueueAssumption DEF QueueAssumption, Init, TypeOK, Response
<1>2. TypeOK /\ [Next]_qvars => TypeOK'
  BY TypeStep
<1> QED
  BY <1>1, <1>2, PTL DEF Spec

-----------------------------------------------------------------------------
(***************************************************************************)
(* The safety of the queue.  None of its invariants is inductive: the      *)
(* counters must be known not to drift before max(0, ...) can be dropped,  *)
(* and the oldest time survives requeue_tasks, which does not maintain it, *)
(* only because no task with a waiter ever leaves the queue.               *)
(***************************************************************************)

\* The counters are exact without the max(0, ...) of pending_count.
CountsPending == enqueueCount - completeCount - cancelCount = Len(pending)

\* A pending task that somebody waits for keeps _oldest_pending_time set, to
\* its own time or an earlier one.
OldestCovers ==
  \A t \in ToSet(pending) :
    response[t] = NoResponse /\ ~returned[t] => oldest # 0 /\ oldest <= t

\* The id of every task created has a state, and keeps one.
EveryTaskHasState == \A t \in 1 .. created : states[idOf[t]] # Unknown

QueueInv ==
  /\ TypeOK
  /\ ProcessingIsPending
  /\ CountsPending
  /\ NoStrandedWaiter
  /\ OldestCovers
  /\ EveryTaskHasState

\* complete and cancel take a task out of the queue only together with its
\* mark, with the reason to wait for it, and with its place as the oldest.
LEMMA RetireKeepsInv ==
  ASSUME QueueInv, TypeOK', NEW i \in TaskIds, NEW k \in DOMAIN pending,
         NEW filed, NEW state \in TaskState, Retire(i, k, filed, state),
         \A u \in 1 .. created : u # pending[k] => response'[u] = response[u],
         response'[pending[k]] # NoResponse \/ returned[pending[k]]
  PROVE  /\ ProcessingIsPending'
         /\ Len(pending') = Len(pending) - 1
         /\ NoStrandedWaiter'
         /\ OldestCovers'
         /\ EveryTaskHasState'
<1> DEFINE t == pending[k]
<1>1. TypeOK /\ t \in 1 .. created /\ ToSet(pending) \subseteq 1 .. created
  BY CreatedAreTasks DEF QueueInv
<1>2. /\ Len(pending') = Len(pending) - 1
      /\ ToSet(pending') \subseteq ToSet(pending)
      /\ ToSet(pending) \ {t} \subseteq ToSet(pending')
  <2>1. k \in 1 .. Len(pending) /\ pending \in Seq(1 .. created)
    BY <1>1, CreatedAreTasks DEF TypeOK
  <2> QED
    BY <2>1, RemoveAtMembers DEF Retire
<1>3. idOf' = idOf /\ idOf[t] = i /\ created' = created /\ returned' = returned
  BY DEF Retire
<1>4. \A u \in 1 .. created :
        response'[u] = NoResponse /\ ~returned[u] => u # t /\ response[u] = NoResponse
  BY <1>1
<1>5. ProcessingIsPending'
  <2> SUFFICES ASSUME NEW j \in processing' PROVE j \in PendingIds'
    BY DEF ProcessingIsPending
  <2>1. j \in processing /\ j # i
    BY DEF Retire, MarkDiscarded
  <2>2. PICK u \in ToSet(pending) : idOf[u] = j
    BY <2>1 DEF QueueInv, ProcessingIsPending, PendingIds, IdsOf
  <2>3. u \in ToSet(pending')
    BY <1>2, <1>3, <2>1, <2>2
  <2> QED
    BY <1>3, <2>2, <2>3 DEF PendingIds, IdsOf
<1>6. NoStrandedWaiter'
  BY <1>2, <1>3, <1>4 DEF QueueInv, NoStrandedWaiter
<1>7. OldestCovers'
  <2> SUFFICES ASSUME NEW u \in ToSet(pending'), response'[u] = NoResponse, ~returned[u]
               PROVE  oldest' # 0 /\ oldest' <= u
    BY <1>3 DEF OldestCovers
  <2>1. u \in ToSet(pending) /\ u \in 1 .. created /\ u # t /\ response[u] = NoResponse
    BY <1>1, <1>2, <1>4
  <2>2. CASE t = oldest
    <3> DEFINE rest == ToSet(pending) \ {t}
    <3>1. rest \in SUBSET Nat /\ u \in rest /\ rest \subseteq 1 .. created
      BY <1>1, <2>1
    <3>2. oldest' = OldestIn(rest)
      BY <2>2 DEF Retire
    <3> HIDE DEF rest
    <3>3. oldest' \in rest /\ oldest' <= u
      BY <3>1, <3>2, OldestInValue
    <3> QED
      BY <3>1, <3>3
  <2>3. CASE t # oldest
    BY <2>1, <2>3 DEF Retire, QueueInv, OldestCovers
  <2> QED
    BY <2>2, <2>3
<1>8. EveryTaskHasState'
  <2>1. Unknown \notin TaskState
    BY DEF Unknown, TaskState, Terminal
  <2> QED
    BY <1>1, <1>3, <2>1 DEF Retire, StateSet, QueueInv, EveryTaskHasState, TypeOK
<1> QED
  BY <1>2, <1>5, <1>6, <1>7, <1>8

\* Every step keeps the inductive invariant.
LEMMA InvStep ==
  ASSUME QueueInv, [Next]_qvars
  PROVE  QueueInv'
<1>0. TypeOK /\ TypeOK' /\ created \in Nat /\ ToSet(pending) \subseteq 1 .. created
  BY TypeStep, CreatedAreTasks DEF QueueInv
<1>1. ASSUME NEW i \in TaskIds, Enqueue(i)
      PROVE  QueueInv'
  <2>1. /\ Len(pending') = Len(pending) + 1
        /\ ToSet(pending') = ToSet(pending) \cup {created + 1}
    <3>1. pending \in Seq(1 .. (created + 1)) /\ created + 1 \in 1 .. (created + 1)
      <4>1. 1 .. created \subseteq 1 .. (created + 1)
        BY <1>0
      <4> QED
        BY <1>0, <4>1, SeqMonotonic DEF TypeOK
    <3> QED
      BY <1>1, <3>1, AppendMembers DEF Enqueue
  <2>2. \A t \in 1 .. created' : t \in 1 .. created \/ t = created + 1
    BY <1>0, <1>1 DEF Enqueue
  <2>3. \A t \in 1 .. created : idOf'[t] = idOf[t]
    BY <1>0, <1>1 DEF Enqueue, TypeOK
  <2>4. idOf'[created + 1] = i
    BY <1>0, <1>1, QueueAssumption DEF Enqueue, TypeOK, Task, QueueAssumption
  <2>5. ProcessingIsPending'
    BY <1>0, <1>1, <2>1, <2>3
       DEF Enqueue, QueueInv, ProcessingIsPending, PendingIds, IdsOf
  <2>6. CountsPending'
    <3>1. enqueueCount' = enqueueCount + 1 /\ completeCount' = completeCount /\ cancelCount' = cancelCount
      BY <1>1 DEF Enqueue
    <3>2. enqueueCount \in Nat /\ completeCount \in Nat /\ cancelCount \in Nat /\ Len(pending) \in Nat
      BY <1>0 DEF TypeOK
    <3>3. enqueueCount - completeCount - cancelCount = Len(pending)
      BY DEF QueueInv, CountsPending
    <3> QED
      BY <2>1, <3>1, <3>2, <3>3 DEF CountsPending
  <2>7. NoStrandedWaiter'
    <3>1. response' = response /\ returned' = returned
      BY <1>1 DEF Enqueue
    <3>2. \A t \in 1 .. created : response[t] = NoResponse /\ ~returned[t] => t \in ToSet(pending)
      BY DEF QueueInv, NoStrandedWaiter
    <3> QED
      BY <2>1, <2>2, <3>1, <3>2 DEF NoStrandedWaiter
  <2>8. OldestCovers'
    <3>1. oldest \in Nat
      BY <1>0 DEF TypeOK
    <3> QED
      BY <1>0, <1>1, <2>1, <3>1 DEF Enqueue, OldestWith, QueueInv, OldestCovers
  <2>9. EveryTaskHasState'
    <3>1. \A j \in TaskIds : states[j] # Unknown => states'[j] # Unknown
      BY <1>0, <1>1 DEF Enqueue, TypeOK, Unknown
    <3>2. states'[i] # Unknown
      BY <1>0, <1>1 DEF Enqueue, TypeOK, Unknown
    <3>3. \A t \in 1 .. created : states'[idOf[t]] # Unknown
      BY <1>0, <1>1 DEF Enqueue, QueueInv, EveryTaskHasState, TypeOK, Unknown
    <3> QED
      BY <2>2, <2>3, <2>4, <3>2, <3>3 DEF EveryTaskHasState
  <2> QED
    BY <1>0, <2>5, <2>6, <2>7, <2>8, <2>9 DEF QueueInv
<1>2. ASSUME NEW d \in Drainers, Drain(d)
      PROVE  QueueInv'
  BY <1>0, <1>2
     DEF Drain, objects, counters, QueueInv, ProcessingIsPending, PendingIds, IdsOf,
         CountsPending, NoStrandedWaiter, OldestCovers, EveryTaskHasState
<1>3. ASSUME NEW d \in Drainers, Requeue(d)
      PROVE  QueueInv'
  <2> DEFINE gone == {t \in ToSet(Tail(held[d])) :
                        idOf[t] \notin PendingIds /\ idOf[t] \notin processing}
  <2>1. PICK q \in InOrder(held[d], gone) :
          /\ pending' = pending \o q
          /\ enqueueCount' = enqueueCount + RequeueCount(q)
    BY <1>3 DEF Requeue
  <2>2. gone \subseteq 1 .. created /\ \A t \in gone : t \notin ToSet(pending)
    <3>1. held[d] \in Seq(1 .. created) /\ held[d] # <<>>
      BY <1>0, <1>3 DEF TypeOK, Requeue
    <3>2. ToSet(Tail(held[d])) \subseteq 1 .. created
      BY <3>1, HeadTailProperties, MembersTyped
    <3> QED
      BY <3>2 DEF PendingIds, IdsOf
  <2> HIDE DEF gone
  <2>3. q \in Seq(1 .. created) /\ Len(q) \in Nat /\ ToSet(q) \subseteq gone
    BY <1>0, <2>1, <2>2, InOrderTyped
  <2>4. /\ Len(pending') = Len(pending) + Len(q)
        /\ ToSet(pending') = ToSet(pending) \cup ToSet(q)
    BY <1>0, <2>1, <2>3, ConcatMembers DEF TypeOK
  <2>5. /\ UNCHANGED <<created, idOf, response, returned, processing, states>>
        /\ UNCHANGED <<completeCount, cancelCount, oldest>>
    BY <1>3 DEF Requeue, objects
  <2>6. \A t \in ToSet(q) : response[t] # NoResponse \/ returned[t]
    BY <2>2, <2>3 DEF QueueInv, NoStrandedWaiter
  <2>7. ProcessingIsPending'
    BY <2>4, <2>5 DEF QueueInv, ProcessingIsPending, PendingIds, IdsOf
  <2>8. CountsPending'
    BY <1>0, <2>1, <2>3, <2>4, <2>5, CreatedAreTasks
       DEF QueueInv, CountsPending, RequeueCount, TypeOK
  <2>9. NoStrandedWaiter'
    BY <2>4, <2>5 DEF QueueInv, NoStrandedWaiter
  <2>10. OldestCovers'
    BY <2>4, <2>5, <2>6 DEF QueueInv, OldestCovers
  <2>11. EveryTaskHasState'
    BY <2>5 DEF QueueInv, EveryTaskHasState
  <2> QED
    BY <1>0, <2>7, <2>8, <2>9, <2>10, <2>11 DEF QueueInv
<1>4. ASSUME NEW i \in TaskIds, MarkProcessing(i)
      PROVE  QueueInv'
  BY <1>0, <1>4
     DEF MarkProcessing, objects, counters, QueueInv, ProcessingIsPending, PendingIds,
         IdsOf, CountsPending, NoStrandedWaiter, OldestCovers, EveryTaskHasState
<1>5. ASSUME NEW i \in TaskIds, NEW state \in TaskState,
             states' = [states EXCEPT ![i] = state],
             UNCHANGED <<objects, pending, completed, processing, counters, oldest, held>>
      PROVE  QueueInv'
  <2>1. Unknown \notin TaskState
    BY DEF Unknown, TaskState, Terminal
  <2>2. EveryTaskHasState'
    BY <1>0, <1>5, <2>1 DEF objects, QueueInv, EveryTaskHasState, TypeOK
  <2> QED
    BY <1>0, <1>5, <2>2
       DEF objects, counters, QueueInv, ProcessingIsPending, PendingIds, IdsOf,
           CountsPending, NoStrandedWaiter, OldestCovers
<1>6. ASSUME NEW i \in TaskIds, NEW to \in Targets, Transition(i, to)
      PROVE  QueueInv'
  <2>1. to \in TaskState
    BY <1>6 DEF Transition, CanTransition, Transitions, TaskState, Terminal
  <2> QED
    BY <1>5, <1>6, <2>1 DEF Transition
<1>7. ASSUME NEW i \in TaskIds, NEW s, SetAuth(i, s)
      PROVE  QueueInv'
  <2>1. s \in TaskState
    BY <1>7 DEF SetAuth, TaskState
  <2> QED
    BY <1>5, <1>7, <2>1 DEF SetAuth
<1>8. ASSUME NEW i \in TaskIds, NEW a \in Answers, Complete(i, a)
      PROVE  QueueInv'
  <2>1. PICK k \in DOMAIN pending :
          /\ Retire(i, k, Trimmed(Stored(completed, pending[k])), "completed")
          /\ response' = Answered(pending[k], a)
          /\ completeCount' = completeCount + 1
          /\ UNCHANGED cancelCount
    BY <1>8 DEF Complete
  <2>2. pending[k] \in 1 .. created /\ 1 .. created \subseteq Task /\ Len(pending) \in Nat
    BY <1>0, CreatedAreTasks
  <2>3. a # NoResponse
    BY QueueAssumption DEF QueueAssumption, NoResponse
  <2>4. /\ \A u \in 1 .. created : u # pending[k] => response'[u] = response[u]
        /\ response'[pending[k]] # NoResponse \/ returned[pending[k]]
    BY <1>0, <2>1, <2>2, <2>3 DEF Answered, TypeOK
  <2>5. "completed" \in TaskState
    BY DEF TaskState, Terminal
  <2>6. /\ ProcessingIsPending' /\ NoStrandedWaiter' /\ OldestCovers'
        /\ EveryTaskHasState' /\ Len(pending') = Len(pending) - 1
    BY <1>0, <2>1, <2>4, <2>5, RetireKeepsInv
  <2>7. CountsPending'
    BY <1>0, <2>1, <2>2, <2>6 DEF QueueInv, CountsPending, TypeOK, Retire
  <2> QED
    BY <1>0, <2>6, <2>7 DEF QueueInv
<1>9. ASSUME NEW i \in TaskIds, Cancel(i)
      PROVE  QueueInv'
  <2>1. PICK k \in DOMAIN pending :
          /\ Retire(i, k, Stored(completed, pending[k]), "canceled")
          /\ response' = [response EXCEPT ![pending[k]] = Canceled]
          /\ cancelCount' = cancelCount + 1
          /\ UNCHANGED completeCount
    BY <1>9 DEF Cancel
  <2>2. pending[k] \in 1 .. created /\ 1 .. created \subseteq Task /\ Len(pending) \in Nat
    BY <1>0, CreatedAreTasks
  <2>3. /\ \A u \in 1 .. created : u # pending[k] => response'[u] = response[u]
        /\ response'[pending[k]] # NoResponse
    BY <1>0, <2>1, <2>2 DEF TypeOK, Canceled, NoResponse
  <2>4. "canceled" \in TaskState
    BY DEF TaskState, Terminal
  <2>5. /\ ProcessingIsPending' /\ NoStrandedWaiter' /\ OldestCovers'
        /\ EveryTaskHasState' /\ Len(pending') = Len(pending) - 1
    BY <1>0, <2>1, <2>3, <2>4, RetireKeepsInv
  <2>6. CountsPending'
    BY <1>0, <2>1, <2>2, <2>5 DEF QueueInv, CountsPending, TypeOK, Retire
  <2> QED
    BY <1>0, <2>5, <2>6 DEF QueueInv
<1>10. ASSUME NEW t \in Task, NEW r \in FailTexts, FailResponse(t, r)
       PROVE  QueueInv'
  <2>1. r # NoResponse
    BY QueueAssumption DEF QueueAssumption, NoResponse, WebhookFailed, Orphaned
  <2>2. \A u \in Task : response'[u] = NoResponse => response[u] = NoResponse
    BY <1>0, <1>10, <2>1 DEF FailResponse, TypeOK
  <2>3. 1 .. created \subseteq Task
    BY <1>0, CreatedAreTasks
  <2> QED
    BY <1>0, <1>10, <2>2, <2>3
       DEF FailResponse, counters, QueueInv, ProcessingIsPending, PendingIds, IdsOf,
           CountsPending, NoStrandedWaiter, OldestCovers, EveryTaskHasState
<1>11. ASSUME NEW t \in Task, GiveUp(t)
       PROVE  QueueInv'
  <2>1. \A u \in Task : ~returned'[u] => ~returned[u]
    BY <1>0, <1>11 DEF GiveUp, TypeOK
  <2>2. 1 .. created \subseteq Task
    BY <1>0, CreatedAreTasks
  <2> QED
    BY <1>0, <1>11, <2>1, <2>2
       DEF GiveUp, counters, QueueInv, ProcessingIsPending, PendingIds, IdsOf,
           CountsPending, NoStrandedWaiter, OldestCovers, EveryTaskHasState
<1>12. CASE UNCHANGED qvars
  BY <1>0, <1>12
     DEF qvars, objects, counters, QueueInv, ProcessingIsPending, PendingIds, IdsOf,
         CountsPending, NoStrandedWaiter, OldestCovers, EveryTaskHasState
<1> QED
  BY <1>1, <1>2, <1>3, <1>4, <1>6, <1>7, <1>8, <1>9, <1>10, <1>11, <1>12 DEF Next

\* The inductive invariant holds of every behaviour of the queue.
THEOREM QueueSafe == Spec => []QueueInv
<1>1. Init => QueueInv
  <2> SUFFICES ASSUME Init PROVE QueueInv
    OBVIOUS
  <2>1. TypeOK
    BY EmptySeq, QueueAssumption DEF QueueAssumption, Init, TypeOK, Response
  <2>2. Len(pending) = 0 /\ ToSet(pending) = {}
    BY EmptySeq DEF Init, ToSet
  <2> QED
    BY <2>1, <2>2
       DEF Init, QueueInv, ProcessingIsPending, CountsPending, NoStrandedWaiter,
           OldestCovers, EveryTaskHasState
<1>2. QueueInv /\ [Next]_qvars => QueueInv'
  BY InvStep
<1> QED
  BY <1>1, <1>2, PTL DEF Spec

\* complete and cancel clear the processing mark with the pending entry, and
\* requeue_tasks brings back no marked id: no mark outlives its task.
THEOREM MarksAreClean == Spec => []ProcessingIsPending
<1>1. QueueInv => ProcessingIsPending
  BY DEF QueueInv
<1> QED
  BY <1>1, QueueSafe, PTL

\* pending_count is the length of the queue, whatever was enqueued, requeued,
\* completed and cancelled.
THEOREM CountIsExact == Spec => []CounterExact
<1>1. QueueInv => CounterExact
  BY CreatedAreTasks
     DEF QueueInv, TypeOK, CountsPending, CounterExact, PendingCount
<1> QED
  BY <1>1, QueueSafe, PTL

\* No task is dropped while a request thread waits for it.
THEOREM NoWaiterLost == Spec => []NoStrandedWaiter
<1>1. QueueInv => NoStrandedWaiter
  BY DEF QueueInv
<1> QED
  BY <1>1, QueueSafe, PTL

\* The watchdog's shortcut never hides a task that somebody waits for.
THEOREM ShortcutIsSafe == Spec => []WatchdogShortcutSafe
<1>1. QueueInv => WatchdogShortcutSafe
  BY DEF QueueInv, OldestCovers, WatchdogShortcutSafe
<1> QED
  BY <1>1, QueueSafe, PTL

\* The table of transitions has no way out of a terminal state.
LEMMA TerminalHasNoTransition ==
  ASSUME NEW from \in Terminal
  PROVE  Transitions(from) = {}
  BY DEF Terminal, Transitions

\* One step changes the outcome of an id that has left the queue only by
\* enqueueing the id again or by an explicit auth call.
LEMMA FinishedStep ==
  ASSUME TypeOK, [Next]_qvars, NEW i \in TaskIds,
         states[i] \in Terminal, i \notin PendingIds
  PROVE  states'[i] \in {states[i], "submitted", "auth_required", "authenticated"}
<1> USE DEF TypeOK
<1>1. ASSUME NEW j \in TaskIds, Enqueue(j)
      PROVE  states'[i] \in {states[i], "submitted"}
  BY <1>1 DEF Enqueue
<1>2. ASSUME NEW j \in TaskIds, NEW to \in Targets, Transition(j, to)
      PROVE  states'[i] = states[i]
  <2>1. CASE j = i
    <3>1. states[i] # Unknown
      BY DEF Terminal, Unknown
    <3>2. to \in Transitions(states[i])
      BY <1>2, <2>1, <3>1 DEF Transition, CanTransition
    <3> QED
      BY <3>2, TerminalHasNoTransition
  <2>2. CASE j # i
    BY <1>2, <2>2 DEF Transition
  <2> QED
    BY <2>1, <2>2
<1>3. ASSUME NEW j \in TaskIds, NEW s, SetAuth(j, s)
      PROVE  states'[i] \in {states[i], "auth_required", "authenticated"}
  BY <1>3 DEF SetAuth
<1>4. ASSUME NEW j \in TaskIds, NEW k \in DOMAIN pending, NEW filed, NEW state,
             Retire(j, k, filed, state)
      PROVE  states'[i] = states[i]
  <2>1. pending[k] \in ToSet(pending)
    BY DEF ToSet
  <2>2. j # i
    BY <1>4, <2>1 DEF Retire, PendingIds, IdsOf
  <2> QED
    BY <1>4, <2>2 DEF Retire, StateSet
<1>5. CASE \E j \in TaskIds : Cancel(j) \/ \E a \in Answers : Complete(j, a)
  BY <1>4, <1>5 DEF Cancel, Complete
<1>6. CASE \/ \E j \in TaskIds : MarkProcessing(j)
           \/ \E d \in Drainers : Drain(d) \/ Requeue(d)
           \/ \E t \in Task : GiveUp(t) \/ \E r \in FailTexts : FailResponse(t, r)
           \/ UNCHANGED qvars
  BY <1>6 DEF MarkProcessing, Drain, Requeue, GiveUp, FailResponse, qvars
<1> QED
  BY <1>1, <1>2, <1>3, <1>5, <1>6 DEF Next

\* A late complete, cancel or transition never replaces the outcome of a task
\* that has left the queue.
THEOREM OutcomeKept == Spec => FinishedStays
<1>1. TypeOK /\ [Next]_qvars =>
        [\A i \in TaskIds :
           states[i] \in Terminal /\ i \notin PendingIds =>
             states'[i] \in {states[i], "submitted", "auth_required", "authenticated"}]_qvars
  BY FinishedStep
<1> QED
  BY <1>1, TypeCorrect, PTL DEF Spec, FinishedStays

\* What GetTask answers is "unknown" exactly for the ids without a state.
KnownHasState ==
  \A i \in TaskIds : GetStatus(i) # Unknown <=> states[i] # Unknown

\* So it is in every state the invariant allows.
LEMMA InvKnownHasState == QueueInv => KnownHasState
<1> SUFFICES ASSUME QueueInv, NEW i \in TaskIds
             PROVE  GetStatus(i) # Unknown <=> states[i] # Unknown
  BY DEF KnownHasState
<1>1. \A t \in ToSet(pending) \cup ToSet(completed) : states[idOf[t]] # Unknown
  BY CreatedAreTasks, MembersTyped DEF QueueInv, TypeOK, EveryTaskHasState
<1>2. i \in PendingIds \cup IdsOf(completed) => states[i] # Unknown
  BY <1>1 DEF PendingIds, IdsOf
<1> QED
  BY <1>2 DEF GetStatus, Unknown

\* No step takes its state away from an id.
LEMMA StateStep ==
  ASSUME TypeOK, [Next]_qvars, NEW i \in TaskIds, states[i] # Unknown
  PROVE  states'[i] # Unknown
<1> USE DEF TypeOK
<1>1. Unknown \notin TaskState
  BY DEF Unknown, TaskState, Terminal
<1>2. ASSUME NEW j \in TaskIds, NEW state \in TaskState,
             states' = [states EXCEPT ![j] = state]
      PROVE  states'[i] # Unknown
  BY <1>1, <1>2
<1>3. CASE \E j \in TaskIds : Enqueue(j)
  BY <1>2, <1>3 DEF Enqueue, TaskState
<1>4. CASE \E j \in TaskIds, to \in Targets : Transition(j, to)
  BY <1>2, <1>4 DEF Transition, CanTransition, Transitions, TaskState, Terminal
<1>5. CASE \E j \in TaskIds, s \in Targets : SetAuth(j, s)
  BY <1>2, <1>5 DEF SetAuth, TaskState
<1>6. CASE \E j \in TaskIds : Cancel(j) \/ \E a \in Answers : Complete(j, a)
  BY <1>2, <1>6 DEF Cancel, Complete, Retire, StateSet, TaskState, Terminal
<1>7. CASE \/ \E j \in TaskIds : MarkProcessing(j)
           \/ \E d \in Drainers : Drain(d) \/ Requeue(d)
           \/ \E t \in Task : GiveUp(t) \/ \E r \in FailTexts : FailResponse(t, r)
           \/ UNCHANGED qvars
  BY <1>7 DEF MarkProcessing, Drain, Requeue, GiveUp, FailResponse, qvars
<1> QED
  BY <1>3, <1>4, <1>5, <1>6, <1>7 DEF Next

\* A client that was once told a state for an id is never told "unknown".
THEOREM StatusKept == Spec => NeverForgotten
<1>1. QueueInv' => KnownHasState'
  BY InvKnownHasState, PTL
<1>2. QueueInv /\ [Next]_qvars =>
        [\A i \in TaskIds : GetStatus(i) # Unknown => GetStatus(i)' # Unknown]_qvars
  <2> SUFFICES ASSUME QueueInv, [Next]_qvars, NEW i \in TaskIds, GetStatus(i) # Unknown
               PROVE  GetStatus(i)' # Unknown
    OBVIOUS
  <2>1. states[i] # Unknown
    BY InvKnownHasState DEF KnownHasState
  <2>2. states'[i] # Unknown
    BY <2>1, StateStep DEF QueueInv
  <2>3. KnownHasState'
    BY <1>1, InvStep
  <2> QED
    BY <2>2, <2>3 DEF KnownHasState
<1> QED
  BY <1>2, QueueSafe, PTL DEF Spec, NeverForgotten
=============================================================================
