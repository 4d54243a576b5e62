-------------------------- MODULE IdempotencyProofs ---------------------------
(***************************************************************************)
(* Proofs about Idempotency, for any number of calls, keys and tasks: its  *)
(* types, and what a key promises.                                         *)
(***************************************************************************)
EXTENDS Idempotency, TaskQueueProofs

-----------------------------------------------------------------------------
(***************************************************************************)
(* The inductive invariant.                                                *)
(***************************************************************************)

\* A call that has not enqueued has no task, one that has answered from its
\* task has the reply that belongs to it.
Ladder ==
  \A r \in Requests :
    /\ rpc[r] \in {"waiting", "answered", "late", "completed"} => rtask[r] # 0
    /\ rpc[r] \in {"unsent", "received", "checked", "missed", "unused", "replayed"}
         => rtask[r] = 0
    /\ rpc[r] \in {"answered", "completed"} =>
         reply[r] \in Result /\ reply[r].task = rtask[r]

\* No two calls enqueued the same task object.
OwnTask == \A q, r \in Requests : rtask[q] # 0 /\ rtask[q] = rtask[r] => q = r

\* q is the call whose answer the entry e of key k holds.
Author(q, k, e) ==
  /\ rpc[q] = "completed" /\ Key[q] = k
  /\ Hash[q] = e.hash /\ reply[q] = e.result

\* Every entry has an author, those seen by a call when it was received too.
Authors ==
  /\ \A k \in Keys : Has(k) => \E q \in Requests : Author(q, k, store[k])
  /\ \A r \in Requests :
       seen[r] # NoEntry => \E q \in Requests : Author(q, Key[r], seen[r])

\* The entry of r's key is still the one r saw, or its expired remainder.
StillThere(r) ==
  Has(Key[r]) /\ seen[r] # NoEntry /\ store[Key[r]].result = seen[r].result

\* A call that passed check_conflict has the payload of the entry it saw, if
\* that is still there; one that passed get does not find it there any more.
Passed ==
  \A r \in Requests :
    /\ rpc[r] = "checked" /\ StillThere(r) => store[Key[r]].hash = Hash[r]
    /\ rpc[r] \in {"missed", "unused"} => ~StillThere(r)

IInv ==
  /\ ITypeOK
  /\ Ladder
  /\ OwnTask
  /\ Authors
  /\ Passed
  /\ ReplayIsFirstReply
  /\ ReplayNotOthers

-----------------------------------------------------------------------------
(***************************************************************************)
(* The queue below.                                                        *)
(***************************************************************************)

\* Every step of a call, of the store or of the agent is a step of the queue's
\* most general caller, or leaves the queue alone.
LEMMA QueueStep ==
  ASSUME ITypeOK, Ladder, [INext]_vars
  PROVE  [Next]_qvars
<1> USE IdempotencyAssumption DEF IdempotencyAssumption
<1>1. ASSUME NEW r \in Requests, Accept(r)
      PROVE  Next
  BY <1>1 DEF Accept, Next
<1>2. ASSUME NEW r \in Requests, Abandon(r)
      PROVE  Next
  <2>1. rtask[r] \in Task
    BY <1>2, CreatedAreTasks DEF Abandon, Moves, Ladder, ITypeOK, TypeOK, Task
  <2> QED
    BY <1>2, <2>1 DEF Abandon, Next
<1>3. ASSUME OthersAct
      PROVE  Next
  BY <1>3 DEF OthersAct, Next
<1>4. ASSUME NEW r \in Requests,
             Receive(r) \/ CheckConflict(r) \/ LookUp(r) \/ CheckCollision(r)
               \/ Busy(r) \/ Answer(r) \/ Save(r) \/ TimeOut(r)
      PROVE  UNCHANGED qvars
  BY <1>4 DEF Receive, CheckConflict, LookUp, CheckCollision, Busy, Answer, Save, TimeOut
<1>5. ASSUME Evict \/ \E k \in Keys : Expire(k)
      PROVE  UNCHANGED qvars
  BY <1>5 DEF Evict, Expire
<1>6. ASSUME UNCHANGED vars
      PROVE  UNCHANGED qvars
  BY <1>6 DEF vars
<1> QED
  BY <1>1, <1>2, <1>3, <1>4, <1>5, <1>6 DEF INext, RequestStep

\* The counter of created tasks only grows, and only with Accept.
LEMMA CreatedGrows ==
  ASSUME ITypeOK, [INext]_vars
  PROVE  /\ created \in Nat
         /\ created' = created \/ \E r \in Requests : Accept(r)
<1>1. created \in Nat
  BY DEF ITypeOK, TypeOK
<1>2. ASSUME OthersAct
      PROVE  created' = created
  <2>1. ASSUME NEW i \in TaskIds, Cancel(i) \/ \E a \in Answers : Complete(i, a)
        PROVE  created' = created
    BY <2>1 DEF Cancel, Complete, Retire
  <2>2. ASSUME NEW t \in Task, NEW f \in FailTexts, FailResponse(t, f)
        PROVE  created' = created
    BY <2>2 DEF FailResponse
  <2> QED
    BY <1>2, <2>1, <2>2 DEF OthersAct
<1>3. ASSUME NEW r \in Requests, Abandon(r)
      PROVE  created' = created
  BY <1>3 DEF Abandon, GiveUp
<1>4. ASSUME NEW r \in Requests,
             Receive(r) \/ CheckConflict(r) \/ LookUp(r) \/ CheckCollision(r)
               \/ Busy(r) \/ Answer(r) \/ Save(r) \/ TimeOut(r)
      PROVE  created' = created
  BY <1>4 DEF Receive, CheckConflict, LookUp, CheckCollision, Busy, Answer, Save,
              TimeOut, qvars, objects
<1>5. ASSUME Evict \/ \E k \in Keys : Expire(k)
      PROVE  created' = created
  BY <1>5 DEF Evict, Expire, qvars, objects
<1>6. ASSUME UNCHANGED vars
      PROVE  created' = created
  BY <1>6 DEF vars, qvars, objects
<1> QED
  BY <1>1, <1>2, <1>3, <1>4, <1>5, <1>6 DEF INext, RequestStep

-----------------------------------------------------------------------------
(***************************************************************************)
(* Types.                                                                  *)
(***************************************************************************)

\* Every step keeps the store, the threads' registers and the replies typed.
LEMMA ITypeStep ==
  ASSUME ITypeOK, Ladder, [INext]_vars
  PROVE  ITypeOK'
<1> USE IdempotencyAssumption DEF IdempotencyAssumption
<1>1. TypeOK' /\ TypeOK
  BY QueueStep, TypeStep DEF ITypeOK
<1>2. created \in Nat /\ (created' = created \/ \E r \in Requests : Accept(r))
  BY CreatedGrows
<1>3. CASE created' = created
  <2>1. ASSUME NEW r \in Requests, Receive(r) PROVE ITypeOK'
    BY <1>1, <1>3, <2>1 DEF Receive, Moves, ITypeOK, Phase
  <2>2. ASSUME NEW r \in Requests, CheckConflict(r) PROVE ITypeOK'
    BY <1>1, <1>3, <2>2 DEF CheckConflict, DropIfExpired, Moves, ITypeOK, Phase
  <2>3. ASSUME NEW r \in Requests, LookUp(r) PROVE ITypeOK'
    BY <1>1, <1>3, <2>3 DEF LookUp, DropIfExpired, Live, Has, Entry, Moves, ITypeOK, Phase
  <2>4. ASSUME NEW r \in Requests, CheckCollision(r) PROVE ITypeOK'
    BY <1>1, <1>3, <2>4 DEF CheckCollision, Moves, ITypeOK, Phase
  <2>5. ASSUME NEW r \in Requests, Busy(r) PROVE ITypeOK'
    BY <1>1, <1>3, <2>5 DEF Busy, Moves, ITypeOK, Phase
  <2>6. ASSUME NEW r \in Requests, Answer(r) PROVE ITypeOK'
    <3>1. rtask[r] \in Task
      BY <1>1, <2>6, CreatedAreTasks DEF Answer, Moves, Ladder, ITypeOK, TypeOK, Task
    <3>2. response[rtask[r]] \in Response
      BY <1>1, <3>1 DEF TypeOK
    <3> QED
      BY <1>1, <1>3, <2>6, <3>1, <3>2 DEF Answer, Moves, ITypeOK, Result, Phase
  <2>7. ASSUME NEW r \in Requests, Save(r) PROVE ITypeOK'
    <3>1. reply[r] \in Result
      BY <2>7 DEF Save, Moves, Ladder
    <3>2. [hash |-> Hash[r], result |-> reply[r], live |-> TRUE] \in Entry
      BY <3>1 DEF Entry
    <3> QED
      BY <1>1, <1>3, <2>7, <3>2 DEF Save, ResultOf, Moves, ITypeOK, Phase
  <2>8. ASSUME NEW r \in Requests, TimeOut(r) \/ Abandon(r) PROVE ITypeOK'
    BY <1>1, <1>3, <2>8 DEF TimeOut, Abandon, Moves, ITypeOK, Phase
  <2>9. ASSUME NEW k \in Keys, Expire(k) PROVE ITypeOK'
    <3>1. store[k] \in Entry
      BY <2>9 DEF Expire, Live, Has, ITypeOK
    <3>2. Aged(store[k]) \in Entry
      BY <3>1 DEF Entry, Aged
    <3>3. store' = [store EXCEPT ![k] = Aged(store[k])]
      BY <2>9 DEF Expire
    <3> QED
      BY <1>1, <1>3, <2>9, <3>2, <3>3 DEF Expire, ITypeOK, requestVars
  <2>10. ASSUME Evict PROVE ITypeOK'
    BY <1>1, <1>3, <2>10 DEF Evict, ITypeOK, requestVars
  <2>11. ASSUME OthersAct \/ UNCHANGED vars PROVE ITypeOK'
    BY <1>1, <1>3, <2>11 DEF OthersAct, vars, ITypeOK, requestVars
  <2>12. ASSUME NEW r \in Requests, Accept(r) PROVE FALSE
    BY <1>2, <1>3, <2>12 DEF Accept, Enqueue
  <2> QED
    BY <2>1, <2>2, <2>3, <2>4, <2>5, <2>6, <2>7, <2>8, <2>9, <2>10, <2>11, <2>12
       DEF INext, RequestStep
<1>4. ASSUME NEW r \in Requests, Accept(r) PROVE ITypeOK'
  <2>1. created' = created + 1
    BY <1>4 DEF Accept, Enqueue
  <2>2. rtask' \in [Requests -> 0 .. created']
    BY <1>2, <1>4, <2>1 DEF Accept, ITypeOK
  <2> QED
    BY <1>1, <1>4, <2>2 DEF Accept, Moves, ITypeOK, Phase
<1> QED
  BY <1>2, <1>3, <1>4

-----------------------------------------------------------------------------
(***************************************************************************)
(* The key's promises.                                                     *)
(***************************************************************************)

\* A call that enqueues gets a task that nobody has.
LEMMA AcceptInv ==
  ASSUME IInv, ITypeOK', NEW p \in Requests, Accept(p)
  PROVE  IInv'
<1> USE DEF Accept, Moves
<1>1. created \in Nat /\ created' = created + 1 /\ rtask[p] = 0
  BY DEF IInv, ITypeOK, TypeOK, Enqueue, Ladder
<1>2. rtask \in [Requests -> 0 .. created] /\ rtask' = [rtask EXCEPT ![p] = created + 1]
  BY DEF IInv, ITypeOK
<1>3. rpc \in [Requests -> Phase]
  BY DEF IInv, ITypeOK
<1>4. Ladder'
  BY <1>1, <1>2, <1>3 DEF IInv, Ladder
<1>5. OwnTask'
  BY <1>1, <1>2 DEF IInv, OwnTask
<1>6. \A q \in Requests : rpc[q] = "completed" => rpc'[q] = "completed"
  BY <1>3
<1>7. Authors'
  BY <1>6 DEF IInv, Authors, Author, Has
<1>8. Passed' /\ ReplayIsFirstReply'
  BY <1>3 DEF IInv, Passed, StillThere, Has, ReplayIsFirstReply
<1>9. ReplayNotOthers'
  BY <1>1, <1>2, <1>3 DEF IInv, ReplayNotOthers, ReplayIsFirstReply, Ladder
<1> QED
  BY <1>4, <1>5, <1>7, <1>8, <1>9 DEF IInv

\* A step that moves one call between two phases and changes neither its
\* registers nor the store.
LEMMA MoveInv ==
  ASSUME IInv, ITypeOK', UNCHANGED <<store, rtask, reply, seen>>,
         NEW p \in Requests,
         CheckCollision(p) \/ Busy(p) \/ TimeOut(p) \/ Abandon(p)
  PROVE  IInv'
<1> DEFINE to == rpc'[p]
<1>1. rpc \in [Requests -> Phase] /\ rpc' = [rpc EXCEPT ![p] = to]
  BY DEF IInv, ITypeOK, CheckCollision, Busy, TimeOut, Abandon, Moves
<1>2. \/ rpc[p] = "missed" /\ to \in {"conflict", "unused"}
      \/ rpc[p] = "unused" /\ to = "busy"
      \/ rpc[p] = "waiting" /\ to = "late"
      \/ rpc[p] = "late" /\ to = "working"
  BY <1>1 DEF CheckCollision, Busy, TimeOut, Abandon, Moves
<1> HIDE DEF to
<1>3. Ladder' /\ OwnTask'
  BY <1>1, <1>2 DEF IInv, Ladder, OwnTask
<1>4. Authors'
  BY <1>1, <1>2 DEF IInv, Authors, Author, Has
<1>5. Passed' /\ ReplayIsFirstReply' /\ ReplayNotOthers'
  BY <1>1, <1>2 DEF IInv, Passed, StillThere, Has, ReplayIsFirstReply, ReplayNotOthers
<1> QED
  BY <1>3, <1>4, <1>5 DEF IInv

\* What the look-ups, the TTL and the eviction may do to the store: drop an
\* entry or change whether it is live.
Thinned ==
  \A k \in Keys : Has(k)' =>
    /\ Has(k)
    /\ store'[k].hash = store[k].hash
    /\ store'[k].result = store[k].result

\* A call notes the entry of its key as it comes in.
LEMMA ReceiveInv ==
  ASSUME IInv, ITypeOK', NEW p \in Requests, Receive(p)
  PROVE  IInv'
<1>1. /\ rpc[p] = "unsent" /\ rpc' = [rpc EXCEPT ![p] = "received"]
      /\ rpc \in [Requests -> Phase] /\ seen \in [Requests -> Entry \cup {NoEntry}]
      /\ seen' = [seen EXCEPT ![p] = store[Key[p]]]
      /\ UNCHANGED <<store, rtask, reply>>
  BY DEF IInv, ITypeOK, Receive, Moves
<1>2. Ladder' /\ OwnTask'
  BY <1>1 DEF IInv, Ladder, OwnTask
<1>3. Authors'
  <2>1. Key[p] \in Keys
    BY IdempotencyAssumption DEF IdempotencyAssumption
  <2> QED
    BY <1>1, <2>1 DEF IInv, Authors, Author, Has
<1>4. Passed' /\ ReplayIsFirstReply' /\ ReplayNotOthers'
  BY <1>1 DEF IInv, Passed, StillThere, Has, ReplayIsFirstReply, ReplayNotOthers
<1> QED
  BY <1>2, <1>3, <1>4 DEF IInv

\* A call that passes check_conflict and still finds the entry it saw has that
\* entry's payload.
LEMMA CheckConflictInv ==
  ASSUME IInv, ITypeOK', NEW p \in Requests, CheckConflict(p)
  PROVE  IInv'
<1> USE IdempotencyAssumption DEF IdempotencyAssumption
<1> DEFINE to == IF Conflict(Key[p], Hash[p]) THEN "conflict" ELSE "checked"
<1>1. /\ rpc[p] = "received" /\ rpc' = [rpc EXCEPT ![p] = to]
      /\ rpc \in [Requests -> Phase] /\ store \in [Keys -> Entry \cup {NoEntry}]
      /\ UNCHANGED <<rtask, reply, seen>>
  BY DEF IInv, ITypeOK, CheckConflict, Moves
<1>2. Thinned
  BY <1>1 DEF CheckConflict, DropIfExpired, Thinned, Has
<1>3. to \in {"conflict", "checked"}
  OBVIOUS
<1>4. to = "checked" /\ Has(Key[p])' => store[Key[p]].hash = Hash[p]
  BY <1>1 DEF Conflict, CheckConflict, DropIfExpired, Live, Has
<1> HIDE DEF to
<1>5. Ladder' /\ OwnTask'
  BY <1>1, <1>3 DEF IInv, Ladder, OwnTask
<1>6. Authors'
  BY <1>1, <1>2 DEF IInv, Authors, Author, Thinned
<1>7. Passed'
  BY <1>1, <1>2, <1>3, <1>4 DEF IInv, Passed, StillThere, Thinned
<1>8. ReplayIsFirstReply' /\ ReplayNotOthers'
  BY <1>1, <1>3 DEF IInv, ReplayIsFirstReply, ReplayNotOthers
<1> QED
  BY <1>5, <1>6, <1>7, <1>8 DEF IInv

\* A call that misses leaves no entry behind; one that finds the entry it saw is
\* answered with it.
LEMMA LookUpInv ==
  ASSUME IInv, ITypeOK', NEW p \in Requests, LookUp(p)
  PROVE  IInv'
<1> USE IdempotencyAssumption DEF IdempotencyAssumption
<1>1. /\ rpc[p] = "checked" /\ UNCHANGED <<rtask, seen>>
      /\ rpc \in [Requests -> Phase] /\ store \in [Keys -> Entry \cup {NoEntry}]
      /\ reply \in [Requests -> Result \cup {NoResult}]
  BY DEF IInv, ITypeOK, LookUp, Moves
<1>2. Thinned
  BY <1>1 DEF LookUp, DropIfExpired, Thinned, Has
<1>3. CASE Live(Key[p])
  <2>1. /\ rpc' = [rpc EXCEPT ![p] = "replayed"]
        /\ reply' = [reply EXCEPT ![p] = store[Key[p]].result]
        /\ store' = store
    BY <1>3 DEF LookUp, Moves, DropIfExpired
  <2>2. PICK q \in Requests : Author(q, Key[p], store[Key[p]])
    BY <1>3 DEF IInv, Authors, Live
  <2>3. /\ rtask[q] = store[Key[p]].result.task /\ rtask[q] # 0
        /\ Hash[q] = store[Key[p]].hash /\ reply[q] = store[Key[p]].result
        /\ Key[q] = Key[p] /\ rpc[q] = "completed"
    BY <2>2 DEF Author, IInv, Ladder
  <2>4. Ladder' /\ OwnTask'
    BY <1>1, <2>1 DEF IInv, Ladder, OwnTask
  <2>5. Authors' /\ Passed'
    BY <1>1, <2>1 DEF IInv, Authors, Author, Passed, StillThere, Has
  <2>6. ReplayIsFirstReply'
    BY <1>1, <2>1, <2>3 DEF IInv, ReplayIsFirstReply
  <2>7. ReplayNotOthers'
    <3>1. StillThere(p) => store[Key[p]].hash = Hash[p]
      BY <1>1 DEF IInv, Passed
    <3>2. \A u \in Requests : rtask[u] = store[Key[p]].result.task => u = q
      BY <2>3 DEF IInv, OwnTask
    <3>3. ASSUME seen[p] # NoEntry, seen[p].result = store[Key[p]].result
          PROVE  Hash[q] = Hash[p]
      BY <1>3, <2>3, <3>1, <3>3 DEF StillThere, Live
    <3> QED
      BY <1>1, <2>1, <3>2, <3>3 DEF IInv, ReplayNotOthers
  <2> QED
    BY <2>4, <2>5, <2>6, <2>7 DEF IInv
<1>4. CASE ~Live(Key[p])
  <2>1. rpc' = [rpc EXCEPT ![p] = "missed"] /\ reply' = reply /\ ~Has(Key[p])'
    BY <1>1, <1>4 DEF LookUp, Moves, DropIfExpired, Has
  <2>2. Ladder' /\ OwnTask'
    BY <1>1, <2>1 DEF IInv, Ladder, OwnTask
  <2>3. Authors'
    BY <1>1, <1>2, <2>1 DEF IInv, Authors, Author, Thinned
  <2>4. Passed'
    BY <1>1, <1>2, <2>1 DEF IInv, Passed, StillThere, Thinned
  <2>5. ReplayIsFirstReply' /\ ReplayNotOthers'
    BY <1>1, <2>1 DEF IInv, ReplayIsFirstReply, ReplayNotOthers
  <2> QED
    BY <2>2, <2>3, <2>4, <2>5 DEF IInv
<1> QED
  BY <1>3, <1>4

\* A call that answers was not anybody's author before.
LEMMA AnswerInv ==
  ASSUME IInv, ITypeOK', NEW p \in Requests, Answer(p)
  PROVE  IInv'
<1>1. /\ rpc[p] = "waiting" /\ rpc' = [rpc EXCEPT ![p] = "answered"]
      /\ rpc \in [Requests -> Phase] /\ reply \in [Requests -> Result \cup {NoResult}]
      /\ reply' = [reply EXCEPT ![p] = [task |-> rtask[p], text |-> response[rtask[p]]]]
      /\ UNCHANGED <<store, rtask, seen>>
  BY DEF IInv, ITypeOK, Answer, Moves
<1>2. reply'[p] \in Result
  <2>1. TypeOK /\ rtask \in [Requests -> 0 .. created] /\ rtask[p] # 0
    BY <1>1 DEF IInv, Ladder, ITypeOK
  <2>2. rtask[p] \in Task /\ response \in [Task -> Response]
    BY <2>1, CreatedAreTasks DEF TypeOK, Task
  <2> QED
    BY <1>1, <2>2 DEF Result
<1>3. Ladder' /\ OwnTask'
  BY <1>1, <1>2 DEF IInv, Ladder, OwnTask
<1>4. Authors'
  BY <1>1 DEF IInv, Authors, Author, Has
<1>5. Passed' /\ ReplayIsFirstReply' /\ ReplayNotOthers'
  BY <1>1 DEF IInv, Passed, StillThere, Has, ReplayIsFirstReply, ReplayNotOthers
<1> QED
  BY <1>3, <1>4, <1>5 DEF IInv

\* The entry a call stores is about its own task, so it is none that any other
\* call has seen.
LEMMA SaveInv ==
  ASSUME IInv, ITypeOK', NEW p \in Requests, Save(p)
  PROVE  IInv'
<1> USE IdempotencyAssumption DEF IdempotencyAssumption
<1> DEFINE entry == [hash |-> Hash[p], result |-> reply[p], live |-> TRUE]
<1>1. /\ rpc[p] = "answered" /\ rpc' = [rpc EXCEPT ![p] = "completed"]
      /\ rpc \in [Requests -> Phase] /\ store \in [Keys -> Entry \cup {NoEntry}]
      /\ store' = [store EXCEPT ![Key[p]] = entry]
      /\ UNCHANGED <<rtask, reply, seen>>
  BY DEF IInv, ITypeOK, Save, Moves, ResultOf
<1>2. entry.hash = Hash[p] /\ entry.result = reply[p]
  OBVIOUS
<1> HIDE DEF entry
<1>3. reply[p].task = rtask[p] /\ rtask[p] # 0
  BY <1>1 DEF IInv, Ladder
<1>4. Ladder' /\ OwnTask'
  BY <1>1 DEF IInv, Ladder, OwnTask
<1>5. Authors'
  <2>1. ASSUME NEW k \in Keys, Has(k)'
        PROVE  \E q \in Requests : Author(q, k, store[k])'
    <3>1. CASE k = Key[p]
      BY <1>1, <1>2, <3>1 DEF Author
    <3>2. CASE k # Key[p]
      BY <1>1, <2>1, <3>2 DEF IInv, Authors, Author, Has
    <3> QED
      BY <3>1, <3>2
  <2>2. \A r \in Requests :
          seen'[r] # NoEntry => \E q \in Requests : Author(q, Key[r], seen[r])'
    BY <1>1 DEF IInv, Authors, Author
  <2> QED
    BY <2>1, <2>2 DEF Authors
<1>6. ASSUME NEW r \in Requests, seen[r] # NoEntry
      PROVE  seen[r].result # entry.result
  <2>1. PICK q \in Requests : Author(q, Key[r], seen[r])
    BY <1>6 DEF IInv, Authors
  <2>2. rpc[q] = "completed" /\ reply[q] = seen[r].result /\ reply[q].task = rtask[q]
    BY <2>1 DEF Author, IInv, Ladder
  <2>3. q # p
    BY <1>1, <2>2
  <2>4. rtask[q] # rtask[p]
    BY <1>3, <2>3 DEF IInv, OwnTask
  <2> QED
    BY <1>2, <1>3, <2>2, <2>4
<1>7. Passed'
  <2>1. ASSUME NEW r \in Requests, Key[r] = Key[p]
        PROVE  ~StillThere(r)'
    BY <1>1, <1>6, <2>1 DEF StillThere
  <2>2. ASSUME NEW r \in Requests, Key[r] # Key[p]
        PROVE  StillThere(r)' = StillThere(r) /\ store'[Key[r]] = store[Key[r]]
    BY <1>1, <2>2 DEF StillThere, Has
  <2> QED
    BY <1>1, <2>1, <2>2 DEF IInv, Passed
<1>8. ReplayIsFirstReply' /\ ReplayNotOthers'
  BY <1>1 DEF IInv, ReplayIsFirstReply, ReplayNotOthers
<1> QED
  BY <1>4, <1>5, <1>7, <1>8 DEF IInv

\* Nothing the store's clock and cleanup thread or the queue's other callers do
\* brings an entry back or changes what it says.
LEMMA ThinningInv ==
  ASSUME IInv, ITypeOK', Thinned, UNCHANGED requestVars
  PROVE  IInv'
<1> USE IdempotencyAssumption DEF IdempotencyAssumption
<1>1. Ladder' /\ OwnTask' /\ ReplayIsFirstReply' /\ ReplayNotOthers'
  BY DEF IInv, Ladder, OwnTask, ReplayIsFirstReply, ReplayNotOthers, requestVars
<1>2. Authors'
  BY DEF IInv, Authors, Author, Thinned, requestVars
<1>3. Passed'
  BY DEF IInv, Passed, StillThere, Thinned, requestVars
<1> QED
  BY <1>1, <1>2, <1>3 DEF IInv

\* Every step keeps the invariant.
LEMMA IInvStep ==
  ASSUME IInv, [INext]_vars
  PROVE  IInv'
<1>1. ITypeOK'
  BY ITypeStep DEF IInv
<1>2. store \in [Keys -> Entry \cup {NoEntry}]
  BY DEF IInv, ITypeOK
<1>3. ASSUME NEW k \in Keys, Expire(k)
      PROVE  IInv'
  <2>1. Thinned /\ UNCHANGED requestVars
    BY <1>2, <1>3, IdempotencyAssumption DEF Expire, Aged, Thinned, Live, Has
  <2> QED
    BY <1>1, <2>1, ThinningInv
<1>4. ASSUME Evict
      PROVE  IInv'
  <2>1. Thinned /\ UNCHANGED requestVars
    BY <1>2, <1>4 DEF Evict, Thinned, Has
  <2> QED
    BY <1>1, <2>1, ThinningInv
<1>5. ASSUME OthersAct \/ UNCHANGED vars
      PROVE  IInv'
  <2>1. Thinned /\ UNCHANGED requestVars
    BY <1>5 DEF OthersAct, vars, Thinned, Has
  <2> QED
    BY <1>1, <2>1, ThinningInv
<1>6. ASSUME NEW r \in Requests,
             CheckCollision(r) \/ Busy(r) \/ TimeOut(r) \/ Abandon(r)
      PROVE  IInv'
  <2>1. UNCHANGED <<store, rtask, reply, seen>>
    BY <1>6 DEF CheckCollision, Busy, TimeOut, Abandon
  <2> QED
    BY <1>1, <1>6, <2>1, MoveInv
<1>7. ASSUME NEW r \in Requests, Receive(r)
      PROVE  IInv'
  BY <1>1, <1>7, ReceiveInv
<1>8. ASSUME NEW r \in Requests, CheckConflict(r)
      PROVE  IInv'
  BY <1>1, <1>8, CheckConflictInv
<1>9. ASSUME NEW r \in Requests, LookUp(r)
      PROVE  IInv'
  BY <1>1, <1>9, LookUpInv
<1>10. ASSUME NEW r \in Requests, Accept(r)
       PROVE  IInv'
  BY <1>1, <1>10, AcceptInv
<1>11. ASSUME NEW r \in Requests, Answer(r)
       PROVE  IInv'
  BY <1>1, <1>11, AnswerInv
<1>12. ASSUME NEW r \in Requests, Save(r)
       PROVE  IInv'
  BY <1>1, <1>12, SaveInv
<1> QED
  BY <1>3, <1>4, <1>5, <1>6, <1>7, <1>8, <1>9, <1>10, <1>11, <1>12
     DEF INext, RequestStep

\* The inductive invariant holds of every behaviour of the keyed calls.
THEOREM KeysSafe == ISpec => []IInv
<1>1. IInit => IInv
  <2> SUFFICES ASSUME IInit PROVE IInv
    OBVIOUS
  <2>1. TypeOK
    BY EmptySeq, QueueAssumption
       DEF QueueAssumption, IInit, Init, TypeOK, Response
  <2>2. ITypeOK
    BY <2>1 DEF IInit, Init, ITypeOK, Phase
  <2> QED
    BY <2>2
       DEF IInit, IInv, Ladder, OwnTask, Authors, Passed, StillThere, Has,
           ReplayIsFirstReply, ReplayNotOthers
<1>2. IInv /\ [INext]_vars => IInv'
  BY IInvStep
<1> QED
  BY <1>1, <1>2, PTL DEF ISpec

\* Every field of the store, of the calls and of the queue keeps its type.
THEOREM KeysTyped == ISpec => []ITypeOK
<1>1. IInv => ITypeOK
  BY DEF IInv
<1> QED
  BY <1>1, KeysSafe, PTL

\* A replayed result is word for word what the call that did the work answered
\* with, whatever happens to the task afterwards.
THEOREM ReplayRepeats == ISpec => []ReplayIsFirstReply
<1>1. IInv => ReplayIsFirstReply
  BY DEF IInv
<1> QED
  BY <1>1, KeysSafe, PTL

\* No call is replayed the result of another payload that was there when it
\* was received: the race behind ReplayIsSamePayload is the only way.
THEOREM ReplayIsMine == ISpec => []ReplayNotOthers
<1>1. IInv => ReplayNotOthers
  BY DEF IInv
<1> QED
  BY <1>1, KeysSafe, PTL

\* A repetition is never let through to the queue while the entry it was
\* received with is there.
THEOREM RepeatsDoNoWork == ISpec => RepeatNeverWorks
<1>1. ASSUME IInv, [INext]_vars
      PROVE  [\A r \in Requests :
                rpc[r] = "unused" /\ rpc'[r] \in {"waiting", "streaming"} =>
                  ~Has(Key[r]) \/ store[Key[r]] # seen[r]]_vars
  <2>1. ASSUME NEW r \in Requests, rpc[r] = "unused"
        PROVE  ~Has(Key[r]) \/ store[Key[r]] # seen[r]
    BY <1>1, <2>1 DEF IInv, Passed, StillThere, Has
  <2> QED
    BY <2>1
<1> QED
  BY <1>1, KeysSafe, PTL DEF ISpec, RepeatNeverWorks

\* Everything proved of the queue holds of the queue under keyed calls.
THEOREM QueueUnderKeys == ISpec => Spec
<1>1. IInit => Init
  BY DEF IInit
<1>2. IInv /\ [INext]_vars => [Next]_qvars
  BY QueueStep DEF IInv
<1> QED
  BY <1>1, <1>2, KeysSafe, PTL DEF ISpec, Spec

===============================================================================
