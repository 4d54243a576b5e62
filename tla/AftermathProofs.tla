-------------------------- MODULE AftermathProofs --------------------------
(***************************************************************************)
(* What holds of what follows a task, for any number of sessions, tasks    *)
(* and subscribers, with a crash at any step: subscribers get no more      *)
(* copies than there are attempts and are told in order, and the exchanges *)
(* that were saved are on disk, once.                                      *)
(***************************************************************************)
EXTENDS Aftermath, SequenceTheorems, FiniteSetTheorems, TLAPS

-----------------------------------------------------------------------------
(***************************************************************************)
(* The conversation files.                                                 *)
(***************************************************************************)
Savings == {"no", "stamped", "locked", "rotated", "opened", "written", "done", "failed", "dead"}
Within == {"locked", "rotated", "opened", "written"}
Stages == {"idle", "marked", "working", "over", "answering", "completed", "told", "dead"}

SavingTyped ==
  /\ lock \in Savers \cup {Free} /\ saved \subseteq Savers
  /\ saving \in [Savers -> Savings]
  /\ stage \in [Savers -> Stages]
  /\ second \in 0 .. MaxSecond /\ stamp \in [Savers -> 0 .. MaxSecond]
  /\ \A t \in Savers : saving[t] \in Within => lock = t
  /\ \A t \in Savers : stage[t] = "idle" => saving[t] = "no"

FilesTyped ==
  /\ file \in Seq(Savers) /\ rotated \in [0 .. MaxSecond -> Seq(Savers)]
  /\ clobbered \in BOOLEAN

\* What the holder of the lock has read and written is what the file is to become.
Prepared ==
  \A t \in Savers :
    /\ saving[t] \in {"opened", "written"} => existing = file
    /\ saving[t] = "written" => temporary.content = Append(existing, t)

\* Nothing is on disk that was not saved.
NothingElse == \A t \in OnDisk : saving[t] = "done"

SaveInv == SavingTyped /\ FilesTyped /\ Prepared /\ NothingElse /\ SavedStays /\ SavedOnce

LEMMA ToSetAppend ==
  ASSUME NEW S, NEW s \in Seq(S), NEW x \in S
  PROVE  ToSet(Append(s, x)) = ToSet(s) \cup {x}
<1>1. Len(s) \in Nat /\ DOMAIN s = 1 .. Len(s)
  OBVIOUS
<1>2. DOMAIN Append(s, x) = 1 .. (Len(s) + 1)
  OBVIOUS
<1>3. \A k \in 1 .. Len(s) : Append(s, x)[k] = s[k]
  OBVIOUS
<1>4. Append(s, x)[Len(s) + 1] = x
  OBVIOUS
<1>5. Len(s) + 1 \in 1 .. (Len(s) + 1) /\ \A k \in 1 .. (Len(s) + 1) : k \in 1 .. Len(s) \/ k = Len(s) + 1
  BY <1>1
<1> QED
  BY <1>1, <1>2, <1>3, <1>4, <1>5 DEF ToSet

LEMMA InjectiveAppend ==
  ASSUME NEW S, NEW s \in Seq(S), NEW x \in S, IsInjective(s), x \notin ToSet(s)
  PROVE  IsInjective(Append(s, x))
<1>1. Len(s) \in Nat /\ DOMAIN s = 1 .. Len(s)
  OBVIOUS
<1>2. DOMAIN Append(s, x) = 1 .. (Len(s) + 1)
  OBVIOUS
<1>3. \A k \in 1 .. Len(s) : Append(s, x)[k] = s[k] /\ s[k] # x
  BY <1>1 DEF ToSet
<1>4. Append(s, x)[Len(s) + 1] = x
  OBVIOUS
<1>5. \A k \in 1 .. (Len(s) + 1) : k \in 1 .. Len(s) \/ k = Len(s) + 1
  BY <1>1
<1> QED
  BY <1>1, <1>2, <1>3, <1>4, <1>5 DEF IsInjective

LEMMA InitSave == Init => SaveInv
<1> SUFFICES ASSUME Init PROVE SaveInv
  OBVIOUS
<1> USE DEF Init, CInit
<1>0. MaxSecond \in Nat /\ 0 \in 0 .. MaxSecond
  BY ConversationsAssumption
<1>1. SavingTyped
  <2>1. PICK start \in Starts : stage = start.stages
    OBVIOUS
  <2>2. stage \in [Savers -> Stages]
    BY <2>1, AftermathAssumption DEF Stages
  <2>3. \A t \in Savers : saving[t] = "no"
    OBVIOUS
  <2> QED
    BY <1>0, <2>2, <2>3 DEF SavingTyped, Savings, Within
<1>2. FilesTyped
  <2>1. <<>> \in Seq(Savers)
    OBVIOUS
  <2> QED
    BY <2>1 DEF FilesTyped
<1>5. Prepared
  BY DEF Prepared
<1>3. OnDisk = {}
  BY DEF OnDisk, ToSet
<1>4. SavedOnce
  BY DEF SavedOnce, IsInjective, ToSet
<1> QED
  BY <1>1, <1>2, <1>3, <1>4, <1>5 DEF SaveInv, NothingElse, SavedStays

\* A step that leaves the disk alone.
LEMMA DiskStays ==
  ASSUME SaveInv, SavingTyped', UNCHANGED <<file, rotated, clobbered, saved>>,
         \A t \in Savers : saving[t] = "done" => saving'[t] = "done",
         Prepared'
  PROVE  SaveInv'
<1>1. OnDisk' = OnDisk /\ OnDisk \subseteq Savers
  BY DEF OnDisk, SaveInv, FilesTyped, ToSet
<1> QED
  BY <1>1 DEF SaveInv, FilesTyped, NothingElse, SavedStays, SavedOnce

LEMMA SaveKeeps == ASSUME SaveInv, NEW t \in Savers, stage[t] = "told", Save(t), UNCHANGED stage PROVE SaveInv'
<1> USE DEF Step
<1>0. /\ MaxSecond \in Nat /\ lock \in Savers \cup {Free} /\ saving \in [Savers -> Savings]
      /\ Free \notin Savers /\ stamp[t] \in 0 .. MaxSecond
      /\ \A u \in Savers : saving[u] \in Within => lock = u
  BY ConversationsAssumption DEF SaveInv, SavingTyped
<1>1. SavingTyped'
  BY <1>0 DEF Save, Stamp, Lock, Rotate, Open, Write, Replace, DiskFails, SaveInv, SavingTyped, Savings, Within
<1>6. OnDisk \subseteq Savers
  BY DEF OnDisk, ToSet, SaveInv, FilesTyped
<1>2. CASE Stamp(t) \/ Lock(t) \/ DiskFails(t)
  <2>1. /\ UNCHANGED <<file, rotated, clobbered, saved, existing, temporary>>
        /\ \A u \in Savers : saving[u] = "done" => saving'[u] = "done"
        /\ \A u \in Savers : saving'[u] \in {"opened", "written"} => saving'[u] = saving[u]
    BY <1>0, <1>2 DEF Stamp, Lock, DiskFails, disk, Within
  <2>2. Prepared'
    BY <2>1 DEF SaveInv, Prepared
  <2> QED
    BY <1>1, <2>1, <2>2, DiskStays
<1>3. CASE Open(t) \/ Write(t)
  <2>1. /\ UNCHANGED <<file, rotated, clobbered, saved>>
        /\ \A u \in Savers : saving[u] = "done" => saving'[u] = "done"
        /\ \A u \in Savers \ {t} : saving'[u] = saving[u] /\ saving[u] \notin Within
    BY <1>0, <1>3 DEF Open, Write, Within
  <2>2. Prepared'
    BY <1>0, <1>3, <2>1 DEF SaveInv, Prepared, Open, Write, Within
  <2> QED
    BY <1>1, <2>1, <2>2, DiskStays
<1>4. CASE Rotate(t)
  <2>1. /\ saving'[t] = "rotated" /\ saving[t] \in Within
        /\ \A u \in Savers \ {t} : saving'[u] = saving[u] /\ saving[u] \notin Within
        /\ \A u \in Savers : saving[u] = "done" => saving'[u] = "done"
    BY <1>0, <1>4 DEF Rotate, Within
  <2>2. Prepared'
    BY <2>1 DEF Prepared, Within
  <2>3. CASE UNCHANGED <<rotated, clobbered, file>>
    BY <1>1, <1>4, <2>1, <2>2, <2>3, DiskStays DEF Rotate
  <2>4. CASE /\ rotated' = [rotated EXCEPT ![stamp[t]] = file]
             /\ clobbered' = (clobbered \/ rotated[stamp[t]] # <<>>)
             /\ file' = <<>>
    <3>1. FilesTyped'
      BY <1>0, <2>4 DEF SaveInv, FilesTyped
    <3>2. /\ rotated'[stamp[t]] = file /\ DOMAIN rotated' = DOMAIN rotated /\ stamp[t] \in DOMAIN rotated
          /\ \A x \in DOMAIN rotated \ {stamp[t]} : rotated'[x] = rotated[x]
          /\ ToSet(file') = {}
      BY <1>0, <2>4 DEF SaveInv, FilesTyped, ToSet
    <3>3. OnDisk' \subseteq OnDisk
      BY <3>2 DEF OnDisk
    <3>4. clobbered' \/ OnDisk \subseteq OnDisk'
      <4> SUFFICES ASSUME rotated[stamp[t]] = <<>> PROVE OnDisk \subseteq OnDisk'
        BY <2>4
      <4>1. ToSet(rotated[stamp[t]]) = {}
        BY DEF ToSet
      <4> QED
        BY <3>2, <4>1 DEF OnDisk
    <3>5. NothingElse'
      BY <1>6, <2>1, <3>3 DEF SaveInv, NothingElse
    <3>6. SavedStays'
      <4>1. saved' = saved /\ (clobbered => clobbered')
        BY <1>4, <2>4 DEF Rotate
      <4> QED
        BY <3>4, <4>1 DEF SaveInv, SavedStays
    <3>7. SavedOnce'
      BY <2>4, <3>2 DEF SaveInv, SavedOnce, IsInjective
    <3> QED
      BY <1>1, <2>2, <3>1, <3>5, <3>6, <3>7 DEF SaveInv
  <2> QED
    BY <1>4, <2>3, <2>4 DEF Rotate
<1>5. CASE Replace(t)
  <2>1. /\ saving[t] \in Within /\ saving'[t] = "done"
        /\ \A u \in Savers \ {t} : saving'[u] = saving[u] /\ saving[u] \notin Within
        /\ \A u \in Savers : saving[u] = "done" => saving'[u] = "done"
    BY <1>0, <1>5 DEF Replace, Within
  <2>2. /\ file' = Append(file, t) /\ saved' = saved \cup {t} /\ UNCHANGED <<rotated, clobbered>>
    BY <1>5 DEF Replace, SaveInv, Prepared
  <2>3. file \in Seq(Savers) /\ rotated \in [0 .. MaxSecond -> Seq(Savers)]
    BY DEF SaveInv, FilesTyped
  <2>4. ToSet(file') = ToSet(file) \cup {t} /\ file' \in Seq(Savers)
    BY <2>2, <2>3, ToSetAppend
  <2>5. t \notin OnDisk
    BY <1>5, <2>1 DEF SaveInv, NothingElse, Within
  <2>6. OnDisk' = OnDisk \cup {t}
    BY <2>2, <2>4 DEF OnDisk
  <2>7. IsInjective(file')
    BY <2>2, <2>3, <2>5, InjectiveAppend DEF SaveInv, SavedOnce, OnDisk
  <2>8. NothingElse'
    BY <1>6, <2>1, <2>6 DEF SaveInv, NothingElse
  <2>9. SavedStays' /\ SavedOnce'
    BY <2>2, <2>4, <2>5, <2>6, <2>7 DEF SaveInv, SavedStays, SavedOnce, OnDisk
  <2>10. Prepared' /\ FilesTyped'
    BY <2>1, <2>2, <2>4 DEF Prepared, Within, SaveInv, FilesTyped
  <2> QED
    BY <1>1, <2>8, <2>9, <2>10 DEF SaveInv
<1> QED
  BY <1>2, <1>3, <1>4, <1>5 DEF Save

\* The session goes on, or tells; the process dies.
LEMMA OtherSave ==
  ASSUME SaveInv, UNCHANGED conversations, stage' \in [Savers -> Stages],
         \A t \in Savers : stage'[t] = "idle" => stage[t] = "idle"
  PROVE  SaveInv'
<1>1. SavingTyped'
  BY DEF SaveInv, SavingTyped, conversations, memory, disk
<1>2. Prepared' /\ UNCHANGED <<file, rotated, clobbered, saved, saving>>
  BY DEF SaveInv, Prepared, conversations, memory, disk
<1> QED
  BY <1>1, <1>2, DiskStays

LEMMA CrashSave == ASSUME SaveInv, Crash PROVE SaveInv'
<1>1. /\ stage' = [t \in Savers |-> IF stage[t] = "idle" THEN "idle" ELSE "dead"]
      /\ saving' = [t \in Savers |-> IF saving[t] \in {"done", "failed"} \/ stage[t] = "idle"
                                     THEN saving[t] ELSE "dead"]
      /\ lock' = Free /\ UNCHANGED <<second, stamp, file, rotated, clobbered, saved>>
  BY DEF Crash, disk
<1>2. \A t \in Savers : saving'[t] \in {"no", "done", "failed", "dead"}
  BY <1>1 DEF SaveInv, SavingTyped
<1>3. SavingTyped'
  <2>1. saving' \in [Savers -> Savings] /\ stage' \in [Savers -> Stages]
    BY <1>1, <1>2 DEF Savings, Stages
  <2>2. \A t \in Savers : stage'[t] = "idle" => saving'[t] = "no"
    BY <1>1 DEF SaveInv, SavingTyped
  <2>3. \A t \in Savers : saving'[t] \notin Within
    BY <1>2 DEF Within
  <2> QED
    BY <1>1, <2>1, <2>2, <2>3 DEF SaveInv, SavingTyped
<1>4. Prepared' /\ \A t \in Savers : saving[t] = "done" => saving'[t] = "done"
  BY <1>1, <1>2 DEF Prepared
<1> QED
  BY <1>1, <1>3, <1>4, DiskStays

LEMMA SecondSave == ASSUME SaveInv, Second, UNCHANGED stage PROVE SaveInv'
<1>1. UNCHANGED <<stamp, saving, lock, existing, file, temporary, rotated, clobbered, saved>>
  BY DEF Second, memory, disk
<1>2. second' \in 0 .. MaxSecond
  BY ConversationsAssumption DEF Second, SaveInv, SavingTyped
<1>3. SavingTyped' /\ Prepared'
  BY <1>1, <1>2 DEF SaveInv, SavingTyped, Prepared
<1> QED
  BY <1>1, <1>3, DiskStays

\* A step of a turn, before the exchange is saved.
TurnStep(t) ==
  Mark(t) \/ TellWorking(t) \/ Skip(t) \/ Target(t) \/ Complete(t) \/ TellCompleted(t)

LEMMA StepSave == ASSUME SaveInv, [Next]_vars PROVE SaveInv'
<1>0. stage \in [Savers -> Stages]
  BY DEF SaveInv, SavingTyped
<1>1. ASSUME NEW t \in Savers, TurnStep(t) PROVE SaveInv'
  <2>1. UNCHANGED conversations
    BY <1>1 DEF TurnStep, Mark, TellWorking, Skip, Target, Complete, TellCompleted
  <2>2. PICK to \in Stages \ {"idle"} : stage' = [stage EXCEPT ![t] = to]
    BY <1>1 DEF TurnStep, Mark, TellWorking, Skip, Target, Complete, TellCompleted, Advance, Stages
  <2>3. stage' \in [Savers -> Stages]
    BY <1>0, <2>2 DEF Stages
  <2> QED
    BY <1>0, <2>1, <2>2, <2>3, OtherSave
<1>2. ASSUME NEW t \in Savers, SaveExchange(t) PROVE SaveInv'
  BY <1>2, SaveKeeps DEF SaveExchange
<1>3. CASE Crash
  BY <1>3, CrashSave
<1>4. CASE (Push /\ UNCHANGED <<conversations, stage, turns, crashed>>) \/ UNCHANGED vars
  BY <1>0, <1>4, OtherSave DEF vars
<1>5. CASE Second /\ UNCHANGED <<pushing, stage, turns, crashed>>
  BY <1>5, SecondSave
<1>6. ASSUME NEW k \in processing, Cancel(k) PROVE SaveInv'
  BY <1>0, <1>6, OtherSave DEF Cancel
<1> QED
  BY <1>1, <1>2, <1>3, <1>4, <1>5, <1>6 DEF Next, Session, TurnStep

\* What was saved stays on disk and is there once, whatever fails or crashes at which
\* step of whose save, for any number of exchanges and files rotated away, as long as no
\* rotated file was overwritten by another of the same second.  Nothing is said of the
\* order of the exchanges.
THEOREM SavedIsKept == Spec => []SavedExactly
<1>1. SaveInv => SavedExactly
  BY DEF SaveInv, SavedExactly
<1> QED
  BY InitSave, StepSave, <1>1, PTL DEF Spec

-----------------------------------------------------------------------------
(***************************************************************************)
(* The subscriptions.                                                      *)
(***************************************************************************)
StoreInv ==
  /\ store \subseteq issued /\ issued \subseteq Subs
  /\ by_task \in [Tasks -> SUBSET Subs]
  /\ StoreAgrees

LEMMA InitStore == Init => StoreInv
BY DEF Init, PInit, StoreInv, StoreAgrees

LEMMA StepStore == ASSUME StoreInv, [Next]_vars PROVE StoreInv'
<1>0. TaskOf \in [Subs -> Tasks]
  BY PushAssumption
<1>1. ASSUME NEW s \in Subs, Subscribe(s) PROVE StoreInv'
  <2>1. PICK gone :
          /\ store' = (store \ gone) \cup {s}
          /\ by_task' = [i \in Tasks |-> (by_task[i] \ gone) \cup (IF TaskOf[s] = i THEN {s} ELSE {})]
    BY <1>1 DEF Subscribe
  <2>2. issued' = issued \cup {s}
    BY <1>1 DEF Subscribe
  <2> QED
    BY <2>1, <2>2 DEF StoreInv, StoreAgrees
<1>2. ASSUME NEW s \in Subs, Unsubscribe(s) PROVE StoreInv'
  BY <1>0, <1>2 DEF Unsubscribe, Withdraw, StoreInv, StoreAgrees
<1>3. CASE Crash
  BY <1>3 DEF Crash, StoreInv, StoreAgrees
<1>4. CASE UNCHANGED subscriptions
  BY <1>4 DEF subscriptions, StoreInv, StoreAgrees
<1>5. ASSUME NEW t \in Savers, Session(t) PROVE StoreInv'
  BY <1>4, <1>5 DEF Session, Mark, TellWorking, Skip, Target, Complete, TellCompleted, SaveExchange, pushing
<1>6. ASSUME NEW b \in Tellers, Telling(b) PROVE StoreInv'
  BY <1>4, <1>6 DEF Telling, Deliver, Fail, Turn
<1>7. ASSUME NEW m \in inflight, Arrive(m) PROVE StoreInv'
  BY <1>4, <1>7 DEF Arrive
<1>8. CASE UNCHANGED pushing
  BY <1>4, <1>8 DEF pushing
<1>9. ASSUME NEW k \in processing, Cancel(k) PROVE StoreInv'
  BY <1>8, <1>9 DEF Cancel
<1> QED
  BY <1>1, <1>2, <1>3, <1>5, <1>6, <1>7, <1>8, <1>9 DEF Next, Push, vars

-----------------------------------------------------------------------------
(***************************************************************************)
(* What a thread tells, and to whom.                                       *)
(***************************************************************************)
Letters == [event : Events \cup {"none"}, to : SUBSET Subs, sub : Subs \cup {Nobody}, attempt : 0 .. MaxAttempts]
Requests == [by : Savers, sub : Subs, event : Events, attempt : 0 .. MaxAttempts]

\* A session tells subscribers of the task it was handed, or answers, of what it has
\* just done, each once.
Aimed(b) ==
  /\ telling[b].sub # Nobody =>
       telling[b].attempt \in 1 .. MaxAttempts /\ TaskOf[telling[b].sub] = About(b, telling[b].event)
  /\ \A s \in telling[b].to : TaskOf[s] = About(b, telling[b].event)
  /\ telling[b].sub \notin telling[b].to
  /\ telling[b].event = "none" => telling[b] = Idle
  /\ telling[b].event = "working" => stage[b] = "working"
  /\ telling[b].event = "completed" => stage[b] = "told"

\* A session has the task it answers from post_llm_call on.
Answering(b) ==
  /\ stage[b] \in {"idle", "marked", "working"} => answers[b] = NoTask
  /\ stage[b] \in {"answering", "completed", "told"} => answers[b] # NoTask

Turns == \A b \in Savers : Aimed(b) /\ Answering(b)

PushTyped ==
  /\ telling \in [Savers -> Letters]
  /\ stage \in [Savers -> Stages]
  /\ processing \subseteq Tasks /\ answers \in [Savers -> Tasks \cup {NoTask}]
  /\ heard \in [Subs -> [Events -> Nat]] /\ misled \subseteq Subs
  /\ inflight \subseteq Requests /\ IsFiniteSet(inflight)

PushInv == PushTyped /\ Turns

LEMMA PushConstants ==
  /\ Nobody \notin Subs /\ TaskOf \in [Subs -> Tasks] /\ WorksOn \in [Savers -> Tasks]
  /\ MaxAttempts \in Nat \ {0} /\ Tellers = Savers /\ IsFiniteSet(Savers) /\ NoTask \notin Tasks
BY PushAssumption, AftermathAssumption

LEMMA InitPush == Init => PushInv
<1> SUFFICES ASSUME Init PROVE PushInv
  OBVIOUS
<1>1. Idle \in Letters
  BY PushConstants DEF Idle, Letters, Events
<1>2. PICK start \in Starts :
        /\ stage = start.stages
        /\ answers = [t \in Savers |-> IF start.stages[t] = "told" THEN WorksOn[t] ELSE NoTask]
  BY DEF Init
<1>3. \A b \in Savers : telling[b] = Idle
  BY PushConstants DEF Init, PInit
<1>4. PushTyped
  <2>1. telling \in [Savers -> Letters] /\ stage \in [Savers -> Stages]
    BY <1>1, <1>2, PushConstants, AftermathAssumption DEF Init, PInit, Stages
  <2>4. processing \subseteq Tasks /\ answers \in [Savers -> Tasks \cup {NoTask}]
    BY <1>2, PushConstants DEF Init
  <2>2. inflight \subseteq Requests /\ IsFiniteSet(inflight) /\ misled \subseteq Subs
    BY FS_EmptySet DEF Init, PInit
  <2>3. heard \in [Subs -> [Events -> Nat]]
    BY DEF Init, PInit
  <2> QED
    BY <2>1, <2>2, <2>3, <2>4 DEF PushTyped
<1>5. Turns
  <2>1. ASSUME NEW b \in Savers PROVE Aimed(b)
    BY <1>3, <2>1, PushConstants DEF Aimed, Idle
  <2>2. ASSUME NEW b \in Savers PROVE Answering(b)
    <3>1. start.stages \in [Savers -> {"idle", "working", "told", "dead"}] /\ WorksOn[b] # NoTask
      BY PushConstants, AftermathAssumption
    <3> QED
      BY <1>2, <3>1 DEF Answering
  <2> QED
    BY <2>1, <2>2 DEF Turns
<1> QED
  BY <1>4, <1>5 DEF PushInv

\* A session begins to tell.
LEMMA TellPush ==
  ASSUME PushInv, StoreInv, NEW t \in Savers, NEW event \in Events, NEW to,
         Tell(t, About(t, event), event), stage' = [stage EXCEPT ![t] = to],
         \/ event = "working" /\ to = "working" /\ stage[t] = "marked"
         \/ event = "completed" /\ to = "told" /\ stage[t] = "completed",
         UNCHANGED <<network, turns>>
  PROVE  /\ PushInv'
         /\ \A b \in Savers \ {t} : telling'[b] = telling[b]
         /\ telling[t] = Idle
         /\ telling'[t] = Idle \/ (telling'[t].event = event /\ telling'[t].sub = Nobody)
<1>0. /\ telling \in [Savers -> Letters] /\ stage \in [Savers -> Stages] /\ telling[t] = Idle
      /\ \A b \in Savers \ {t} : stage'[b] = stage[b]
      /\ stage'[t] = to /\ stage' \in [Savers -> Stages]
      /\ UNCHANGED <<processing, answers>>
  BY DEF PushInv, PushTyped, Tell, Quiet, Stages, turns
<1> DEFINE subs == Subscribed(About(t, event))
<1>1. subs \subseteq Subs /\ \A s \in subs : TaskOf[s] = About(t, event)
  <2>1. About(t, event) \in Tasks
    BY PushConstants DEF PushInv, PushTyped, Turns, Aimed, Answering, About, Events
  <2> QED
    BY <2>1, PushConstants DEF Subscribed, StoreInv, StoreAgrees
<1>2. \A b \in Savers \ {t} : telling'[b] = telling[b]
  BY <1>0 DEF Tell
<1>3. telling'[t] = Idle \/ telling'[t] = [event |-> event, to |-> subs, sub |-> Nobody, attempt |-> 0]
  BY <1>0 DEF Tell, Idle
<1>4. Idle \in Letters /\ [event |-> event, to |-> subs, sub |-> Nobody, attempt |-> 0] \in Letters
  BY <1>1, PushConstants DEF Idle, Letters
<1>5. telling' \in [Savers -> Letters]
  BY <1>0, <1>3, <1>4 DEF Tell
<1>6. PushTyped'
  BY <1>0, <1>5 DEF PushInv, PushTyped, network
<1>7. Turns'
  <2>1. ASSUME NEW b \in Savers PROVE Answering(b)'
    BY <1>0, <2>1 DEF PushInv, Turns, Answering
  <2>2. ASSUME NEW b \in Savers, b # t PROVE Aimed(b)'
    BY <1>0, <1>2, <2>2 DEF PushInv, Turns, Aimed, About
  <2>3. CASE telling'[t] = Idle
    <3>1. Aimed(t)'
      BY <2>3 DEF Aimed, Idle
    <3> QED
      BY <2>1, <2>2, <3>1 DEF Turns
  <2>4. CASE telling'[t] = [event |-> event, to |-> subs, sub |-> Nobody, attempt |-> 0]
    <3>1. \A s \in subs : TaskOf[s] = About(t, event)'
      BY <1>0, <1>1 DEF About
    <3>2. Nobody \notin subs
      BY <1>1, PushConstants
    <3> HIDE DEF subs
    <3>3. Aimed(t)'
      BY <1>0, <2>4, <3>1, <3>2 DEF Aimed, About, Events
    <3> QED
      BY <2>1, <2>2, <3>3 DEF Turns
  <2> QED
    BY <1>3, <2>3, <2>4
<1>8. telling'[t] = Idle \/ (telling'[t].event = event /\ telling'[t].sub = Nobody)
  BY <1>3
<1>9. PushInv'
  BY <1>6, <1>7 DEF PushInv
<1> HIDE DEF subs
<1> QED
  BY <1>0, <1>2, <1>8, <1>9

\* A thread takes the next subscriber, tries again, or is done with one.
LEMMA TurnsGoOn ==
  ASSUME PushInv, NEW b \in Savers, NEW next \in Letters,
         telling' = [telling EXCEPT ![b] = next], UNCHANGED <<stage, turns>>,
         \/ next = Idle
         \/ /\ next.event = telling[b].event /\ next.event # "none"
            /\ next.to \subseteq telling[b].to /\ next.sub \notin next.to
            /\ \/ next.sub = Nobody
               \/ next.sub \in telling[b].to \cup {telling[b].sub} /\ next.attempt \in 1 .. MaxAttempts
  PROVE  /\ telling' \in [Savers -> Letters] /\ Turns'
         /\ telling'[b] = next /\ \A t \in Savers \ {b} : telling'[t] = telling[t]
<1>0. telling \in [Savers -> Letters]
  BY DEF PushInv, PushTyped
<1>1. telling'[b] = next /\ \A t \in Savers \ {b} : telling'[t] = telling[t]
  BY <1>0
<1>2. telling' \in [Savers -> Letters]
  BY <1>0
<1>3. Turns'
  <2>0. UNCHANGED <<stage, answers>>
    BY DEF turns
  <2>1. ASSUME NEW t \in Savers PROVE Answering(t)'
    BY <2>0, <2>1 DEF PushInv, Turns, Answering
  <2>2. ASSUME NEW t \in Savers, t # b PROVE Aimed(t)'
    BY <1>1, <2>0, <2>2 DEF PushInv, Turns, Aimed, About
  <2>3. Aimed(b)'
    <3>1. CASE next = Idle
      BY <1>1, <3>1 DEF Aimed, Idle
    <3>2. CASE next # Idle
      BY <1>1, <2>0, <3>2 DEF PushInv, Turns, Aimed, About
    <3> QED
      BY <3>1, <3>2
  <2> QED
    BY <2>1, <2>2, <2>3 DEF Turns
<1> QED
  BY <1>1, <1>2, <1>3

LEMMA Rest ==
  ASSUME NEW w \in Letters
  PROVE  LET next == [w EXCEPT !.sub = Nobody, !.attempt = 0]
         IN next \in Letters /\ next.event = w.event /\ next.to = w.to /\ next.sub = Nobody
<1> DEFINE mid == [w EXCEPT !.sub = Nobody]
           next == [w EXCEPT !.sub = Nobody, !.attempt = 0]
<1>1. mid \in Letters
  BY DEF Letters
<1>2. 0 \in 0 .. MaxAttempts
  BY PushConstants
<1>3. [mid EXCEPT !.attempt = 0] \in Letters
  <2> HIDE DEF mid
  <2> QED
    BY <1>1, <1>2 DEF Letters
<1>4. next = [mid EXCEPT !.attempt = 0]
  OBVIOUS
<1>5. next.event = w.event /\ next.to = w.to /\ next.sub = Nobody
  BY DEF Letters
<1> QED
  BY <1>3, <1>4, <1>5

LEMMA TryAgain ==
  ASSUME NEW w \in Letters, w.attempt < MaxAttempts
  PROVE  LET next == [w EXCEPT !.attempt = @ + 1]
         IN /\ next \in Letters /\ next.event = w.event /\ next.to = w.to /\ next.sub = w.sub
            /\ next.attempt = w.attempt + 1
<1>1. w.attempt + 1 \in 0 .. MaxAttempts
  BY PushConstants DEF Letters
<1>2. [w EXCEPT !.attempt = @ + 1] = [event |-> w.event, to |-> w.to, sub |-> w.sub, attempt |-> w.attempt + 1]
  BY DEF Letters
<1> QED
  BY <1>1, <1>2 DEF Letters

\* What follows a delivery that was not the last attempt, or was.
Onward(b, next) ==
  \/ next = Idle
  \/ /\ next.event = telling[b].event /\ next.to = telling[b].to
     /\ \/ next.sub = Nobody
        \/ /\ next.sub = telling[b].sub /\ telling[b].attempt < MaxAttempts
           /\ next.attempt = telling[b].attempt + 1

LEMMA OnwardPush ==
  ASSUME PushInv, NEW b \in Savers, telling[b].sub # Nobody, UNCHANGED <<stage, turns>>,
         \/ telling' = [telling EXCEPT ![b] = Done(b)]
         \/ telling' = [telling EXCEPT ![b] = Again(b)] /\ ~OutOfAttempts(b)
  PROVE  /\ telling' \in [Savers -> Letters] /\ Turns'
         /\ \A t \in Savers \ {b} : telling'[t] = telling[t]
         /\ Onward(b, telling'[b])
<1> DEFINE w == telling[b]
<1>0. /\ MaxAttempts \in Nat \ {0} /\ w \in Letters
      /\ w.event \in Events /\ w.to \in SUBSET Subs /\ w.sub \in Subs /\ w.sub \notin w.to
      /\ w.attempt \in 1 .. MaxAttempts
      /\ telling \in [Savers -> Letters]
  BY PushConstants DEF PushInv, PushTyped, Turns, Aimed, Answering, Letters, Idle
<1>1. PICK next \in Letters : telling' = [telling EXCEPT ![b] = next] /\ Onward(b, next)
  <2>1. CASE telling' = [telling EXCEPT ![b] = Done(b)]
    <3>1. Idle \in Letters
      BY <1>0 DEF Idle, Letters
    <3>2. CASE w.to = {}
      BY <2>1, <3>1, <3>2 DEF Done, Onward
    <3>3. CASE w.to # {}
      <4> DEFINE rest == [w EXCEPT !.sub = Nobody, !.attempt = 0]
      <4>1. rest \in Letters /\ rest.event = w.event /\ rest.to = w.to /\ rest.sub = Nobody
        BY <1>0, Rest
      <4>2. Done(b) = rest
        BY <3>3 DEF Done
      <4> HIDE DEF rest
      <4> QED
        BY <2>1, <4>1, <4>2 DEF Onward
    <3> QED
      BY <3>2, <3>3
  <2>2. CASE telling' = [telling EXCEPT ![b] = Again(b)] /\ ~OutOfAttempts(b)
    <3> DEFINE next == Again(b)
    <3>1. w.attempt < MaxAttempts
      BY <1>0, <2>2 DEF OutOfAttempts
    <3>2. telling' = [telling EXCEPT ![b] = next]
      BY <2>2
    <3>3. /\ next \in Letters /\ next.event = w.event /\ next.to = w.to /\ next.sub = w.sub
          /\ next.attempt = w.attempt + 1
      BY <1>0, <3>1, TryAgain DEF Again
    <3> HIDE DEF next
    <3>4. Onward(b, next)
      BY <3>1, <3>3 DEF Onward
    <3> QED
      BY <3>2, <3>3, <3>4
  <2> QED
    BY <2>1, <2>2
<1>2. \/ next = Idle
      \/ /\ next.event = telling[b].event /\ next.event # "none"
         /\ next.to \subseteq telling[b].to /\ next.sub \notin next.to
         /\ \/ next.sub = Nobody
            \/ next.sub \in telling[b].to \cup {telling[b].sub} /\ next.attempt \in 1 .. MaxAttempts
  BY <1>0, <1>1, PushConstants DEF Onward, Events
<1>3. /\ telling' \in [Savers -> Letters] /\ Turns'
      /\ telling'[b] = next /\ \A t \in Savers \ {b} : telling'[t] = telling[t]
  BY <1>1, <1>2, TurnsGoOn
<1> QED
  BY <1>1, <1>3

LEMMA TurnPush ==
  ASSUME PushInv, NEW b \in Savers, NEW s \in Subs, Turn(b, s), UNCHANGED <<stage, turns>>
  PROVE  /\ PushInv'
         /\ \A t \in Savers \ {b} : telling'[t] = telling[t]
         /\ telling[b].sub = Nobody /\ s \in telling[b].to
         /\ telling'[b].event = telling[b].event /\ telling'[b].to = telling[b].to \ {s}
         /\ telling'[b].sub = s /\ telling'[b].attempt = 1
<1> DEFINE w == telling[b]
           next == [event |-> w.event, to |-> w.to \ {s}, sub |-> s, attempt |-> 1]
<1>0. /\ MaxAttempts \in Nat \ {0} /\ w \in Letters /\ s \in w.to /\ w.sub = Nobody
      /\ w.event \in Events /\ w.to \in SUBSET Subs
      /\ telling \in [Savers -> Letters]
  BY PushConstants DEF PushInv, PushTyped, Turns, Aimed, Answering, Letters, Idle, Turn
<1>1. telling' = [telling EXCEPT ![b] = next]
  BY <1>0 DEF Turn, Letters
<1>2. next \in Letters
  BY <1>0 DEF Letters
<1>3. /\ next.event = w.event /\ next.event # "none"
      /\ next.to = w.to \ {s} /\ next.sub = s /\ next.attempt = 1 /\ next.attempt \in 1 .. MaxAttempts
  BY <1>0 DEF Events
<1> HIDE DEF next
<1>4. /\ telling' \in [Savers -> Letters] /\ Turns'
      /\ telling'[b] = next /\ \A t \in Savers \ {b} : telling'[t] = telling[t]
  BY <1>0, <1>1, <1>2, <1>3, TurnsGoOn
<1>5. PushInv'
  BY <1>4 DEF PushInv, PushTyped, Turn, network, turns
<1> QED
  BY <1>0, <1>3, <1>4, <1>5

LEMMA HeardOne ==
  ASSUME PushTyped, NEW s \in Subs, NEW e \in Events, Heard(s, e)
  PROVE  /\ heard' \in [Subs -> [Events -> Nat]] /\ misled' \subseteq Subs
         /\ heard'[s][e] = heard[s][e] + 1
         /\ \A r \in Subs : \A f \in Events : r # s \/ f # e => heard'[r][f] = heard[r][f]
         /\ misled' \subseteq misled \cup {s}
         /\ misled' # misled => e = "working" /\ heard[s]["completed"] > 0
<1>1. heard \in [Subs -> [Events -> Nat]] /\ misled \subseteq Subs
  BY DEF PushTyped
<1>2. heard' = [heard EXCEPT ![s][e] = heard[s][e] + 1]
  BY DEF Heard
<1>3. heard[s] \in [Events -> Nat]
  BY <1>1
<1>4. heard' = [heard EXCEPT ![s] = [heard[s] EXCEPT ![e] = heard[s][e] + 1]]
  BY <1>2
<1>5. [heard[s] EXCEPT ![e] = heard[s][e] + 1] \in [Events -> Nat]
  BY <1>3
<1>6. heard' \in [Subs -> [Events -> Nat]]
  BY <1>1, <1>4, <1>5
<1>7. /\ heard'[s][e] = heard[s][e] + 1
      /\ \A r \in Subs : \A f \in Events : r # s \/ f # e => heard'[r][f] = heard[r][f]
  BY <1>1, <1>3, <1>4
<1>8. /\ misled' \subseteq misled \cup {s} /\ misled' \subseteq Subs
      /\ misled' # misled => e = "working" /\ heard[s]["completed"] > 0
  BY <1>1 DEF Heard
<1> QED
  BY <1>6, <1>7, <1>8

\* What became of one delivery.
Outcome(s, e) ==
  \/ UNCHANGED <<inflight, heard, misled, delayed>>
  \/ Heard(s, e) /\ UNCHANGED <<inflight, delayed>>
  \/ \E m \in Requests :
       /\ m.sub = s /\ m.event = e
       /\ inflight' = inflight \cup {m} /\ delayed' = delayed \cup {s}
       /\ UNCHANGED <<heard, misled>>

LEMMA ServePush ==
  ASSUME PushInv, NEW b \in Savers, Deliver(b) \/ Fail(b), UNCHANGED <<stage, turns>>
  PROVE  /\ PushInv'
         /\ telling[b].sub \in Subs /\ telling[b].event \in Events
         /\ \A t \in Savers \ {b} : telling'[t] = telling[t]
         /\ Onward(b, telling'[b])
         /\ Outcome(telling[b].sub, telling[b].event)
<1> DEFINE s == telling[b].sub
           e == telling[b].event
           m == [by |-> b, sub |-> s, event |-> e, attempt |-> telling[b].attempt]
<1>0. s \in Subs /\ e \in Events /\ s # Nobody /\ telling[b].attempt \in 0 .. MaxAttempts
  BY DEF PushInv, PushTyped, Turns, Aimed, Answering, Letters, Idle, Deliver, Fail
<1>1. /\ telling' \in [Savers -> Letters] /\ Turns'
      /\ \A t \in Savers \ {b} : telling'[t] = telling[t]
      /\ Onward(b, telling'[b])
  <2>1. \/ telling' = [telling EXCEPT ![b] = Done(b)]
        \/ telling' = [telling EXCEPT ![b] = Again(b)] /\ ~OutOfAttempts(b)
    BY DEF Deliver, Fail
  <2> QED
    BY <1>0, <2>1, OnwardPush
<1>2. m \in Requests
  BY <1>0 DEF Requests
<1>3. Outcome(s, e)
  <2>1. m.sub = s /\ m.event = e
    OBVIOUS
  <2>2. CASE Deliver(b)
    BY <2>2 DEF Deliver, Outcome
  <2>3. CASE Fail(b)
    <3>1. \/ UNCHANGED <<inflight, heard, misled, delayed>>
          \/ Heard(s, m.event) /\ UNCHANGED <<inflight, delayed>>
          \/ inflight' = inflight \cup {m} /\ delayed' = delayed \cup {s} /\ UNCHANGED <<heard, misled>>
      BY <2>3 DEF Fail
    <3> HIDE DEF m
    <3> QED
      BY <1>2, <2>1, <3>1 DEF Outcome
  <2> QED
    BY <2>2, <2>3
<1>4. PushTyped'
  <2>1. CASE UNCHANGED <<inflight, heard, misled, delayed>>
    BY <1>1, <2>1 DEF PushInv, PushTyped, turns
  <2>2. CASE Heard(s, e) /\ UNCHANGED <<inflight, delayed>>
    BY <1>0, <1>1, <2>2, HeardOne DEF PushInv, PushTyped, turns
  <2>3. ASSUME NEW r \in Requests, inflight' = inflight \cup {r}, UNCHANGED <<heard, misled>> PROVE PushTyped'
    BY <1>1, <2>3, FS_AddElement DEF PushInv, PushTyped, turns
  <2> QED
    BY <1>3, <2>1, <2>2, <2>3 DEF Outcome
<1> QED
  BY <1>0, <1>1, <1>3, <1>4 DEF PushInv

LEMMA ArrivePush ==
  ASSUME PushInv, NEW m \in inflight, Arrive(m), UNCHANGED <<stage, turns>>
  PROVE  /\ PushInv' /\ UNCHANGED telling /\ m \in Requests
         /\ Heard(m.sub, m.event) /\ inflight' = inflight \ {m} /\ UNCHANGED delayed
<1>1. m \in Requests /\ m.sub \in Subs /\ m.event \in Events
  BY DEF PushInv, PushTyped, Requests
<1>2. Heard(m.sub, m.event) /\ inflight' = inflight \ {m} /\ UNCHANGED <<telling, delayed>>
  BY DEF Arrive
<1>3. PushTyped'
  BY <1>1, <1>2, HeardOne, FS_RemoveElement DEF PushInv, PushTyped, turns
<1>4. Turns'
  BY <1>2 DEF PushInv, Turns, Aimed, Answering, About, turns
<1> QED
  BY <1>1, <1>2, <1>3, <1>4 DEF PushInv

LEMMA CrashPush == ASSUME PushInv, Crash PROVE PushInv'
<1>1. Idle \in Letters
  BY PushConstants DEF Idle, Letters
<1>2. /\ telling' = [b \in Savers |-> Idle] /\ UNCHANGED network
      /\ stage' = [t \in Savers |-> IF stage[t] = "idle" THEN "idle" ELSE "dead"]
      /\ processing' = {} /\ UNCHANGED answers
  BY PushConstants DEF Crash
<1>3. telling' \in [Savers -> Letters] /\ stage' \in [Savers -> Stages]
  BY <1>1, <1>2 DEF Stages
<1>4. PushTyped'
  BY <1>2, <1>3 DEF PushInv, PushTyped, network
<1>5. Turns'
  BY <1>2 DEF PushInv, Turns, Aimed, Answering, Idle
<1> QED
  BY <1>4, <1>5 DEF PushInv

\* A step of no thread that tells.
LEMMA QuietPush ==
  ASSUME PushInv, UNCHANGED <<telling, network, stage, answers>>, processing' \subseteq Tasks PROVE PushInv'
<1>1. UNCHANGED <<telling, inflight, heard, misled, stage>>
  BY DEF network
<1> QED
  BY <1>1 DEF PushInv, PushTyped, Turns, Aimed, Answering, About

\* A session goes on without telling anybody.
GoesOn(t) == Mark(t) \/ Skip(t) \/ Target(t) \/ Complete(t)

LEMMA GoOnPush ==
  ASSUME PushInv, NEW t \in Savers, GoesOn(t)
  PROVE  /\ PushInv' /\ UNCHANGED <<telling, network>>
         /\ \A b \in Savers \ {t} : stage'[b] = stage[b] /\ answers'[b] = answers[b]
         /\ \/ stage[t] = "idle" /\ stage'[t] = "marked" /\ answers'[t] = answers[t]
            \/ /\ stage[t] \in {"working", "answering"} /\ stage'[t] \in {"over", "answering", "completed"}
               /\ answers'[t] = answers[t] \/ answers[t] = NoTask
<1>0. /\ stage \in [Savers -> Stages] /\ answers \in [Savers -> Tasks \cup {NoTask}]
      /\ processing \subseteq Tasks /\ telling \in [Savers -> Letters]
      /\ WorksOn[t] \in Tasks /\ NoTask \notin Tasks
  BY PushConstants DEF PushInv, PushTyped
<1>1. UNCHANGED <<telling, network, inflight, heard, misled>>
  BY DEF GoesOn, Mark, Skip, Target, Complete, pushing, network
<1>2. /\ stage[t] \in {"idle", "working", "answering"} /\ telling[t] = Idle
      /\ \E to \in {"marked", "over", "answering", "completed"} :
           /\ stage' = [stage EXCEPT ![t] = to]
           /\ to = "marked" <=> stage[t] = "idle"
           /\ to = "answering" => stage[t] = "working" /\ \E i \in Tasks : answers' = [answers EXCEPT ![t] = i]
           /\ to # "answering" => answers' = answers
           /\ to = "completed" => stage[t] = "answering"
  <2>1. telling[t].event \in Events \cup {"none"}
    BY <1>0 DEF Letters
  <2>2. stage[t] \in {"idle", "working", "answering"}
    BY DEF GoesOn, Mark, Skip, Target, Complete, Advance
  <2>3. telling[t] = Idle
    <3>1. CASE stage[t] \in {"idle", "answering"}
      BY <2>1, <3>1 DEF PushInv, Turns, Aimed, Answering, Events
    <3>2. CASE stage[t] = "working"
      BY <3>2 DEF GoesOn, Mark, Skip, Target, Complete, Advance, Quiet
    <3> QED
      BY <2>2, <3>1, <3>2
  <2>4. CASE Mark(t)
    BY <2>2, <2>3, <2>4 DEF Mark, Advance
  <2>5. CASE Skip(t)
    BY <2>2, <2>3, <2>5 DEF Skip, Advance, turns
  <2>6. CASE Target(t)
    BY <1>0, <2>2, <2>3, <2>6 DEF Target, Advance
  <2>7. CASE Complete(t)
    BY <2>2, <2>3, <2>7 DEF Complete, Advance
  <2> QED
    BY <2>4, <2>5, <2>6, <2>7 DEF GoesOn
<1>3. PICK to \in {"marked", "over", "answering", "completed"} :
           /\ stage' = [stage EXCEPT ![t] = to]
           /\ to = "marked" <=> stage[t] = "idle"
           /\ to = "answering" => stage[t] = "working" /\ \E i \in Tasks : answers' = [answers EXCEPT ![t] = i]
           /\ to # "answering" => answers' = answers
           /\ to = "completed" => stage[t] = "answering"
  BY <1>2
<1>4. /\ stage'[t] = to /\ stage' \in [Savers -> Stages] /\ answers' \in [Savers -> Tasks \cup {NoTask}]
      /\ \A b \in Savers \ {t} : stage'[b] = stage[b] /\ answers'[b] = answers[b]
      /\ to = "answering" => answers'[t] \in Tasks /\ answers[t] = NoTask
      /\ to # "answering" => answers'[t] = answers[t]
  BY <1>0, <1>3 DEF Stages, PushInv, Turns, Aimed, Answering
<1>5. processing' \subseteq Tasks
  BY <1>0 DEF GoesOn, Mark, Skip, Target, Complete, turns
<1>6. PushTyped'
  BY <1>1, <1>4, <1>5 DEF PushInv, PushTyped
<1>7. Turns'
  <2>1. ASSUME NEW b \in Savers, b # t PROVE Aimed(b)' /\ Answering(b)'
    BY <1>1, <1>4, <2>1 DEF PushInv, Turns, Aimed, Answering, About
  <2>2. Aimed(t)'
    BY <1>1, <1>2 DEF Aimed, Idle
  <2>3. Answering(t)'
    BY <1>0, <1>3, <1>4 DEF PushInv, Turns, Answering
  <2> QED
    BY <2>1, <2>2, <2>3 DEF Turns
<1>8. \/ stage[t] = "idle" /\ stage'[t] = "marked" /\ answers'[t] = answers[t]
      \/ /\ stage[t] \in {"working", "answering"} /\ stage'[t] \in {"over", "answering", "completed"}
         /\ answers'[t] = answers[t] \/ answers[t] = NoTask
  BY <1>2, <1>3, <1>4
<1>9. PushInv'
  BY <1>6, <1>7 DEF PushInv
<1> QED
  BY <1>1, <1>4, <1>8, <1>9

LEMMA StepPush == ASSUME PushInv, StoreInv, [Next]_vars PROVE PushInv'
<1>0. Tellers = Savers
  BY PushConstants
<1>1. ASSUME NEW t \in Savers, TellWorking(t) \/ TellCompleted(t) PROVE PushInv'
  BY <1>1, TellPush DEF TellWorking, TellCompleted, Advance, Events, About
<1>2. ASSUME NEW t \in Savers, GoesOn(t) PROVE PushInv'
  BY <1>2, GoOnPush
<1>9. processing \subseteq Tasks
  BY DEF PushInv, PushTyped
<1>3. ASSUME NEW t \in Savers, SaveExchange(t) PROVE PushInv'
  BY <1>3, <1>9, QuietPush DEF SaveExchange, pushing, turns
<1>4. CASE Crash
  BY <1>4, CrashPush
<1>5. ASSUME NEW s \in Subs, Subscribe(s) \/ Unsubscribe(s), UNCHANGED <<stage, turns>> PROVE PushInv'
  BY <1>5, <1>9, QuietPush DEF Subscribe, Unsubscribe, turns
<1>6. ASSUME NEW b \in Savers, Telling(b), UNCHANGED <<stage, turns>> PROVE PushInv'
  BY <1>6, TurnPush, ServePush DEF Telling
<1>7. ASSUME NEW m \in inflight, Arrive(m), UNCHANGED <<stage, turns>> PROVE PushInv'
  BY <1>7, ArrivePush
<1>8. CASE (Second /\ UNCHANGED <<pushing, stage, turns, crashed>>) \/ UNCHANGED vars
  BY <1>8, <1>9, QuietPush DEF pushing, vars, turns
<1>10. ASSUME NEW k \in processing, Cancel(k) PROVE PushInv'
  BY <1>9, <1>10, QuietPush DEF Cancel, pushing
<1> QED
  BY <1>0, <1>1, <1>2, <1>3, <1>4, <1>5, <1>6, <1>7, <1>8, <1>10 DEF Next, Session, GoesOn, Push

\* The state stays within its types, and the two dictionaries of the subscription store
\* agree, however subscriptions come, go, expire and are forgotten in a crash.
THEOREM TypesHold == Spec => []TypeOK
<1>1. Init => SaveInv /\ StoreInv /\ PushInv
  BY InitSave, InitStore, InitPush
<1>2. SaveInv /\ StoreInv /\ PushInv /\ [Next]_vars => (SaveInv /\ StoreInv /\ PushInv)'
  BY StepSave, StepStore, StepPush
<1>3. ASSUME SaveInv, StoreInv, PushInv PROVE TypeOK
  <2>1. CTypeOK
    BY <1>3 DEF SaveInv, SavingTyped, CTypeOK, Savings, Within
  <2>2. PTypeOK
    BY <1>3, PushConstants DEF StoreInv, PushInv, PushTyped, PTypeOK, Letters
  <2> QED
    BY <1>3, <2>1, <2>2 DEF TypeOK, PushInv, PushTyped, Stages
<1> QED
  BY <1>1, <1>2, <1>3, PTL DEF Spec

-----------------------------------------------------------------------------
(***************************************************************************)
(* How many copies of an event arrive: as many attempts are spent.         *)
(***************************************************************************)
\* Who tells a subscriber of an event.
Sessions(s, e) == {t \in Savers : About(t, e) = TaskOf[s]}

Begun(t, e) == IF e = "working" THEN stage[t] \notin {"idle", "marked"} ELSE stage[t] \in {"told", "dead"}

\* An attempt is spent when it was made, or can no longer be made.
SpentBy(t, k, s, e) ==
  /\ About(t, e) = TaskOf[s] /\ Begun(t, e)
  /\ telling[t].event = e =>
       s \notin telling[t].to /\ (telling[t].sub = s => k < telling[t].attempt)

Spent(s, e) == {p \in Savers \X (1 .. MaxAttempts) : SpentBy(p[1], p[2], s, e)}

Under(s, e) == {m \in inflight : m.sub = s /\ m.event = e}

Copies(s, e) == heard[s][e] + Cardinality(Under(s, e))

Counted == \A s \in Subs : \A e \in Events : Copies(s, e) <= Cardinality(Spent(s, e))

LEMMA PairsFinite ==
  ASSUME NEW S \in SUBSET Savers, NEW pairs, pairs \subseteq S \X (1 .. MaxAttempts)
  PROVE  /\ IsFiniteSet(pairs) /\ Cardinality(pairs) \in Nat
         /\ Cardinality(pairs) <= Cardinality(S) * MaxAttempts
<1>1. IsFiniteSet(S)
  BY PushConstants, FS_Subset
<1>2. IsFiniteSet(1 .. MaxAttempts) /\ Cardinality(1 .. MaxAttempts) = MaxAttempts
  BY PushConstants, FS_Interval
<1>3. /\ IsFiniteSet(S \X (1 .. MaxAttempts))
      /\ Cardinality(S \X (1 .. MaxAttempts)) = Cardinality(S) * MaxAttempts
  BY <1>1, <1>2, FS_Product
<1> QED
  BY <1>3, FS_Subset, FS_CardinalityType

LEMMA UnderFinite ==
  ASSUME PushTyped, NEW s, NEW e PROVE IsFiniteSet(Under(s, e)) /\ Cardinality(Under(s, e)) \in Nat
<1>1. Under(s, e) \in SUBSET inflight
  BY DEF Under
<1> QED
  BY <1>1, FS_Subset, FS_CardinalityType DEF PushTyped

\* What is spent stays so, and no copy is made.
LEMMA NoCopy ==
  ASSUME PushTyped, Counted, UNCHANGED <<heard, inflight>>,
         \A s \in Subs : \A e \in Events : \A t \in Savers : \A k \in 1 .. MaxAttempts :
           SpentBy(t, k, s, e) => SpentBy(t, k, s, e)'
  PROVE  Counted'
<1> SUFFICES ASSUME NEW s \in Subs, NEW e \in Events
             PROVE  Copies(s, e)' <= Cardinality(Spent(s, e)')
  BY DEF Counted
<1>1. Copies(s, e)' = Copies(s, e) /\ Copies(s, e) \in Nat
  <2>1. heard[s][e] \in Nat /\ Cardinality(Under(s, e)) \in Nat
    BY UnderFinite DEF PushTyped
  <2>2. Under(s, e)' = Under(s, e)
    BY DEF Under
  <2> QED
    BY <2>1, <2>2 DEF Copies
<1>2. Spent(s, e) \subseteq Spent(s, e)'
  BY DEF Spent
<1>3. /\ Spent(s, e) \subseteq Savers \X (1 .. MaxAttempts)
      /\ Spent(s, e)' \subseteq Savers \X (1 .. MaxAttempts)
  BY DEF Spent
<1>4. /\ IsFiniteSet(Spent(s, e)') /\ Cardinality(Spent(s, e)') \in Nat
      /\ Cardinality(Spent(s, e)) \in Nat
  BY <1>3, PairsFinite
<1>5. Cardinality(Spent(s, e)) <= Cardinality(Spent(s, e)')
  BY <1>2, <1>4, FS_Subset
<1>6. Copies(s, e) <= Cardinality(Spent(s, e))
  BY DEF Counted
<1> QED
  BY <1>1, <1>4, <1>5, <1>6

\* One attempt is spent, and one copy more is there or on its way.
LEMMA OneCopy ==
  ASSUME PushInv, PushInv', Counted, NEW b \in Savers, NEW r \in Subs, NEW f \in Events, NEW n,
         telling[b].sub = r, telling[b].event = f, telling[b].attempt = n,
         UNCHANGED <<stage, turns>>,
         \A t \in Savers \ {b} : telling'[t] = telling[t],
         Onward(b, telling'[b]), Outcome(r, f)
  PROVE  Counted'
<1> DEFINE mine == <<b, n>>
<1>0. /\ r # Nobody /\ r \notin telling[b].to /\ n \in 1 .. MaxAttempts
      /\ About(b, f) = TaskOf[r] /\ Begun(b, f) /\ MaxAttempts \in Nat \ {0}
      /\ UNCHANGED <<stage, answers>> /\ \A t \in Savers : \A e : About(t, e)' = About(t, e)
  BY PushConstants DEF PushInv, Turns, Aimed, Answering, Begun, Events, About, turns
<1>1. ASSUME NEW s \in Subs, NEW e \in Events, NEW t \in Savers, NEW k \in 1 .. MaxAttempts, SpentBy(t, k, s, e)
      PROVE  SpentBy(t, k, s, e)'
  <2>1. Begun(t, e)' /\ About(t, e)' = TaskOf[s]
    BY <1>0, <1>1 DEF SpentBy, Begun
  <2>2. CASE t # b
    BY <1>1, <2>1, <2>2 DEF SpentBy
  <2>3. CASE t = b
    BY <1>0, <1>1, <2>1, <2>3, PushConstants DEF SpentBy, Onward, Idle, Events
  <2> QED
    BY <2>2, <2>3
<1>2. \A s \in Subs : \A e \in Events : Spent(s, e) \subseteq Spent(s, e)'
  BY <1>1 DEF Spent
<1>3. mine \notin Spent(r, f) /\ mine \in Spent(r, f)'
  <2>1. ~SpentBy(b, n, r, f)
    BY <1>0 DEF SpentBy
  <2>2. SpentBy(b, n, r, f)'
    <3>1. Begun(b, f)'
      BY <1>0 DEF Begun
    <3>2. CASE telling'[b] = Idle
      BY <1>0, <3>1, <3>2 DEF SpentBy, Idle, Events
    <3>3. CASE telling'[b] # Idle
      BY <1>0, <3>1, <3>3 DEF SpentBy, Onward
    <3> QED
      BY <3>2, <3>3
  <2> QED
    BY <1>0, <2>1, <2>2 DEF Spent
<1>4. ASSUME NEW s \in Subs, NEW e \in Events
      PROVE  /\ IsFiniteSet(Spent(s, e)) /\ IsFiniteSet(Spent(s, e)')
             /\ Cardinality(Spent(s, e)') \in Nat /\ Cardinality(Spent(s, e)) \in Nat
             /\ Cardinality(Spent(s, e)) <= Cardinality(Spent(s, e)')
  <2>1. /\ Spent(s, e) \subseteq Savers \X (1 .. MaxAttempts)
        /\ Spent(s, e)' \subseteq Savers \X (1 .. MaxAttempts)
    BY DEF Spent
  <2>2. /\ IsFiniteSet(Spent(s, e)) /\ IsFiniteSet(Spent(s, e)')
        /\ Cardinality(Spent(s, e)') \in Nat /\ Cardinality(Spent(s, e)) \in Nat
    BY <2>1, PairsFinite
  <2> QED
    BY <1>2, <2>2, FS_Subset
<1>5. Cardinality(Spent(r, f)) + 1 <= Cardinality(Spent(r, f)')
  <2> DEFINE more == Spent(r, f) \cup {mine}
  <2>1. Cardinality(more) = Cardinality(Spent(r, f)) + 1
    BY <1>0, <1>3, <1>4, FS_AddElement
  <2>2. more \subseteq Spent(r, f)'
    BY <1>0, <1>2, <1>3
  <2>3. Cardinality(more) <= Cardinality(Spent(r, f)')
    BY <1>0, <1>4, <2>2, FS_Subset
  <2> QED
    BY <2>1, <2>3
<1>6. ASSUME NEW s \in Subs, NEW e \in Events
      PROVE  /\ Copies(s, e) \in Nat /\ Copies(s, e) <= Cardinality(Spent(s, e))
             /\ s # r \/ e # f => Copies(s, e)' = Copies(s, e)
             /\ Copies(r, f)' \in Nat /\ Copies(r, f)' <= Copies(r, f) + 1
  <2>0. heard \in [Subs -> [Events -> Nat]] /\ heard' \in [Subs -> [Events -> Nat]] /\ IsFiniteSet(inflight)
    BY DEF PushInv, PushTyped
  <2>1. Copies(s, e) \in Nat /\ Copies(s, e) <= Cardinality(Spent(s, e))
    BY <2>0, UnderFinite DEF Copies, Counted, PushInv
  <2>2. heard[r][f] \in Nat /\ Cardinality(Under(r, f)) \in Nat /\ IsFiniteSet(Under(r, f))
    BY <1>0, <2>0, UnderFinite DEF PushInv
  <2>3. CASE UNCHANGED <<inflight, heard>>
    <3>1. Copies(s, e)' = Copies(s, e) /\ Copies(r, f)' = Copies(r, f) /\ Copies(r, f) \in Nat
      BY <2>2, <2>3 DEF Copies, Under
    <3> QED
      BY <2>1, <3>1
  <2>4. CASE Heard(r, f) /\ UNCHANGED inflight
    <3>1. /\ heard'[r][f] = heard[r][f] + 1
          /\ s # r \/ e # f => heard'[s][e] = heard[s][e]
      BY <1>0, <2>4, HeardOne DEF PushInv
    <3>2. Under(s, e)' = Under(s, e) /\ Under(r, f)' = Under(r, f)
      BY <2>4 DEF Under
    <3>3. Copies(r, f)' = Copies(r, f) + 1 /\ Copies(r, f) \in Nat
      BY <2>2, <3>1, <3>2 DEF Copies
    <3>4. s # r \/ e # f => Copies(s, e)' = Copies(s, e)
      BY <3>1, <3>2 DEF Copies
    <3> QED
      BY <2>1, <3>3, <3>4
  <2>5. ASSUME NEW m \in Requests, m.sub = r, m.event = f, inflight' = inflight \cup {m}, UNCHANGED heard
        PROVE  /\ s # r \/ e # f => Copies(s, e)' = Copies(s, e)
               /\ Copies(r, f)' \in Nat /\ Copies(r, f)' <= Copies(r, f) + 1
    <3>1. Under(r, f)' = Under(r, f) \cup {m}
      BY <2>5 DEF Under
    <3>2. Cardinality(Under(r, f)') \in {Cardinality(Under(r, f)), Cardinality(Under(r, f)) + 1}
      <4>1. Cardinality(Under(r, f) \cup {m}) =
              IF m \in Under(r, f) THEN Cardinality(Under(r, f)) ELSE Cardinality(Under(r, f)) + 1
        BY <2>2, FS_AddElement
      <4> QED
        BY <3>1, <4>1
    <3>3. s # r \/ e # f => Under(s, e)' = Under(s, e)
      BY <2>5 DEF Under
    <3> QED
      BY <2>2, <2>5, <3>2, <3>3 DEF Copies
  <2> QED
    BY <2>1, <2>3, <2>4, <2>5 DEF Outcome
<1> SUFFICES ASSUME NEW s \in Subs, NEW e \in Events
             PROVE  Copies(s, e)' <= Cardinality(Spent(s, e)')
  BY DEF Counted
<1>7. CASE s = r /\ e = f
  <2>1. Copies(r, f) <= Cardinality(Spent(r, f)) /\ Copies(r, f) \in Nat
    BY <1>0, <1>6
  <2>2. Copies(r, f)' \in Nat /\ Copies(r, f)' <= Copies(r, f) + 1
    BY <1>0, <1>6
  <2>3. Cardinality(Spent(r, f)') \in Nat /\ Cardinality(Spent(r, f)) \in Nat
    BY <1>0, <1>4
  <2>4. Copies(r, f)' <= Cardinality(Spent(r, f)')
    BY <1>5, <2>1, <2>2, <2>3
  <2> QED
    BY <1>7, <2>4
<1>8. CASE ~(s = r /\ e = f)
  <2>1. Copies(s, e)' = Copies(s, e) /\ Copies(s, e) \in Nat /\ Copies(s, e) <= Cardinality(Spent(s, e))
    BY <1>6, <1>8
  <2> QED
    BY <1>4, <2>1
<1> QED
  BY <1>7, <1>8

LEMMA ArriveCopy ==
  ASSUME PushInv, Counted, NEW m \in inflight, UNCHANGED <<telling, stage, turns>>,
         Heard(m.sub, m.event), inflight' = inflight \ {m}
  PROVE  Counted'
<1> DEFINE r == m.sub
           f == m.event
<1>0. r \in Subs /\ f \in Events /\ heard \in [Subs -> [Events -> Nat]] /\ IsFiniteSet(inflight)
  BY DEF PushInv, PushTyped, Requests
<1> SUFFICES ASSUME NEW s \in Subs, NEW e \in Events
             PROVE  Copies(s, e)' <= Cardinality(Spent(s, e)')
  BY DEF Counted
<1>1. Spent(s, e)' = Spent(s, e)
  BY DEF Spent, SpentBy, Begun, About, turns
<1>2. heard[s][e] \in Nat /\ Cardinality(Under(s, e)) \in Nat /\ IsFiniteSet(Under(s, e))
  BY <1>0, UnderFinite DEF PushInv
<1>3. Copies(s, e)' = Copies(s, e)
  <2>1. CASE s = r /\ e = f
    <3>1. heard'[s][e] = heard[s][e] + 1
      BY <1>0, <2>1, HeardOne DEF PushInv
    <3>2. m \in Under(s, e) /\ Under(s, e)' = Under(s, e) \ {m}
      BY <2>1 DEF Under
    <3>3. Cardinality(Under(s, e)') = Cardinality(Under(s, e)) - 1
      BY <1>2, <3>2, FS_RemoveElement
    <3> QED
      BY <1>2, <3>1, <3>3 DEF Copies
  <2>2. CASE ~(s = r /\ e = f)
    <3>1. heard'[s][e] = heard[s][e]
      BY <1>0, <2>2, HeardOne DEF PushInv
    <3>2. Under(s, e)' = Under(s, e)
      BY <2>2 DEF Under
    <3> QED
      BY <3>1, <3>2 DEF Copies
  <2> QED
    BY <2>1, <2>2
<1> QED
  BY <1>1, <1>3 DEF Counted

LEMMA InitCounted == Init => Counted
<1> SUFFICES ASSUME Init, NEW s \in Subs, NEW e \in Events
             PROVE  Copies(s, e) <= Cardinality(Spent(s, e))
  BY DEF Counted
<1>1. Copies(s, e) = 0
  <2>1. heard[s][e] = 0 /\ Under(s, e) = {}
    BY DEF Init, PInit, Under
  <2> QED
    BY <2>1, FS_EmptySet DEF Copies
<1>2. Spent(s, e) \subseteq Savers \X (1 .. MaxAttempts)
  BY DEF Spent
<1> QED
  BY <1>1, <1>2, PairsFinite

LEMMA StepCounted == ASSUME PushInv, StoreInv, Counted, [Next]_vars PROVE Counted'
<1>0. Tellers = Savers /\ Nobody \notin Subs /\ MaxAttempts \in Nat
  BY PushConstants
<1>1. ASSUME NEW t \in Savers, TellWorking(t) \/ TellCompleted(t) PROVE Counted'
  <2>1. PICK e \in Events, to \in {"working", "told"} :
          /\ Tell(t, About(t, e), e) /\ stage' = [stage EXCEPT ![t] = to] /\ UNCHANGED <<network, turns>>
          /\ \/ e = "working" /\ to = "working" /\ stage[t] = "marked"
             \/ e = "completed" /\ to = "told" /\ stage[t] = "completed"
    BY <1>1 DEF TellWorking, TellCompleted, Advance, Events, About
  <2>2. /\ \A b \in Savers \ {t} : telling'[b] = telling[b]
        /\ telling[t] = Idle
        /\ telling'[t] = Idle \/ (telling'[t].event = e /\ telling'[t].sub = Nobody)
    BY <2>1, TellPush
  <2>3. /\ \A b \in Savers \ {t} : stage'[b] = stage[b]
        /\ stage'[t] = to /\ \A b \in Savers : \A f : About(b, f)' = About(b, f)
    BY <2>1 DEF PushInv, PushTyped, About, turns
  <2>4. ASSUME NEW s \in Subs, NEW f \in Events, NEW u \in Savers, NEW k \in 1 .. MaxAttempts, SpentBy(u, k, s, f)
        PROVE  SpentBy(u, k, s, f)'
    <3>1. CASE u # t
      BY <2>2, <2>3, <2>4, <3>1 DEF SpentBy, Begun
    <3>2. CASE u = t
      <4>1. f # e /\ Begun(t, f)'
        BY <2>1, <2>3, <2>4, <3>2 DEF SpentBy, Begun, Events
      <4> QED
        BY <2>2, <2>3, <2>4, <3>2, <4>1 DEF SpentBy, Idle, Events
    <3> QED
      BY <3>1, <3>2
  <2>5. UNCHANGED <<heard, inflight>>
    BY <2>1 DEF network
  <2> QED
    BY <2>4, <2>5, NoCopy DEF PushInv
<1>2. ASSUME NEW t \in Savers, GoesOn(t) PROVE Counted'
  <2>1. /\ UNCHANGED <<telling, heard, inflight>>
        /\ \A b \in Savers \ {t} : stage'[b] = stage[b] /\ answers'[b] = answers[b]
        /\ \/ stage[t] = "idle" /\ stage'[t] = "marked" /\ answers'[t] = answers[t]
           \/ /\ stage[t] \in {"working", "answering"} /\ stage'[t] \in {"over", "answering", "completed"}
              /\ answers'[t] = answers[t] \/ answers[t] = NoTask
    BY <1>2, GoOnPush DEF network
  <2>2. ASSUME NEW s \in Subs, NEW f \in Events, NEW u \in Savers, NEW k \in 1 .. MaxAttempts, SpentBy(u, k, s, f)
        PROVE  SpentBy(u, k, s, f)'
    <3>1. CASE u # t
      BY <2>1, <2>2, <3>1 DEF SpentBy, Begun, About
    <3>2. CASE u = t
      BY <2>1, <2>2, <3>2 DEF SpentBy, Begun, About, Events
    <3> QED
      BY <3>1, <3>2
  <2> QED
    BY <2>1, <2>2, NoCopy DEF PushInv
<1>3. CASE Crash
  <2>1. /\ telling' = [b \in Savers |-> Idle] /\ UNCHANGED <<heard, inflight>>
        /\ stage' = [t \in Savers |-> IF stage[t] = "idle" THEN "idle" ELSE "dead"] /\ UNCHANGED answers
    BY <1>0, <1>3 DEF Crash, network
  <2>2. ASSUME NEW s \in Subs, NEW f \in Events, NEW u \in Savers, NEW k \in 1 .. MaxAttempts, SpentBy(u, k, s, f)
        PROVE  SpentBy(u, k, s, f)'
    <3>1. telling'[u].event = "none"
      BY <2>1 DEF Idle
    <3> QED
      BY <2>1, <2>2, <3>1 DEF SpentBy, Begun, About, Events
  <2> QED
    BY <2>1, <2>2, NoCopy DEF PushInv
<1>4. ASSUME NEW b \in Savers, NEW s \in Subs, Turn(b, s), UNCHANGED <<stage, turns>> PROVE Counted'
  <2>1. /\ \A t \in Savers \ {b} : telling'[t] = telling[t]
        /\ telling[b].sub = Nobody /\ s \in telling[b].to
        /\ telling'[b].event = telling[b].event /\ telling'[b].to = telling[b].to \ {s}
        /\ telling'[b].sub = s /\ telling'[b].attempt = 1
    BY <1>4, TurnPush
  <2>2. UNCHANGED <<heard, inflight>>
    BY <1>4 DEF Turn, network
  <2>3. ASSUME NEW r \in Subs, NEW f \in Events, NEW u \in Savers, NEW k \in 1 .. MaxAttempts, SpentBy(u, k, r, f)
        PROVE  SpentBy(u, k, r, f)'
    BY <1>0, <1>4, <2>1, <2>3 DEF SpentBy, Begun, About, turns
  <2> QED
    BY <2>2, <2>3, NoCopy DEF PushInv
<1>5. ASSUME NEW b \in Savers, Deliver(b) \/ Fail(b), UNCHANGED <<stage, turns>> PROVE Counted'
  BY <1>5, ServePush, OneCopy
<1>6. ASSUME NEW m \in inflight, Arrive(m), UNCHANGED <<stage, turns>> PROVE Counted'
  BY <1>6, ArrivePush, ArriveCopy
<1>7. CASE UNCHANGED <<telling, stage, answers, network>>
  BY <1>7, NoCopy DEF network, PushInv, SpentBy, Begun, About
<1>8. ASSUME NEW t \in Savers, SaveExchange(t) PROVE Counted'
  BY <1>7, <1>8 DEF SaveExchange, pushing, turns
<1>9. ASSUME NEW s \in Subs, Subscribe(s) \/ Unsubscribe(s), UNCHANGED <<stage, turns>> PROVE Counted'
  BY <1>7, <1>9 DEF Subscribe, Unsubscribe, turns
<1>10. CASE (Second /\ UNCHANGED <<pushing, stage, turns, crashed>>) \/ UNCHANGED vars
  BY <1>7, <1>10 DEF pushing, vars, turns
<1>11. ASSUME NEW k \in processing, Cancel(k) PROVE Counted'
  BY <1>7, <1>11 DEF Cancel, pushing
<1> QED
  BY <1>0, <1>1, <1>2, <1>3, <1>4, <1>5, <1>6, <1>8, <1>9, <1>10, <1>11 DEF Next, Session, GoesOn, Push, Telling

\* An endpoint gets no more copies of an event than attempts of the sessions that tell
\* it of the task, whatever deliveries are lost, arrive without an answer or after the
\* next attempt, whoever subscribes and leaves meanwhile, and when the process crashes.
THEOREM CopiesAreBounded == Spec => []CopiesBounded
<1>1. Init => StoreInv /\ PushInv /\ Counted
  BY InitStore, InitPush, InitCounted
<1>2. StoreInv /\ PushInv /\ Counted /\ [Next]_vars => (StoreInv /\ PushInv /\ Counted)'
  BY StepStore, StepPush, StepCounted
<1>3. ASSUME PushInv, Counted PROVE CopiesBounded
  <2> SUFFICES ASSUME NEW s \in Subs, NEW e \in Events
               PROVE  Copies(s, e) <= Cardinality(Sessions(s, e)) * MaxAttempts
    BY DEF CopiesBounded, Copies, Under, Sessions
  <2>1. Sessions(s, e) \in SUBSET Savers /\ Spent(s, e) \subseteq Sessions(s, e) \X (1 .. MaxAttempts)
    BY DEF Spent, SpentBy, Sessions
  <2>2. /\ Cardinality(Spent(s, e)) \in Nat
        /\ Cardinality(Spent(s, e)) <= Cardinality(Sessions(s, e)) * MaxAttempts
    BY <2>1, PairsFinite
  <2>3. Copies(s, e) \in Nat /\ Copies(s, e) <= Cardinality(Spent(s, e))
    <3>1. heard[s][e] \in Nat /\ Cardinality(Under(s, e)) \in Nat
      BY <1>3, UnderFinite DEF PushInv, PushTyped
    <3> QED
      BY <1>3, <3>1 DEF Counted, Copies
  <2>4. Cardinality(Sessions(s, e)) * MaxAttempts \in Nat
    <3>1. IsFiniteSet(Sessions(s, e))
      BY <2>1, PushConstants, FS_Subset
    <3>2. Cardinality(Sessions(s, e)) \in Nat
      BY <3>1, FS_CardinalityType
    <3> QED
      BY <3>2, PushConstants
  <2> QED
    BY <2>2, <2>3, <2>4
<1> QED
  BY <1>1, <1>2, <1>3, PTL DEF Spec

-----------------------------------------------------------------------------
(***************************************************************************)
(* In which order a subscriber is told.                                    *)
(***************************************************************************)
\* The session that tells a subscriber, if there is one only, is past the work when the
\* subscriber is told that its task is completed.
Late(s) ==
  heard[s]["completed"] > 0 \/ \E m \in inflight : m.sub = s /\ m.event = "completed"

OrderInv ==
  /\ \A m \in inflight : m.sub \in delayed
  /\ \A s \in Subs :
       Late(s) => \E t \in Savers : answers[t] = TaskOf[s] /\ stage[t] \in {"told", "dead"}
  /\ ToldInOrder

LEMMA InitOrder == Init => OrderInv
BY DEF Init, PInit, OrderInv, Late, ToldInOrder, Events

\* A session answers one task, so that one that tells a subscriber alone did so before.
LEMMA OneTold ==
  ASSUME \A t \in Savers : answers'[t] = answers[t] \/ answers[t] = NoTask, NEW s \in Subs, OneTells(s)'
  PROVE  OneTells(s)
<1>1. \A t \in Savers : TaskOf[s] \in {WorksOn[t], answers[t]} => TaskOf[s] \in {WorksOn[t], answers'[t]}
  BY PushConstants
<1> QED
  BY <1>1 DEF OneTells

\* A step that tells nobody, and takes no session back to its work.
LEMMA QuietOrder ==
  ASSUME PushInv, OrderInv, UNCHANGED network,
         \A t \in Savers : answers'[t] = answers[t] \/ answers[t] = NoTask,
         \A t \in Savers : stage[t] \in {"told", "dead"} => stage'[t] \in {"told", "dead"}
  PROVE  OrderInv'
<1>1. misled \subseteq Subs /\ TaskOf \in [Subs -> Tasks] /\ NoTask \notin Tasks
  BY PushConstants DEF PushInv, PushTyped
<1>2. ToldInOrder'
  BY <1>1, OneTold DEF OrderInv, ToldInOrder, network
<1>3. ASSUME NEW s \in Subs, Late(s)'
      PROVE  \E t \in Savers : answers'[t] = TaskOf[s] /\ stage'[t] \in {"told", "dead"}
  <2>1. Late(s)
    BY <1>3 DEF Late, network
  <2>2. PICK t \in Savers : answers[t] = TaskOf[s] /\ stage[t] \in {"told", "dead"}
    BY <2>1 DEF OrderInv
  <2> QED
    BY <1>1, <2>2
<1> QED
  BY <1>2, <1>3 DEF OrderInv, network

LEMMA ServeOrder ==
  ASSUME PushInv, OrderInv, NEW b \in Savers, NEW r \in Subs, NEW f \in Events,
         telling[b].sub = r, telling[b].event = f, UNCHANGED <<stage, turns>>, Outcome(r, f)
  PROVE  OrderInv'
<1>0. /\ "completed" \in Events /\ UNCHANGED <<stage, answers>>
      /\ f = "working" => stage[b] = "working" /\ WorksOn[b] = TaskOf[r]
      /\ f = "completed" => stage[b] = "told" /\ answers[b] = TaskOf[r]
  BY PushConstants DEF PushInv, Turns, Aimed, Answering, About, Events, turns
<1>4. \A s \in Subs : OneTells(s)' <=> OneTells(s)
  BY <1>0 DEF OneTells
<1>5. misled \subseteq Subs
  BY DEF PushInv, PushTyped
<1>1. CASE UNCHANGED <<inflight, heard, misled, delayed>>
  BY <1>0, <1>1, <1>4, <1>5 DEF OrderInv, Late, ToldInOrder
<1>2. CASE Heard(r, f) /\ UNCHANGED <<inflight, delayed>>
  <2>1. /\ \A s \in Subs : s # r \/ f # "completed" => heard'[s]["completed"] = heard[s]["completed"]
        /\ misled' # misled => f = "working" /\ heard[r]["completed"] > 0
    BY <1>0, <1>2, HeardOne DEF PushInv
  <2>2. misled' \subseteq misled \cup {r} /\ (misled' # misled => ~OneTells(r))
    <3> SUFFICES ASSUME f = "working", heard[r]["completed"] > 0, OneTells(r) PROVE FALSE
      BY <1>2, <2>1 DEF Heard
    <3>1. PICK t \in Savers : answers[t] = TaskOf[r] /\ stage[t] \in {"told", "dead"}
      BY DEF OrderInv, Late
    <3>2. t = b
      BY <1>0, <3>1 DEF OneTells
    <3> QED
      BY <1>0, <3>1, <3>2
  <2>3. \A s \in Subs : Late(s)' => Late(s) \/ (s = r /\ f = "completed")
    BY <1>2, <2>1 DEF Late
  <2>4. ToldInOrder'
    BY <1>2, <1>4, <1>5, <2>2 DEF OrderInv, ToldInOrder
  <2>5. \A s \in Subs :
          Late(s)' => \E t \in Savers : answers'[t] = TaskOf[s] /\ stage'[t] \in {"told", "dead"}
    BY <1>0, <2>3 DEF OrderInv
  <2> QED
    BY <1>2, <2>4, <2>5 DEF OrderInv
<1>3. ASSUME NEW m \in Requests, m.sub = r, m.event = f,
             inflight' = inflight \cup {m}, delayed' = delayed \cup {r}, UNCHANGED <<heard, misled>>
      PROVE  OrderInv'
  <2>1. \A s \in Subs : Late(s)' => Late(s) \/ (s = r /\ f = "completed")
    BY <1>3 DEF Late
  <2>2. \A s \in Subs :
          Late(s)' => \E t \in Savers : answers'[t] = TaskOf[s] /\ stage'[t] \in {"told", "dead"}
    BY <1>0, <2>1 DEF OrderInv
  <2>3. ToldInOrder'
    BY <1>3, <1>4, <1>5 DEF OrderInv, ToldInOrder
  <2> QED
    BY <1>3, <2>2, <2>3 DEF OrderInv
<1> QED
  BY <1>1, <1>2, <1>3 DEF Outcome

LEMMA ArriveOrder ==
  ASSUME PushInv, OrderInv, NEW m \in inflight, Arrive(m), UNCHANGED <<stage, turns>>
  PROVE  OrderInv'
<1> DEFINE r == m.sub
           f == m.event
<1>0. r \in Subs /\ f \in Events /\ r \in delayed /\ "completed" \in Events
  BY DEF PushInv, PushTyped, Requests, OrderInv, Events
<1>1. Heard(r, f) /\ inflight' = inflight \ {m} /\ UNCHANGED delayed
  BY DEF Arrive
<1>2. /\ \A s \in Subs : s # r \/ f # "completed" => heard'[s]["completed"] = heard[s]["completed"]
      /\ misled' \subseteq misled \cup {r}
  BY <1>0, <1>1, HeardOne DEF PushInv
<1>3. \A s \in Subs : Late(s)' => Late(s)
  BY <1>1, <1>2 DEF Late
<1>4. /\ UNCHANGED <<stage, answers>> /\ misled \subseteq Subs
      /\ \A s \in Subs : OneTells(s)' <=> OneTells(s)
  BY DEF turns, PushInv, PushTyped, OneTells
<1>5. \A n \in inflight' : n.sub \in delayed'
  BY <1>1 DEF OrderInv
<1> QED
  BY <1>0, <1>1, <1>2, <1>3, <1>4, <1>5 DEF OrderInv, ToldInOrder

LEMMA StepOrder == ASSUME PushInv, StoreInv, OrderInv, [Next]_vars PROVE OrderInv'
<1>0. Tellers = Savers /\ stage \in [Savers -> Stages]
  BY PushConstants DEF PushInv, PushTyped
<1>1. ASSUME NEW t \in Savers, TellWorking(t) \/ TellCompleted(t) PROVE OrderInv'
  BY <1>0, <1>1, QuietOrder DEF TellWorking, TellCompleted, Advance, turns
<1>10. ASSUME NEW t \in Savers, GoesOn(t) PROVE OrderInv'
  BY <1>0, <1>10, GoOnPush, QuietOrder
<1>2. CASE Crash
  BY <1>0, <1>2, QuietOrder DEF Crash
<1>3. ASSUME NEW b \in Savers, Deliver(b) \/ Fail(b), UNCHANGED <<stage, turns>> PROVE OrderInv'
  BY <1>3, ServePush, ServeOrder
<1>4. ASSUME NEW m \in inflight, Arrive(m), UNCHANGED <<stage, turns>> PROVE OrderInv'
  BY <1>4, ArriveOrder
<1>5. CASE UNCHANGED <<stage, answers, network>>
  BY <1>5, QuietOrder
<1>6. ASSUME NEW t \in Savers, SaveExchange(t) PROVE OrderInv'
  BY <1>5, <1>6 DEF SaveExchange, pushing, turns
<1>7. ASSUME NEW b \in Savers, NEW s \in Subs, Turn(b, s) \/ Subscribe(s) \/ Unsubscribe(s), UNCHANGED <<stage, turns>>
      PROVE  OrderInv'
  BY <1>5, <1>7 DEF Turn, Subscribe, Unsubscribe, turns
<1>8. CASE (Second /\ UNCHANGED <<pushing, stage, turns, crashed>>) \/ UNCHANGED vars
  BY <1>5, <1>8 DEF pushing, vars, turns
<1>11. ASSUME NEW k \in processing, Cancel(k) PROVE OrderInv'
  BY <1>5, <1>11 DEF Cancel, pushing
<1>9. ASSUME NEW s \in Subs, Subscribe(s) \/ Unsubscribe(s), UNCHANGED <<stage, turns>> PROVE OrderInv'
  BY <1>5, <1>9 DEF Subscribe, Unsubscribe, turns
<1> QED
  BY <1>0, <1>1, <1>2, <1>3, <1>4, <1>6, <1>7, <1>8, <1>9, <1>10, <1>11 DEF Next, Session, GoesOn, Push, Telling

\* An endpoint that at most one session tells, because its task was handed to that one
\* and answered by no other, hears that its task is being worked on after it heard that
\* it is completed only if a request to it was given up while it was under way: for any
\* number of subscribers, attempts and failures, whatever other sessions do.
THEOREM TellingIsInOrder == Spec => []ToldInOrder
<1>1. Init => StoreInv /\ PushInv /\ OrderInv
  BY InitStore, InitPush, InitOrder
<1>2. StoreInv /\ PushInv /\ OrderInv /\ [Next]_vars => (StoreInv /\ PushInv /\ OrderInv)'
  BY StepStore, StepPush, StepOrder
<1>3. OrderInv => ToldInOrder
  BY DEF OrderInv
<1> QED
  BY <1>1, <1>2, <1>3, PTL DEF Spec
=============================================================================
