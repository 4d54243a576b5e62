------------------------------ MODULE SSEProofs ------------------------------
(***************************************************************************)
(* Proofs about SSEStreams: a client reads what it is told in order and    *)
(* without repeats, and last the state the task ended in.                  *)
(***************************************************************************)
EXTENDS SSEStreams, SequenceTheorems, FiniteSetTheorems, TLAPS

(***************************************************************************)
(* Lists.                                                                  *)
(***************************************************************************)
LEMMA Indices ==
  ASSUME NEW S, NEW s \in Seq(S)
  PROVE  /\ Len(s) \in Nat /\ DOMAIN s = 1 .. Len(s)
         /\ \A k \in DOMAIN s : s[k] \in S
OBVIOUS

LEMMA Appended ==
  ASSUME NEW S, NEW s \in Seq(S), NEW e \in S
  PROVE  /\ Append(s, e) \in Seq(S) /\ Len(Append(s, e)) = Len(s) + 1
         /\ \A k \in DOMAIN s : k \in DOMAIN Append(s, e) /\ Append(s, e)[k] = s[k]
         /\ \A k \in DOMAIN Append(s, e) :
              \/ k \in DOMAIN s /\ Append(s, e)[k] = s[k]
              \/ k = Len(s) + 1 /\ Append(s, e)[k] = e
OBVIOUS

LEMMA Joined ==
  ASSUME NEW S, NEW s \in Seq(S), NEW t \in Seq(S)
  PROVE  /\ s \o t \in Seq(S)
         /\ \A k \in DOMAIN s : k \in DOMAIN (s \o t) /\ (s \o t)[k] = s[k]
         /\ \A k \in DOMAIN t : Len(s) + k \in DOMAIN (s \o t) /\ (s \o t)[Len(s) + k] = t[k]
         /\ \A k \in DOMAIN (s \o t) :
              \/ k \in DOMAIN s /\ (s \o t)[k] = s[k]
              \/ k > Len(s) /\ k - Len(s) \in DOMAIN t /\ (s \o t)[k] = t[k - Len(s)]
OBVIOUS

LEMMA JoinAppended ==
  ASSUME NEW S, NEW s \in Seq(S), NEW t \in Seq(S), NEW e \in S
  PROVE  s \o Append(t, e) = Append(s \o t, e)
OBVIOUS

LEMMA InjectiveAppend ==
  ASSUME NEW S, NEW s \in Seq(S), NEW e \in S, IsInjective(s), e \notin ToSet(s)
  PROVE  IsInjective(Append(s, e)) /\ ToSet(Append(s, e)) = ToSet(s) \cup {e}
<1>1. Len(s) \in Nat /\ DOMAIN s = 1 .. Len(s) /\ DOMAIN Append(s, e) = 1 .. (Len(s) + 1)
  OBVIOUS
<1>2. Append(s, e)[Len(s) + 1] = e /\ \A k \in 1 .. Len(s) : Append(s, e)[k] = s[k]
  OBVIOUS
<1>3. \A k \in 1 .. (Len(s) + 1) : k \in 1 .. Len(s) \/ k = Len(s) + 1
  BY <1>1
<1>4. IsInjective(Append(s, e))
  BY <1>1, <1>2, <1>3 DEF IsInjective, ToSet
<1>5. ToSet(Append(s, e)) \subseteq ToSet(s) \cup {e}
  BY <1>1, <1>2, <1>3 DEF ToSet
<1>6. ToSet(s) \subseteq ToSet(Append(s, e))
  BY <1>1, <1>2 DEF ToSet
<1>7. e \in ToSet(Append(s, e))
  BY <1>1, <1>2 DEF ToSet
<1> QED
  BY <1>4, <1>5, <1>6, <1>7

LEMMA InjectiveTail ==
  ASSUME NEW S, NEW s \in Seq(S), s # <<>>, IsInjective(s)
  PROVE  /\ Head(s) \in S /\ Head(s) \in ToSet(s) /\ Tail(s) \in Seq(S) /\ IsInjective(Tail(s))
         /\ ToSet(Tail(s)) \subseteq ToSet(s) /\ Head(s) \notin ToSet(Tail(s))
<1>1. Len(s) \in Nat \ {0} /\ DOMAIN s = 1 .. Len(s) /\ DOMAIN Tail(s) = 1 .. (Len(s) - 1)
  OBVIOUS
<1>2. \A k \in DOMAIN Tail(s) : k + 1 \in DOMAIN s /\ Tail(s)[k] = s[k + 1]
  OBVIOUS
<1>3. Head(s) = s[1] /\ 1 \in DOMAIN s /\ Head(s) \in S /\ Tail(s) \in Seq(S)
  OBVIOUS
<1>4. IsInjective(Tail(s))
  BY <1>1, <1>2 DEF IsInjective
<1>5. Head(s) \notin ToSet(Tail(s))
  BY <1>1, <1>2, <1>3 DEF IsInjective, ToSet
<1> QED
  BY <1>2, <1>3, <1>4, <1>5 DEF ToSet

LEMMA Cut ==
  ASSUME NEW S, NEW s \in Seq(S), NEW k \in 1 .. Len(s)
  PROVE  LET q == SubSeq(s, 1, k - 1) \o SubSeq(s, k + 1, Len(s))
         IN /\ q \in Seq(S) /\ DOMAIN q = 1 .. (Len(s) - 1)
            /\ \A i \in 1 .. (k - 1) : q[i] = s[i]
            /\ \A i \in k .. (Len(s) - 1) : q[i] = s[i + 1]
<1> DEFINE a == SubSeq(s, 1, k - 1)
           b == SubSeq(s, k + 1, Len(s))
           n == Len(s)
<1>1. n \in Nat /\ k \in 1 .. n /\ \A i \in 1 .. n : s[i] \in S
  OBVIOUS
<1>2. a \in Seq(S) /\ Len(a) = k - 1 /\ \A i \in 1 .. (k - 1) : a[i] = s[i]
  BY SubSeqProperties
<1>3. /\ b \in Seq(S) /\ Len(b) = (IF k + 1 <= n THEN n - (k + 1) + 1 ELSE 0)
      /\ \A i \in 1 .. (n - (k + 1) + 1) : b[i] = s[(k + 1) + i - 1]
  BY SubSeqProperties
<1> HIDE DEF a, b, n
<1>4. Len(b) = n - k /\ \A i \in 1 .. (n - k) : b[i] = s[k + i]
  <2>1. Len(b) = n - k
    BY <1>1, <1>3
  <2>2. \A i \in 1 .. (n - k) : i \in 1 .. (n - (k + 1) + 1) /\ (k + 1) + i - 1 = k + i
    BY <1>1
  <2> QED
    BY <1>3, <2>1, <2>2
<1>5. /\ a \o b \in Seq(S) /\ DOMAIN (a \o b) = 1 .. (Len(a) + Len(b))
      /\ \A i \in 1 .. Len(a) : (a \o b)[i] = a[i]
      /\ \A i \in 1 .. Len(b) : (a \o b)[Len(a) + i] = b[i]
  <2>1. a \in Seq(S) /\ b \in Seq(S)
    BY <1>2, <1>3
  <2> QED
    BY <2>1
<1>6. Len(a) + Len(b) = n - 1
  BY <1>1, <1>2, <1>4
<1>7. \A i \in k .. (n - 1) : i - (k - 1) \in 1 .. (n - k) /\ (k - 1) + (i - (k - 1)) = i /\ k + (i - (k - 1)) = i + 1
  BY <1>1
<1> QED
  <2>1. \A i \in k .. (n - 1) : (a \o b)[i] = s[i + 1]
    BY <1>2, <1>4, <1>5, <1>7
  <2>2. /\ a \o b \in Seq(S) /\ DOMAIN (a \o b) = 1 .. (n - 1)
        /\ \A i \in 1 .. (k - 1) : (a \o b)[i] = s[i]
        /\ \A i \in k .. (n - 1) : (a \o b)[i] = s[i + 1]
    BY <1>2, <1>5, <1>6, <2>1
  <2> QED
    BY <2>2 DEF a, b, n

LEMMA InjectiveRemove ==
  ASSUME NEW S, NEW s \in Seq(S), NEW x, IsInjective(s)
  PROVE  /\ RemoveFirst(s, x) \in Seq(S) /\ IsInjective(RemoveFirst(s, x))
         /\ ToSet(RemoveFirst(s, x)) = ToSet(s) \ {x}
<1>0. Len(s) \in Nat /\ DOMAIN s = 1 .. Len(s)
  OBVIOUS
<1>1. CASE ~\E k \in 1 .. Len(s) : s[k] = x
  BY <1>0, <1>1 DEF RemoveFirst, ToSet
<1>2. ASSUME NEW k \in 1 .. Len(s), s[k] = x
      PROVE  /\ RemoveFirst(s, x) \in Seq(S) /\ IsInjective(RemoveFirst(s, x))
             /\ ToSet(RemoveFirst(s, x)) = ToSet(s) \ {x}
  <2> DEFINE Places == {i \in 1 .. Len(s) : s[i] = x}
             q == RemoveFirst(s, x)
  <2>1. Places = {k}
    BY <1>0, <1>2 DEF IsInjective
  <2>2. q = RemoveAt(s, IF Places # {} THEN Min(Places) ELSE 0)
    BY <1>2 DEF RemoveFirst, SelectInSeq
  <2>3. Min(Places) = k
    BY <2>1 DEF Min
  <2>4. q = SubSeq(s, 1, k - 1) \o SubSeq(s, k + 1, Len(s))
    BY <2>1, <2>2, <2>3 DEF RemoveAt
  <2>5. /\ q \in Seq(S) /\ DOMAIN q = 1 .. (Len(s) - 1)
        /\ \A i \in 1 .. (k - 1) : q[i] = s[i]
        /\ \A i \in k .. (Len(s) - 1) : q[i] = s[i + 1]
    BY <1>2, <2>4, Cut
  <2> HIDE DEF q
  <2> DEFINE At(i) == IF i < k THEN i ELSE i + 1
  <2>6. \A i \in DOMAIN q : At(i) \in DOMAIN s /\ At(i) # k /\ q[i] = s[At(i)]
    BY <1>0, <1>2, <2>5
  <2>7. \A i, j \in DOMAIN q : At(i) = At(j) => i = j
    BY <1>0, <1>2, <2>5
  <2>8. \A m \in DOMAIN s : m # k => \E i \in DOMAIN q : At(i) = m
    <3> SUFFICES ASSUME NEW m \in DOMAIN s, m # k PROVE \E i \in DOMAIN q : At(i) = m
      OBVIOUS
    <3>1. CASE m < k
      BY <1>0, <1>2, <2>5, <3>1
    <3>2. CASE m > k
      <4>1. m - 1 \in DOMAIN q /\ At(m - 1) = m
        BY <1>0, <1>2, <2>5, <3>2
      <4> QED
        BY <4>1
    <3> QED
      BY <1>0, <3>1, <3>2
  <2> HIDE DEF At
  <2>9. IsInjective(q)
    BY <2>6, <2>7 DEF IsInjective
  <2>10. ToSet(q) \subseteq ToSet(s) \ {x}
    BY <1>0, <1>2, <2>6 DEF ToSet, IsInjective
  <2>11. ToSet(s) \ {x} \subseteq ToSet(q)
    BY <1>2, <2>6, <2>8 DEF ToSet
  <2> QED
    BY <2>5, <2>9, <2>10, <2>11 DEF q
<1> QED
  BY <1>1, <1>2

LEMMA InjectiveInOrder ==
  ASSUME NEW S, NEW members \in SUBSET S, IsFiniteSet(members), NEW s, NEW q \in InOrder(s, members)
  PROVE  q \in Seq(S) /\ IsInjective(q) /\ ToSet(q) \subseteq members
<1>1. Cardinality(members) \in Nat
  BY FS_CardinalityType
<1>2. /\ q \in [1 .. Cardinality(members) -> members]
      /\ \A i, j \in 1 .. Cardinality(members) : i # j => q[i] # q[j]
  BY DEF InOrder, SetToSeqs
<1> QED
  BY <1>1, <1>2 DEF IsInjective, ToSet

LEMMA ListedFinite ==
  ASSUME NEW S, NEW s \in Seq(S)
  PROVE  IsFiniteSet(ToSet(s)) /\ ToSet(s) \subseteq S
<1>1. Len(s) \in Nat /\ DOMAIN s = 1 .. Len(s) /\ \A k \in 1 .. Len(s) : s[k] \in S
  OBVIOUS
<1>2. s \in Seq(ToSet(s)) /\ \A x \in ToSet(s) : \E k \in 1 .. Len(s) : s[k] = x
  BY <1>1 DEF ToSet
<1>3. IsFiniteSet(ToSet(s))
  BY <1>2 DEF IsFiniteSet
<1> QED
  BY <1>1, <1>3 DEF ToSet

-----------------------------------------------------------------------------
(***************************************************************************)
(* Types, and which streams are open.                                      *)
(***************************************************************************)
States == {"submitted", "working"} \cup Terminal
Agents == {"idle", "behind", "drained", "started", "marked", "answering", "completed"}
Over == {"finished", "dropped", "timed_out"}
Unopened == {"new", "read"}
Handlers == Unopened \cup Over \cup {"opened", "dead", "polling", "flushed", "checked"}
Streams == [pending : Seq(Events), counter : Nat, idle : BOOLEAN]
Broadcasts == [event : Events, to : Seq(Clients)]

WorkTyped ==
  /\ status \in States /\ entry \in {"pending", "processing", "gone"}
  /\ agent \in [Sessions -> Agents] /\ sender \in {"waiting", "published"}
  /\ streaming \in BOOLEAN
  /\ turnOf \in Sessions \cup {"nobody"} /\ crossed \in BOOLEAN /\ revived \in BOOLEAN
  /\ told \subseteq {"working", "completed", "artifact"}
  /\ telling \in [Broadcasters -> Broadcasts]

ServingTyped ==
  /\ handler \in [Clients -> Handlers] /\ seen \in [Clients -> States]
  /\ expired \in [Clients -> BOOLEAN] /\ connected \in [Clients -> BOOLEAN]
  /\ got \in [Clients -> Seq(Events)]

RegistryTyped ==
  /\ streams \in Seq(Clients) /\ stream \in [Clients -> Streams]
  /\ cleaner \in {"none", "running", "stopped"}

\* A stream is listed once, and only between its opening and the end of its thread;
\* a broadcast goes to each stream at most once.
Listed ==
  /\ IsInjective(streams)
  /\ \A c \in Clients : handler[c] \in Unopened \cup Over => ~Open(c)
  /\ \A b \in Broadcasters : IsInjective(telling[b].to)

Base == WorkTyped /\ ServingTyped /\ RegistryTyped /\ Listed

LEMMA EventTyped ==
  /\ \A state \in States \cup {"artifact", "error"} : \A id \in Nat :
       Event(state, id) \in Events /\ Event(state, id).state = state /\ Event(state, id).id = id
  /\ \A e \in Events : e.state \in States \cup {"artifact", "error"} /\ e.id \in Nat
BY DEF Event, Events, States

LEMMA NoEvents == <<>> \in Seq(Events) /\ <<>> \in Seq(Clients) /\ Fresh \in Streams /\ Fresh.pending = <<>>
BY DEF Fresh, Streams

LEMMA OneEvent == \A e \in Events : <<e>> \in Seq(Events)
OBVIOUS

LEMMA InitBase == Init => Base
<1> SUFFICES ASSUME Init PROVE Base
  OBVIOUS
<1>1. [event |-> Event("working", 0), to |-> <<>>] \in Broadcasts
  BY EventTyped, NoEvents DEF Broadcasts, States
<1>2. WorkTyped
  BY <1>1 DEF Init, WorkTyped, States, Agents
<1>3. ServingTyped
  BY NoEvents DEF Init, ServingTyped, States, Handlers, Unopened
<1>4. RegistryTyped
  BY NoEvents DEF Init, RegistryTyped
<1>5. Listed
  BY DEF Init, Listed, IsInjective, Open, ToSet
<1> QED
  BY <1>2, <1>3, <1>4, <1>5 DEF Base

\* What is announced goes to the streams that are open.
LEMMA AnnounceBase ==
  ASSUME Base, NEW b \in Broadcasters, NEW state \in States \cup {"artifact"}, Announce(b, state)
  PROVE  /\ telling' \in [Broadcasters -> Broadcasts]
         /\ \A d \in Broadcasters : IsInjective(telling'[d].to)
         /\ telling'[b].to = streams /\ telling'[b].event.state = state
         /\ \A d \in Broadcasters \ {b} : telling'[d] = telling[d]
         /\ told' = told \cup {state}
<1>1. [event |-> Event(state, 0), to |-> streams] \in Broadcasts
  BY EventTyped DEF Base, RegistryTyped, Broadcasts
<1>2. telling' = [telling EXCEPT ![b] = [event |-> Event(state, 0), to |-> streams]] /\ told' = told \cup {state}
  BY DEF Announce
<1>3. telling'[b] = [event |-> Event(state, 0), to |-> streams] /\ \A d \in Broadcasters \ {b} : telling'[d] = telling[d]
  BY <1>2 DEF Base, WorkTyped
<1> QED
  BY <1>1, <1>2, <1>3, EventTyped DEF Base, WorkTyped, Listed

\* What a step of a session does to where it is.
LEMMA StepBase ==
  ASSUME Base, NEW s \in Sessions, NEW from, NEW to \in Agents, Step(s, from, to)
  PROVE  /\ agent[s] = from /\ agent'[s] = to /\ agent' \in [Sessions -> Agents]
         /\ \A u \in Sessions \ {s} : agent'[u] = agent[u]
         /\ from = "idle" => Quiet(s)
BY DEF Step, Base, WorkTyped

\* The steps of the threads that broadcast, except Push.
Work == (\E s \in Sessions : Turn(s)) \/ Cancel \/ TellArtifact

Quietly(s) == Drain(s) \/ DrainBehind(s) \/ Requeue(s) \/ StartWork(s) \/ Mark(s) \/ Target(s) \/ Complete(s)

LEMMA TurnBeside ==
  ASSUME NEW s \in Sessions, Turn(s)
  PROVE  UNCHANGED <<registry, serving>> /\ UNCHANGED <<sender, streaming>>
BY DEF Turn, Drain, DrainBehind, Requeue, StartWork, Mark, TellWorking, Target, Complete, TellCompleted

LEMMA QuietlyBase ==
  ASSUME Base, NEW s \in Sessions, Quietly(s)
  PROVE  /\ telling' = telling /\ told' = told /\ agent' \in [Sessions -> Agents]
         /\ status' \in States /\ entry' \in {"pending", "processing", "gone"}
         /\ turnOf' \in Sessions \cup {"nobody"} /\ crossed' \in BOOLEAN /\ revived' \in BOOLEAN
         /\ crossed => crossed'
<1>1. CASE Drain(s)
  BY <1>1, StepBase DEF Drain, Base, WorkTyped, Agents, history
<1>2. CASE DrainBehind(s)
  BY <1>2, StepBase DEF DrainBehind, Base, WorkTyped, Agents, history
<1>3. CASE Requeue(s)
  BY <1>3, StepBase DEF Requeue, Base, WorkTyped, Agents, history
<1>4. CASE StartWork(s)
  BY <1>4, StepBase DEF StartWork, Base, WorkTyped, Agents, States, history
<1>5. CASE Mark(s)
  BY <1>5, StepBase DEF Mark, Base, WorkTyped, Agents, history
<1>6. CASE Target(s)
  BY <1>6, StepBase DEF Target, Base, WorkTyped, Agents, history
<1>7. CASE Complete(s)
  BY <1>7, StepBase DEF Complete, Base, WorkTyped, Agents, States, Terminal, history
<1> QED
  BY <1>1, <1>2, <1>3, <1>4, <1>5, <1>6, <1>7 DEF Quietly

LEMMA TurnTells ==
  ASSUME NEW s \in Sessions, Turn(s)
  PROVE  Quietly(s) \/ TellWorking(s) \/ TellCompleted(s)
BY DEF Turn, Quietly

LEMMA WorkBase ==
  ASSUME Base, Work
  PROVE  Base' /\ UNCHANGED <<registry, serving>> /\ (crossed => crossed')
<1>1. UNCHANGED <<registry, serving>>
  BY TurnBeside DEF Work, Cancel, TellArtifact
<1>2. ServingTyped' /\ RegistryTyped'
  BY <1>1 DEF Base, ServingTyped, RegistryTyped, registry, serving
<1>3. \A c \in Clients : (handler[c] \in Unopened \cup Over => ~Open(c))'
  BY <1>1 DEF Base, Listed, Open, registry, serving
<1>4. WorkTyped' /\ (\A b \in Broadcasters : IsInjective(telling'[b].to)) /\ (crossed => crossed')
  <2>1. ASSUME NEW s \in Sessions, TellWorking(s)
        PROVE  WorkTyped' /\ (\A b \in Broadcasters : IsInjective(telling'[b].to)) /\ (crossed => crossed')
    <3>1. Announce(s, "working") /\ s \in Broadcasters /\ "working" \in States
      BY <2>1 DEF TellWorking, Broadcasters, States
    <3>2. agent' \in [Sessions -> Agents]
      BY <2>1, StepBase DEF TellWorking, Agents
    <3> QED
      BY <2>1, <3>1, <3>2, AnnounceBase DEF TellWorking, Base, WorkTyped
  <2>2. ASSUME NEW s \in Sessions, TellCompleted(s)
        PROVE  WorkTyped' /\ (\A b \in Broadcasters : IsInjective(telling'[b].to)) /\ (crossed => crossed')
    <3>1. Announce(s, "completed") /\ s \in Broadcasters /\ "completed" \in States
      BY <2>2 DEF TellCompleted, Broadcasters, States, Terminal
    <3>2. agent' \in [Sessions -> Agents]
      BY <2>2, StepBase DEF TellCompleted, Agents
    <3> QED
      BY <2>2, <3>1, <3>2, AnnounceBase DEF TellCompleted, Base, WorkTyped
  <2>3. CASE TellArtifact
    <3>1. Announce("sender", "artifact") /\ "sender" \in Broadcasters
      BY <2>3 DEF TellArtifact, Broadcasters
    <3>2. /\ telling' \in [Broadcasters -> Broadcasts] /\ told' = told \cup {"artifact"}
          /\ \A b \in Broadcasters : IsInjective(telling'[b].to)
      BY <3>1, AnnounceBase
    <3>3. UNCHANGED <<status, entry, agent, streaming, turnOf, crossed, revived>> /\ sender' = "published"
      BY <2>3 DEF TellArtifact
    <3> QED
      BY <3>2, <3>3 DEF Base, WorkTyped
  <2>4. ASSUME NEW s \in Sessions, Turn(s), Quietly(s)
        PROVE  WorkTyped' /\ (\A b \in Broadcasters : IsInjective(telling'[b].to)) /\ (crossed => crossed')
    BY <2>4, QuietlyBase, TurnBeside DEF Base, WorkTyped, Listed
  <2>5. CASE Cancel
    BY <2>5 DEF Cancel, Base, WorkTyped, Listed, States, Terminal, history
  <2> QED
    BY <2>1, <2>2, <2>3, <2>4, <2>5, TurnTells DEF Work
<1> QED
  BY <1>1, <1>2, <1>3, <1>4 DEF Base, Listed, registry

\* A push takes the first stream of a broadcast off its list.
LEMMA PushBase ==
  ASSUME Base, NEW b \in Broadcasters, Push(b)
  PROVE  /\ Base'
         /\ \E c \in Clients :
              /\ c \in ToSet(telling[b].to) /\ ToSet(telling'[b].to) \subseteq ToSet(telling[b].to) \ {c}
              /\ telling'[b].event.state = telling[b].event.state
              /\ \A d \in Broadcasters \ {b} : telling'[d] = telling[d]
              /\ \/ UNCHANGED stream
                 \/ /\ Open(c) /\ \A d \in Clients \ {c} : stream'[d] = stream[d]
                    /\ \E e \in Events :
                         /\ e.id # 0 /\ e.state = telling[b].event.state
                         /\ stream'[c].pending = Append(stream[c].pending, e)
<1> DEFINE c == Head(telling[b].to)
           event == telling[b].event
           pushed == Event(event.state, EventId(c, event))
           rest == Tail(telling[b].to)
<1>1. /\ telling[b] \in Broadcasts /\ telling[b].to \in Seq(Clients) /\ telling[b].to # <<>>
      /\ event \in Events /\ IsInjective(telling[b].to)
  BY DEF Push, Quiet, Base, WorkTyped, Listed, Broadcasts
<1>2. /\ c \in Clients /\ c \in ToSet(telling[b].to) /\ rest \in Seq(Clients) /\ IsInjective(rest)
      /\ ToSet(rest) \subseteq ToSet(telling[b].to) \ {c}
  BY <1>1, InjectiveTail
<1>3. stream[c] \in Streams /\ stream[c].pending \in Seq(Events) /\ stream[c].counter \in Nat
  BY <1>2 DEF Base, RegistryTyped, Streams
<1>4. EventId(c, event) \in Nat \ {0}
  BY <1>1, <1>3, EventTyped DEF EventId
<1>5. pushed \in Events /\ pushed.id # 0 /\ pushed.state = event.state
  BY <1>1, <1>4, EventTyped
<1>6. UNCHANGED <<status, entry, agent, sender, streaming, history, streams, cleaner, serving>>
  BY DEF Push
<1>7. CASE Open(c)
  <2>1. /\ stream' = [stream EXCEPT ![c] = Receiving(c, event, pushed)]
        /\ telling' = [telling EXCEPT ![b] = [event |-> pushed, to |-> rest]]
    BY <1>7 DEF Push
  <2> HIDE DEF c, event, pushed, rest
  <2>2. [event |-> pushed, to |-> rest] \in Broadcasts
    BY <1>2, <1>5 DEF Broadcasts
  <2>3. /\ telling' \in [Broadcasters -> Broadcasts] /\ telling'[b].to = rest /\ telling'[b].event = pushed
        /\ \A d \in Broadcasters \ {b} : telling'[d] = telling[d]
    BY <2>1, <2>2 DEF Base, WorkTyped
  <2>4. Receiving(c, event, pushed) \in Streams /\ Receiving(c, event, pushed).pending = Append(stream[c].pending, pushed)
    BY <1>3, <1>5, Appended DEF Receiving, Streams
  <2>5. /\ stream' \in [Clients -> Streams] /\ stream'[c].pending = Append(stream[c].pending, pushed)
        /\ \A d \in Clients \ {c} : stream'[d] = stream[d]
    BY <1>2, <2>1, <2>4 DEF Base, RegistryTyped
  <2>6. Base'
    BY <1>2, <1>6, <2>3, <2>5 DEF Base, WorkTyped, RegistryTyped, ServingTyped, Listed, Open, serving, history
  <2>7. telling'[b].event.state = telling[b].event.state
    BY <1>5, <2>3 DEF event
  <2> QED
    BY <1>2, <1>5, <1>7, <2>3, <2>5, <2>6, <2>7 DEF event
<1>8. CASE ~Open(c)
  <2>1. telling' = [telling EXCEPT ![b].to = rest] /\ UNCHANGED stream
    BY <1>8 DEF Push
  <2> HIDE DEF c, rest
  <2>2. /\ telling'[b].to = rest /\ telling'[b].event = event /\ telling'[b] \in Broadcasts
        /\ \A d \in Broadcasters \ {b} : telling'[d] = telling[d]
    BY <1>1, <1>2, <2>1 DEF Base, WorkTyped, Broadcasts
  <2>3. telling' \in [Broadcasters -> Broadcasts]
    BY <2>1, <2>2 DEF Base, WorkTyped
  <2>4. Base'
    BY <1>2, <1>6, <2>1, <2>2, <2>3 DEF Base, WorkTyped, RegistryTyped, ServingTyped, Listed, Open, serving, history
  <2> QED
    BY <1>2, <2>1, <2>2, <2>4
<1> QED
  BY <1>7, <1>8

-----------------------------------------------------------------------------
LEMMA CloseBase ==
  ASSUME Base, NEW c \in Clients, Close(c)
  PROVE  /\ streams' \in Seq(Clients) /\ IsInjective(streams') /\ ToSet(streams') = ToSet(streams) \ {c}
         /\ stream' \in [Clients -> Streams] /\ stream'[c] = Fresh
         /\ \A d \in Clients \ {c} : stream'[d] = stream[d]
<1>1. streams' = RemoveFirst(streams, c) /\ stream' = [stream EXCEPT ![c] = Fresh]
  BY DEF Close
<1>2. streams \in Seq(Clients) /\ IsInjective(streams) /\ stream \in [Clients -> Streams]
  BY DEF Base, RegistryTyped, Listed
<1> QED
  BY <1>1, <1>2, InjectiveRemove, NoEvents

LEMMA ReadBase ==
  ASSUME Base, NEW c \in Clients, NEW events \in Seq(Events), Read(c, events)
  PROVE  /\ got' \in [Clients -> Seq(Events)] /\ \A d \in Clients \ {c} : got'[d] = got[d]
         /\ got'[c] = IF connected[c] THEN got[c] \o events ELSE got[c]
<1>1. got \in [Clients -> Seq(Events)] /\ got[c] \o events \in Seq(Events)
  BY DEF Base, ServingTyped
<1> QED
  BY <1>1 DEF Read

LEMMA HandlerBase ==
  ASSUME Base, NEW c \in Clients, NEW from, NEW to \in Handlers, Handler(c, from, to)
  PROVE  /\ handler[c] = from /\ handler'[c] = to /\ handler' \in [Clients -> Handlers]
         /\ \A d \in Clients \ {c} : handler'[d] = handler[d]
BY DEF Handler, Base, ServingTyped

LEMMA HandlerNames ==
  /\ {"new", "read", "opened", "dead", "polling", "flushed", "checked", "finished", "dropped", "timed_out"} = Handlers
  /\ \A h \in {"opened", "dead", "polling", "flushed", "checked"} : h \notin Unopened \cup Over
  /\ \A h \in {"new", "read"} : h \in Unopened
BY DEF Handlers, Unopened, Over

\* What a step of the thread that serves c leaves alone.
Beside(c) ==
  /\ UNCHANGED work
  /\ \A d \in Clients \ {c} :
       /\ handler'[d] = handler[d] /\ seen'[d] = seen[d] /\ got'[d] = got[d]
       /\ connected'[d] = connected[d] /\ stream'[d] = stream[d]
       /\ (d \in ToSet(streams'))  = (d \in ToSet(streams))

\* What one does to c: the lists that may become of what it has read and is to read.
LEMMA BaseFrom ==
  ASSUME Base, NEW c \in Clients, Beside(c),
         handler' \in [Clients -> Handlers], seen' \in [Clients -> States],
         expired' = expired, connected' = connected, got' \in [Clients -> Seq(Events)],
         streams' \in Seq(Clients), IsInjective(streams'), stream' \in [Clients -> Streams],
         cleaner' \in {"none", "running", "stopped"},
         handler'[c] \in Unopened \cup Over => c \notin ToSet(streams')
  PROVE  Base'
<1>1. WorkTyped' /\ ServingTyped' /\ RegistryTyped'
  BY DEF Base, Beside, WorkTyped, ServingTyped, RegistryTyped, work, history
<1>2. \A d \in Clients : handler'[d] \in Unopened \cup Over => d \notin ToSet(streams')
  BY DEF Base, Beside, Listed, Open
<1>3. \A b \in Broadcasters : IsInjective(telling'[b].to)
  BY DEF Base, Beside, Listed, work, history
<1> QED
  BY <1>1, <1>2, <1>3 DEF Base, Listed, Open

LEMMA ReadStatusBase ==
  ASSUME Base, NEW c \in Clients, ReadStatus(c)
  PROVE  /\ Base' /\ Beside(c) /\ handler[c] = "new" /\ handler'[c] = "read"
         /\ got' = got /\ stream' = stream /\ streams' = streams
         /\ seen'[c] \in {"working", status}
<1>1. /\ Handler(c, "new", "read")
      /\ seen' = [seen EXCEPT ![c] = IF streaming /\ c = Poster THEN "working" ELSE status]
      /\ UNCHANGED <<expired, connected, got, registry, work>>
  BY DEF ReadStatus
<1>2. /\ handler[c] = "new" /\ handler'[c] = "read" /\ handler' \in [Clients -> Handlers]
      /\ \A d \in Clients \ {c} : handler'[d] = handler[d]
  BY <1>1, HandlerBase, HandlerNames
<1>3. seen \in [Clients -> States] /\ status \in States
  BY DEF Base, ServingTyped, WorkTyped
<1>4. /\ seen' \in [Clients -> States] /\ \A d \in Clients \ {c} : seen'[d] = seen[d]
      /\ seen'[c] \in {"working", status}
  BY <1>1, <1>3 DEF States
<1>5. Beside(c)
  BY <1>1, <1>2, <1>4 DEF Beside, registry
<1>6. c \notin ToSet(streams')
  BY <1>1, <1>2, HandlerNames DEF Base, Listed, Open, registry
<1>7. Base'
  BY <1>1, <1>2, <1>4, <1>5, <1>6, BaseFrom DEF Base, ServingTyped, RegistryTyped, Listed, registry
<1> QED
  BY <1>1, <1>2, <1>4, <1>5, <1>7 DEF registry

LEMMA OpenStreamBase ==
  ASSUME Base, NEW c \in Clients, OpenStream(c)
  PROVE  /\ Base' /\ Beside(c) /\ handler[c] = "read" /\ handler'[c] = "opened"
         /\ got' = got /\ stream' = stream /\ seen' = seen /\ connected' = connected
<1>1. /\ Handler(c, "read", "opened") /\ streams' = Append(streams, c)
      /\ cleaner' = IF cleaner = "none" THEN "running" ELSE cleaner
      /\ UNCHANGED <<stream, seen, expired, connected, got, work>>
  BY DEF OpenStream
<1>2. /\ handler[c] = "read" /\ handler'[c] = "opened" /\ handler' \in [Clients -> Handlers]
      /\ \A d \in Clients \ {c} : handler'[d] = handler[d]
  BY <1>1, HandlerBase, HandlerNames
<1>3. streams \in Seq(Clients) /\ IsInjective(streams) /\ c \notin ToSet(streams)
  BY <1>2, HandlerNames DEF Base, Listed, Open, RegistryTyped
<1>4. streams' \in Seq(Clients) /\ IsInjective(streams') /\ ToSet(streams') = ToSet(streams) \cup {c}
  BY <1>1, <1>3, InjectiveAppend, Appended
<1>5. Beside(c)
  BY <1>1, <1>2, <1>4 DEF Beside
<1>6. handler'[c] \notin Unopened \cup Over
  BY <1>2, HandlerNames
<1>7. Base'
  BY <1>1, <1>2, <1>4, <1>5, <1>6, BaseFrom DEF Base, ServingTyped, RegistryTyped
<1> QED
  BY <1>1, <1>2, <1>5, <1>7

\* A step that neither writes nor closes.
LEMMA QuietServeBase ==
  ASSUME Base, NEW c \in Clients, HeadersFail(c) \/ CheckClosed(c)
  PROVE  /\ Base' /\ Beside(c) /\ handler[c] \notin Unopened /\ handler'[c] \in {"dead", "checked", "dropped"}
         /\ got' = got /\ stream' = stream /\ streams' = streams /\ seen' = seen /\ connected' = connected
<1>1. PICK from \in {"opened", "flushed"} : \E to \in {"dead", "checked", "dropped"} :
        Handler(c, from, to) /\ (to = "dropped" => ~Open(c))
  BY DEF HeadersFail, CheckClosed
<1>2. PICK to \in {"dead", "checked", "dropped"} : Handler(c, from, to) /\ (to = "dropped" => ~Open(c))
  BY <1>1
<1>3. UNCHANGED <<seen, expired, connected, got, registry, work>>
  BY DEF HeadersFail, CheckClosed
<1>4. /\ handler[c] = from /\ handler'[c] = to /\ handler' \in [Clients -> Handlers]
      /\ \A d \in Clients \ {c} : handler'[d] = handler[d]
  BY <1>2, HandlerBase, HandlerNames
<1>5. Beside(c)
  BY <1>3, <1>4 DEF Beside, registry
<1>6. to \in Unopened \cup Over => c \notin ToSet(streams')
  BY <1>2, <1>3, HandlerNames DEF Open, registry
<1>7. Base'
  BY <1>3, <1>4, <1>5, <1>6, BaseFrom DEF Base, ServingTyped, RegistryTyped, Listed, registry
<1> QED
  BY <1>3, <1>4, <1>5, <1>7, HandlerNames DEF registry

\* A step that writes events, and may close the stream.
LEMMA WriteBase ==
  ASSUME Base, NEW c \in Clients, NEW from \in Handlers \ (Unopened \cup Over), NEW to \in Handlers \ Unopened,
         NEW events \in Seq(Events),
         Handler(c, from, to), got' = got \/ Read(c, events),
         UNCHANGED <<cleaner, seen, expired, connected, work>>,
         \/ Close(c)
         \/ ClearPending(c) /\ streams' = streams /\ to \notin Over
         \/ UNCHANGED <<streams, stream>> /\ to \notin Over
  PROVE  /\ Base' /\ Beside(c) /\ handler[c] = from /\ handler'[c] = to
         /\ connected' = connected /\ seen' = seen
<1>1. /\ handler[c] = from /\ handler'[c] = to /\ handler' \in [Clients -> Handlers]
      /\ \A d \in Clients \ {c} : handler'[d] = handler[d]
  BY HandlerBase
<1>2. got' \in [Clients -> Seq(Events)] /\ \A d \in Clients \ {c} : got'[d] = got[d]
  BY ReadBase DEF Base, ServingTyped
<1>3. /\ streams' \in Seq(Clients) /\ IsInjective(streams') /\ stream' \in [Clients -> Streams]
      /\ \A d \in Clients \ {c} : stream'[d] = stream[d] /\ (d \in ToSet(streams')) = (d \in ToSet(streams))
      /\ to \in Unopened \cup Over => c \notin ToSet(streams')
  <2>1. CASE Close(c)
    BY <2>1, CloseBase
  <2>2. CASE ClearPending(c) /\ streams' = streams /\ to \notin Over
    <3>1. stream \in [Clients -> Streams]
      BY DEF Base, RegistryTyped
    <3>2. [stream[c] EXCEPT !.pending = <<>>] \in Streams
      BY <3>1, NoEvents DEF Streams
    <3>3. stream' \in [Clients -> Streams] /\ \A d \in Clients \ {c} : stream'[d] = stream[d]
      BY <2>2, <3>1, <3>2 DEF ClearPending
    <3> QED
      BY <2>2, <3>3 DEF Base, RegistryTyped, Listed
  <2>3. CASE UNCHANGED <<streams, stream>> /\ to \notin Over
    BY <2>3 DEF Base, RegistryTyped, Listed
  <2> QED
    BY <2>1, <2>2, <2>3
<1>4. Beside(c)
  BY <1>1, <1>2, <1>3 DEF Beside
<1>5. Base'
  BY <1>1, <1>2, <1>3, <1>4, BaseFrom DEF Base, ServingTyped, RegistryTyped
<1> QED
  BY <1>1, <1>4, <1>5

\* The other steps of time, clients and cleanup.
LEMMA AsideBase ==
  ASSUME Base,
         \/ \E c \in Clients : Expire(c) \/ Disconnect(c) \/ GrowIdle(c)
         \/ CloseIdleStreams \/ Shutdown
  PROVE  /\ Base' /\ UNCHANGED <<work, handler, seen, got>>
         /\ \A d \in Clients : /\ connected'[d] => connected[d]
                               /\ handler[d] \in Over => connected'[d] = connected[d]
                               /\ d \in ToSet(streams') => d \in ToSet(streams)
                               /\ stream'[d].pending \in {stream[d].pending, <<>>}
<1>0. /\ streams \in Seq(Clients) /\ stream \in [Clients -> Streams] /\ connected \in [Clients -> BOOLEAN]
      /\ expired \in [Clients -> BOOLEAN] /\ IsInjective(streams)
  BY DEF Base, RegistryTyped, ServingTyped, Listed
<1>1. ASSUME UNCHANGED <<work, handler, seen, got>>,
             streams' \in Seq(Clients), IsInjective(streams'), stream' \in [Clients -> Streams],
             cleaner' \in {"none", "running", "stopped"},
             connected' \in [Clients -> BOOLEAN], expired' \in [Clients -> BOOLEAN],
             \A d \in Clients : d \in ToSet(streams') => d \in ToSet(streams)
      PROVE  Base'
  <2>1. WorkTyped' /\ ServingTyped' /\ RegistryTyped'
    BY <1>1 DEF Base, WorkTyped, ServingTyped, RegistryTyped, work, history
  <2>2. Listed'
    BY <1>1 DEF Base, Listed, Open, work, history
  <2> QED
    BY <2>1, <2>2 DEF Base
<1>2. ASSUME NEW c \in Clients, Expire(c)
      PROVE  /\ Base' /\ UNCHANGED <<work, handler, seen, got, connected, registry>>
  <2>1. /\ expired' = [expired EXCEPT ![c] = TRUE]
        /\ UNCHANGED <<handler, seen, connected, got, registry, work>>
    BY <1>2 DEF Expire
  <2> QED
    BY <1>0, <1>1, <2>1 DEF Base, RegistryTyped, registry
<1>3. ASSUME NEW c \in Clients, Disconnect(c)
      PROVE  /\ Base' /\ UNCHANGED <<work, handler, seen, got, registry>>
             /\ \A d \in Clients : /\ connected'[d] => connected[d]
                                   /\ handler[d] \in Over => connected'[d] = connected[d]
  <2>1. /\ connected' = [connected EXCEPT ![c] = FALSE]
        /\ UNCHANGED <<handler, seen, expired, got, registry, work>>
        /\ handler[c] \in {"read", "opened", "polling", "flushed", "checked"}
    BY <1>3 DEF Disconnect
  <2>2. handler[c] \notin Over
    BY <2>1, HandlerNames DEF Over
  <2> QED
    BY <1>0, <1>1, <2>1, <2>2 DEF Base, RegistryTyped, registry
<1>4. ASSUME NEW c \in Clients, GrowIdle(c)
      PROVE  /\ Base' /\ UNCHANGED <<work, serving, streams>>
             /\ \A d \in Clients : stream'[d].pending = stream[d].pending
  <2>1. /\ stream' = [stream EXCEPT ![c].idle = TRUE]
        /\ UNCHANGED <<streams, cleaner, work, serving>>
    BY <1>4 DEF GrowIdle
  <2>2. stream[c] \in Streams
    BY <1>0
  <2>3. [stream[c] EXCEPT !.idle = TRUE] \in Streams /\ [stream[c] EXCEPT !.idle = TRUE].pending = stream[c].pending
    BY <2>2 DEF Streams
  <2>4. stream' \in [Clients -> Streams] /\ \A d \in Clients : stream'[d].pending = stream[d].pending
    BY <1>0, <2>1, <2>3
  <2> QED
    BY <1>0, <1>1, <2>1, <2>4 DEF Base, RegistryTyped, serving
<1>5. ASSUME CloseIdleStreams
      PROVE  /\ Base' /\ UNCHANGED <<work, serving>>
             /\ \A d \in Clients : /\ d \in ToSet(streams') => d \in ToSet(streams)
                                   /\ stream'[d].pending \in {stream[d].pending, <<>>}
  <2> DEFINE kept == {c \in ToSet(streams) : ~IsIdle(c)}
  <2>1. /\ streams' \in InOrder(streams, kept)
        /\ stream' = [c \in Clients |-> IF IsIdle(c) THEN Fresh ELSE stream[c]]
        /\ UNCHANGED <<cleaner, work, serving>>
    BY <1>5 DEF CloseIdleStreams
  <2>2. IsFiniteSet(ToSet(streams)) /\ ToSet(streams) \subseteq Clients
    BY <1>0, ListedFinite
  <2>3. kept \in SUBSET Clients /\ IsFiniteSet(kept) /\ kept \subseteq ToSet(streams)
    BY <2>2, FS_Subset
  <2> HIDE DEF kept
  <2>4. streams' \in Seq(Clients) /\ IsInjective(streams') /\ ToSet(streams') \subseteq kept
    BY <2>1, <2>3, InjectiveInOrder
  <2>5. stream' \in [Clients -> Streams] /\ \A d \in Clients : stream'[d].pending \in {stream[d].pending, <<>>}
    BY <1>0, <2>1, NoEvents
  <2> QED
    BY <1>0, <1>1, <2>1, <2>3, <2>4, <2>5 DEF Base, RegistryTyped, serving
<1>6. ASSUME Shutdown PROVE Base' /\ UNCHANGED <<work, serving, streams, stream>>
  BY <1>0, <1>1, <1>6 DEF Shutdown, serving
<1> QED
  BY <1>2, <1>3, <1>4, <1>5, <1>6 DEF serving, registry

-----------------------------------------------------------------------------
(***************************************************************************)
(* What has been announced.                                                *)
(***************************************************************************)
\* As long as no turn crosses another: the session the task was handed to is the only one
\* that has steps of a turn to make, and what they announce has not been told before.
Turns ==
  /\ \A s \in Sessions : agent[s] \notin {"idle", "behind"} => turnOf = s
  /\ turnOf = "nobody" => "working" \notin told /\ "completed" \notin told
  /\ \A s \in Sessions : agent[s] \in {"drained", "started", "marked"} => "working" \notin told /\ "completed" \notin told
  /\ \A s \in Sessions : agent[s] \in {"answering", "completed"} => "completed" \notin told
  /\ \A s \in Sessions : agent[s] = "completed" => entry # "processing"
  /\ entry = "processing" => turnOf # "nobody" /\ "completed" \notin told
  /\ sender = "waiting" => "artifact" \notin told

\* A session that tells is that one, and waits for it to be told.
Tells(s) ==
  /\ turnOf = s /\ agent[s] = "idle"
  /\ \/ telling[s].event.state = "working" /\ "working" \in told /\ "completed" \notin told
     \/ telling[s].event.state = "completed" /\ "completed" \in told

Telling ==
  /\ Turns
  /\ \A s \in Sessions : ~Quiet(s) => Tells(s)
  /\ ~Quiet("sender") => telling["sender"].event.state = "artifact" /\ "artifact" \in told

LEMMA InitTelling == Init => Telling
BY DEF Init, Telling, Turns, Quiet, Broadcasters

LEMMA Senders == "sender" \in Broadcasters /\ "sender" \notin Sessions /\ Sessions \subseteq Broadcasters
BY StreamsAssumption DEF Broadcasters

LEMMA TellWorkingTells ==
  ASSUME Base, Telling, NEW s \in Sessions, TellWorking(s)
  PROVE  /\ Telling' /\ told \subseteq told' /\ "working" \notin told /\ "working" \in told'
         /\ telling'[s].event.state = "working" /\ \A d \in Broadcasters \ {s} : telling'[d] = telling[d]
<1>1. /\ Announce(s, "working") /\ s \in Broadcasters /\ "working" \in States
      /\ UNCHANGED <<status, entry, sender, streaming, turnOf, crossed, revived>>
  BY DEF TellWorking, Broadcasters, States
<1>2. /\ agent[s] = "marked" /\ agent'[s] = "idle" /\ \A u \in Sessions \ {s} : agent'[u] = agent[u]
  BY StepBase DEF TellWorking, Agents
<1>3. /\ telling'[s].event.state = "working" /\ \A d \in Broadcasters \ {s} : telling'[d] = telling[d]
      /\ told' = told \cup {"working"}
  BY <1>1, AnnounceBase
<1>4. turnOf = s /\ "working" \notin told /\ "completed" \notin told
  BY <1>2 DEF Telling, Turns
<1>5. Turns'
  BY <1>1, <1>2, <1>3, <1>4, StreamsAssumption DEF Telling, Turns
<1>6. \A u \in Sessions \ {s} : Quiet(u)'
  BY <1>3, <1>4 DEF Telling, Tells, Quiet, Broadcasters
<1>7. Tells(s)'
  BY <1>1, <1>2, <1>3, <1>4 DEF Tells
<1>8. ~Quiet("sender")' => (telling["sender"].event.state = "artifact" /\ "artifact" \in told)'
  BY <1>3, Senders DEF Telling, Quiet
<1> QED
  BY <1>3, <1>4, <1>5, <1>6, <1>7, <1>8 DEF Telling

LEMMA TellCompletedTells ==
  ASSUME Base, Telling, NEW s \in Sessions, TellCompleted(s)
  PROVE  /\ Telling' /\ told \subseteq told' /\ "completed" \notin told /\ "completed" \in told'
         /\ telling'[s].event.state = "completed" /\ \A d \in Broadcasters \ {s} : telling'[d] = telling[d]
<1>1. /\ Announce(s, "completed") /\ s \in Broadcasters /\ "completed" \in States
      /\ UNCHANGED <<status, entry, sender, streaming, turnOf, crossed, revived>>
  BY DEF TellCompleted, Broadcasters, States, Terminal
<1>2. /\ agent[s] = "completed" /\ agent'[s] = "idle" /\ \A u \in Sessions \ {s} : agent'[u] = agent[u]
  BY StepBase DEF TellCompleted, Agents
<1>3. /\ telling'[s].event.state = "completed" /\ \A d \in Broadcasters \ {s} : telling'[d] = telling[d]
      /\ told' = told \cup {"completed"}
  BY <1>1, AnnounceBase
<1>4. turnOf = s /\ "completed" \notin told /\ entry # "processing"
  BY <1>2 DEF Telling, Turns
<1>5. \A u \in Sessions \ {s} : agent[u] \in {"idle", "behind"}
  BY <1>4 DEF Telling, Turns
<1>6. Turns'
  BY <1>1, <1>2, <1>3, <1>4, <1>5, StreamsAssumption DEF Telling, Turns
<1>7. \A u \in Sessions \ {s} : Quiet(u)'
  BY <1>3, <1>4 DEF Telling, Tells, Quiet, Broadcasters
<1>8. Tells(s)'
  BY <1>1, <1>2, <1>3, <1>4 DEF Tells
<1>9. ~Quiet("sender")' => (telling["sender"].event.state = "artifact" /\ "artifact" \in told)'
  BY <1>3, Senders DEF Telling, Quiet
<1> QED
  BY <1>3, <1>4, <1>6, <1>7, <1>8, <1>9 DEF Telling

LEMMA TellArtifactTells ==
  ASSUME Base, Telling, TellArtifact
  PROVE  /\ Telling' /\ told \subseteq told' /\ "artifact" \notin told /\ "artifact" \in told'
         /\ telling'["sender"].event.state = "artifact"
         /\ \A d \in Broadcasters \ {"sender"} : telling'[d] = telling[d]
<1>1. /\ Announce("sender", "artifact") /\ sender = "waiting" /\ sender' = "published"
      /\ UNCHANGED <<status, entry, agent, streaming, turnOf, crossed, revived>>
  BY DEF TellArtifact
<1>2. /\ telling'["sender"].event.state = "artifact" /\ told' = told \cup {"artifact"}
      /\ \A d \in Broadcasters \ {"sender"} : telling'[d] = telling[d]
  BY <1>1, AnnounceBase, Senders
<1>3. "artifact" \notin told
  BY <1>1 DEF Telling, Turns
<1>4. Turns'
  BY <1>1, <1>2 DEF Telling, Turns
<1>5. \A s \in Sessions : ~Quiet(s)' => Tells(s)'
  BY <1>1, <1>2, Senders DEF Telling, Tells, Quiet
<1> QED
  BY <1>2, <1>3, <1>4, <1>5 DEF Telling

\* The steps of a session that announce nothing.
LEMMA QuietlyTells ==
  ASSUME Base, Telling, NEW s \in Sessions, Quietly(s), Turn(s), ~crossed'
  PROVE  Telling' /\ told' = told /\ telling' = telling
<1>0. telling' = telling /\ told' = told /\ sender' = sender /\ turnOf \in Sessions \cup {"nobody"}
  BY QuietlyBase, TurnBeside DEF Base, WorkTyped
<1>1. CASE Drain(s)
  <2>1. /\ agent[s] = "idle" /\ agent'[s] = "drained" /\ \A u \in Sessions \ {s} : agent'[u] = agent[u]
        /\ turnOf = "nobody" /\ turnOf' = s /\ entry' = entry /\ entry = "pending"
    BY <1>1, StepBase DEF Drain, Agents
  <2>2. \A u \in Sessions : agent[u] \in {"idle", "behind"} /\ Quiet(u)
    BY <2>1, StreamsAssumption DEF Telling, Turns, Tells
  <2>3. Turns'
    BY <1>0, <2>1, <2>2 DEF Telling, Turns
  <2> QED
    BY <1>0, <2>2, <2>3 DEF Telling, Quiet
<1>2. CASE DrainBehind(s)
  <2>1. /\ agent[s] = "idle" /\ agent'[s] = "behind" /\ \A u \in Sessions \ {s} : agent'[u] = agent[u]
        /\ turnOf' = turnOf /\ entry' = entry /\ Quiet(s)
    BY <1>2, StepBase DEF DrainBehind, Agents, history
  <2> QED
    BY <1>0, <2>1 DEF Telling, Turns, Tells, Quiet
<1>3. CASE Requeue(s)
  <2>1. /\ agent[s] = "behind" /\ agent'[s] = "idle" /\ \A u \in Sessions \ {s} : agent'[u] = agent[u]
        /\ turnOf' = turnOf /\ (entry' = "processing" => entry = "processing")
    BY <1>3, StepBase DEF Requeue, Agents
  <2> QED
    BY <1>0, <2>1 DEF Telling, Turns, Tells, Quiet
<1>4. CASE StartWork(s)
  <2>1. /\ agent[s] = "drained" /\ agent'[s] = "started" /\ \A u \in Sessions \ {s} : agent'[u] = agent[u]
        /\ turnOf' = turnOf /\ entry' = entry
    BY <1>4, StepBase DEF StartWork, Agents, history
  <2> QED
    BY <1>0, <2>1 DEF Telling, Turns, Tells, Quiet
<1>5. CASE Mark(s)
  <2>1. /\ agent[s] = "started" /\ agent'[s] = "marked" /\ \A u \in Sessions \ {s} : agent'[u] = agent[u]
        /\ turnOf' = turnOf
    BY <1>5, StepBase DEF Mark, Agents, history
  <2>2. turnOf = s /\ "completed" \notin told /\ \A u \in Sessions \ {s} : agent[u] \in {"idle", "behind"}
    BY <2>1 DEF Telling, Turns
  <2>3. Turns'
    BY <1>0, <2>1, <2>2, StreamsAssumption DEF Telling, Turns
  <2> QED
    BY <1>0, <2>1, <2>3 DEF Telling, Tells, Quiet
<1>6. CASE Target(s)
  <2>1. /\ agent[s] = "idle" /\ agent'[s] = "answering" /\ \A u \in Sessions \ {s} : agent'[u] = agent[u]
        /\ turnOf' = turnOf /\ entry' = entry /\ entry = "processing" /\ turnOf = s /\ Quiet(s)
    BY <1>6, StepBase DEF Target, Agents
  <2>2. Turns'
    BY <1>0, <2>1 DEF Telling, Turns
  <2> QED
    BY <1>0, <2>1, <2>2 DEF Telling, Tells, Quiet
<1>7. CASE Complete(s)
  <2>1. /\ agent[s] = "answering" /\ agent'[s] = "completed" /\ \A u \in Sessions \ {s} : agent'[u] = agent[u]
        /\ turnOf' = turnOf /\ entry' = "gone"
    BY <1>7, StepBase DEF Complete, Agents, history
  <2> QED
    BY <1>0, <2>1 DEF Telling, Turns, Tells, Quiet
<1> QED
  BY <1>0, <1>1, <1>2, <1>3, <1>4, <1>5, <1>6, <1>7 DEF Quietly

LEMMA CancelTells ==
  ASSUME Telling, Cancel
  PROVE  Telling' /\ told' = told /\ telling' = telling
<1>1. /\ UNCHANGED <<agent, sender, telling, turnOf, told>> /\ entry' = "gone"
  BY DEF Cancel, history
<1> QED
  BY <1>1 DEF Telling, Turns, Tells, Quiet

LEMMA PushTells ==
  ASSUME Base, Telling, NEW b \in Broadcasters, Push(b)
  PROVE  Telling' /\ told' = told
<1>1. ~Quiet(b) /\ UNCHANGED <<entry, agent, sender, turnOf, told>>
  BY DEF Push, history
<1>2. telling'[b].event.state = telling[b].event.state /\ \A d \in Broadcasters \ {b} : telling'[d] = telling[d]
  BY PushBase
<1>3. \A d \in Broadcasters : telling'[d].event.state = telling[d].event.state /\ (~Quiet(d)' => ~Quiet(d))
  BY <1>1, <1>2 DEF Quiet
<1>4. Turns'
  BY <1>1 DEF Telling, Turns
<1> QED
  BY <1>1, <1>3, <1>4, Senders DEF Telling, Tells

LEMMA OtherTells ==
  ASSUME Telling, UNCHANGED work
  PROVE  Telling' /\ told' = told /\ telling' = telling
BY DEF Telling, Turns, Tells, Quiet, work, history

(***************************************************************************)
(* What a client has read, and is to read.                                 *)
(***************************************************************************)
Precedes(d, e) ==
  /\ d.id # 0 /\ e.id # 0 => d.state # e.state
  /\ d.state \notin {"artifact", "error"} /\ e.state \notin {"artifact", "error"}
       => Stage(d.state) <= Stage(e.state)

Ordered(s) == \A i, j \in DOMAIN s : i < j => Precedes(s[i], s[j])

Lines(c) == got[c] \o stream[c].pending

Has(c) == ToSet(got[c]) \cup ToSet(stream[c].pending)

\* Each client reads in order what it is pushed of what has been announced, each
\* once, after the state it was told first; what else it is told ends its stream.
Reads(c) ==
  /\ Ordered(Lines(c))
  /\ \A e \in Has(c) : e.id # 0 => e.state \in told
  /\ \A b \in Broadcasters : c \in ToSet(telling[b].to) =>
       \A e \in Has(c) : e.id # 0 => e.state # telling[b].event.state
  /\ Open(c) => \A e \in Has(c) : e.id = 0 => e.state \in {"submitted", "working"}
  /\ \A e \in ToSet(stream[c].pending) : e.id # 0
  /\ handler[c] \in Unopened \cup {"opened"} => got[c] = <<>>

LEMMA Stages ==
  /\ Stage("submitted") = 1 /\ Stage("working") = 2
  /\ \A s \in Terminal : Stage(s) = 3
  /\ \A s \in States : Stage(s) \in 1 .. 3
  /\ Terminal \cap {"submitted", "working", "artifact", "error"} = {}
BY DEF Stage, Terminal, States

LEMMA OrderedAppend ==
  ASSUME NEW s \in Seq(Events), NEW e \in Events, Ordered(s), \A d \in ToSet(s) : Precedes(d, e)
  PROVE  Ordered(Append(s, e))
<1> DEFINE t == Append(s, e)
<1>1. /\ DOMAIN s = 1 .. Len(s) /\ Len(s) \in Nat
      /\ \A k \in DOMAIN t : (k \in DOMAIN s /\ t[k] = s[k]) \/ (k = Len(s) + 1 /\ t[k] = e)
  BY Indices, Appended
<1> HIDE DEF t
<1> SUFFICES ASSUME NEW i \in DOMAIN t, NEW j \in DOMAIN t, i < j PROVE Precedes(t[i], t[j])
  BY DEF Ordered, t
<1>2. i \in DOMAIN s /\ t[i] = s[i]
  <2>1. CASE j \in DOMAIN s
    BY <1>1, <2>1
  <2>2. CASE j = Len(s) + 1
    BY <1>1, <2>2
  <2> QED
    BY <1>1, <2>1, <2>2
<1>3. CASE j \in DOMAIN s /\ t[j] = s[j]
  BY <1>2, <1>3 DEF Ordered
<1>4. CASE t[j] = e
  BY <1>2, <1>4 DEF ToSet
<1> QED
  BY <1>1, <1>3, <1>4

LEMMA OrderedPrefix ==
  ASSUME NEW s \in Seq(Events), NEW t \in Seq(Events), Ordered(s \o t)
  PROVE  Ordered(s)
BY Joined DEF Ordered

LEMMA OrderedCons ==
  ASSUME NEW s \in Seq(Events), NEW e \in Events, Ordered(s), \A d \in ToSet(s) : Precedes(e, d)
  PROVE  Ordered(<<e>> \o s)
<1> DEFINE t == <<e>> \o s
<1>1. /\ DOMAIN s = 1 .. Len(s) /\ Len(s) \in Nat
      /\ \A k \in DOMAIN t : (k = 1 /\ t[k] = e) \/ (k > 1 /\ k - 1 \in DOMAIN s /\ t[k] = s[k - 1])
      /\ DOMAIN t \subseteq Nat
  <2>1. <<e>> \in Seq(Events) /\ Len(<<e>>) = 1 /\ DOMAIN <<e>> = {1} /\ <<e>>[1] = e
    OBVIOUS
  <2> QED
    BY <2>1, Indices, Joined
<1> HIDE DEF t
<1> SUFFICES ASSUME NEW i \in DOMAIN t, NEW j \in DOMAIN t, i < j PROVE Precedes(t[i], t[j])
  BY DEF Ordered, t
<1>2. i \in Nat /\ j \in Nat
  BY <1>1
<1>3. j > 1 /\ j - 1 \in DOMAIN s /\ t[j] = s[j - 1]
  <2>1. CASE j = 1
    BY <1>1, <1>2, <2>1
  <2> QED
    BY <1>1, <2>1
<1>4. CASE i = 1 /\ t[i] = e
  BY <1>3, <1>4 DEF ToSet
<1>5. CASE i > 1 /\ i - 1 \in DOMAIN s /\ t[i] = s[i - 1]
  <2>1. i - 1 < j - 1
    BY <1>2
  <2> QED
    BY <1>3, <1>5, <2>1 DEF Ordered
<1> QED
  BY <1>1, <1>4, <1>5

LEMMA JoinedSet ==
  ASSUME NEW S, NEW s \in Seq(S), NEW t \in Seq(S)
  PROVE  ToSet(s \o t) = ToSet(s) \cup ToSet(t)
<1> DEFINE q == s \o t
<1>1. /\ \A k \in DOMAIN s : k \in DOMAIN q /\ q[k] = s[k]
      /\ \A k \in DOMAIN t : Len(s) + k \in DOMAIN q /\ q[Len(s) + k] = t[k]
      /\ \A k \in DOMAIN q : (k \in DOMAIN s /\ q[k] = s[k]) \/ (k - Len(s) \in DOMAIN t /\ q[k] = t[k - Len(s)])
  BY Joined
<1> HIDE DEF q
<1>2. ToSet(q) \subseteq ToSet(s) \cup ToSet(t)
  BY <1>1 DEF ToSet
<1>3. ToSet(s) \subseteq ToSet(q)
  BY <1>1 DEF ToSet
<1>4. ToSet(t) \subseteq ToSet(q)
  BY <1>1 DEF ToSet
<1> QED
  BY <1>2, <1>3, <1>4 DEF q

\* What a client that reads more must satisfy.
LEMMA ReadsMore ==
  ASSUME NEW c \in Clients, Reads(c), NEW added,
         Ordered(Lines(c))', Has(c)' \subseteq Has(c) \cup added,
         told \subseteq told',
         \A b \in Broadcasters : c \in ToSet(telling'[b].to) =>
           c \in ToSet(telling[b].to) /\ telling'[b].event.state = telling[b].event.state,
         Open(c)' => Open(c),
         \A e \in ToSet(stream'[c].pending) : e.id # 0,
         handler'[c] \in Unopened \cup {"opened"} => got'[c] = <<>>,
         \A e \in added : e.id # 0 =>
           /\ e.state \in told'
           /\ \A b \in Broadcasters : c \in ToSet(telling'[b].to) => e.state # telling[b].event.state,
         Open(c)' => \A e \in added : e.id = 0 => e.state \in {"submitted", "working"}
  PROVE  Reads(c)'
BY DEF Reads

LEMMA ReadsSame ==
  ASSUME NEW c \in Clients, Reads(c), got'[c] = got[c], stream'[c].pending = stream[c].pending,
         told \subseteq told',
         \A b \in Broadcasters : c \in ToSet(telling'[b].to) =>
           c \in ToSet(telling[b].to) /\ telling'[b].event.state = telling[b].event.state,
         Open(c)' => Open(c),
         handler'[c] \in Unopened \cup {"opened"} => handler[c] \in Unopened \cup {"opened"}
  PROVE  Reads(c)'
<1>1. Ordered(Lines(c))' /\ Has(c)' = Has(c)
  BY DEF Reads, Ordered, Lines, Has
<1> QED
  BY <1>1, ReadsMore DEF Reads

LEMMA InitReads == Init => \A c \in Clients : Reads(c)
<1> SUFFICES ASSUME Init, NEW c \in Clients PROVE Reads(c)
  OBVIOUS
<1>1. got[c] = <<>> /\ stream[c].pending = <<>> /\ streams = <<>>
  BY NoEvents DEF Init
<1>2. \A b \in Broadcasters : telling[b].to = <<>>
  BY DEF Init
<1>3. Lines(c) = <<>>
  BY <1>1 DEF Lines
<1> QED
  BY <1>1, <1>2, <1>3 DEF Reads, Ordered, Has, ToSet, Open

LEMMA Announced ==
  ASSUME UNCHANGED <<registry, serving>>, NEW c \in Clients, Reads(c), NEW b \in Broadcasters,
         telling'[b].event.state \notin told, told \subseteq told',
         \A d \in Broadcasters \ {b} : telling'[d] = telling[d]
  PROVE  Reads(c)'
<1>1. got' = got /\ stream' = stream /\ streams' = streams /\ handler' = handler
  BY DEF registry, serving
<1>2. Ordered(Lines(c))' /\ Has(c)' = Has(c) /\ Open(c)' = Open(c)
  BY <1>1 DEF Reads, Ordered, Lines, Has, Open
<1> QED
  BY <1>1, <1>2 DEF Reads

LEMMA WorkReads ==
  ASSUME Base, Telling, \A c \in Clients : Reads(c), Work, ~crossed'
  PROVE  Telling' /\ \A c \in Clients : Reads(c)'
<1>1. UNCHANGED <<registry, serving>>
  BY WorkBase
<1>2. ASSUME NEW s \in Sessions, TellWorking(s) PROVE Telling' /\ \A c \in Clients : Reads(c)'
  BY <1>1, <1>2, TellWorkingTells, Announced DEF Broadcasters
<1>3. ASSUME NEW s \in Sessions, TellCompleted(s) PROVE Telling' /\ \A c \in Clients : Reads(c)'
  BY <1>1, <1>3, TellCompletedTells, Announced DEF Broadcasters
<1>4. CASE TellArtifact
  BY <1>1, <1>4, TellArtifactTells, Announced DEF Broadcasters
<1>5. ASSUME Telling', told' = told, telling' = telling PROVE Telling' /\ \A c \in Clients : Reads(c)'
  <2>1. got' = got /\ stream' = stream /\ streams' = streams /\ handler' = handler
    BY <1>1 DEF registry, serving
  <2> QED
    BY <1>5, <2>1, ReadsSame DEF Open
<1>6. ASSUME NEW s \in Sessions, Turn(s), Quietly(s) PROVE Telling' /\ \A c \in Clients : Reads(c)'
  BY <1>5, <1>6, QuietlyTells
<1>7. CASE Cancel
  BY <1>5, <1>7, CancelTells
<1> QED
  BY <1>2, <1>3, <1>4, <1>6, <1>7, TurnTells DEF Work

LEMMA PushReads ==
  ASSUME Base, Telling, \A c \in Clients : Reads(c), NEW b \in Broadcasters, Push(b)
  PROVE  Telling' /\ \A c \in Clients : Reads(c)'
<1>1. PICK c \in Clients :
        /\ c \in ToSet(telling[b].to) /\ ToSet(telling'[b].to) \subseteq ToSet(telling[b].to) \ {c}
        /\ telling'[b].event.state = telling[b].event.state
        /\ \A d \in Broadcasters \ {b} : telling'[d] = telling[d]
        /\ \/ UNCHANGED stream
           \/ /\ Open(c) /\ \A d \in Clients \ {c} : stream'[d] = stream[d]
              /\ \E e \in Events :
                   /\ e.id # 0 /\ e.state = telling[b].event.state
                   /\ stream'[c].pending = Append(stream[c].pending, e)
  BY PushBase
<1>2. Telling' /\ told' = told
  BY PushTells
<1>3. got' = got /\ streams' = streams /\ handler' = handler
  BY DEF Push, serving
<1>4. \A d \in Clients : \A h \in Broadcasters : d \in ToSet(telling'[h].to) =>
        d \in ToSet(telling[h].to) /\ telling'[h].event.state = telling[h].event.state
  BY <1>1
<1>5. \A d \in Clients : stream'[d].pending = stream[d].pending => Reads(d)'
  BY <1>2, <1>3, <1>4, ReadsSame DEF Open
<1>6. ASSUME NEW e \in Events, e.id # 0, e.state = telling[b].event.state, Open(c),
             stream'[c].pending = Append(stream[c].pending, e)
      PROVE  Reads(c)'
  <2>1. got[c] \in Seq(Events) /\ stream[c].pending \in Seq(Events)
    BY DEF Base, ServingTyped, RegistryTyped, Streams
  <2>2. Lines(c)' = Append(Lines(c), e) /\ Lines(c) \in Seq(Events)
    <3>1. got'[c] \o stream'[c].pending = got[c] \o Append(stream[c].pending, e)
      BY <1>3, <1>6
    <3>2. got[c] \o Append(stream[c].pending, e) = Append(got[c] \o stream[c].pending, e)
      <4>1. \A s, t \in Seq(Events) : \A d \in Events : s \o Append(t, d) = Append(s \o t, d)
        BY JoinAppended
      <4> QED
        BY <1>6, <2>1, <4>1
    <3>3. got[c] \o stream[c].pending \in Seq(Events)
      BY <2>1, Joined
    <3> QED
      BY <3>1, <3>2, <3>3 DEF Lines
  <2>3. ToSet(Lines(c)) = Has(c) /\ ToSet(stream'[c].pending) = ToSet(stream[c].pending) \cup {e}
    <3>1. ToSet(Lines(c)) = Has(c)
      BY <2>1, JoinedSet DEF Lines, Has
    <3>2. ToSet(stream'[c].pending) \subseteq ToSet(stream[c].pending) \cup {e}
      BY <1>6, <2>1, Appended DEF ToSet
    <3>3. Len(stream[c].pending) + 1 \in DOMAIN stream'[c].pending /\ stream'[c].pending[Len(stream[c].pending) + 1] = e
      BY <1>6, <2>1
    <3>4. ToSet(stream[c].pending) \cup {e} \subseteq ToSet(stream'[c].pending)
      BY <1>6, <2>1, <3>3, Appended DEF ToSet
    <3> QED
      BY <3>1, <3>2, <3>4
  <2>4. Has(c)' = Has(c) \cup {e}
    BY <1>3, <2>3 DEF Has
  <2>5. /\ Ordered(Lines(c)) /\ \A d \in Has(c) : d.id # 0 => d.state \in told /\ d.state # e.state
        /\ \A d \in Has(c) : d.id = 0 => d.state \in {"submitted", "working"}
    BY <1>1, <1>6 DEF Reads
  <2>6. telling[b].to # <<>>
    BY <1>1 DEF ToSet
  <2>7. /\ e.state \in told
        /\ \/ e.state = "working" /\ "completed" \notin told
           \/ e.state = "completed"
           \/ e.state = "artifact"
    BY <1>6, <2>6 DEF Telling, Tells, Quiet, Broadcasters
  <2>8. \A d \in Has(c) : Precedes(d, e)
    <3> SUFFICES ASSUME NEW d \in Has(c) PROVE Precedes(d, e)
      OBVIOUS
    <3>1. d \in Events
      BY <2>1, <2>2, <2>3, Indices DEF ToSet
    <3>2. CASE e.state = "working" /\ "completed" \notin told
      <4>0. told \subseteq {"working", "completed", "artifact"}
        BY DEF Base, WorkTyped
      <4>1. d.state \notin Terminal
        BY <2>5, <3>2, <4>0, EventTyped, Stages DEF Terminal
      <4> QED
        BY <2>5, <3>1, <3>2, <4>1, EventTyped, Stages DEF Precedes, States
    <3>3. CASE e.state = "completed"
      BY <2>5, <3>1, <3>3, EventTyped, Stages DEF Precedes, Terminal, States
    <3>4. CASE e.state = "artifact"
      BY <2>5, <3>4 DEF Precedes
    <3> QED
      BY <2>7, <3>2, <3>3, <3>4
  <2>9. Ordered(Lines(c))'
    BY <2>2, <2>3, <2>5, <2>8, OrderedAppend
  <2>10. e.state \in told
    BY <2>7
  <2>11. \A h \in Broadcasters : c \in ToSet(telling'[h].to) => e.state # telling[h].event.state
    <3> SUFFICES ASSUME NEW h \in Broadcasters, c \in ToSet(telling'[h].to) PROVE e.state # telling[h].event.state
      OBVIOUS
    <3>1. h # b /\ c \in ToSet(telling[h].to)
      BY <1>1
    <3>2. ~Quiet(h) /\ ~Quiet(b)
      BY <2>6, <3>1 DEF Quiet, ToSet
    <3>3. CASE h = "sender" \/ b = "sender"
      BY <1>6, <3>1, <3>2, <3>3 DEF Telling, Tells, Broadcasters
    <3>4. CASE h \in Sessions /\ b \in Sessions
      BY <3>1, <3>2, <3>4 DEF Telling, Tells
    <3> QED
      BY <3>3, <3>4 DEF Broadcasters
  <2>12. \A d \in ToSet(stream'[c].pending) : d.id # 0
    BY <1>6, <2>3 DEF Reads
  <2>13. /\ Reads(c) /\ (Open(c)' => Open(c))
         /\ handler'[c] \in Unopened \cup {"opened"} => got'[c] = <<>>
    BY <1>3 DEF Reads, Open
  <2>14. /\ Has(c)' \subseteq Has(c) \cup {e} /\ told \subseteq told'
         /\ \A h \in Broadcasters : c \in ToSet(telling'[h].to) =>
              c \in ToSet(telling[h].to) /\ telling'[h].event.state = telling[h].event.state
         /\ \A d \in {e} : d.id # 0 =>
              d.state \in told' /\ \A h \in Broadcasters : c \in ToSet(telling'[h].to) => d.state # telling[h].event.state
         /\ Open(c)' => \A d \in {e} : d.id = 0 => d.state \in {"submitted", "working"}
    <3>1. told \subseteq told' /\ Has(c)' \subseteq Has(c) \cup {e}
      BY <1>2, <2>4
    <3>2. e.id # 0 /\ e.state \in told'
      BY <1>2, <1>6, <2>10
    <3> QED
      BY <1>4, <2>11, <3>1, <3>2
  <2> QED
    <3> DEFINE added == {e}
    <3>1. /\ Has(c)' \subseteq Has(c) \cup added
          /\ \A d \in added : d.id # 0 =>
               d.state \in told' /\ \A h \in Broadcasters : c \in ToSet(telling'[h].to) => d.state # telling[h].event.state
          /\ Open(c)' => \A d \in added : d.id = 0 => d.state \in {"submitted", "working"}
      BY <2>14
    <3> HIDE DEF added
    <3> QED
      BY <2>9, <2>12, <2>13, <2>14, <3>1, ReadsMore
<1>7. \A d \in Clients : Reads(d)'
  BY <1>1, <1>5, <1>6
<1> QED
  BY <1>2, <1>7

\* What a step of one thread leaves to the others.
LEMMA BesideReads ==
  ASSUME Telling, NEW c \in Clients, Beside(c), \A d \in Clients : Reads(d)
  PROVE  /\ Telling' /\ told' = told /\ telling' = telling
         /\ \A d \in Clients \ {c} : Reads(d)'
<1>1. Telling' /\ told' = told /\ telling' = telling
  BY OtherTells DEF Beside
<1>2. ASSUME NEW d \in Clients \ {c} PROVE Reads(d)'
  <2>1. /\ got'[d] = got[d] /\ stream'[d].pending = stream[d].pending /\ handler'[d] = handler[d]
        /\ (Open(d)' => Open(d))
    BY <1>2 DEF Beside, Open
  <2> QED
    BY <1>1, <2>1, ReadsSame
<1> QED
  BY <1>1, <1>2

LEMMA OpenedReads ==
  ASSUME Base, Telling, \A d \in Clients : Reads(d), NEW c \in Clients,
         ReadStatus(c) \/ OpenStream(c) \/ HeadersFail(c) \/ CheckClosed(c)
  PROVE  Base' /\ Telling' /\ \A d \in Clients : Reads(d)'
<1>1. CASE ReadStatus(c)
  <2>1. /\ Base' /\ Beside(c) /\ handler[c] = "new" /\ got' = got /\ stream' = stream /\ streams' = streams
    BY <1>1, ReadStatusBase
  <2>2. Reads(c)'
    BY <2>1, BesideReads, ReadsSame, HandlerNames DEF Open
  <2> QED
    BY <2>1, <2>2, BesideReads
<1>2. CASE OpenStream(c)
  <2>1. /\ Base' /\ Beside(c) /\ handler[c] = "read" /\ got' = got /\ stream' = stream
    BY <1>2, OpenStreamBase
  <2>2. Telling' /\ told' = told /\ telling' = telling
    BY <2>1, BesideReads
  <2>3. Ordered(Lines(c))' /\ Has(c)' = Has(c) /\ got[c] = <<>>
    BY <2>1, HandlerNames DEF Reads, Ordered, Lines, Has
  <2>4. \A e \in Has(c) : e.id # 0
    BY <2>3 DEF Reads, Has, ToSet
  <2>5. Reads(c)'
    BY <2>1, <2>2, <2>3, <2>4 DEF Reads
  <2> QED
    BY <2>1, <2>5, BesideReads
<1>3. CASE HeadersFail(c) \/ CheckClosed(c)
  <2>1. /\ Base' /\ Beside(c) /\ handler'[c] \in {"dead", "checked", "dropped"}
        /\ got' = got /\ stream' = stream /\ streams' = streams
    BY <1>3, QuietServeBase
  <2>2. Reads(c)'
    BY <2>1, BesideReads, ReadsSame, HandlerNames DEF Open, Unopened
  <2> QED
    BY <2>1, <2>2, BesideReads
<1> QED
  BY <1>1, <1>2, <1>3

\* The stream is closed: what was pending goes with it.
LEMMA ClosedReads ==
  ASSUME Base, Base', Telling, \A d \in Clients : Reads(d), NEW c \in Clients, Beside(c), Close(c),
         handler'[c] \notin Unopened \cup {"opened"},
         \/ got'[c] = got[c]
         \/ \E e \in Events : /\ e.id = 0 /\ got'[c] = got[c] \o <<e>>
                              /\ \A d \in ToSet(got[c]) : Precedes(d, e)
  PROVE  Reads(c)'
<1>1. stream'[c].pending = <<>> /\ ~Open(c)'
  BY CloseBase, NoEvents DEF Open
<1>2. got[c] \in Seq(Events) /\ stream[c].pending \in Seq(Events) /\ got'[c] \in Seq(Events)
  BY DEF Base, ServingTyped, RegistryTyped, Streams
<1>3. Lines(c)' = got'[c] /\ Has(c)' = ToSet(got'[c])
  <2>1. \A s \in Seq(Events) : s \o <<>> = s
    OBVIOUS
  <2>2. ToSet(<<>>) = {}
    BY DEF ToSet
  <2> QED
    BY <1>1, <1>2, <2>1, <2>2 DEF Lines, Has
<1>4. Ordered(got[c]) /\ ToSet(got[c]) \subseteq Has(c)
  BY <1>2, OrderedPrefix DEF Reads, Lines, Has
<1>5. Telling' /\ told' = told /\ telling' = telling
  BY BesideReads
<1>6. CASE got'[c] = got[c]
  BY <1>1, <1>3, <1>4, <1>5, <1>6, NoEvents DEF Reads, Ordered, ToSet
<1>7. ASSUME NEW e \in Events, e.id = 0, got'[c] = got[c] \o <<e>>, \A d \in ToSet(got[c]) : Precedes(d, e)
      PROVE  Reads(c)'
  <2>1. got'[c] = Append(got[c], e)
    BY <1>2, <1>7
  <2>2. Ordered(got'[c])
    BY <1>2, <1>4, <1>7, <2>1, OrderedAppend
  <2>3. ToSet(got'[c]) \subseteq ToSet(got[c]) \cup {e}
    BY <1>2, <2>1, Appended DEF ToSet
  <2>4. Ordered(Lines(c))'
    BY <1>3, <2>2 DEF Ordered
  <2>5. \A d \in ToSet(got'[c]) : d.id # 0 => d \in Has(c)
    BY <1>4, <1>7, <2>3
  <2> QED
    BY <1>1, <1>3, <1>5, <2>4, <2>5 DEF Reads, ToSet
<1> QED
  BY <1>6, <1>7

LEMMA FirstReads ==
  ASSUME Base, Telling, \A d \in Clients : Reads(d), NEW c \in Clients, EmitFirst(c)
  PROVE  Base' /\ Telling' /\ \A d \in Clients : Reads(d)'
<1> DEFINE e == Event(seen[c], 0)
<1>1. e \in Events /\ e.id = 0 /\ e.state = seen[c] /\ seen[c] \in States
  BY EventTyped DEF Base, ServingTyped
<1>2. <<e>> \in Seq(Events) /\ Read(c, <<e>>) /\ UNCHANGED <<cleaner, seen, expired, connected, work>>
  BY <1>1, OneEvent DEF EmitFirst
<1> HIDE DEF e
<1>3. PICK to \in {"dropped", "finished", "polling"} :
        /\ Handler(c, "opened", to)
        /\ IF to = "polling" THEN UNCHANGED <<streams, stream>> /\ connected[c] /\ seen[c] \notin Terminal
           ELSE Close(c)
  BY DEF EmitFirst
<1>4. Base' /\ Beside(c) /\ handler[c] = "opened" /\ handler'[c] = to
  <2>1. to \in Handlers \ Unopened /\ "opened" \in Handlers \ (Unopened \cup Over) /\ (to = "polling" => to \notin Over)
    BY HandlerNames DEF Over, Unopened
  <2> QED
    BY <1>2, <1>3, <2>1, WriteBase
<1>5. got[c] = <<>> /\ got'[c] = (IF connected[c] THEN got[c] \o <<e>> ELSE got[c])
  BY <1>2, <1>4, ReadBase DEF Reads
<1>6. Reads(c)'
  <2>1. handler'[c] \notin Unopened \cup {"opened"}
    BY <1>4 DEF Unopened
  <2>2. CASE Close(c)
    <3>1. \A d \in ToSet(got[c]) : Precedes(d, e)
      BY <1>5 DEF ToSet
    <3> QED
      BY <1>1, <1>4, <1>5, <2>1, <2>2, <3>1, ClosedReads
  <2>3. CASE UNCHANGED <<streams, stream>> /\ connected[c] /\ seen[c] \notin Terminal
    <3>1. stream[c].pending \in Seq(Events)
      BY DEF Base, RegistryTyped, Streams
    <3>2. got'[c] = <<e>>
      BY <1>2, <1>5, <2>3
    <3>3. Lines(c) = stream[c].pending /\ Lines(c)' = <<e>> \o stream[c].pending
      BY <1>5, <2>3, <3>1, <3>2 DEF Lines
    <3>4. /\ \A d \in ToSet(stream[c].pending) : d.id # 0 /\ d.state \in told
          /\ Ordered(stream[c].pending)
      BY <3>3 DEF Reads, Has
    <3>5. \A d \in ToSet(stream[c].pending) : Precedes(e, d)
      <4> SUFFICES ASSUME NEW d \in ToSet(stream[c].pending) PROVE Precedes(e, d)
        OBVIOUS
      <4>1. d.state \in {"working", "completed", "artifact"}
        BY <3>4 DEF Base, WorkTyped
      <4>2. e.state \in {"submitted", "working"}
        BY <1>1, <2>3 DEF States
      <4> QED
        BY <1>1, <4>1, <4>2, Stages DEF Precedes, Terminal
    <3>6. Ordered(Lines(c))'
      <4>1. Ordered(<<e>> \o stream[c].pending)
        BY <1>1, <3>1, <3>4, <3>5, OrderedCons
      <4> QED
        BY <3>3, <4>1 DEF Ordered
    <3>7. Has(c)' \subseteq Has(c) \cup {e}
      BY <2>3, <3>2 DEF Has, ToSet
    <3>8. told' = told /\ telling' = telling /\ Open(c)' = Open(c) /\ stream' = stream
      BY <1>4, <2>3, BesideReads DEF Open
    <3>9. e.state \in {"submitted", "working"}
      BY <1>1, <2>3 DEF States
    <3> QED
      BY <1>1, <2>1, <3>6, <3>7, <3>8, <3>9 DEF Reads
  <2> QED
    BY <1>3, <2>2, <2>3
<1> QED
  BY <1>4, <1>6, BesideReads

LEMMA FlushReads ==
  ASSUME Base, Telling, \A d \in Clients : Reads(d), NEW c \in Clients, Flush(c)
  PROVE  Base' /\ Telling' /\ \A d \in Clients : Reads(d)'
<1>1. /\ stream[c].pending \in Seq(Events) /\ got[c] \in Seq(Events)
      /\ Read(c, stream[c].pending) /\ UNCHANGED <<cleaner, seen, expired, connected, work>>
  BY DEF Flush, Base, RegistryTyped, ServingTyped, Streams
<1>2. got'[c] = IF connected[c] THEN got[c] \o stream[c].pending ELSE got[c]
  BY <1>1, ReadBase
<1>3. CASE ~connected[c] /\ stream[c].pending # <<>>
  <2>1. Handler(c, "polling", "dropped") /\ Close(c)
    BY <1>3 DEF Flush
  <2>2. Base' /\ Beside(c) /\ handler'[c] = "dropped"
    BY <1>1, <2>1, WriteBase, HandlerNames DEF Unopened
  <2>3. Reads(c)'
    BY <1>2, <1>3, <2>1, <2>2, ClosedReads DEF Unopened
  <2> QED
    BY <2>2, <2>3, BesideReads
<1>4. CASE ~(~connected[c] /\ stream[c].pending # <<>>)
  <2>1. Handler(c, "polling", "flushed") /\ ClearPending(c) /\ UNCHANGED streams
    BY <1>4 DEF Flush
  <2>2. Base' /\ Beside(c) /\ handler'[c] = "flushed"
    BY <1>1, <2>1, WriteBase, HandlerNames DEF Unopened, Over
  <2>3. stream'[c].pending = <<>>
    BY <2>1 DEF ClearPending, Base, RegistryTyped, Streams
  <2>4. Lines(c)' = Lines(c) /\ Has(c)' = Has(c)
    <3>1. got'[c] = got[c] \o stream[c].pending
      <4>1. got[c] \o <<>> = got[c]
        BY <1>1
      <4> QED
        BY <1>2, <1>4, <4>1
    <3>2. \A s, t \in Seq(Events) : s \o t \in Seq(Events) /\ ToSet(s \o t) = ToSet(s) \cup ToSet(t)
      BY Joined, JoinedSet
    <3>3. got'[c] \in Seq(Events) /\ ToSet(got'[c]) = Has(c)
      BY <1>1, <3>1, <3>2 DEF Has
    <3>4. got'[c] \o <<>> = got'[c] /\ ToSet(<<>>) = {}
      BY <3>3 DEF ToSet
    <3> QED
      BY <2>3, <3>1, <3>3, <3>4 DEF Lines, Has
  <2>5. told' = told /\ telling' = telling /\ Open(c)' = Open(c)
    BY <2>1, <2>2, BesideReads DEF Open
  <2>6. Ordered(Lines(c))'
    BY <2>4 DEF Reads, Ordered
  <2>7. Reads(c)'
    BY <2>2, <2>3, <2>4, <2>5, <2>6 DEF Reads, Unopened, ToSet
  <2> QED
    BY <2>2, <2>7, BesideReads
<1> QED
  BY <1>3, <1>4

LEMMA LastReads ==
  ASSUME Base, Telling, \A d \in Clients : Reads(d), NEW c \in Clients, CheckStatus(c) \/ TimeOut(c)
  PROVE  Base' /\ Telling' /\ \A d \in Clients : Reads(d)'
<1>1. UNCHANGED <<cleaner, seen, expired, connected, work>>
  BY DEF CheckStatus, TimeOut
<1>2. ASSUME NEW from \in {"checked", "polling"}, NEW to \in {"finished", "timed_out"}, NEW e \in Events,
             Handler(c, from, to), Read(c, <<e>>), Close(c), e.id = 0, e.state \in Terminal \cup {"error"}
      PROVE  Base' /\ Telling' /\ \A d \in Clients : Reads(d)'
  <2>1. <<e>> \in Seq(Events) /\ from \in Handlers \ (Unopened \cup Over) /\ to \in Handlers \ Unopened
    BY OneEvent, HandlerNames DEF Unopened
  <2>2. Base' /\ Beside(c) /\ handler'[c] = to
    BY <1>1, <1>2, <2>1, WriteBase
  <2>3. got'[c] = IF connected[c] THEN got[c] \o <<e>> ELSE got[c]
    BY <1>2, <2>1, ReadBase
  <2>4. \A d \in ToSet(got[c]) : Precedes(d, e)
    <3> SUFFICES ASSUME NEW d \in ToSet(got[c]) PROVE Precedes(d, e)
      OBVIOUS
    <3>1. d \in Events
      BY Indices DEF ToSet, Base, ServingTyped
    <3> QED
      BY <1>2, <3>1, EventTyped, Stages DEF Precedes
  <2>5. Reads(c)'
    BY <1>2, <2>2, <2>3, <2>4, ClosedReads DEF Unopened
  <2> QED
    BY <2>2, <2>5, BesideReads
<1>3. CASE CheckStatus(c) /\ status \in Terminal
  <2>1. Event(status, 0) \in Events /\ Event(status, 0).id = 0 /\ Event(status, 0).state \in Terminal
    BY <1>3, EventTyped DEF States
  <2> QED
    BY <1>2, <1>3, <2>1 DEF CheckStatus
<1>4. CASE CheckStatus(c) /\ status \notin Terminal
  <2>1. Handler(c, "checked", "polling") /\ UNCHANGED <<got, streams, stream>>
    BY <1>4 DEF CheckStatus
  <2>2. Base' /\ Beside(c) /\ handler'[c] = "polling"
    BY <1>1, <2>1, WriteBase, NoEvents, HandlerNames DEF Unopened, Over
  <2>3. Reads(c)'
    BY <2>1, <2>2, BesideReads, ReadsSame DEF Open, Unopened
  <2> QED
    BY <2>2, <2>3, BesideReads
<1>5. CASE TimeOut(c)
  <2>1. Event("error", 0) \in Events /\ Event("error", 0).id = 0 /\ Event("error", 0).state = "error"
    BY EventTyped
  <2> QED
    BY <1>2, <1>5, <2>1 DEF TimeOut
<1> QED
  BY <1>3, <1>4, <1>5

LEMMA AsideReads ==
  ASSUME Base, Telling, \A d \in Clients : Reads(d),
         \/ \E c \in Clients : Expire(c) \/ Disconnect(c) \/ GrowIdle(c)
         \/ CloseIdleStreams \/ Shutdown
  PROVE  Base' /\ Telling' /\ \A d \in Clients : Reads(d)'
<1>1. /\ Base' /\ UNCHANGED <<work, handler, seen, got>>
      /\ \A d \in Clients : /\ d \in ToSet(streams') => d \in ToSet(streams)
                            /\ stream'[d].pending \in {stream[d].pending, <<>>}
  BY AsideBase
<1>2. Telling' /\ told' = told /\ telling' = telling
  BY <1>1, OtherTells
<1>3. ASSUME NEW c \in Clients PROVE Reads(c)'
  <2>1. CASE stream'[c].pending = stream[c].pending
    BY <1>1, <1>2, <2>1, ReadsSame DEF Open
  <2>2. CASE stream'[c].pending = <<>>
    <3>1. got[c] \in Seq(Events) /\ stream[c].pending \in Seq(Events)
      BY DEF Base, RegistryTyped, ServingTyped, Streams
    <3>2. Lines(c)' = got[c] /\ Has(c)' = ToSet(got[c])
      <4>1. got[c] \o <<>> = got[c] /\ ToSet(<<>>) = {}
        BY <3>1 DEF ToSet
      <4> QED
        BY <1>1, <2>2, <4>1 DEF Lines, Has
    <3>3. Ordered(got[c]) /\ ToSet(got[c]) \subseteq Has(c)
      BY <3>1, OrderedPrefix DEF Reads, Lines, Has
    <3>4. Ordered(Lines(c))'
      BY <3>2, <3>3 DEF Ordered
    <3> QED
      BY <1>1, <1>2, <2>2, <3>2, <3>3, <3>4 DEF Reads, Open, ToSet
  <2> QED
    BY <1>1, <2>1, <2>2
<1> QED
  BY <1>1, <1>2, <1>3

-----------------------------------------------------------------------------
(***************************************************************************)
(* How streams end.                                                        *)
(***************************************************************************)
\* A task with an outcome has left the queue, and the outcome stays, unless the task is
\* put back: so what was read of it, or told, is true.
Ends ==
  /\ ~revived /\ status \in Terminal => entry = "gone"
  /\ \A c \in Clients : seen[c] \in Terminal => status \in Terminal /\ (~revived => seen[c] = status)
  /\ \A c \in Clients : handler[c] = "finished" => status \in Terminal
  /\ OutcomeTold

\* What is promised of the order is promised until a turn crosses another.
StreamsInv == Base /\ Ends /\ (~crossed => Telling /\ \A c \in Clients : Reads(c))

LEMMA InitEnds == Init => Ends
BY DEF Init, Ends, OutcomeTold, Terminal

LEMMA WorkEnds ==
  ASSUME Base, Ends, Work
  PROVE  Ends'
<1>0. status \in States /\ entry \in {"pending", "processing", "gone"} /\ revived \in BOOLEAN
  BY DEF Base, WorkTyped
<1>1. UNCHANGED <<registry, serving>>
  BY WorkBase
<1>2. /\ status \in Terminal => status' \in Terminal
      /\ revived => revived'
      /\ ~revived' /\ status \in Terminal => status' = status
      /\ ~revived' /\ status' \in Terminal => entry' = "gone"
  <2> DEFINE Goal == /\ status \in Terminal => status' \in Terminal
                     /\ revived => revived'
                     /\ ~revived' /\ status \in Terminal => status' = status
                     /\ ~revived' /\ status' \in Terminal => entry' = "gone"
  <2>1. ASSUME NEW s \in Sessions, Drain(s) \/ DrainBehind(s) \/ TellWorking(s) \/ TellCompleted(s) PROVE Goal
    BY <2>1 DEF Drain, DrainBehind, TellWorking, TellCompleted, Ends, history
  <2>2. ASSUME NEW s \in Sessions, Requeue(s) PROVE Goal
    BY <2>2 DEF Requeue, Ends
  <2>3. ASSUME NEW s \in Sessions, StartWork(s) PROVE Goal
    BY <2>3 DEF StartWork, Ends, history, Terminal
  <2>4. ASSUME NEW s \in Sessions, Mark(s) PROVE Goal
    BY <2>4 DEF Mark, Ends, history
  <2>5. ASSUME NEW s \in Sessions, Target(s) PROVE Goal
    BY <2>5 DEF Target, Ends
  <2>6. ASSUME NEW s \in Sessions, Complete(s) PROVE Goal
    BY <2>6 DEF Complete, Ends, history, Terminal
  <2>7. CASE Cancel
    BY <2>7 DEF Cancel, Ends, history, Terminal
  <2>8. CASE TellArtifact
    BY <2>8 DEF TellArtifact, Ends
  <2> QED
    BY <2>1, <2>2, <2>3, <2>4, <2>5, <2>6, <2>7, <2>8 DEF Work, Turn
<1>3. UNCHANGED <<handler, seen, connected, got>>
  BY <1>1 DEF serving
<1> QED
  BY <1>2, <1>3 DEF Ends, OutcomeTold

\* What a thread that is done has been doing last.
LEMMA EndsFrom ==
  ASSUME Ends, NEW c \in Clients, Beside(c), connected' = connected,
         seen'[c] \in Terminal => status \in Terminal /\ (~revived => seen'[c] = status),
         handler'[c] = "finished" =>
           /\ status \in Terminal
           /\ connected[c] => /\ got'[c] # <<>> /\ Last(got'[c]).state \in Terminal
                             /\ (~revived => Last(got'[c]).state = status)
  PROVE  Ends'
<1>1. status' = status /\ entry' = entry /\ revived' = revived
  BY DEF Beside, work, history
<1> QED
  BY <1>1 DEF Ends, OutcomeTold, Beside

LEMMA LastJoined ==
  ASSUME NEW s \in Seq(Events), NEW e \in Events
  PROVE  Last(s \o <<e>>) = e /\ s \o <<e>> # <<>>
BY DEF Last

LEMMA ServeEnds ==
  ASSUME Base, Ends, NEW c \in Clients, Serve(c)
  PROVE  Base' /\ Beside(c) /\ Ends'
<1>0. got[c] \in Seq(Events) /\ seen[c] \in States /\ status \in States
  BY DEF Base, ServingTyped, WorkTyped
<1>1. CASE ReadStatus(c)
  <2>1. connected' = connected
    BY <1>1 DEF ReadStatus
  <2> QED
    BY <1>1, <2>1, ReadStatusBase, EndsFrom, Stages
<1>2. CASE OpenStream(c)
  BY <1>2, OpenStreamBase, EndsFrom DEF Ends
<1>3. CASE HeadersFail(c) \/ CheckClosed(c)
  BY <1>3, QuietServeBase, EndsFrom DEF Ends
<1>4. CASE EmitFirst(c)
  <2> DEFINE e == Event(seen[c], 0)
  <2>1. e \in Events /\ e.state = seen[c] /\ <<e>> \in Seq(Events)
    BY <1>0, EventTyped, OneEvent
  <2>2. Read(c, <<e>>) /\ UNCHANGED <<cleaner, seen, expired, connected, work>>
    BY <1>4 DEF EmitFirst
  <2> HIDE DEF e
  <2>3. PICK to \in {"dropped", "finished", "polling"} :
          /\ Handler(c, "opened", to) /\ (to = "finished" => seen[c] \in Terminal)
          /\ Close(c) \/ (to = "polling" /\ UNCHANGED <<streams, stream>>)
    BY <1>4 DEF EmitFirst
  <2>4. Base' /\ Beside(c) /\ handler'[c] = to
    <3>1. to \in Handlers \ Unopened /\ "opened" \in Handlers \ (Unopened \cup Over) /\ (to = "polling" => to \notin Over)
      BY HandlerNames DEF Over, Unopened
    <3> QED
      BY <2>1, <2>2, <2>3, <3>1, WriteBase
  <2>5. connected[c] => got'[c] # <<>> /\ Last(got'[c]) = e
    BY <1>0, <2>1, <2>2, ReadBase, LastJoined
  <2>6. handler'[c] = "finished" => seen[c] \in Terminal /\ status \in Terminal /\ (~revived => seen[c] = status)
    BY <2>3, <2>4 DEF Ends
  <2> QED
    BY <2>1, <2>2, <2>4, <2>5, <2>6, EndsFrom DEF Ends
<1>5. CASE Flush(c)
  <2>1. /\ stream[c].pending \in Seq(Events) /\ Read(c, stream[c].pending)
        /\ UNCHANGED <<cleaner, seen, expired, connected, work>>
    BY <1>5 DEF Flush, Base, RegistryTyped, Streams
  <2>2. PICK to \in {"dropped", "flushed"} :
          /\ Handler(c, "polling", to)
          /\ Close(c) \/ (to = "flushed" /\ ClearPending(c) /\ UNCHANGED streams)
    BY <1>5 DEF Flush
  <2>3. Base' /\ Beside(c) /\ handler'[c] = to
    <3>1. to \in Handlers \ Unopened /\ "polling" \in Handlers \ (Unopened \cup Over) /\ (to = "flushed" => to \notin Over)
      BY HandlerNames DEF Over, Unopened
    <3> QED
      BY <2>1, <2>2, <3>1, WriteBase
  <2> QED
    BY <2>1, <2>3, EndsFrom DEF Ends
<1>6. CASE CheckStatus(c)
  <2> DEFINE e == Event(status, 0)
  <2>1. e \in Events /\ e.state = status /\ <<e>> \in Seq(Events)
    BY <1>0, EventTyped, OneEvent
  <2>2. UNCHANGED <<cleaner, seen, expired, connected, work>>
    BY <1>6 DEF CheckStatus
  <2>3. PICK to \in {"finished", "polling"} :
          /\ Handler(c, "checked", to)
          /\ to = "finished" => status \in Terminal /\ Read(c, <<e>>)
          /\ got' = got \/ Read(c, <<e>>)
          /\ Close(c) \/ (to = "polling" /\ UNCHANGED <<streams, stream>>)
    BY <1>6 DEF CheckStatus
  <2> HIDE DEF e
  <2>4. Base' /\ Beside(c) /\ handler'[c] = to
    <3>1. to \in Handlers \ Unopened /\ "checked" \in Handlers \ (Unopened \cup Over) /\ (to = "polling" => to \notin Over)
      BY HandlerNames DEF Over, Unopened
    <3> QED
      BY <2>1, <2>2, <2>3, <3>1, WriteBase
  <2>5. to = "finished" /\ connected[c] => got'[c] # <<>> /\ Last(got'[c]) = e
    BY <1>0, <2>1, <2>3, ReadBase, LastJoined
  <2> QED
    BY <2>1, <2>2, <2>3, <2>4, <2>5, EndsFrom DEF Ends
<1>7. CASE TimeOut(c)
  <2>1. /\ Handler(c, "polling", "timed_out") /\ Read(c, <<Event("error", 0)>>) /\ Close(c)
        /\ UNCHANGED <<cleaner, seen, expired, connected, work>>
    BY <1>7 DEF TimeOut
  <2>2. <<Event("error", 0)>> \in Seq(Events)
    BY EventTyped, OneEvent
  <2>3. Base' /\ Beside(c) /\ handler'[c] = "timed_out"
    <3>1. "timed_out" \in Handlers \ Unopened /\ "polling" \in Handlers \ (Unopened \cup Over)
      BY HandlerNames DEF Unopened
    <3> QED
      BY <2>1, <2>2, <3>1, WriteBase
  <2> QED
    BY <2>1, <2>3, EndsFrom DEF Ends
<1> QED
  BY <1>1, <1>2, <1>3, <1>4, <1>5, <1>6, <1>7 DEF Serve

LEMMA AsideEnds ==
  ASSUME Base, Ends,
         \/ \E c \in Clients : Expire(c) \/ Disconnect(c) \/ GrowIdle(c)
         \/ CloseIdleStreams \/ Shutdown
  PROVE  Ends'
<1>1. /\ UNCHANGED <<work, handler, seen, got>>
      /\ \A d \in Clients : connected'[d] => connected[d]
  BY AsideBase
<1> QED
  BY <1>1 DEF Ends, OutcomeTold, work, history

LEMMA InitStreams == Init => StreamsInv
BY InitBase, InitTelling, InitReads, InitEnds DEF StreamsInv

LEMMA StepStreams == StreamsInv /\ [Next]_vars => StreamsInv'
<1> SUFFICES ASSUME StreamsInv, [Next]_vars PROVE StreamsInv'
  OBVIOUS
<1>0. Base /\ Ends /\ (~crossed => Telling /\ \A c \in Clients : Reads(c))
  BY DEF StreamsInv
<1>1. CASE Work
  <2>1. Base' /\ Ends' /\ (crossed => crossed')
    BY <1>0, <1>1, WorkBase, WorkEnds
  <2>2. ~crossed' => (Telling /\ \A c \in Clients : Reads(c))'
    BY <1>0, <1>1, <2>1, WorkReads
  <2> QED
    BY <2>1, <2>2 DEF StreamsInv
<1>2. ASSUME NEW b \in Broadcasters, Push(b) PROVE StreamsInv'
  <2>1. Base' /\ UNCHANGED <<status, entry, crossed, revived, serving>>
    BY <1>0, <1>2, PushBase DEF Push, history
  <2>2. ~crossed' => (Telling /\ \A c \in Clients : Reads(c))'
    BY <1>0, <1>2, <2>1, PushReads
  <2>3. Ends'
    BY <1>0, <2>1 DEF Ends, OutcomeTold, serving
  <2> QED
    BY <2>1, <2>2, <2>3 DEF StreamsInv
<1>3. ASSUME NEW c \in Clients, Serve(c) PROVE StreamsInv'
  <2>1. Base' /\ UNCHANGED work /\ Ends'
    BY <1>0, <1>3, ServeEnds DEF Beside
  <2>2. crossed' = crossed
    BY <2>1 DEF work, history
  <2>3. ASSUME Telling, \A d \in Clients : Reads(d) PROVE (Telling /\ \A d \in Clients : Reads(d))'
    <3>1. CASE ReadStatus(c) \/ OpenStream(c) \/ HeadersFail(c) \/ CheckClosed(c)
      BY <1>0, <2>3, <3>1, OpenedReads
    <3>2. CASE EmitFirst(c)
      BY <1>0, <2>3, <3>2, FirstReads
    <3>3. CASE Flush(c)
      BY <1>0, <2>3, <3>3, FlushReads
    <3>4. CASE CheckStatus(c) \/ TimeOut(c)
      BY <1>0, <2>3, <3>4, LastReads
    <3> QED
      BY <1>3, <3>1, <3>2, <3>3, <3>4 DEF Serve
  <2> QED
    BY <1>0, <2>1, <2>2, <2>3 DEF StreamsInv
<1>4. CASE \/ \E c \in Clients : Expire(c) \/ Disconnect(c) \/ GrowIdle(c)
           \/ CloseIdleStreams \/ Shutdown
  <2>1. Base' /\ UNCHANGED work
    BY <1>0, <1>4, AsideBase
  <2>2. crossed' = crossed
    BY <2>1 DEF work, history
  <2> QED
    BY <1>0, <1>4, <2>1, <2>2, AsideReads, AsideEnds DEF StreamsInv
<1>5. CASE UNCHANGED vars
  <2>1. UNCHANGED <<work, serving, registry>> /\ crossed' = crossed
    BY <1>5 DEF vars, work, history
  <2>2. Base'
    BY <1>0, <2>1 DEF Base, WorkTyped, ServingTyped, RegistryTyped, Listed, Open, work, history, serving, registry
  <2>3. ASSUME Telling, \A d \in Clients : Reads(d) PROVE (Telling /\ \A d \in Clients : Reads(d))'
    <3>1. Telling' /\ told' = told /\ telling' = telling
      BY <2>1, <2>3, OtherTells
    <3> QED
      BY <2>1, <2>3, <3>1, ReadsSame DEF Open, serving, registry
  <2>4. Ends'
    BY <1>0, <2>1 DEF Ends, OutcomeTold, work, history, serving
  <2> QED
    BY <1>0, <2>1, <2>2, <2>3, <2>4 DEF StreamsInv
<1> QED
  BY <1>1, <1>2, <1>3, <1>4, <1>5 DEF Next, Work

\* Whatever broadcasts, polls, disconnections and closings coincide, a client reads in
\* order and nothing twice, as long as no turn about the task crosses another.
THEOREM ReadingIsInOrder == Spec => []ReadInOrder
<1>1. ASSUME StreamsInv PROVE ReadInOrder
  <2>0. Base /\ \A c \in Clients : got[c] \in Seq(Events) /\ stream[c].pending \in Seq(Events)
    BY <1>1 DEF StreamsInv, Base, ServingTyped, RegistryTyped, Streams
  <2>1. TypeOK
    BY <2>0, HandlerNames DEF Base, WorkTyped, ServingTyped, RegistryTyped, TypeOK, States, Agents, Streams, Broadcasts
  <2>2. ASSUME ~crossed, NEW c \in Clients PROVE Ordered(got[c])
    BY <1>1, <2>0, <2>2, OrderedPrefix DEF StreamsInv, Reads, Lines
  <2>3. ~crossed => StatesForward
    BY <2>2 DEF StatesForward, Ordered, Precedes
  <2>4. ~crossed => NoEventTwice
    <3> SUFFICES ASSUME ~crossed, NEW c \in Clients, NEW i \in DOMAIN got[c], NEW j \in DOMAIN got[c],
                        got[c][i].id # 0, got[c][j].id # 0, got[c][i].state = got[c][j].state
                 PROVE  i = j
      BY DEF NoEventTwice
    <3>1. ~(i < j) /\ ~(j < i)
      BY <2>2 DEF Ordered, Precedes
    <3>2. i \in Nat /\ j \in Nat
      BY <2>0, Indices
    <3> QED
      BY <3>1, <3>2
  <2> QED
    BY <2>1, <2>3, <2>4 DEF ReadInOrder
<1> QED
  BY InitStreams, StepStreams, <1>1, PTL DEF Spec

\* A client whose stream was ended as finished was last told an outcome, and the one the
\* task has, as long as requeue_tasks has not put it back after it had left the queue.
THEOREM OutcomesAreTold == Spec => []OutcomeTold
<1>1. StreamsInv => OutcomeTold
  BY DEF StreamsInv, Ends
<1> QED
  BY InitStreams, StepStreams, <1>1, PTL DEF Spec

-----------------------------------------------------------------------------
(***************************************************************************)
(* One session.                                                            *)
(***************************************************************************)
OneSession == \A s, u \in Sessions : s = u

\* Once the task was handed over it is marked before its session does anything else, so
\* that it is not drained again.
Alone ==
  /\ crossed = FALSE /\ turnOf \in Sessions \cup {"nobody"}
  /\ agent \in [Sessions -> Agents]
  /\ \A s \in Sessions : /\ agent[s] = "behind" => turnOf = "nobody"
                         /\ agent[s] \in {"drained", "started"} => turnOf = s
  /\ entry = "processing" => turnOf # "nobody"
  /\ turnOf # "nobody" /\ entry = "pending" => \A s \in Sessions : agent[s] \in {"drained", "started"}

LEMMA TurnAlone ==
  ASSUME OneSession, Alone, NEW s \in Sessions, Turn(s)
  PROVE  Alone'
<1>0. /\ \A u \in Sessions : u = s
      /\ turnOf \in {s, "nobody"} /\ s # "nobody" /\ agent[s] \in Agents
  BY StreamsAssumption DEF OneSession, Alone
<1>1. ASSUME NEW from, NEW to \in Agents, Step(s, from, to)
      PROVE  agent[s] = from /\ agent'[s] = to /\ agent' \in [Sessions -> Agents]
  BY <1>1 DEF Step, Alone
<1>2. CASE Drain(s)
  BY <1>0, <1>1, <1>2 DEF Drain, Alone, Agents
<1>3. CASE DrainBehind(s)
  BY <1>0, <1>1, <1>3 DEF DrainBehind, Alone, Agents, history
<1>4. CASE Requeue(s)
  BY <1>0, <1>1, <1>4 DEF Requeue, Alone, Agents
<1>5. CASE StartWork(s)
  BY <1>0, <1>1, <1>5 DEF StartWork, Alone, Agents, history
<1>6. CASE Mark(s)
  BY <1>0, <1>1, <1>6 DEF Mark, Alone, Agents, history
<1>7. CASE TellWorking(s)
  BY <1>0, <1>1, <1>7 DEF TellWorking, Alone, Agents
<1>8. CASE Target(s)
  BY <1>0, <1>1, <1>8 DEF Target, Alone, Agents
<1>9. CASE Complete(s)
  BY <1>0, <1>1, <1>9 DEF Complete, Alone, Agents, history
<1>10. CASE TellCompleted(s)
  BY <1>0, <1>1, <1>10 DEF TellCompleted, Alone, Agents
<1> QED
  BY <1>2, <1>3, <1>4, <1>5, <1>6, <1>7, <1>8, <1>9, <1>10 DEF Turn

LEMMA StepAlone == ASSUME OneSession, Alone, [Next]_vars PROVE Alone'
<1>1. ASSUME NEW s \in Sessions, Turn(s) PROVE Alone'
  BY <1>1, TurnAlone
<1>2. CASE Cancel
  BY <1>2 DEF Cancel, Alone, history
<1>3. CASE TellArtifact
  BY <1>3 DEF TellArtifact, Alone
<1>4. CASE UNCHANGED <<entry, agent, history>>
  BY <1>4 DEF Alone, history
<1>5. ASSUME NEW b \in Broadcasters, Push(b) PROVE Alone'
  BY <1>4, <1>5 DEF Push
<1>6. ASSUME NEW c \in Clients, Serve(c) PROVE Alone'
  BY <1>4, <1>6 DEF Serve, ReadStatus, OpenStream, HeadersFail, EmitFirst, Flush, CheckClosed, CheckStatus, TimeOut, work
<1>7. CASE (\E c \in Clients : Expire(c) \/ Disconnect(c) \/ GrowIdle(c)) \/ CloseIdleStreams \/ Shutdown
  BY <1>4, <1>7 DEF Expire, Disconnect, GrowIdle, CloseIdleStreams, Shutdown, work
<1>8. CASE UNCHANGED vars
  BY <1>4, <1>8 DEF vars, work
<1> QED
  BY <1>1, <1>2, <1>3, <1>5, <1>6, <1>7, <1>8 DEF Next

\* With one session nothing is excepted: whatever is cancelled, drained behind other tasks
\* and put back, each client reads the states of the task in order and no event twice.
THEOREM OneSessionReadsInOrder == ASSUME OneSession PROVE Spec => [](StatesForward /\ NoEventTwice)
<1>1. Init => Alone
  BY DEF Init, Alone, Agents
<1>2. Alone /\ [Next]_vars => Alone'
  BY StepAlone
<1>3. Spec => []ReadInOrder
  BY ReadingIsInOrder
<1>4. Alone /\ ReadInOrder => StatesForward /\ NoEventTwice
  BY DEF Alone, ReadInOrder
<1> QED
  BY <1>1, <1>2, <1>3, <1>4, PTL DEF Spec
=============================================================================
