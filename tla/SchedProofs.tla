----------------------------- MODULE SchedProofs -----------------------------
(***************************************************************************)
(* The scheduler of module Sched is correct for any number of processes    *)
(* and pids and any sleeping times.                                        *)
(***************************************************************************)
EXTENDS Sched, SequenceTheorems, TLAPS

-----------------------------------------------------------------------------
(* Lemmas on the sequences that the queues are.                             *)

\* Appending a process that is not on a queue.
LEMMA AppendFacts ==
    ASSUME NEW S, NEW q \in Seq(S), NEW x \in S, Injective(q), x \notin Elements(q)
    PROVE  /\ Append(q, x) \in Seq(S)
           /\ Append(q, x) # <<>>
           /\ Injective(Append(q, x))
           /\ Elements(Append(q, x)) = Elements(q) \cup {x}
<1> DEFINE r == Append(q, x)
<1>1. /\ r \in Seq(S) /\ Len(r) = Len(q) + 1 /\ DOMAIN r = 1 .. Len(r)
      /\ DOMAIN q = 1 .. Len(q) /\ Len(q) \in Nat
      /\ r[Len(r)] = x /\ \A n \in 1 .. Len(q) : r[n] = q[n]
  OBVIOUS
<1> HIDE DEF r
<1>2. Injective(r)
  BY <1>1 DEF Injective, Elements
<1>3. Elements(r) = Elements(q) \cup {x}
  BY <1>1 DEF Elements
<1>4. r # <<>>
  BY <1>1
<1> QED
  BY <1>1, <1>2, <1>3, <1>4 DEF r

\* Concatenating two queues that have no process in common.
LEMMA ConcatFacts ==
    ASSUME NEW S, NEW q \in Seq(S), NEW t \in Seq(S), Injective(q), Injective(t),
           Elements(q) \cap Elements(t) = {}
    PROVE  /\ q \o t \in Seq(S)
           /\ Injective(q \o t)
           /\ Elements(q \o t) = Elements(q) \cup Elements(t)
<1> DEFINE r == q \o t
<1>1. /\ r \in Seq(S) /\ Len(r) = Len(q) + Len(t) /\ DOMAIN r = 1 .. Len(r)
      /\ DOMAIN q = 1 .. Len(q) /\ DOMAIN t = 1 .. Len(t)
      /\ Len(q) \in Nat /\ Len(t) \in Nat
      /\ \A n \in 1 .. Len(q) : r[n] = q[n]
      /\ \A n \in Len(q) + 1 .. Len(r) : r[n] = t[n - Len(q)]
      /\ \A n \in 1 .. Len(t) : r[n + Len(q)] = t[n]
  OBVIOUS
<1> HIDE DEF r
<1>2. \A n \in 1 .. Len(r) : n \in 1 .. Len(q) \/ n - Len(q) \in 1 .. Len(t)
  BY <1>1
<1>3. Injective(r)
  <2> SUFFICES ASSUME NEW m \in 1 .. Len(r), NEW n \in 1 .. Len(r), r[m] = r[n]
               PROVE  m = n
    BY DEF Injective
  <2>1. CASE m \in 1 .. Len(q) /\ n \in 1 .. Len(q)
    BY <1>1, <2>1 DEF Injective
  <2>2. CASE m \notin 1 .. Len(q) /\ n \notin 1 .. Len(q)
    <3>1. m - Len(q) = n - Len(q)
      BY <1>1, <1>2, <2>2 DEF Injective
    <3> QED
      BY <1>1, <3>1
  <2>3. ASSUME NEW i \in 1 .. Len(q), NEW j \in 1 .. Len(r), j \notin 1 .. Len(q)
        PROVE  r[i] # r[j]
    <3>1. r[i] = q[i] /\ q[i] \in Elements(q)
      BY <1>1 DEF Elements
    <3>2. j - Len(q) \in 1 .. Len(t) /\ j \in Len(q) + 1 .. Len(r)
      BY <1>1, <1>2, <2>3
    <3>3. r[j] = t[j - Len(q)] /\ t[j - Len(q)] \in Elements(t)
      BY <1>1, <3>2 DEF Elements
    <3> QED
      BY <3>1, <3>3
  <2> QED
    BY <2>1, <2>2, <2>3
<1>4. Elements(r) = Elements(q) \cup Elements(t)
  <2>1. Elements(r) \subseteq Elements(q) \cup Elements(t)
    BY <1>1, <1>2 DEF Elements
  <2>2. Elements(q) \subseteq Elements(r)
    BY <1>1 DEF Elements
  <2>3. ASSUME NEW n \in 1 .. Len(t)  PROVE t[n] \in Elements(r)
    <3>1. n + Len(q) \in 1 .. Len(r)
      BY <1>1
    <3> QED
      BY <1>1, <3>1 DEF Elements
  <2>4. Elements(t) \subseteq Elements(r)
    BY <1>1, <2>3 DEF Elements
  <2> QED
    BY <2>1, <2>2, <2>4
<1> QED
  BY <1>1, <1>3, <1>4 DEF r

\* Cutting a queue in two.
LEMMA CutFacts ==
    ASSUME NEW S, NEW q \in Seq(S), Injective(q), NEW k \in 0 .. Len(q)
    PROVE  LET a == SubSeq(q, 1, k)
               b == SubSeq(q, k + 1, Len(q))
           IN  /\ a \in Seq(S) /\ b \in Seq(S)
               /\ Injective(a) /\ Injective(b)
               /\ Elements(a) \cup Elements(b) = Elements(q)
               /\ Elements(a) \cap Elements(b) = {}
               /\ Len(a) = k /\ \A n \in 1 .. k : a[n] = q[n]
               /\ Len(b) = Len(q) - k /\ \A n \in 1 .. Len(b) : b[n] = q[n + k]
<1> DEFINE a == SubSeq(q, 1, k)
           b == SubSeq(q, k + 1, Len(q))
<1>1. /\ DOMAIN q = 1 .. Len(q) /\ Len(q) \in Nat
      /\ \A n \in 1 .. Len(q) : q[n] \in S
  OBVIOUS
<1>2. /\ a \in Seq(S) /\ Len(a) = k /\ DOMAIN a = 1 .. k
      /\ \A n \in 1 .. k : a[n] = q[n]
  BY <1>1
<1>3. /\ b \in Seq(S) /\ Len(b) = Len(q) - k /\ DOMAIN b = 1 .. Len(b)
      /\ \A n \in 1 .. Len(b) : b[n] = q[n + k]
  <2>1. k + 1 \in 1 .. Len(q) + 1 /\ Len(q) \in k + 1 - 1 .. Len(q)
    BY <1>1
  <2>2. /\ b \in Seq(S) /\ Len(b) = Len(q) - (k + 1) + 1
        /\ \A n \in 1 .. Len(q) - (k + 1) + 1 : b[n] = q[k + 1 + n - 1]
    BY <2>1, SubSeqProperties
  <2> HIDE DEF b
  <2> QED
    BY <1>1, <2>2
<1> HIDE DEF a, b
<1>4. Injective(a)
  BY <1>1, <1>2 DEF Injective
<1>5. Injective(b)
  <2> SUFFICES ASSUME NEW m \in 1 .. Len(b), NEW n \in 1 .. Len(b), b[m] = b[n]
               PROVE  m = n
    BY DEF Injective
  <2>1. m + k \in 1 .. Len(q) /\ n + k \in 1 .. Len(q) /\ q[m + k] = q[n + k]
    BY <1>1, <1>3
  <2>2. m + k = n + k
    BY <2>1 DEF Injective
  <2> QED
    BY <1>3, <2>2
<1>6. Elements(a) \subseteq Elements(q) /\ Elements(b) \subseteq Elements(q)
  <2>1. \A n \in 1 .. Len(b) : n + k \in 1 .. Len(q)
    BY <1>1, <1>3
  <2>2. \A n \in 1 .. Len(b) : b[n] \in Elements(q)
    BY <1>1, <1>3, <2>1 DEF Elements
  <2>3. \A n \in 1 .. k : n \in 1 .. Len(q) /\ a[n] \in Elements(q)
    BY <1>1, <1>2 DEF Elements
  <2> QED
    BY <1>2, <1>3, <2>2, <2>3 DEF Elements
<1>7. Elements(q) \subseteq Elements(a) \cup Elements(b)
  <2> SUFFICES ASSUME NEW n \in 1 .. Len(q), n \notin 1 .. k
               PROVE  q[n] \in Elements(b)
    BY <1>1, <1>2 DEF Elements
  <2>1. n - k \in 1 .. Len(b) /\ b[n - k] = q[n - k + k] /\ n - k + k = n
    BY <1>1, <1>3
  <2> QED
    BY <1>3, <2>1 DEF Elements
<1>8. Elements(a) \cap Elements(b) = {}
  <2> SUFFICES ASSUME NEW m \in 1 .. k, NEW n \in 1 .. Len(b), a[m] = b[n]
               PROVE  FALSE
    BY <1>2, <1>3 DEF Elements
  <2>1. n + k \in 1 .. Len(q) /\ m \in 1 .. Len(q) /\ m # n + k /\ q[m] = q[n + k]
    BY <1>1, <1>2, <1>3
  <2> QED
    BY <2>1 DEF Injective
<1> QED
  BY <1>2, <1>3, <1>4, <1>5, <1>6, <1>7, <1>8 DEF a, b

\* Taking the head of a queue.
LEMMA HeadFacts ==
    ASSUME NEW S, NEW q \in Seq(S), Injective(q), q # <<>>
    PROVE  /\ Head(q) \in S /\ Head(q) \in Elements(q)
           /\ Tail(q) \in Seq(S)
           /\ Injective(Tail(q))
           /\ Elements(Tail(q)) = Elements(q) \ {Head(q)}
<1> DEFINE t == Tail(q)
<1>1. /\ DOMAIN q = 1 .. Len(q) /\ Len(q) \in Nat /\ Len(q) >= 1
      /\ Head(q) = q[1] /\ q[1] \in S
      /\ t \in Seq(S) /\ Len(t) = Len(q) - 1 /\ DOMAIN t = 1 .. Len(t)
      /\ \A n \in 1 .. Len(t) : t[n] = q[n + 1]
  OBVIOUS
<1> HIDE DEF t
<1>2. \A n \in 1 .. Len(t) : n + 1 \in 1 .. Len(q) /\ n + 1 # 1
  BY <1>1
<1>3. Injective(t)
  <2> SUFFICES ASSUME NEW m \in 1 .. Len(t), NEW n \in 1 .. Len(t), t[m] = t[n]
               PROVE  m = n
    BY DEF Injective
  <2>1. m + 1 = n + 1
    BY <1>1, <1>2 DEF Injective
  <2> QED
    BY <1>1, <2>1
<1>4. Elements(t) \subseteq Elements(q) \ {Head(q)}
  BY <1>1, <1>2 DEF Elements, Injective
<1>5. Elements(q) \ {Head(q)} \subseteq Elements(t)
  <2> SUFFICES ASSUME NEW n \in 1 .. Len(q), n # 1
               PROVE  q[n] \in Elements(t)
    BY <1>1 DEF Elements
  <2>1. n - 1 \in 1 .. Len(t) /\ t[n - 1] = q[n - 1 + 1] /\ n - 1 + 1 = n
    BY <1>1
  <2> QED
    BY <1>1, <2>1 DEF Elements
<1>6. Head(q) \in Elements(q)
  BY <1>1 DEF Elements
<1> QED
  BY <1>1, <1>3, <1>4, <1>5, <1>6 DEF t

\* Inserting a process that is not on a queue.
LEMMA InsertFacts ==
    ASSUME NEW S, NEW q \in Seq(S), Injective(q), NEW k \in 0 .. Len(q),
           NEW x \in S, x \notin Elements(q)
    PROVE  LET r == InsertBehind(q, k, x)
           IN  /\ r \in Seq(S) /\ Len(r) = Len(q) + 1
               /\ Injective(r)
               /\ Elements(r) = Elements(q) \cup {x}
               /\ \A n \in 1 .. k : r[n] = q[n]
               /\ r[k + 1] = x
               /\ \A n \in k + 2 .. Len(r) : n - 1 \in k + 1 .. Len(q) /\ r[n] = q[n - 1]
<1> DEFINE r == InsertBehind(q, k, x)
<1>1. /\ DOMAIN q = 1 .. Len(q) /\ Len(q) \in Nat
      /\ \A n \in 1 .. Len(q) : q[n] \in S /\ q[n] # x
  BY DEF Elements
<1>2. r \in Seq(S) /\ Len(r) = Len(q) + 1 /\ DOMAIN r = 1 .. Len(q) + 1
  BY <1>1 DEF InsertBehind
<1>3. \A n \in 1 .. k : n \in 1 .. Len(q) /\ r[n] = q[n]
  BY <1>1 DEF InsertBehind
<1>4. k + 1 \in 1 .. Len(r) /\ r[k + 1] = x
  BY <1>1, <1>2 DEF InsertBehind
<1>5. \A n \in k + 2 .. Len(r) : n - 1 \in k + 1 .. Len(q) /\ n - 1 \in 1 .. Len(q) /\ r[n] = q[n - 1]
  BY <1>1, <1>2 DEF InsertBehind
<1> HIDE DEF r
<1>6. \A n \in 1 .. Len(r) : n \in 1 .. k \/ n = k + 1 \/ n \in k + 2 .. Len(r)
  BY <1>1, <1>2
<1>7. Injective(r)
  <2> SUFFICES ASSUME NEW m \in 1 .. Len(r), NEW n \in 1 .. Len(r), r[m] = r[n], m < n
               PROVE  FALSE
    BY <1>1, <1>2 DEF Injective
  <2>1. CASE m \in 1 .. k /\ n \in 1 .. k
    BY <1>3, <2>1 DEF Injective
  <2>2. CASE m \in 1 .. k /\ n \in k + 2 .. Len(r)
    <3>1. m = n - 1
      BY <1>3, <1>5, <2>2 DEF Injective
    <3> QED
      BY <1>1, <2>2, <3>1
  <2>3. CASE m \in k + 2 .. Len(r) /\ n \in k + 2 .. Len(r)
    <3>1. m - 1 = n - 1
      BY <1>5, <2>3 DEF Injective
    <3> QED
      BY <1>1, <2>3, <3>1
  <2>4. CASE m = k + 1 \/ n = k + 1
    <3>1. m # n /\ r[m] = x /\ r[n] = x
      BY <1>4, <2>4
    <3> QED
      BY <1>1, <1>3, <1>5, <1>6, <3>1
  <2> QED
    BY <1>1, <1>2, <1>6, <2>1, <2>2, <2>3, <2>4
<1>8. Elements(r) \subseteq Elements(q) \cup {x}
  <2>1. \A n \in 1 .. Len(r) : r[n] \in Elements(q) \cup {x}
    BY <1>1, <1>3, <1>4, <1>5, <1>6 DEF Elements
  <2> QED
    BY <1>2, <2>1 DEF Elements
<1>9. Elements(q) \cup {x} \subseteq Elements(r)
  <2>1. x \in Elements(r)
    BY <1>2, <1>4 DEF Elements
  <2>2. ASSUME NEW n \in 1 .. Len(q)  PROVE q[n] \in Elements(r)
    <3>1. CASE n \in 1 .. k
      <4>1. n \in DOMAIN r /\ r[n] = q[n]
        BY <1>1, <1>2, <1>3, <3>1
      <4> QED
        BY <4>1 DEF Elements
    <3>2. CASE n \notin 1 .. k
      <4>1. n + 1 \in k + 2 .. Len(r) /\ n + 1 \in DOMAIN r /\ n + 1 - 1 = n
        BY <1>1, <1>2, <3>2
      <4>2. r[n + 1] = q[n]
        BY <1>5, <4>1
      <4> QED
        BY <4>1, <4>2 DEF Elements
    <3> QED
      BY <3>1, <3>2
  <2>3. Elements(q) \subseteq Elements(r)
    BY <1>1, <2>2 DEF Elements
  <2> QED
    BY <2>1, <2>3
<1> QED
  BY <1>2, <1>3, <1>4, <1>5, <1>7, <1>8, <1>9 DEF r

-----------------------------------------------------------------------------
(* The queues.                                                              *)

\* next() run on a ready queue that holds exactly the processes marked ready,
\* idle among them, while no process is marked running.
LEMMA ResumeFacts ==
    ASSUME NEW q \in Seq(Slot), Injective(q),
           NEW st \in [Slot -> States],
           \A i \in Slot : st[i] = "READY" <=> i \in Elements(q),
           \A i \in Slot : st[i] # "RUNNING",
           st[Idle] = "READY",
           Resume(q, st)
    PROVE  /\ p' \in Slot
           /\ state' \in [Slot -> States]
           /\ readyQ' \in Seq(Slot)
           /\ ReadyQueueExact'
           /\ \A i \in Slot : state'[i] = "RUNNING" <=> i = p'
           /\ state'[Idle] \in {"READY", "RUNNING"}
           /\ \A i \in Slot, s \in {"STOPPED", "SLEEP", "WAITING"} :
                  state'[i] = s <=> st[i] = s
<1>1. Idle \in Slot
  BY SchedAssumption DEF Slot, Idle
<1>2. q # <<>>
  BY <1>1 DEF Elements
<1>3. /\ Head(q) \in Slot /\ Head(q) \in Elements(q)
      /\ Tail(q) \in Seq(Slot) /\ Injective(Tail(q))
      /\ Elements(Tail(q)) = Elements(q) \ {Head(q)}
  BY <1>2, HeadFacts
<1>4. p' = Head(q) /\ readyQ' = Tail(q) /\ state' = [st EXCEPT ![Head(q)] = "RUNNING"]
  BY <1>2 DEF Resume
<1>5. state' \in [Slot -> States] /\ state'[p'] = "RUNNING" /\ st[p'] = "READY"
  BY <1>3, <1>4 DEF States
<1>6. \A i \in Slot \ {p'} : state'[i] = st[i]
  BY <1>4
<1>7. ReadyQueueExact'
  BY <1>3, <1>4, <1>5, <1>6 DEF ReadyQueueExact
<1> QED
  BY <1>1, <1>3, <1>4, <1>5, <1>6, <1>7

\* A step that leaves the waiting lists alone, by which no process begins or ends
\* to wait and none stops, keeps the lists exact.
LEMMA WaitListsKept ==
    ASSUME WaitListsExact, UNCHANGED waitQ,
           \A i \in Slot, s \in {"STOPPED", "WAITING"} : state'[i] = s <=> state[i] = s
    PROVE  WaitListsExact'
  BY DEF WaitListsExact

LEMMA SleepQueueKept ==
    ASSUME SleepQueueExact, UNCHANGED sleepQ,
           \A i \in Slot : state[i] = "SLEEP" <=> state'[i] = "SLEEP"
    PROVE  SleepQueueExact'
  BY DEF SleepQueueExact

\* The running process is on no queue, and idle is ready when another one runs.
LEMMA RunningFacts ==
    ASSUME IInv
    PROVE  /\ p \in Slot /\ state[p] = "RUNNING"
           /\ p \notin Elements(readyQ) /\ p \notin Elements(sleepQ)
           /\ \A i \in Slot : p \notin Elements(waitQ[i])
           /\ Idle \in Slot
           /\ p # Idle => state[Idle] = "READY"
<1>1. Idle \in Slot
  BY SchedAssumption DEF Slot, Idle
<1>2. p \in Slot /\ state[p] = "RUNNING"
  BY DEF IInv, QueuesExact
<1>3. p \notin Elements(readyQ) /\ p \notin Elements(sleepQ)
  BY <1>2 DEF IInv, QueuesExact, ReadyQueueExact, SleepQueueExact
<1>4. \A i \in Slot : p \notin Elements(waitQ[i])
  BY <1>2 DEF IInv, QueuesExact, WaitListsExact
<1>5. p # Idle => state[Idle] = "READY"
  BY <1>1 DEF IInv, QueuesExact
<1> QED
  BY <1>1, <1>2, <1>3, <1>4, <1>5

\* Only processes that wait are on a waiting list, and each of them on one.
LEMMA WaiterFacts ==
    ASSUME IInv, NEW j \in Slot, NEW w \in Elements(waitQ[j])
    PROVE  /\ w \in Slot /\ state[w] = "WAITING"
           /\ \A i \in Slot \ {j} : w \notin Elements(waitQ[i])
<1>1. w \in Slot
  <2>1. waitQ[j] \in Seq(Slot)
    BY DEF IInv, TypeOK
  <2>2. PICK n \in 1 .. Len(waitQ[j]) : w = waitQ[j][n]
    BY <2>1 DEF Elements
  <2> QED
    BY <2>1, <2>2
<1> QED
  BY <1>1 DEF IInv, QueuesExact, WaitListsExact

\* The current process blocks, in the state s, and the next one runs.
LEMMA BlockFacts ==
    ASSUME IInv, p # Idle, NEW s \in {"SLEEP", "WAITING"},
           Resume(readyQ, [state EXCEPT ![p] = s])
    PROVE  /\ p' \in Slot /\ state' \in [Slot -> States] /\ readyQ' \in Seq(Slot)
           /\ ReadyQueueExact'
           /\ \A i \in Slot : state'[i] = "RUNNING" <=> i = p'
           /\ state'[Idle] \in {"READY", "RUNNING"}
           /\ state'[p] = s
           /\ \A i \in Slot \ {p}, t \in {"STOPPED", "SLEEP", "WAITING"} :
                  state'[i] = t <=> state[i] = t
<1> DEFINE st == [state EXCEPT ![p] = s]
<1>1. st \in [Slot -> States] /\ st[p] = s /\ \A i \in Slot \ {p} : st[i] = state[i]
  BY RunningFacts DEF IInv, TypeOK, States
<1>2. \A i \in Slot : st[i] = "READY" <=> i \in Elements(readyQ)
  BY <1>1, RunningFacts DEF IInv, QueuesExact, ReadyQueueExact
<1>3. (\A i \in Slot : st[i] # "RUNNING") /\ st[Idle] = "READY"
  BY <1>1, RunningFacts DEF IInv, QueuesExact
<1>4. readyQ \in Seq(Slot) /\ Injective(readyQ) /\ Resume(readyQ, st)
  BY DEF IInv, TypeOK, QueuesExact, ReadyQueueExact
<1> HIDE DEF st
<1>5. /\ p' \in Slot /\ state' \in [Slot -> States] /\ readyQ' \in Seq(Slot)
      /\ ReadyQueueExact'
      /\ \A i \in Slot : state'[i] = "RUNNING" <=> i = p'
      /\ state'[Idle] \in {"READY", "RUNNING"}
      /\ \A i \in Slot, t \in {"STOPPED", "SLEEP", "WAITING"} :
             state'[i] = t <=> st[i] = t
  BY <1>1, <1>2, <1>3, <1>4, ResumeFacts
<1>6. state'[p] = s
  BY <1>1, <1>5, RunningFacts
<1> QED
  BY <1>1, <1>5, <1>6

-----------------------------------------------------------------------------
(* One lemma per action: it preserves the inductive invariant.              *)

LEMMA YieldStep ==
    ASSUME IInv, Yield  PROVE IInv'
<1> DEFINE q == Append(readyQ, p)
           st == [state EXCEPT ![p] = "READY"]
<1>1. /\ q \in Seq(Slot) /\ q # <<>> /\ Injective(q)
      /\ Elements(q) = Elements(readyQ) \cup {p}
  <2>1. readyQ \in Seq(Slot) /\ Injective(readyQ)
    BY DEF IInv, TypeOK, QueuesExact, ReadyQueueExact
  <2> QED
    BY <2>1, RunningFacts, AppendFacts
<1>2. st \in [Slot -> States] /\ st[p] = "READY" /\ \A i \in Slot \ {p} : st[i] = state[i]
  BY RunningFacts DEF IInv, TypeOK, States
<1>3. \A i \in Slot : st[i] = "READY" <=> i \in Elements(q)
  BY <1>1, <1>2, RunningFacts DEF IInv, QueuesExact, ReadyQueueExact
<1>4. (\A i \in Slot : st[i] # "RUNNING") /\ st[Idle] = "READY"
  BY <1>2, RunningFacts DEF IInv, QueuesExact
<1>5. Resume(q, st)
  BY DEF Yield
<1> HIDE DEF q, st
<1>6. /\ p' \in Slot /\ state' \in [Slot -> States] /\ readyQ' \in Seq(Slot)
      /\ ReadyQueueExact'
      /\ \A i \in Slot : state'[i] = "RUNNING" <=> i = p'
      /\ state'[Idle] \in {"READY", "RUNNING"}
      /\ \A i \in Slot, t \in {"STOPPED", "SLEEP", "WAITING"} :
             state'[i] = t <=> st[i] = t
  BY <1>1, <1>2, <1>3, <1>4, <1>5, ResumeFacts
<1>7. \A i \in Slot, t \in {"STOPPED", "SLEEP", "WAITING"} :
          state'[i] = t <=> state[i] = t
  BY <1>2, <1>6, RunningFacts
<1>8. UNCHANGED <<pid, nextpid, sleepQ, left, waitQ>>
  BY DEF Yield
<1>9. SleepQueueExact'
  BY <1>7, <1>8, SleepQueueKept DEF IInv, QueuesExact
<1>10. WaitListsExact'
  BY <1>7, <1>8, WaitListsKept DEF IInv, QueuesExact
<1> QED
  BY <1>6, <1>8, <1>9, <1>10
     DEF IInv, TypeOK, QueuesExact, PidsUnique, PidsBelowNext

LEMMA CreateStep ==
    ASSUME IInv, NEW i \in Slot, Create(i)  PROVE IInv'
<1>1. /\ state[i] = "STOPPED" /\ state' = [state EXCEPT ![i] = "READY"]
      /\ pid' = [pid EXCEPT ![i] = nextpid] /\ nextpid' = nextpid + 1
      /\ readyQ' = Append(readyQ, i)
      /\ waitQ' = [waitQ EXCEPT ![i] = <<>>]
      /\ UNCHANGED <<p, sleepQ, left>>
  BY DEF Create
<1>2. readyQ \in Seq(Slot) /\ Injective(readyQ) /\ i \notin Elements(readyQ)
  BY <1>1 DEF IInv, TypeOK, QueuesExact, ReadyQueueExact
<1>3. /\ readyQ' \in Seq(Slot) /\ Injective(readyQ')
      /\ Elements(readyQ') = Elements(readyQ) \cup {i}
  BY <1>1, <1>2, AppendFacts
<1>4. /\ state' \in [Slot -> States] /\ state'[i] = "READY"
      /\ \A j \in Slot \ {i} : state'[j] = state[j]
  BY <1>1 DEF IInv, TypeOK, States
<1>5. TypeOK'
  BY <1>1, <1>3, <1>4, EmptySeq DEF IInv, TypeOK
<1>6. ReadyQueueExact'
  BY <1>3, <1>4 DEF IInv, QueuesExact, ReadyQueueExact
<1>7. SleepQueueExact'
  BY <1>1, <1>4, SleepQueueKept DEF IInv, QueuesExact
<1>8. WaitListsExact'
  <2>1. \A j \in Slot : waitQ'[j] = waitQ[j]
    BY <1>1 DEF IInv, TypeOK, QueuesExact, WaitListsExact
  <2>2. \A j \in Slot : state'[j] = "WAITING" <=> state[j] = "WAITING"
    BY <1>1, <1>4
  <2>3. \A j \in Slot : state'[j] = "STOPPED" => state[j] = "STOPPED"
    BY <1>1, <1>4
  <2> QED
    BY <2>1, <2>2, <2>3 DEF IInv, QueuesExact, WaitListsExact
<1>9. (\A j \in Slot : state'[j] = "RUNNING" <=> j = p') /\ p' \in Slot
  BY <1>1, <1>4 DEF IInv, QueuesExact
<1>10. state'[Idle] \in {"READY", "RUNNING"}
  BY <1>4, RunningFacts DEF IInv, QueuesExact
<1>11. PidsUnique' /\ PidsBelowNext'
  <2>1. pid'[i] = nextpid /\ \A j \in Slot \ {i} : pid'[j] = pid[j] /\ pid[j] < nextpid
    BY <1>1 DEF IInv, TypeOK, PidsBelowNext
  <2>2. pid' \in [Slot -> Nat] /\ nextpid' = nextpid + 1 /\ nextpid \in Nat \ {0}
    BY <1>1 DEF IInv, TypeOK, PidsBelowNext
  <2>3. ASSUME NEW j \in Slot, NEW k \in Slot, pid'[j] = pid'[k], pid'[j] # 0
        PROVE  j = k
    <3>1. \A m \in Slot : pid[m] \in Nat
      BY DEF IInv, TypeOK
    <3>2. CASE j # i /\ k # i
      BY <2>1, <2>3, <3>2 DEF IInv, PidsUnique
    <3>3. CASE j = i \/ k = i
      BY <2>1, <2>2, <2>3, <3>1, <3>3
    <3> QED
      BY <3>2, <3>3
  <2>4. ASSUME NEW j \in Slot  PROVE pid'[j] < nextpid'
    <3>1. pid[j] \in Nat
      BY DEF IInv, TypeOK
    <3>2. CASE j = i
      BY <2>1, <2>2, <3>2
    <3>3. CASE j # i
      BY <2>1, <2>2, <3>1, <3>3
    <3> QED
      BY <3>2, <3>3
  <2> QED
    BY <2>2, <2>3, <2>4 DEF PidsUnique, PidsBelowNext
<1> QED
  BY <1>5, <1>6, <1>7, <1>8, <1>9, <1>10, <1>11 DEF IInv, QueuesExact

LEMMA StopStep ==
    ASSUME IInv, Stop  PROVE IInv'
<1> DEFINE w == waitQ[p]
           q == readyQ \o w
           st == [i \in Slot |-> IF i = p THEN "STOPPED"
                                 ELSE IF i \in Elements(w) THEN "READY"
                                 ELSE state[i]]
<1>1. /\ Resume(q, st) /\ p # Idle
      /\ waitQ' = [waitQ EXCEPT ![p] = <<>>]
      /\ UNCHANGED <<pid, nextpid, sleepQ, left>>
  BY DEF Stop, MayRequest
<1>2. w \in Seq(Slot) /\ Injective(w)
  BY RunningFacts DEF IInv, TypeOK, QueuesExact, WaitListsExact
<1>3. \A i \in Elements(w) : i \in Slot /\ state[i] = "WAITING"
  BY RunningFacts, WaiterFacts
<1>4. readyQ \in Seq(Slot) /\ Injective(readyQ)
      /\ Elements(readyQ) \cap Elements(w) = {}
  <2>1. \A i \in Slot : i \in Elements(readyQ) => state[i] = "READY"
    BY DEF IInv, QueuesExact, ReadyQueueExact
  <2> QED
    BY <1>2, <1>3, <2>1 DEF IInv, TypeOK, QueuesExact, ReadyQueueExact
<1> HIDE DEF w
<1>5. /\ q \in Seq(Slot) /\ Injective(q)
      /\ Elements(q) = Elements(readyQ) \cup Elements(w)
  BY <1>2, <1>4, ConcatFacts
<1>6. st \in [Slot -> States]
  BY DEF IInv, TypeOK, States
<1>7. \A i \in Slot : /\ i = p => st[i] = "STOPPED"
                      /\ i # p /\ i \in Elements(w) => st[i] = "READY"
                      /\ i # p /\ i \notin Elements(w) => st[i] = state[i]
  OBVIOUS
<1> HIDE DEF q, st
<1>8. \A i \in Slot : st[i] = "READY" <=> i \in Elements(q)
  BY <1>2, <1>3, <1>5, <1>7, RunningFacts DEF IInv, QueuesExact, ReadyQueueExact
<1>9. (\A i \in Slot : st[i] # "RUNNING") /\ st[Idle] = "READY"
  BY <1>1, <1>7, RunningFacts DEF IInv, QueuesExact
<1>10. /\ p' \in Slot /\ state' \in [Slot -> States] /\ readyQ' \in Seq(Slot)
       /\ ReadyQueueExact'
       /\ \A i \in Slot : state'[i] = "RUNNING" <=> i = p'
       /\ state'[Idle] \in {"READY", "RUNNING"}
       /\ \A i \in Slot, t \in {"STOPPED", "SLEEP", "WAITING"} :
              state'[i] = t <=> st[i] = t
  BY <1>1, <1>5, <1>6, <1>8, <1>9, ResumeFacts
<1>11. SleepQueueExact'
  <2>1. \A i \in Slot : state[i] = "SLEEP" <=> st[i] = "SLEEP"
    BY <1>2, <1>3, <1>7, RunningFacts
  <2> QED
    BY <1>1, <1>10, <2>1, SleepQueueKept DEF IInv, QueuesExact
<1>12. WaitListsExact'
  <2>1. Elements(<<>>) = {} /\ Injective(<<>>)
    BY DEF Elements, Injective
  <2>2. \A j \in Slot : waitQ'[j] = IF j = p THEN <<>> ELSE waitQ[j]
    BY <1>1, RunningFacts DEF IInv, TypeOK
  <2>3. \A i \in Slot : state'[i] = "WAITING" <=> state[i] = "WAITING" /\ i \notin Elements(w)
    BY <1>3, <1>7, <1>10, RunningFacts
  <2>4. \A i \in Slot : state'[i] = "STOPPED" <=> i = p \/ state[i] = "STOPPED"
    BY <1>3, <1>7, <1>10, RunningFacts
  <2>5. \A j \in Slot, i \in Elements(w) : j # p => i \notin Elements(waitQ[j])
    BY RunningFacts, WaiterFacts DEF w
  <2>6. ASSUME NEW i \in Slot
        PROVE  state'[i] = "WAITING" <=> \E j \in Slot : i \in Elements(waitQ'[j])
    <3>1. (\E j \in Slot : i \in Elements(waitQ'[j]))
          <=> (\E j \in Slot : i \in Elements(waitQ[j])) /\ i \notin Elements(w)
      BY <2>1, <2>2, <2>5, RunningFacts DEF w
    <3> QED
      BY <2>3, <3>1 DEF IInv, QueuesExact, WaitListsExact
  <2> QED
    BY <2>1, <2>2, <2>4, <2>6 DEF IInv, QueuesExact, WaitListsExact
<1>13. waitQ' \in [Slot -> Seq(Slot)]
  BY <1>1, EmptySeq DEF IInv, TypeOK
<1> QED
  BY <1>1, <1>10, <1>11, <1>12, <1>13
     DEF IInv, TypeOK, QueuesExact, PidsUnique, PidsBelowNext

LEMMA SleepStep ==
    ASSUME IInv, NEW ms \in Nat, Sleep(ms)  PROVE IInv'
<1>1. /\ Resume(readyQ, [state EXCEPT ![p] = "SLEEP"]) /\ p # Idle
      /\ left' = [left EXCEPT ![p] = ms \div MILLISECONDS_TICK]
      /\ UNCHANGED <<pid, nextpid, waitQ>>
  BY DEF Sleep, MayRequest
<1>2. PICK k \in 0 .. Len(sleepQ) : sleepQ' = InsertBehind(sleepQ, k, p)
  BY DEF Sleep
<1>3. sleepQ \in Seq(Slot) /\ Injective(sleepQ) /\ p \notin Elements(sleepQ) /\ p \in Slot
  BY RunningFacts DEF IInv, TypeOK, QueuesExact, SleepQueueExact
<1>4. /\ sleepQ' \in Seq(Slot) /\ Injective(sleepQ')
      /\ Elements(sleepQ') = Elements(sleepQ) \cup {p}
  BY <1>2, <1>3, InsertFacts
<1>5. /\ p' \in Slot /\ state' \in [Slot -> States] /\ readyQ' \in Seq(Slot)
      /\ ReadyQueueExact'
      /\ \A i \in Slot : state'[i] = "RUNNING" <=> i = p'
      /\ state'[Idle] \in {"READY", "RUNNING"}
      /\ state'[p] = "SLEEP"
      /\ \A i \in Slot \ {p}, t \in {"STOPPED", "SLEEP", "WAITING"} :
             state'[i] = t <=> state[i] = t
  BY <1>1, BlockFacts
<1>6. left' \in [Slot -> Int]
  <2>1. ms \div MILLISECONDS_TICK \in Int
    BY DEF MILLISECONDS_TICK
  <2> QED
    BY <1>1, <2>1 DEF IInv, TypeOK
<1>7. SleepQueueExact'
  BY <1>3, <1>4, <1>5 DEF IInv, QueuesExact, SleepQueueExact
<1>8. WaitListsExact'
  <2>1. \A i \in Slot, t \in {"STOPPED", "WAITING"} : state'[i] = t <=> state[i] = t
    BY <1>5, RunningFacts
  <2> QED
    BY <1>1, <2>1, WaitListsKept DEF IInv, QueuesExact
<1> QED
  BY <1>1, <1>4, <1>5, <1>6, <1>7, <1>8
     DEF IInv, TypeOK, QueuesExact, PidsUnique, PidsBelowNext

LEMMA TimerStep ==
    ASSUME IInv, Timer  PROVE IInv'
<1>1. PICK k \in 0 .. Len(sleepQ) :
          LET woken == SubSeq(sleepQ, 1, k)
          IN  /\ sleepQ' = SubSeq(sleepQ, k + 1, Len(sleepQ))
              /\ left' = [i \in Slot |-> IF i \in Elements(sleepQ)
                                         THEN left[i] - 1 ELSE left[i]]
              /\ Resume(Append(readyQ \o woken, p),
                        [i \in Slot |-> IF i = p \/ i \in Elements(woken)
                                        THEN "READY" ELSE state[i]])
  BY DEF Timer
<1> DEFINE woken == SubSeq(sleepQ, 1, k)
           rest == SubSeq(sleepQ, k + 1, Len(sleepQ))
           b == readyQ \o woken
           q == Append(b, p)
           st == [i \in Slot |-> IF i = p \/ i \in Elements(woken)
                                 THEN "READY" ELSE state[i]]
<1>2. UNCHANGED <<pid, nextpid, waitQ>>
  BY DEF Timer
<1>3. sleepQ \in Seq(Slot) /\ Injective(sleepQ)
      /\ \A i \in Slot : state[i] = "SLEEP" <=> i \in Elements(sleepQ)
  BY DEF IInv, TypeOK, QueuesExact, SleepQueueExact
<1>4. /\ woken \in Seq(Slot) /\ rest \in Seq(Slot)
      /\ Injective(woken) /\ Injective(rest)
      /\ Elements(woken) \cup Elements(rest) = Elements(sleepQ)
      /\ Elements(woken) \cap Elements(rest) = {}
  BY <1>3, CutFacts
<1>5. sleepQ' = rest /\ Resume(q, st)
  BY <1>1
<1>6. left' \in [Slot -> Int]
  BY <1>1 DEF IInv, TypeOK
<1>7. \A i \in Slot : /\ i = p \/ i \in Elements(woken) => st[i] = "READY"
                      /\ i # p /\ i \notin Elements(woken) => st[i] = state[i]
  OBVIOUS
<1>8. st \in [Slot -> States]
  BY DEF IInv, TypeOK, States
<1> HIDE DEF woken, rest, st
<1>9. /\ readyQ \in Seq(Slot) /\ Injective(readyQ)
      /\ \A i \in Slot : state[i] = "READY" <=> i \in Elements(readyQ)
  BY DEF IInv, TypeOK, QueuesExact, ReadyQueueExact
<1>10. Elements(readyQ) \cap Elements(woken) = {}
  <2>1. \A i \in Elements(woken) : i \in Slot
    BY <1>4 DEF Elements
  <2> QED
    BY <1>3, <1>4, <1>9, <2>1
<1>11. /\ b \in Seq(Slot) /\ Injective(b)
       /\ Elements(b) = Elements(readyQ) \cup Elements(woken)
  BY <1>4, <1>9, <1>10, ConcatFacts
<1> HIDE DEF b
<1>12. p \notin Elements(b) /\ p \in Slot
  BY <1>4, <1>11, RunningFacts
<1>13. /\ q \in Seq(Slot) /\ Injective(q)
       /\ Elements(q) = Elements(readyQ) \cup Elements(woken) \cup {p}
  BY <1>11, <1>12, AppendFacts
<1> HIDE DEF q
<1>14. \A i \in Slot : st[i] = "READY" <=> i \in Elements(q)
  BY <1>7, <1>9, <1>13
<1>15. (\A i \in Slot : st[i] # "RUNNING") /\ st[Idle] = "READY"
  BY <1>7, RunningFacts DEF IInv, QueuesExact
<1>16. /\ p' \in Slot /\ state' \in [Slot -> States] /\ readyQ' \in Seq(Slot)
       /\ ReadyQueueExact'
       /\ \A i \in Slot : state'[i] = "RUNNING" <=> i = p'
       /\ state'[Idle] \in {"READY", "RUNNING"}
       /\ \A i \in Slot, t \in {"STOPPED", "SLEEP", "WAITING"} :
              state'[i] = t <=> st[i] = t
  BY <1>5, <1>8, <1>13, <1>14, <1>15, ResumeFacts
<1>17. SleepQueueExact'
  <2>1. \A i \in Slot : st[i] = "SLEEP" <=> i \in Elements(rest)
    BY <1>3, <1>4, <1>7, RunningFacts
  <2> QED
    BY <1>4, <1>5, <1>16, <2>1 DEF SleepQueueExact
<1>18. WaitListsExact'
  <2>1. \A i \in Slot : i = p \/ i \in Elements(woken)
                         => state[i] \in {"RUNNING", "SLEEP"} /\ st[i] = "READY"
    BY <1>3, <1>4, <1>7, RunningFacts
  <2>2. \A i \in Slot, t \in {"STOPPED", "WAITING"} : state'[i] = t <=> state[i] = t
    BY <1>7, <1>16, <2>1
  <2> QED
    BY <1>2, <2>2, WaitListsKept DEF IInv, QueuesExact
<1> QED
  BY <1>2, <1>4, <1>5, <1>6, <1>16, <1>17, <1>18
     DEF IInv, TypeOK, QueuesExact, PidsUnique, PidsBelowNext

LEMMA WaitStep ==
    ASSUME IInv, NEW i \in Slot, Wait(i)  PROVE IInv'
<1>1. /\ Resume(readyQ, [state EXCEPT ![p] = "WAITING"]) /\ p # Idle
      /\ waitQ' = [waitQ EXCEPT ![i] = Append(@, p)]
      /\ UNCHANGED <<pid, nextpid, sleepQ, left>>
  BY DEF Wait, MayRequest
<1>2. /\ p' \in Slot /\ state' \in [Slot -> States] /\ readyQ' \in Seq(Slot)
      /\ ReadyQueueExact'
      /\ \A j \in Slot : state'[j] = "RUNNING" <=> j = p'
      /\ state'[Idle] \in {"READY", "RUNNING"}
      /\ state'[p] = "WAITING"
      /\ \A j \in Slot \ {p}, t \in {"STOPPED", "SLEEP", "WAITING"} :
             state'[j] = t <=> state[j] = t
  BY <1>1, BlockFacts
<1>3. waitQ[i] \in Seq(Slot) /\ Injective(waitQ[i]) /\ p \in Slot /\ p \notin Elements(waitQ[i])
  BY RunningFacts DEF IInv, TypeOK, QueuesExact, WaitListsExact
<1>4. /\ waitQ'[i] = Append(waitQ[i], p)
      /\ \A j \in Slot \ {i} : waitQ'[j] = waitQ[j]
  BY <1>1 DEF IInv, TypeOK
<1>5. /\ waitQ'[i] \in Seq(Slot) /\ Injective(waitQ'[i])
      /\ Elements(waitQ'[i]) = Elements(waitQ[i]) \cup {p}
  BY <1>3, <1>4, AppendFacts
<1>6. waitQ' \in [Slot -> Seq(Slot)]
  BY <1>1, <1>4, <1>5 DEF IInv, TypeOK
<1>7. SleepQueueExact'
  BY <1>1, <1>2, RunningFacts, SleepQueueKept DEF IInv, QueuesExact
<1>8. state[i] # "STOPPED"
  BY DEF Wait
<1>9. WaitListsExact'
  <2>1. \A j \in Slot : Injective(waitQ'[j])
    BY <1>4, <1>5 DEF IInv, QueuesExact, WaitListsExact
  <2>2. ASSUME NEW w \in Slot
        PROVE  state'[w] = "WAITING" <=> \E j \in Slot : w \in Elements(waitQ'[j])
    <3>1. (\E j \in Slot : w \in Elements(waitQ'[j]))
          <=> w = p \/ \E j \in Slot : w \in Elements(waitQ[j])
      BY <1>4, <1>5
    <3> QED
      BY <1>2, <3>1, RunningFacts DEF IInv, QueuesExact, WaitListsExact
  <2>3. ASSUME NEW j \in Slot, NEW m \in Slot, j # m,
               NEW w \in Elements(waitQ'[j]), w \in Elements(waitQ'[m])
        PROVE  FALSE
    <3>1. CASE j # i /\ m # i
      BY <1>4, <2>3, <3>1, WaiterFacts
    <3>2. CASE j = i
      BY <1>4, <1>5, <2>3, <3>2, RunningFacts, WaiterFacts
    <3>3. CASE m = i
      BY <1>4, <1>5, <2>3, <3>3, RunningFacts, WaiterFacts
    <3> QED
      BY <3>1, <3>2, <3>3
  <2>4. \A j \in Slot : state'[j] = "STOPPED" => waitQ'[j] = <<>>
    BY <1>2, <1>4, <1>8 DEF IInv, QueuesExact, WaitListsExact
  <2> QED
    BY <2>1, <2>2, <2>3, <2>4 DEF WaitListsExact
<1> QED
  BY <1>1, <1>2, <1>6, <1>7, <1>9
     DEF IInv, TypeOK, QueuesExact, PidsUnique, PidsBelowNext

-----------------------------------------------------------------------------
(* The theorems.                                                            *)

LEMMA InitIInv == Init => IInv
<1> SUFFICES ASSUME Init  PROVE IInv
  OBVIOUS
<1>1. 0 \in Slot /\ 1 \in Slot
  BY SchedAssumption DEF Slot
<1>2. <<1>> \in Seq(Slot) /\ <<>> \in Seq(Slot) /\ Len(<<1>>) = 1 /\ <<1>>[1] = 1
  BY <1>1
<1>3. /\ Injective(<<1>>) /\ Elements(<<1>>) = {1}
      /\ Injective(<<>>) /\ Elements(<<>>) = {}
  BY <1>2 DEF Injective, Elements
<1>4. TypeOK
  BY <1>1, <1>2 DEF Init, TypeOK, States, Idle
<1>5. QueuesExact
  BY <1>1, <1>3
     DEF Init, QueuesExact, ReadyQueueExact, SleepQueueExact, WaitListsExact, Idle
<1>6. PidsUnique /\ PidsBelowNext
  BY DEF Init, PidsUnique, PidsBelowNext
<1> QED
  BY <1>4, <1>5, <1>6 DEF IInv

LEMMA NextIInv == IInv /\ [Next]_vars => IInv'
<1> SUFFICES ASSUME IInv, [Next]_vars  PROVE IInv'
  OBVIOUS
<1>1. CASE Yield
  BY <1>1, YieldStep
<1>2. CASE Stop
  BY <1>2, StopStep
<1>3. CASE Timer
  BY <1>3, TimerStep
<1>4. ASSUME NEW i \in Slot, Create(i)  PROVE IInv'
  BY <1>4, CreateStep
<1>5. ASSUME NEW i \in Slot, Wait(i)  PROVE IInv'
  BY <1>5, WaitStep
<1>6. ASSUME NEW ms \in Lens, Sleep(ms)  PROVE IInv'
  BY <1>6, SleepStep, SchedAssumption
<1>7. CASE UNCHANGED vars
  BY <1>7 DEF vars, IInv, TypeOK, QueuesExact, ReadyQueueExact, SleepQueueExact,
              WaitListsExact, PidsUnique, PidsBelowNext
<1> QED
  BY <1>1, <1>2, <1>3, <1>4, <1>5, <1>6, <1>7 DEF Next

THEOREM Inductive == Spec => []IInv
<1> QED
  BY InitIInv, NextIInv, PTL DEF Spec

\* The variables keep their types.
THEOREM TypeCorrect == Spec => []TypeOK
<1>1. IInv => TypeOK
  BY DEF IInv
<1> QED
  BY <1>1, Inductive, PTL

\* Every process is exactly once on the queue that its state names, one that waits
\* for another to stop included: nobody is lost and nobody is run twice, whatever
\* the processes request and however many wait for the same one.
THEOREM QueuesStayExact == Spec => []QueuesExact
<1>1. IInv => QueuesExact
  BY DEF IInv
<1> QED
  BY <1>1, Inductive, PTL

\* The dispatcher always finds a process to run.
THEOREM DispatcherNeverHangs == Spec => []NeverHangs
<1>1. IInv => NeverHangs
  BY SchedAssumption DEF IInv, QueuesExact, NeverHangs, Slot
<1> QED
  BY <1>1, Inductive, PTL

\* No pid other than 0 ever names two slots.
THEOREM PidsStayUnique == Spec => []PidsUnique
<1>1. IInv => PidsUnique
  BY DEF IInv
<1> QED
  BY <1>1, Inductive, PTL

\* Inserting by GoesBehind keeps the queue in order: those in front are due no
\* later than the new sleeper, those behind are due later.
LEMMA SleepInOrder ==
    ASSUME IInv, SleepersInOrder, NEW ms \in Nat, ms >= MILLISECONDS_TICK, Sleep(ms)
    PROVE  SleepersInOrder'
<1> DEFINE len == ms \div MILLISECONDS_TICK
<1>1. len \in Nat /\ len >= 1
  BY DEF MILLISECONDS_TICK
<1>2. PICK k \in 0 .. Len(sleepQ) :
          GoesBehind(k, len) /\ sleepQ' = InsertBehind(sleepQ, k, p)
  BY DEF Sleep
<1>3. left' = [left EXCEPT ![p] = len]
  BY DEF Sleep
<1> HIDE DEF len
<1>4. /\ sleepQ \in Seq(Slot) /\ Injective(sleepQ) /\ p \notin Elements(sleepQ)
      /\ p \in Slot /\ left \in [Slot -> Int]
  BY RunningFacts DEF IInv, TypeOK, QueuesExact, SleepQueueExact
<1> DEFINE r == InsertBehind(sleepQ, k, p)
<1>5. /\ Len(r) = Len(sleepQ) + 1
      /\ \A n \in 1 .. k : r[n] = sleepQ[n]
      /\ r[k + 1] = p
      /\ \A n \in k + 2 .. Len(r) :
             n - 1 \in k + 1 .. Len(sleepQ) /\ r[n] = sleepQ[n - 1]
  BY <1>4, InsertFacts
<1> HIDE DEF r
<1>6. \A n \in 1 .. Len(sleepQ) : /\ sleepQ[n] \in Slot
                                  /\ left'[sleepQ[n]] = left[sleepQ[n]]
                                  /\ left[sleepQ[n]] \in Int /\ left[sleepQ[n]] >= 1
  BY <1>3, <1>4 DEF Elements, SleepersInOrder
<1>7. \A n \in 1 .. k : left[sleepQ[n]] <= len
  BY <1>2 DEF GoesBehind
<1>8. \A n \in k + 1 .. Len(sleepQ) : left[sleepQ[n]] > len
  <2> SUFFICES ASSUME NEW n \in k + 1 .. Len(sleepQ)
               PROVE  left[sleepQ[n]] > len
    OBVIOUS
  <2>1. k \in Nat /\ k + 1 \in 1 .. Len(sleepQ) /\ n \in 1 .. Len(sleepQ) /\ k + 1 <= n
    BY <1>4
  <2>2. Delta(k + 1) >= 0
    <3>1. CASE k = 0
      BY <1>6, <2>1, <3>1 DEF Delta
    <3>2. CASE k # 0
      <4>1. k \in 1 .. Len(sleepQ) /\ k + 1 - 1 = k /\ k + 1 # 1 /\ k <= k + 1
        BY <2>1, <3>2
      <4>2. left[sleepQ[k]] <= left[sleepQ[k + 1]]
        BY <2>1, <4>1 DEF SleepersInOrder
      <4> QED
        BY <1>6, <2>1, <4>1, <4>2 DEF Delta
    <3> QED
      BY <3>1, <3>2
  <2>3. Delta(k + 1) \in Int
    <3>1. k = 0 \/ (k \in 1 .. Len(sleepQ) /\ k + 1 - 1 = k)
      BY <2>1
    <3> QED
      BY <1>6, <2>1, <3>1 DEF Delta
  <2>4. left[sleepQ[k + 1]] > len
    BY <1>2, <2>1, <2>2, <2>3 DEF GoesBehind
  <2>5. left[sleepQ[k + 1]] <= left[sleepQ[n]]
    BY <2>1 DEF SleepersInOrder
  <2> QED
    BY <1>1, <1>6, <2>1, <2>4, <2>5
<1>9. left'[p] = len
  BY <1>3, <1>4
<1> DEFINE t(n) == left'[r[n]]
<1>10. /\ \A n \in 1 .. k : n \in 1 .. Len(sleepQ) /\ t(n) = left[sleepQ[n]]
       /\ t(k + 1) = len
       /\ \A n \in k + 2 .. Len(r) :
              n - 1 \in k + 1 .. Len(sleepQ) /\ n - 1 \in 1 .. Len(sleepQ)
              /\ t(n) = left[sleepQ[n - 1]]
  <2>1. ASSUME NEW n \in 1 .. k
        PROVE  n \in 1 .. Len(sleepQ) /\ t(n) = left[sleepQ[n]]
    <3>1. n \in 1 .. Len(sleepQ)
      BY <1>4
    <3> QED
      BY <1>5, <1>6, <3>1
  <2>2. t(k + 1) = len
    BY <1>5, <1>9
  <2>3. ASSUME NEW n \in k + 2 .. Len(r)
        PROVE  n - 1 \in k + 1 .. Len(sleepQ) /\ n - 1 \in 1 .. Len(sleepQ)
               /\ t(n) = left[sleepQ[n - 1]]
    <3>1. n - 1 \in k + 1 .. Len(sleepQ) /\ r[n] = sleepQ[n - 1]
      BY <1>5
    <3>2. n - 1 \in 1 .. Len(sleepQ)
      BY <1>4, <3>1
    <3> QED
      BY <1>6, <3>1, <3>2
  <2> QED
    BY <2>1, <2>2, <2>3
<1> HIDE DEF t
<1>11. ASSUME NEW m \in 1 .. Len(r), NEW n \in 1 .. Len(r)
       PROVE  t(m) >= 1 /\ (m <= n => t(m) <= t(n))
  <2>1. /\ m \in 1 .. k \/ m = k + 1 \/ m \in k + 2 .. Len(r)
        /\ n \in 1 .. k \/ n = k + 1 \/ n \in k + 2 .. Len(r)
        /\ k \in Nat
    BY <1>4, <1>5
  <2>2. t(m) \in Int /\ t(n) \in Int /\ t(m) >= 1
    <3>1. ASSUME NEW j \in 1 .. Len(r), j \in 1 .. k \/ j = k + 1 \/ j \in k + 2 .. Len(r)
          PROVE  t(j) \in Int /\ t(j) >= 1
      <4>1. CASE j \in 1 .. k
        BY <1>6, <1>10, <4>1
      <4>2. CASE j = k + 1
        BY <1>1, <1>10, <4>2
      <4>3. CASE j \in k + 2 .. Len(r)
        BY <1>6, <1>10, <4>3
      <4> QED
        BY <3>1, <4>1, <4>2, <4>3
    <3> QED
      BY <2>1, <3>1
  <2>3. CASE m \in 1 .. k /\ n \in 1 .. k
    BY <1>10, <2>3 DEF SleepersInOrder
  <2>4. CASE m \in k + 2 .. Len(r) /\ n \in k + 2 .. Len(r)
    <3>1. m - 1 <= n - 1 <=> m <= n
      BY <2>4
    <3> QED
      BY <1>10, <2>2, <2>4, <3>1 DEF SleepersInOrder
  <2>5. CASE m \in 1 .. k /\ n \notin 1 .. k
    <3>1. t(m) <= len
      BY <1>7, <1>10, <2>5
    <3>2. CASE n = k + 1
      BY <1>1, <1>10, <2>2, <3>1, <3>2
    <3>3. CASE n \in k + 2 .. Len(r)
      <4>1. t(n) > len
        BY <1>8, <1>10, <3>3
      <4> QED
        BY <1>1, <2>2, <3>1, <4>1
    <3> QED
      BY <2>1, <2>5, <3>2, <3>3
  <2>6. CASE m = k + 1 /\ n \notin 1 .. k
    <3>1. CASE n = k + 1
      BY <2>2, <2>6, <3>1
    <3>2. CASE n \in k + 2 .. Len(r)
      <4>1. t(m) = len /\ t(n) > len
        BY <1>8, <1>10, <2>6, <3>2
      <4> QED
        BY <1>1, <2>2, <4>1
    <3> QED
      BY <2>1, <2>6, <3>1, <3>2
  <2>7. CASE m \notin 1 .. k /\ n = k + 1 /\ m # k + 1
    BY <2>1, <2>2, <2>7
  <2>8. CASE m \notin 1 .. k /\ n \in 1 .. k
    BY <2>1, <2>2, <2>8
  <2> QED
    BY <2>1, <2>3, <2>4, <2>5, <2>6, <2>7, <2>8
<1> QED
  BY <1>2, <1>11 DEF SleepersInOrder, r, t

\* A tick takes one from every sleeper, and those it leaves at 0 are the ones that
\* it wakes: they are at the front because the queue is in order.
LEMMA TimerInOrder ==
    ASSUME IInv, SleepersInOrder, Timer
    PROVE  SleepersInOrder'
<1>1. PICK k \in 0 .. Len(sleepQ) :
          /\ Due(k)
          /\ sleepQ' = SubSeq(sleepQ, k + 1, Len(sleepQ))
          /\ left' = [i \in Slot |-> IF i \in Elements(sleepQ)
                                     THEN left[i] - 1 ELSE left[i]]
  BY DEF Timer
<1>2. sleepQ \in Seq(Slot) /\ Injective(sleepQ) /\ left \in [Slot -> Int]
  BY DEF IInv, TypeOK, QueuesExact, SleepQueueExact
<1> DEFINE r == SubSeq(sleepQ, k + 1, Len(sleepQ))
<1>3. Len(r) = Len(sleepQ) - k /\ \A n \in 1 .. Len(r) : r[n] = sleepQ[n + k]
  BY <1>2, CutFacts
<1> HIDE DEF r
<1>4. \A n \in 1 .. Len(r) : n + k \in k + 1 .. Len(sleepQ) /\ n + k \in 1 .. Len(sleepQ)
  BY <1>2, <1>3
<1>5. \A n \in 1 .. Len(sleepQ) :
          /\ left[sleepQ[n]] \in Int /\ left[sleepQ[n]] >= 1
          /\ left'[sleepQ[n]] = left[sleepQ[n]] - 1
  <2> SUFFICES ASSUME NEW n \in 1 .. Len(sleepQ)
               PROVE  /\ left[sleepQ[n]] \in Int /\ left[sleepQ[n]] >= 1
                      /\ left'[sleepQ[n]] = left[sleepQ[n]] - 1
    OBVIOUS
  <2>1. sleepQ[n] \in Slot /\ sleepQ[n] \in Elements(sleepQ)
    BY <1>2 DEF Elements
  <2> QED
    BY <1>1, <1>2, <2>1 DEF SleepersInOrder
<1>6. \A n \in k + 1 .. Len(sleepQ) : left[sleepQ[n]] >= 2
  <2> SUFFICES ASSUME NEW n \in k + 1 .. Len(sleepQ)
               PROVE  left[sleepQ[n]] >= 2
    OBVIOUS
  <2>1. k + 1 \in 1 .. Len(sleepQ) /\ n \in 1 .. Len(sleepQ) /\ k + 1 <= n /\ k < Len(sleepQ)
    BY <1>2
  <2>2. left[sleepQ[k + 1]] # 1
    BY <1>1, <2>1 DEF Due
  <2>3. left[sleepQ[k + 1]] <= left[sleepQ[n]]
    BY <2>1 DEF SleepersInOrder
  <2> QED
    BY <1>5, <2>1, <2>2, <2>3
<1>7. ASSUME NEW m \in 1 .. Len(r), NEW n \in 1 .. Len(r)
      PROVE  left'[r[m]] >= 1 /\ (m <= n => left'[r[m]] <= left'[r[n]])
  <2>1. left'[r[m]] = left[sleepQ[m + k]] - 1 /\ left'[r[n]] = left[sleepQ[n + k]] - 1
    BY <1>3, <1>4, <1>5
  <2>2. m <= n => left[sleepQ[m + k]] <= left[sleepQ[n + k]]
    <3>1. m <= n => m + k <= n + k
      BY <1>2, <1>3
    <3> QED
      BY <1>4, <3>1 DEF SleepersInOrder
  <2>3. /\ left[sleepQ[m + k]] \in Int /\ left[sleepQ[n + k]] \in Int
        /\ left[sleepQ[m + k]] >= 2
    BY <1>4, <1>5, <1>6
  <2> QED
    BY SMTT(30), <2>1, <2>2, <2>3
<1> QED
  BY <1>1, <1>7 DEF SleepersInOrder, r

\* When programs sleep for whole ticks, no sleeper is ever overdue.
THEOREM SleepersStayInOrder ==
    ASSUME WholeTicks
    PROVE  Spec => []SleepersInOrder
<1>1. Init => SleepersInOrder
  BY DEF Init, SleepersInOrder
<1>2. IInv /\ SleepersInOrder /\ [Next]_vars => SleepersInOrder'
  <2> SUFFICES ASSUME IInv, SleepersInOrder, [Next]_vars  PROVE SleepersInOrder'
    OBVIOUS
  <2>1. CASE Timer
    BY <2>1, TimerInOrder
  <2>2. ASSUME NEW ms \in Lens, Sleep(ms)  PROVE SleepersInOrder'
    <3>1. ms \in Nat /\ ms >= MILLISECONDS_TICK
      BY <2>2, WholeTicks, SchedAssumption DEF WholeTicks, Sleep, MILLISECONDS_TICK
    <3> QED
      BY <2>2, <3>1, SleepInOrder
  <2>3. CASE UNCHANGED <<sleepQ, left>>
    BY <2>3 DEF SleepersInOrder
  <2> QED
    BY <2>1, <2>2, <2>3
       DEF Next, Create, Yield, Stop, Wait, vars
<1> QED
  BY <1>1, <1>2, Inductive, PTL DEF Spec
=============================================================================
