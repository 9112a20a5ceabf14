---------------------------- MODULE DeviceProofs ----------------------------
(***************************************************************************)
(* The device calls and the keyboard interrupt, with every other request   *)
(* of the dispatcher and its lists and pointers, for any number of         *)
(* processes and any ring: the lists stay in order although the driver     *)
(* readies processes, and the driver is used as module Keyboard assumes.   *)
(***************************************************************************)
EXTENDS Devices, KernelProofs, DriverProofs

-----------------------------------------------------------------------------
(* The lists, while processes are blocked in a read, which are on none      *)

Calm(q) == \E L : Running(q, L)

\* The same processes are blocked in a read.
SameReads(q, r) ==
    \A i \in Slot : r.state[i] = "BLOCKED_READING" <=> q.state[i] = "BLOCKED_READING"

LEMMA ReaderLoose ==
    ASSUME NEW q, NEW L, Running(q, L), NEW i \in Slot, q.state[i] = "BLOCKED_READING"
    PROVE  Loose(L, i)
<1>1. Listed(q, L, Slot)
  BY RunningIs
<1>2. \A x \in Ix : x = RQ \/ x = SQ \/ x \in Slot
  BY KernelAssumption DEF Ix, RQ, SQ, Slot
<1> QED
  BY <1>1, <1>2 DEF Listed, Loose

\* What is on the ready queue when the first of a list are moved to it.
LEMMA MovedIn ==
    ASSUME NEW L \in [Ix -> Seq(Slot)], NEW x \in Ix \ {RQ}, NEW m \in 0 .. Len(L[x]),
           NEW j, In(Moved(L, x, m), RQ, j)
    PROVE  In(L, RQ, j) \/ In(L, x, j)
<1> DEFINE r == L[RQ]
           l == L[x]
           b == SubSeq(l, 1, m)
<1>1. r \in Seq(Slot) /\ l \in Seq(Slot) /\ Moved(L, x, m)[RQ] = r \o b
  BY SlotsAre, MovedIs
<1>2. /\ b \in Seq(Slot) /\ Len(b) = m
      /\ \A n \in 1 .. m : n \in 1 .. Len(l) /\ b[n] = l[n]
  <2>1. m \in 0 .. Len(l)
    OBVIOUS
  <2> HIDE DEF l
  <2>2. b \in Seq(Slot) /\ Len(b) = m
    BY <1>1, <2>1
  <2>3. ASSUME NEW n \in 1 .. m  PROVE n \in 1 .. Len(l) /\ b[n] = l[n]
    BY <1>1, <2>1
  <2> QED
    BY <2>2, <2>3
<1> HIDE DEF r, l, b
<1>3. PICK n \in 1 .. Len(r \o b) : (r \o b)[n] = j
  BY <1>1 DEF In
<1>4. /\ Len(r) \in Nat /\ Len(b) \in Nat /\ Len(r \o b) = Len(r) + Len(b)
      /\ (r \o b)[n] = IF n <= Len(r) THEN r[n] ELSE b[n - Len(r)]
  <2>1. Len(r) \in Nat /\ Len(b) \in Nat /\ Len(r \o b) = Len(r) + Len(b)
    BY <1>1, <1>2, LenProperties, ConcatProperties
  <2>2. n \in 1 .. Len(r) + Len(b)
    BY <1>3, <2>1
  <2> QED
    BY <1>1, <1>2, <2>1, <2>2, ConcatProperties
<1>5. CASE n <= Len(r)
  <2>1. n \in 1 .. Len(r) /\ r[n] = j
    BY <1>3, <1>4, <1>5
  <2> QED
    BY <2>1 DEF In, r
<1>6. CASE ~(n <= Len(r))
  <2>1. n - Len(r) \in 1 .. m /\ b[n - Len(r)] = j
    BY <1>2, <1>3, <1>4, <1>6
  <2>2. n - Len(r) \in 1 .. Len(l) /\ l[n - Len(r)] = j
    BY <1>2, <2>1
  <2> QED
    BY <2>2 DEF In, l
<1> QED
  BY <1>5, <1>6

\* Moving the first of a list to the ready queue readies no process that reads.
LEMMA MovedReads ==
    ASSUME NEW q, NEW L, Running(q, L), NEW x \in Ix \ {RQ}, NEW m \in 0 .. Len(L[x]),
           NEW s, SameReads(q, s), NEW r, NEW M, Linked(r, M, Slot),
           M[RQ] = Moved(L, x, m)[RQ], \A j \in Slot : ~In(M, RQ, j) => r.state[j] = s.state[j]
    PROVE  SameReads(q, r)
<1> SUFFICES ASSUME NEW j \in Slot
             PROVE  r.state[j] = "BLOCKED_READING" <=> q.state[j] = "BLOCKED_READING"
  BY DEF SameReads
<1>1. L \in [Ix -> Seq(Slot)] /\ x \in Ix /\ RQ \in Ix
  BY RunningIs, SlotsAre DEF Fam
<1>2. CASE In(M, RQ, j)
  <2>1. r.state[j] = "READY"
    BY <1>2 DEF Linked, Listed
  <2>2. In(Moved(L, x, m), RQ, j)
    BY <1>2 DEF In
  <2>3. In(L, RQ, j) \/ In(L, x, j)
    BY <1>1, <2>2, MovedIn
  <2>4. ~Loose(L, j)
    BY <1>1, <2>3 DEF Loose
  <2> QED
    BY <2>1, <2>4, ReaderLoose
<1>3. CASE ~In(M, RQ, j)
  BY <1>3 DEF SameReads
<1> QED
  BY <1>2, <1>3

\* The process that the dispatcher resumes, and the next one if the running one is blocked.
LEMMA CalmResumed ==
    ASSUME NEW q, Calm(q)
    PROVE  Calm(Resumed(q)) /\ Resumed(q).state = q.state /\ Resumed(q).p = q.p
<1>1. PICK L : Running(q, L)
  BY DEF Calm
<1>2. /\ q \in QueueSet(Ptr) /\ q.p \in Slot /\ q.p # NULL /\ q.state \in [Slot -> States]
      /\ q.state[q.p] = "RUNNING"
  BY <1>1, RunningIs
<1>3. Running(Resumed(q), L)
  BY <1>1, ResumedRuns
<1>4. Resumed(q).state = [q.state EXCEPT ![q.p] = "RUNNING"] /\ Resumed(q).p = q.p
  <2>1. Resumed(q) = [q EXCEPT !.state[q.p] = "RUNNING"]
    BY <1>2 DEF Resumed
  <2>2. "RUNNING" \in States
    BY DEF States
  <2> QED
    BY <1>2, <2>1, <2>2, StateIs
<1>5. Resumed(q).state = q.state
  BY <1>2, <1>4
<1> QED
  BY <1>3, <1>4, <1>5 DEF Calm

LEMMA CalmSwitched ==
    ASSUME NEW q, NEW L, Blocked(q, L)
    PROVE  LET r == Resumed(switch(q)) IN Calm(r) /\ SameReads(q, r)
<1> DEFINE r == Resumed(switch(q))
<1>1. Running(r, Less(L, RQ))
  BY SwitchRuns
<1>2. /\ q \in QueueSet(Ptr) /\ q.p # NULL /\ Fam(q.next, L) /\ Ends(q, L)
      /\ Listed(q, L, Slot) /\ IdleOK(q) /\ \A i \in Slot : q.state[i] # "RUNNING"
  BY DEF Blocked, Sane, Linked
<1>3. RQ \in Ix /\ Idle \in Slot /\ q.state[Idle] = "READY"
  BY <1>2, SlotsAre, IdleIsSlot DEF IdleOK
<1>4. L[RQ] # <<>>
  <2>1. In(L, RQ, Idle)
    BY <1>2, <1>3 DEF Listed
  <2>2. \E k \in 1 .. Len(L[RQ]) : TRUE
    BY <2>1 DEF In
  <2>3. L[RQ] = <<>> <=> Len(L[RQ]) = 0
    BY <1>2, <1>3, FamIs
  <2> QED
    BY <2>2, <2>3
<1>5. q.head = L[RQ][1] /\ 1 \in 1 .. Len(L[RQ]) /\ q.head \in Slot
  BY <1>2, <1>3, <1>4, EndsAre DEF Ends
<1>6. In(L, RQ, q.head)
  BY <1>5 DEF In
<1>7. q.state[q.head] = "READY"
  BY <1>2, <1>5, <1>6 DEF Listed
<1>8. r.state = [q.state EXCEPT ![q.head] = "RUNNING"]
  BY <1>2, <1>5, SwitchIs
<1>9. q.state \in [Slot -> States]
  BY <1>2 DEF QueueSet
<1> HIDE DEF r
<1>10. \A i \in Slot : r.state[i] = IF i = q.head THEN "RUNNING" ELSE q.state[i]
  BY <1>8, <1>9
<1>11. SameReads(q, r)
  BY <1>5, <1>7, <1>10 DEF SameReads
<1> QED
  BY <1>1, <1>11 DEF Calm, r

LEMMA CalmIs ==
    ASSUME NEW q, Calm(q)
    PROVE  /\ q \in QueueSet(Ptr) /\ q.p \in Slot /\ q.p # NULL /\ q.state \in [Slot -> States]
           /\ \A i \in Slot : q.state[i] = "RUNNING" <=> i = q.p
  BY RunningIs DEF Calm

\* What a request leaves from the lists q.
After(q) == Calm(Queues') /\ SameReads(q, Queues')

LEMMA CalmResumes ==
    ASSUME NEW q, Calm(q), NEW s, Dispatch(q, s)
    PROVE  After(q)
<1>1. q \in QueueSet(Ptr)
  BY CalmIs
<1>2. Queues' = Resumed(q)
  BY <1>1, DispatchEffect
<1>3. Calm(Resumed(q)) /\ Resumed(q).state = q.state
  BY CalmResumed
<1> QED
  BY <1>2, <1>3 DEF After, SameReads

LEMMA CalmSwitches ==
    ASSUME NEW q, NEW L, Blocked(q, L), NEW s, Dispatch(switch(q), s)
    PROVE  After(q)
<1>1. switch(q) \in QueueSet(Ptr)
  BY SwitchTypes DEF Blocked, Sane, Linked
<1>2. Queues' = Resumed(switch(q))
  BY <1>1, DispatchEffect
<1>3. Calm(Resumed(switch(q))) /\ SameReads(q, Resumed(switch(q)))
  BY CalmSwitched
<1> QED
  BY <1>2, <1>3 DEF After

\* Lists that are the same but for results and the sleepers' counters.
Alike(q, s) ==
    /\ s \in QueueSet(Ptr) /\ s.state = q.state /\ s.next = q.next /\ s.head = q.head
    /\ s.tail = q.tail /\ s.sleepQ = q.sleepQ /\ s.waiting = q.waiting
    /\ s.waitingTail = q.waitingTail /\ s.p = q.p

LEMMA CalmAlike ==
    ASSUME NEW q, Calm(q), NEW s, Alike(q, s)
    PROVE  Calm(s) /\ s.state = q.state /\ s.p = q.p
<1>1. PICK L : Running(q, L)
  BY DEF Calm
<1>2. Running(s, L)
  BY <1>1, RunningSame DEF Alike
<1> QED
  BY <1>2 DEF Alike, Calm

LEMMA ResultAlike ==
    ASSUME NEW q \in QueueSet(Ptr), NEW i \in Slot, NEW r \in Rets
    PROVE  Alike(q, [q EXCEPT !.ret[i] = r])
  BY DEF Alike, QueueSet

LEMMA ReturnAlike ==
    ASSUME NEW q, Calm(q), NEW r \in Rets
    PROVE  Alike(q, Return(q, r))
<1>1. q \in QueueSet(Ptr) /\ q.p \in Slot
  BY CalmIs
<1> QED
  BY <1>1, ResultAlike DEF Return

\* Nobody waits for the process, so that its field waiting was NULL before it was
\* overwritten with 0.
LEMMA OverrunAlike ==
    ASSUME NEW q, Calm(q), q.waiting[q.p] = NULL
    PROVE  Alike(q, Overrun(q, 0))
<1>1. q \in QueueSet(Ptr) /\ q.p \in Slot
  BY CalmIs
<1>2. Overrun(q, 0) = [q EXCEPT !.waiting[q.p] = NULL]
  BY DEF Overrun
<1> DEFINE s == [q EXCEPT !.waiting[q.p] = NULL]
<1>3. /\ s \in QueueSet(Ptr) /\ s.state = q.state /\ s.next = q.next /\ s.head = q.head
      /\ s.tail = q.tail /\ s.sleepQ = q.sleepQ /\ s.waitingTail = q.waitingTail /\ s.p = q.p
      /\ s.waiting = [q.waiting EXCEPT ![q.p] = NULL] /\ q.waiting \in [Slot -> Ptr]
  BY <1>1 DEF QueueSet, Ptr
<1> HIDE DEF s
<1>4. s.waiting = q.waiting
  BY <1>1, <1>3
<1>5. Alike(q, s)
  BY <1>3, <1>4 DEF Alike
<1> QED
  BY <1>2, <1>5 DEF s

\* The tick of the clock wakes processes that sleep, and none that reads.
LEMMA CalmTicks ==
    ASSUME NEW q, Calm(q)
    PROVE  Calm(tick(q)) /\ SameReads(q, tick(q)) /\ tick(q).p = q.p
<1>1. PICK L : Running(q, L)
  BY DEF Calm
<1>2. PICK m \in 0 .. Len(L[SQ]) : Woken(q, tick(q), L, m)
  BY <1>1, TickRuns
<1> DEFINE M == Moved(L, SQ, m)
<1>3. /\ Running(tick(q), M) /\ tick(q).p = q.p
      /\ \A j \in Slot : ~In(M, RQ, j) => tick(q).state[j] = q.state[j]
  BY <1>2 DEF Woken
<1>4. SameReads(q, q)
  BY DEF SameReads
<1>5. SQ \in Ix \ {RQ}
  BY SlotsAre
<1>6. Linked(tick(q), M, Slot)
  BY <1>3, RunningIs
<1>7. M[RQ] = Moved(L, SQ, m)[RQ]
  OBVIOUS
<1> HIDE DEF M
<1>8. SameReads(q, tick(q))
  BY <1>1, <1>3, <1>4, <1>5, <1>6, <1>7, MovedReads
<1> QED
  BY <1>3, <1>8 DEF Calm

\* ready() of a process that is blocked in a read, by the driver or by a signal.
LEMMA CalmReadied ==
    ASSUME NEW q, Calm(q), NEW i \in Slot, q.state[i] = "BLOCKED_READING"
    PROVE  /\ Calm(ready(q, i)) /\ ready(q, i).p = q.p
           /\ ready(q, i).state = [q.state EXCEPT ![i] = "READY"]
<1> DEFINE r == ready(q, i)
<1>1. PICK L : Running(q, L)
  BY DEF Calm
<1> DEFINE M == Put(L, RQ, Len(L[RQ]), i)
<1>2. /\ q \in QueueSet(Ptr) /\ Linked(q, L, Slot) /\ Waited(q, L, Slot) /\ IdleOK(q)
      /\ q.p \in Slot /\ q.state \in [Slot -> States]
      /\ \A j \in Slot : q.state[j] = "RUNNING" <=> j = q.p
  BY <1>1, RunningIs
<1>3. Loose(L, i)
  BY <1>1, ReaderLoose
<1>4. Linked(r, M, Slot) /\ \A x \in Slot : M[x] = L[x]
  BY <1>2, <1>3, ReadyLinked
<1>5. Waited(r, M, Slot) /\ IdleOK(r)
  BY <1>2, <1>4, ReadyWaited
<1>6. r.state = [q.state EXCEPT ![i] = "READY"] /\ r.p = q.p
  BY ZenonT(40), <1>2, ReadyIs
<1> HIDE DEF r, M
<1>7. \A j \in Slot : r.state[j] = IF j = i THEN "READY" ELSE q.state[j]
  BY <1>2, <1>6
<1>8. r.p \in Slot /\ \A j \in Slot : r.state[j] = "RUNNING" <=> j = r.p
  BY <1>2, <1>6, <1>7
<1>9. Running(r, M)
  BY <1>4, <1>5, <1>8 DEF Running, Sane
<1> QED
  BY <1>6, <1>9 DEF Calm, r

\* sysyield() and the timer: the running process goes to the end of the ready queue.
LEMMA CalmYields ==
    ASSUME NEW q, Calm(q)
    PROVE  (\E L : Blocked(ready(q, q.p), L)) /\ SameReads(q, ready(q, q.p))
<1>1. PICK L : Running(q, L)
  BY DEF Calm
<1>2. Blocked(ready(q, q.p), Put(L, RQ, Len(L[RQ]), q.p))
  BY <1>1, ReadyBlocks
<1>3. q \in QueueSet(Ptr) /\ q.p \in Slot /\ q.state \in [Slot -> States]
      /\ q.state[q.p] = "RUNNING"
  BY CalmIs
<1>4. ready(q, q.p).state = [q.state EXCEPT ![q.p] = "READY"]
  BY <1>3, ReadyIs
<1>5. \A j \in Slot : ready(q, q.p).state[j] = IF j = q.p THEN "READY" ELSE q.state[j]
  BY <1>3, <1>4
<1>6. SameReads(q, ready(q, q.p))
  BY <1>3, <1>5 DEF SameReads
<1> QED
  BY <1>2, <1>6

\* The end of a read that returns DEV_BLOCK.
LEMMA CalmBlocks ==
    ASSUME NEW q, Calm(q), q.p # Idle
    PROVE  LET s == [q EXCEPT !.state[q.p] = "BLOCKED_READING"]
           IN  /\ \E L : Blocked(s, L)
               /\ s.state = [q.state EXCEPT ![q.p] = "BLOCKED_READING"]
<1> DEFINE s == [q EXCEPT !.state[q.p] = "BLOCKED_READING"]
<1>0. PICK L : Running(q, L)
  BY DEF Calm
<1>1. /\ q \in QueueSet(Ptr) /\ Linked(q, L, Slot) /\ Waited(q, L, Slot) /\ IdleOK(q)
      /\ q.p \in Slot /\ q.p # NULL /\ Loose(L, q.p) /\ q.state \in [Slot -> States]
      /\ \A i \in Slot : q.state[i] = "RUNNING" <=> i = q.p
  BY <1>0, RunningIs
<1>2. /\ s \in QueueSet(Ptr) /\ s.state = [q.state EXCEPT ![q.p] = "BLOCKED_READING"]
      /\ s.next = q.next /\ s.head = q.head /\ s.tail = q.tail /\ s.p = q.p
      /\ s.sleepQ = q.sleepQ /\ s.waiting = q.waiting /\ s.waitingTail = q.waitingTail
  BY ZenonT(40), <1>1, StateIs DEF States
<1> HIDE DEF s
<1>3. Linked(s, L, Slot)
  <2>1. Linked(q, L, Slot \ {q.p})
    BY <1>1 DEF Linked, Listed
  <2> QED
    BY <1>1, <1>2, <2>1, LooseState
<1>4. Waited(s, L, Slot)
  BY <1>1, <1>2 DEF Waited
<1>5. IdleOK(s) /\ s.p # NULL /\ \A j \in Slot : s.state[j] # "RUNNING"
  BY <1>1, <1>2, IdleIsSlot DEF IdleOK
<1>6. Blocked(s, L)
  BY <1>3, <1>4, <1>5 DEF Blocked, Sane
<1> QED
  BY <1>2, <1>6 DEF s

\* sysstop(): the processes that wait for the running one are readied, and none that reads.
LEMMA CalmStops ==
    ASSUME NEW q, Calm(q), q.p # Idle
    PROVE  LET r == removeWaiting([q EXCEPT !.state[q.p] = "STOPPED"], q.p)
           IN  (\E L : Blocked(r, L)) /\ SameReads(q, r)
<1> DEFINE s == [q EXCEPT !.state[q.p] = "STOPPED"]
           r == removeWaiting(s, q.p)
<1>1. PICK L : Running(q, L)
  BY DEF Calm
<1> DEFINE m == Count(L[q.p])
           M == Dropped(Moved(L, q.p, m), q.p)
<1>2. /\ Blocked(r, M) /\ Kept(s, r, M)
      /\ s.state = [q.state EXCEPT ![q.p] = "STOPPED"]
  BY ZenonT(40), <1>1, StopBlocks
<1>3. /\ q.p \in Slot /\ L \in [Ix -> Seq(Slot)] /\ q.state \in [Slot -> States]
      /\ q.state[q.p] = "RUNNING" /\ q.p \in Ix \ {RQ} /\ RQ \in Ix \ {q.p}
  BY <1>1, RunningIs, SlotsAre DEF Fam
<1>4. m \in 0 .. Len(L[q.p])
  <2>1. Len(L[q.p]) \in Nat
    BY <1>3, LenProperties
  <2> QED
    BY <2>1 DEF Count
<1>5. M[RQ] = Moved(L, q.p, m)[RQ]
  BY <1>3, <1>4, MovedIs DEF Dropped
<1>6. SameReads(q, s)
  <2> HIDE DEF s
  <2>1. \A j \in Slot : s.state[j] = IF j = q.p THEN "STOPPED" ELSE q.state[j]
    BY <1>2, <1>3
  <2> QED
    BY <1>3, <2>1 DEF SameReads
<1> HIDE DEF s, r, m, M
<1>7. Linked(r, M, Slot) /\ \A j \in Slot : ~In(M, RQ, j) => r.state[j] = s.state[j]
  BY <1>2 DEF Blocked, Sane, Kept
<1>8. SameReads(q, r)
  BY <1>1, <1>3, <1>4, <1>5, <1>6, <1>7, MovedReads
<1> QED
  BY <1>2, <1>8 DEF r, s

\* The running process is blocked, or put off, by a request of another kind.
LEMMA BlocksSame ==
    ASSUME NEW q, Calm(q), NEW x \in States \ {"BLOCKED_READING"}, NEW s,
           s.state = [q.state EXCEPT ![q.p] = x]
    PROVE  SameReads(q, s)
<1>1. q.p \in Slot /\ q.state \in [Slot -> States] /\ q.state[q.p] = "RUNNING"
  BY CalmIs
<1>2. \A j \in Slot : s.state[j] = IF j = q.p THEN x ELSE q.state[j]
  BY <1>1
<1> QED
  BY <1>1, <1>2 DEF SameReads

\* syssleep(): the running process goes on the list of sleepers.
LEMMA CalmSleeps ==
    ASSUME NEW q, Calm(q), q.p # Idle, NEW ms \in Nat
    PROVE  (\E L : Blocked(sleep(q, q.p, ms), L)) /\ SameReads(q, sleep(q, q.p, ms))
<1>1. PICK L : Running(q, L)
  BY DEF Calm
<1>2. CASE ms < 1
  <2>1. sleep(q, q.p, ms) = ready(q, q.p)
    BY <1>2 DEF sleep
  <2> QED
    BY <2>1, CalmYields
<1>3. CASE ~(ms < 1)
  <2> DEFINE r == sleep(q, q.p, ms)
  <2>1. PICK k \in 0 .. Len(L[SQ]), x \in Int :
            SleptBehind(q, r, L, k, ms \div MILLISECONDS_TICK, x)
    BY <1>1, <1>3, SleepRuns
  <2> HIDE DEF r
  <2>2. Blocked(r, Put(L, SQ, k, q.p)) /\ r.state = [q.state EXCEPT ![q.p] = "SLEEP"]
    BY <2>1 DEF SleptBehind
  <2>3. SameReads(q, r)
    BY <2>2, BlocksSame DEF States
  <2> QED
    BY <2>2, <2>3 DEF r
<1> QED
  BY <1>2, <1>3

\* syswait(): the running process goes on the list of the one in slot f, or on none.
LEMMA CalmWaits ==
    ASSUME NEW q, Calm(q), q.p # Idle
    PROVE  /\ LET s == [q EXCEPT !.state[q.p] = "WAITING"]
              IN  (\E L : Blocked(s, L)) /\ SameReads(q, s)
           /\ \A f \in Slot : q.state[f] # "STOPPED" =>
                 LET s == [addToWaiting(q, f, q.p) EXCEPT !.state[q.p] = "WAITING"]
                 IN  (\E L : Blocked(s, L)) /\ SameReads(q, s)
<1>1. PICK L : Running(q, L)
  BY DEF Calm
<1>2. "WAITING" \in States \ {"BLOCKED_READING"}
  BY DEF States
<1> DEFINE s == [q EXCEPT !.state[q.p] = "WAITING"]
<1>3. (\E M : Blocked(s, M)) /\ SameReads(q, s)
  <2>1. Blocked(s, L)
    BY <1>1, UnlistedBlocks
  <2>2. q \in QueueSet(Ptr) /\ q.p \in Slot
    BY CalmIs
  <2>3. s.state = [q.state EXCEPT ![q.p] = "WAITING"]
    BY ZenonT(40), <1>2, <2>2, StateIs
  <2> HIDE DEF s
  <2> QED
    BY <1>2, <2>1, <2>3, BlocksSame
<1>4. ASSUME NEW f \in Slot, q.state[f] # "STOPPED"
      PROVE  LET t == [addToWaiting(q, f, q.p) EXCEPT !.state[q.p] = "WAITING"]
             IN  (\E M : Blocked(t, M)) /\ SameReads(q, t)
  <2> DEFINE t == [addToWaiting(q, f, q.p) EXCEPT !.state[q.p] = "WAITING"]
  <2>1. /\ Blocked(t, Put(L, f, Len(L[f]), q.p))
        /\ t.state = [q.state EXCEPT ![q.p] = "WAITING"]
    BY ZenonT(40), <1>1, <1>4, AddBlocks
  <2> HIDE DEF t
  <2>2. SameReads(q, t)
    BY <1>2, <2>1, BlocksSame
  <2> QED
    BY <2>1, <2>2 DEF t
<1> QED
  BY <1>3, <1>4

\* create() of a process in a stopped slot.
LEMMA CalmCreates ==
    ASSUME NEW q, Calm(q), NEW i \in Slot, q.state[i] = "STOPPED"
    PROVE  Calm(ready(Emptied(q, i), i)) /\ SameReads(q, ready(Emptied(q, i), i))
<1> DEFINE r == ready(Emptied(q, i), i)
<1>1. PICK L : Running(q, L)
  BY DEF Calm
<1>2. Running(r, Put(L, RQ, Len(L[RQ]), i)) /\ r.state = [q.state EXCEPT ![i] = "READY"]
  BY ZenonT(40), <1>1, CreateRuns
<1>3. q.state \in [Slot -> States]
  BY CalmIs
<1> HIDE DEF r
<1>4. \A j \in Slot : r.state[j] = IF j = i THEN "READY" ELSE q.state[j]
  BY <1>2, <1>3
<1>5. SameReads(q, r)
  BY <1>4 DEF SameReads
<1> QED
  BY <1>2, <1>5 DEF Calm, r

-----------------------------------------------------------------------------
(* The driver, by itself                                                    *)

\* The functions of the driver are the same in the machine of Keyboard.
LEMMA SameFunctions ==
    /\ Alone!kbd_reset_state = kbd_reset_state /\ Alone!NoPcb = NoPcb /\ Alone!NoKey = NoKey
    /\ Alone!NUL = NUL
    /\ \A k, i, e : Alone!kbd_open(k, i, e) = kbd_open(k, i, e)
    /\ \A k : Alone!kbd_close(k) = kbd_close(k)
    /\ \A k, command, c : Alone!kbd_ioctl(k, command, c) = kbd_ioctl(k, command, c)
BY DEF Alone!kbd_reset_state, kbd_reset_state, Alone!NoPcb, NoPcb, Alone!NoKey, NoKey,
       Alone!kbd_open, kbd_open, Alone!kbd_close, kbd_close, Alone!kbd_ioctl, kbd_ioctl,
       Alone!Failed, Failed, Alone!Outcome, Outcome, Alone!NoRet, NoRet, Alone!EOF, EOF,
       Alone!NUL, NUL

LEMMA SameTransfer == ASSUME NEW k  PROVE Alone!transfer(k) = transfer(k)
BY DEF Alone!transfer, transfer, Alone!takeAll, takeAll, Alone!Transferring, Transferring,
       Alone!TakeOne, TakeOne, Alone!GoesOn, GoesOn, Alone!Outcome, Outcome, Alone!NUL, NUL,
       Alone!ENTER, ENTER

LEMMA SameRead ==
    ASSUME NEW k, NEW ok, NEW n  PROVE Alone!kbd_read(k, ok, n) = kbd_read(k, ok, n)
BY SameTransfer DEF Alone!kbd_read, kbd_read, Alone!Failed, Failed, Alone!Outcome, Outcome,
                    Alone!NUL, NUL, Alone!NoRet, NoRet

LEMMA SameInterrupt ==
    ASSUME NEW k, NEW c, NEW b  PROVE Alone!kbd_int_read(k, c, b) = kbd_int_read(k, c, b)
BY SameTransfer DEF Alone!kbd_int_read, kbd_int_read, Alone!store, store, Alone!NoKey, NoKey,
                    Alone!NoPcb, NoPcb, Alone!Outcome, Outcome

\* The invariant of KeyboardProofs, of the driver as it is used here.
DriverInv == Inv(kbd, HolderBlocks)

\* A call of process i, or an interrupt, in the machine of Keyboard.
CallIs(o, i) ==
    /\ kbd' = o.kbd
    /\ HolderBlocks' = (o.kbd.proc # NoPcb /\ ~o.wakes
                        /\ (HolderBlocks \/ (o.result = "BLOCK" /\ i = o.kbd.proc)))

LEMMA CallIsCalls == ASSUME NEW o, NEW i  PROVE Alone!Calls_(o, i) <=> CallIs(o, i)
BY SameFunctions DEF Alone!Calls_, CallIs

LEMMA CallIsKeeps ==
    ASSUME DriverInv, NEW o, NEW i, CallIs(o, i),
           Good(HolderBlocks, o) \/ (i = NoPcb /\ Keeps(HolderBlocks, o))
    PROVE  DriverInv'
BY CallKeeps DEF CallIs, DriverInv

LEMMA DriverStep ==
    ASSUME DriverInv, [Alone!Next_]_(Alone!kbdVars)
    PROVE  DriverInv'
<1>0. Inv(kbd, HolderBlocks)
  BY DEF DriverInv
<1>1. CASE \E i \in Readers : Alone!Open_(i)
  <2>1. PICK i \in Readers, e \in BOOLEAN : CallIs(kbd_open(kbd, i, e), i)
    BY <1>1, SameFunctions, CallIsCalls DEF Alone!Open_
  <2>2. Good(HolderBlocks, kbd_open(kbd, i, e))
    BY <1>0, OpenGood
  <2> QED
    BY <2>1, <2>2, CallIsKeeps
<1>2. CASE \E i \in Readers : Alone!Close_(i)
  <2>1. PICK i \in Readers : CallIs(kbd_close(kbd), i)
    BY <1>2, SameFunctions, CallIsCalls DEF Alone!Close_
  <2>2. Good(HolderBlocks, kbd_close(kbd))
    BY <1>0, CloseGood
  <2> QED
    BY <2>1, <2>2, CallIsKeeps
<1>3. CASE \E i \in Readers : Alone!BadRead_(i)
  <2>1. PICK i \in Readers : CallIs(kbd_read(kbd, FALSE, 0), i)
    BY <1>3, SameRead, CallIsCalls DEF Alone!BadRead_
  <2>2. Good(HolderBlocks, kbd_read(kbd, FALSE, 0))
    BY <1>0, BadReadGood
  <2> QED
    BY <2>1, <2>2, CallIsKeeps
<1>4. CASE \E i \in Readers, n \in ReadLens : Alone!Read_(i, n)
  <2>1. PICK i \in Readers, n \in ReadLens : CallIs(kbd_read(kbd, TRUE, n), i)
    BY <1>4, SameRead, CallIsCalls DEF Alone!Read_
  <2>2. Good(HolderBlocks, kbd_read(kbd, TRUE, n))
    BY <1>0, ReadGood
  <2> QED
    BY <2>1, <2>2, CallIsKeeps
<1>5. CASE \E i \in Readers, c \in Char : Alone!Ioctl_(i, "eof", c)
  <2>1. PICK i \in Readers, c \in Char : CallIs(kbd_ioctl(kbd, "eof", c), i)
    BY <1>5, SameFunctions, CallIsCalls DEF Alone!Ioctl_
  <2>2. Good(HolderBlocks, kbd_ioctl(kbd, "eof", c))
    BY <1>0, EofGood
  <2> QED
    BY <2>1, <2>2, CallIsKeeps
<1>6. CASE \E i \in Readers, command \in {"echo_off", "echo_on", "unknown"} :
               Alone!Ioctl_(i, command, NUL)
  <2>1. PICK i \in Readers, command \in {"echo_off", "echo_on", "unknown"} :
            CallIs(kbd_ioctl(kbd, command, NUL), i)
    BY <1>6, SameFunctions, CallIsCalls DEF Alone!Ioctl_
  <2>2. Good(HolderBlocks, kbd_ioctl(kbd, command, NUL))
    BY <1>0, EchoGood
  <2> QED
    BY <2>1, <2>2, CallIsKeeps
<1>7. CASE \E c \in Char \cup {NoKey} : Alone!Interrupt_(c)
  <2>1. PICK c \in Char \cup {NoKey} : CallIs(kbd_int_read(kbd, c, HolderBlocks), NoPcb)
    BY <1>7, SameFunctions, SameInterrupt, CallIsCalls DEF Alone!Interrupt_
  <2>2. Keeps(HolderBlocks, kbd_int_read(kbd, c, HolderBlocks))
    BY <1>0, InterruptGood
  <2> QED
    BY <2>1, <2>2, CallIsKeeps
<1>8. CASE Alone!Woken_
  <2>1. kbd' = kbd /\ HolderBlocks' = FALSE
    BY <1>8 DEF Alone!Woken_
  <2> QED
    BY <1>0, <2>1 DEF DriverInv, Inv
<1>9. CASE UNCHANGED Alone!kbdVars
  <2>1. kbd' = kbd /\ HolderBlocks' = HolderBlocks
    BY <1>9 DEF Alone!kbdVars
  <2> QED
    BY <1>0, <2>1 DEF DriverInv
<1>10. \/ UNCHANGED Alone!kbdVars
       \/ \E i \in Readers : \/ Alone!Open_(i) \/ Alone!Close_(i) \/ Alone!BadRead_(i)
                             \/ \E n \in ReadLens : Alone!Read_(i, n)
                             \/ \E c \in Char : Alone!Ioctl_(i, "eof", c)
                             \/ \E command \in {"echo_off", "echo_on", "unknown"} :
                                   Alone!Ioctl_(i, command, NUL)
       \/ \E c \in Char \cup {NoKey} : Alone!Interrupt_(c)
       \/ Alone!Woken_
  BY SameFunctions DEF Alone!Next_
<1> QED
  BY <1>1, <1>2, <1>3, <1>4, <1>5, <1>6, <1>7, <1>8, <1>9, <1>10

-----------------------------------------------------------------------------
(* The requests                                                             *)

\* The inductive invariant: the driver's, and the lists', until the kernel calls through
\* the table of a device that has none.
ListsCalm == p # NULL => Calm(Queues)
Tables == openedDvTable \in [Slot -> [Fd -> Fd \cup {Closed}]]
DvInv == DriverInv /\ Tables /\ ListsCalm

\* A device that is neither of the keyboards.
Astray == \E d \in DeviceNos : ValidDevice(d) /\ d \notin Keyboards

\* What a step does that keeps the invariant and is one of the machine of Keyboard.
RunsOn ==
    /\ Tables' /\ (Alone!Next_ \/ UNCHANGED Alone!kbdVars)
    /\ Calm(Queues') \/ (p' = NULL /\ Astray)

\* The holder of the keyboard is blocked in a read, from the queues.
LEMMA HolderIs ==
    /\ HolderBlocks = (kbd.proc # NoPcb /\ Queues.state[kbd.proc] = "BLOCKED_READING")
    /\ HolderBlocks' = (kbd'.proc # NoPcb /\ Queues'.state[kbd'.proc] = "BLOCKED_READING")
BY DEF HolderBlocks, Queues

LEMMA KbdIs ==
    ASSUME DriverInv
    PROVE  /\ VarsOK(kbd) /\ kbd \in Vars /\ kbd.proc \in Slot \cup {NoPcb}
           /\ kbd.open = (kbd.proc # NoPcb) /\ (HolderBlocks => kbd.open)
           /\ HolderBlocks \in BOOLEAN
<1>1. VarsOK(kbd) /\ kbd \in Vars /\ (HolderBlocks => kbd.open) /\ HolderBlocks \in BOOLEAN
      /\ kbd.open = (kbd.proc # NoPcb)
  BY DEF DriverInv, Inv, VarsOK
<1>2. kbd.proc \in Readers \cup {NoPcb}
  BY <1>1, Fields
<1> QED
  BY <1>1, <1>2, DevicesAssumption

\* A step that leaves the driver alone, and the readers.
LEMMA LeavesDriver ==
    ASSUME DriverInv, kbd' = kbd, SameReads(Queues, Queues')
    PROVE  UNCHANGED Alone!kbdVars
<1>1. HolderBlocks' = HolderBlocks
  BY HolderIs, KbdIs DEF SameReads
<1> QED
  BY <1>1 DEF Alone!kbdVars

\* The running process calls the driver, which readies nobody and does not block it.
LEMMA ReturnsCall ==
    ASSUME DriverInv, NEW o, NEW i \in Slot, kbd' = o.kbd, SameReads(Queues, Queues'),
           ~o.wakes, o.result # "BLOCK", Queues.state[i] # "BLOCKED_READING",
           o.kbd.proc \in {kbd.proc, NoPcb} \/ (o.kbd.proc = i /\ ~kbd.open)
    PROVE  CallIs(o, i)
<1>1. HolderBlocks' = (o.kbd.proc # NoPcb /\ HolderBlocks)
  <2>1. CASE o.kbd.proc = kbd.proc
    BY <2>1, HolderIs, KbdIs DEF SameReads
  <2>2. CASE o.kbd.proc = NoPcb
    BY <2>2, HolderIs
  <2>3. CASE o.kbd.proc = i /\ ~kbd.open
    BY <2>3, HolderIs, KbdIs DEF SameReads
  <2> QED
    BY <2>1, <2>2, <2>3
<1> QED
  BY <1>1 DEF CallIs

\* The process that runs, and may call the driver.
LEMMA CallerIs ==
    ASSUME DvInv, NEW call, MayIssue(call), call # "yield"
    PROVE  /\ Calm(Queues) /\ DriverInv /\ Tables /\ p \in Slot /\ p # NULL /\ p # Idle
           /\ Queues \in QueueSet(Ptr) /\ Queues.p = p /\ Queues.state = state
           /\ Queues.state[p] = "RUNNING"
           /\ ~(HolderBlocks /\ p = kbd.proc)
<1>1. p # NULL /\ p # Idle
  BY DEF MayIssue
<1>2. Calm(Queues) /\ DriverInv /\ Tables
  BY <1>1 DEF DvInv, ListsCalm
<1>3. Queues.p = p /\ Queues.state = state
  BY DEF Queues
<1>4. /\ Queues \in QueueSet(Ptr) /\ p \in Slot /\ Queues.state[p] = "RUNNING"
  BY <1>2, <1>3, CalmIs
<1> QED
  BY <1>1, <1>2, <1>3, <1>4, HolderIs

\* A request that resumes its caller.
LEMMA Resumes ==
    ASSUME Calm(Queues), NEW q, Alike(Queues, q), NEW s, Dispatch(q, s)
    PROVE  Calm(Queues') /\ SameReads(Queues, Queues')
<1>1. Calm(q) /\ q.state = Queues.state
  BY CalmAlike
<1>2. After(q)
  BY <1>1, CalmResumes
<1> QED
  BY <1>1, <1>2 DEF After, SameReads

LEMMA Answers ==
    ASSUME Calm(Queues), NEW r \in Rets, NEW s, Dispatch(Return(Queues, r), s)
    PROVE  Calm(Queues') /\ SameReads(Queues, Queues')
  BY ReturnAlike, Resumes

LEMMA RetsAre == {"result", "eax", "junk", "-1", "-99", "-561", "-512"} \subseteq Rets
  BY DEF Rets

LEMMA FailsGoes ==
    ASSUME DriverInv, Tables, Calm(Queues), Fails, UNCHANGED dvVars
    PROVE  RunsOn
<1>1. Calm(Queues') /\ SameReads(Queues, Queues')
  BY Answers, RetsAre DEF Fails
<1>2. kbd' = kbd /\ openedDvTable' = openedDvTable
  BY DEF dvVars
<1> QED
  BY <1>1, <1>2, LeavesDriver DEF RunsOn, Tables

\* The call through the table of a device that has no routines (c/di_calls.c:43).
LEMMA HangGoes ==
    ASSUME DriverInv, Tables', kbd' = kbd, Astray,
           NEW W, NEW q \in QueueSet(W), q.state = Queues.state, Dispatch(Hang(q), Signals)
    PROVE  RunsOn
<1>2. Hang(q) \in QueueSet(W)
  BY HangTypes
<1>3. Hang(q).p = NULL /\ Hang(q).state = Queues.state
  BY DEF Hang, QueueSet
<1>4. Queues' = Hang(q)
  BY <1>2, <1>3, DispatchEffect DEF Resumed
<1>5. SameReads(Queues, Queues') /\ Queues'.p = NULL
  BY <1>3, <1>4 DEF SameReads
<1>6. p' = NULL
  BY <1>5 DEF Queues
<1> QED
  BY <1>5, <1>6, LeavesDriver DEF RunsOn

LEMMA OpenStep ==
    ASSUME DvInv, 1 \notin FullOpens, ~WaitedFor, NEW d \in DeviceNos, Open(d)
    PROVE  RunsOn
<1>1. MayIssue("open") /\ p \in Readers
  BY DEF Open, MayCall
<1>2. /\ Calm(Queues) /\ DriverInv /\ Tables /\ p \in Slot
      /\ Queues.state[p] = "RUNNING" /\ ~(HolderBlocks /\ p = kbd.proc)
  BY <1>1, CallerIs
<1>3. CASE ~ValidDevice(d) /\ Fails /\ UNCHANGED dvVars
  BY <1>2, <1>3, FailsGoes
<1> DEFINE o == kbd_open(kbd, p, d = 1)
<1>4. ASSUME d \in Keyboards, kbd' = o.kbd, Calm(Queues'), SameReads(Queues, Queues'), Tables'
      PROVE  RunsOn
  <2>1. /\ o.wakes = FALSE /\ o.result \in {"ERROR", "DONE"}
        /\ o.kbd.proc = kbd.proc \/ (o.kbd.proc = p /\ ~kbd.open)
    <3>1. CASE kbd.open
      BY <3>1 DEF kbd_open, Failed, Outcome
    <3>2. CASE ~kbd.open
      BY <3>2 DEF kbd_open, Outcome, kbd_reset_state
    <3> QED
      BY <3>1, <3>2
  <2> HIDE DEF o
  <2>2. CallIs(o, p)
    BY <1>2, <1>4, <2>1, ReturnsCall
  <2>3. Alone!Open_(p)
    BY <1>2, <2>2, CallIsCalls, SameFunctions DEF Alone!Open_, Alone!Runs, o
  <2>4. Alone!Next_
    BY <1>1, <2>3 DEF Alone!Next_
  <2> QED
    BY <1>4, <2>4 DEF RunsOn
<1>5. CASE /\ ValidDevice(d) /\ FreeFd \in Fd
           /\ openedDvTable' = [openedDvTable EXCEPT ![p][FreeFd] = d]
           /\ kbd' = IF d \in Keyboards THEN o.kbd ELSE kbd
           /\ Dispatch(IF d \in Keyboards THEN Return(Queues, "result")
                       ELSE Hang(Queues), Signals)
  <2>1. Tables'
    <3>1. d \in Fd
      BY <1>5 DEF ValidDevice, Fd
    <3> QED
      BY <1>2, <1>5, <3>1 DEF Tables
  <2>2. CASE d \in Keyboards
    <3>1. Calm(Queues') /\ SameReads(Queues, Queues')
      BY <1>2, <1>5, <2>2, Answers, RetsAre
    <3> QED
      BY <1>4, <1>5, <2>1, <2>2, <3>1
  <2>3. CASE d \notin Keyboards
    <3>1. Queues \in QueueSet(Ptr)
      BY <1>2, CalmIs
    <3>2. Dispatch(Hang(Queues), Signals) /\ kbd' = kbd /\ Astray
      BY <1>5, <2>3 DEF Astray
    <3> QED
      BY <1>2, <2>1, <3>1, <3>2, HangGoes
  <2> QED
    BY <2>2, <2>3
<1>6. CASE /\ ValidDevice(d) /\ d \in FullOpens /\ waiting[p] = NULL
           /\ kbd' = IF d \in Keyboards THEN o.kbd ELSE kbd
           /\ Dispatch(IF d \in Keyboards THEN Return(Overrun(Queues, d), "result")
                       ELSE Hang(Overrun(Queues, d)), Signals)
           /\ UNCHANGED openedDvTable
           /\ d \notin Keyboards
  <2>1. Tables'
    BY <1>2, <1>6 DEF Tables
  <2>2. Queues \in QueueSet(Ptr) /\ Queues.p \in Slot
    BY <1>2, CalmIs
  <2> DEFINE u == Overrun(Queues, d)
  <2>3. u \in QueueSet(Ptr \cup {WILD}) /\ u.state = Queues.state
    BY <2>2 DEF Overrun, QueueSet, Ptr
  <2>4. Dispatch(Hang(u), Signals) /\ kbd' = kbd /\ Astray
    BY <1>6 DEF Astray
  <2> HIDE DEF u
  <2> QED
    BY <1>2, <2>1, <2>3, <2>4, HangGoes
<1>7. CASE /\ ValidDevice(d) /\ d \in FullOpens /\ waiting[p] = NULL
           /\ kbd' = IF d \in Keyboards THEN o.kbd ELSE kbd
           /\ Dispatch(IF d \in Keyboards THEN Return(Overrun(Queues, d), "result")
                       ELSE Hang(Overrun(Queues, d)), Signals)
           /\ UNCHANGED openedDvTable
           /\ d \in Keyboards
  <2>1. Tables' /\ d = 0
    BY <1>2, <1>7 DEF Tables, Keyboards
  <2>2. Alike(Queues, Return(Overrun(Queues, 0), "result"))
    <3>0. Queues.waiting[Queues.p] = NULL
      BY <1>7 DEF Queues
    <3>1. Alike(Queues, Overrun(Queues, 0)) /\ Calm(Overrun(Queues, 0))
      BY <1>2, <3>0, OverrunAlike, CalmAlike
    <3>2. Alike(Overrun(Queues, 0), Return(Overrun(Queues, 0), "result"))
      BY <3>1, ReturnAlike, RetsAre
    <3> QED
      BY <3>1, <3>2 DEF Alike
  <2>3. Calm(Queues') /\ SameReads(Queues, Queues')
    BY <1>2, <1>7, <2>1, <2>2, Resumes
  <2> QED
    BY <1>4, <1>7, <2>1, <2>3
<1> QED
  BY <1>3, <1>5, <1>6, <1>7 DEF Open

LEMMA CloseStep ==
    ASSUME DvInv, NEW fd, Close(fd)
    PROVE  RunsOn
<1>1. MayIssue("close") /\ p \in Readers
  BY DEF Close, MayCall
<1>2. /\ Calm(Queues) /\ DriverInv /\ Tables /\ p \in Slot
      /\ Queues.state[p] = "RUNNING" /\ ~(HolderBlocks /\ p = kbd.proc)
  BY <1>1, CallerIs
<1>3. CASE NotOpen(fd)
  BY <1>2, <1>3, FailsGoes DEF NotOpen
<1> DEFINE o == kbd_close(kbd)
<1>4. CASE /\ IsOpen(fd) /\ kbd' = o.kbd
           /\ IF o.result = "DONE"
              THEN /\ openedDvTable' = [openedDvTable EXCEPT ![p][fd] = Closed]
                   /\ Dispatch(Return(Queues, "result"), Signals)
              ELSE Fails /\ UNCHANGED openedDvTable
  <2>1. /\ o.wakes = FALSE /\ o.result # "BLOCK" /\ o.kbd.proc \in {kbd.proc, NoPcb}
    <3>1. CASE kbd.open
      BY <3>1 DEF kbd_close, Outcome, kbd_reset_state
    <3>2. CASE ~kbd.open
      BY <3>2 DEF kbd_close, Failed, Outcome
    <3> QED
      BY <3>1, <3>2
  <2> HIDE DEF o
  <2>2. Tables' /\ Calm(Queues') /\ SameReads(Queues, Queues')
    <3>1. CASE o.result = "DONE"
      <4>1. Tables'
        BY <1>2, <1>4, <3>1 DEF Tables, IsOpen, Closed
      <4> QED
        BY <1>2, <1>4, <3>1, <4>1, Answers, RetsAre
    <3>2. CASE o.result # "DONE"
      BY <1>2, <1>4, <3>2, Answers, RetsAre DEF Tables, Fails
    <3> QED
      BY <3>1, <3>2
  <2>3. CallIs(o, p)
    BY <1>2, <1>4, <2>1, <2>2, ReturnsCall
  <2>4. Alone!Close_(p)
    BY <1>2, <2>3, CallIsCalls, SameFunctions DEF Alone!Close_, Alone!Runs, o
  <2>5. Alone!Next_
    BY <1>1, <2>4 DEF Alone!Next_
  <2> QED
    BY <2>2, <2>5 DEF RunsOn
<1> QED
  BY <1>3, <1>4 DEF Close

LEMMA WriteStep ==
    ASSUME DvInv, NEW fd, Write(fd)
    PROVE  RunsOn
<1>1. MayIssue("write")
  BY DEF Write, MayCall
<1>2. Calm(Queues) /\ DriverInv /\ Tables
  BY <1>1, CallerIs
<1> QED
  BY <1>2, FailsGoes DEF Write

LEMMA IoctlStep ==
    ASSUME DvInv, NEW fd, NEW command, NEW c \in Char, Ioctl(fd, command, c)
    PROVE  RunsOn
<1>1. MayIssue("ioctl") /\ p \in Readers
  BY DEF Ioctl, MayCall
<1>2. /\ Calm(Queues) /\ DriverInv /\ Tables /\ p \in Slot
      /\ Queues.state[p] = "RUNNING" /\ ~(HolderBlocks /\ p = kbd.proc)
  BY <1>1, CallerIs
<1>3. CASE NotOpen(fd)
  BY <1>2, <1>3, FailsGoes DEF NotOpen
<1> DEFINE o == kbd_ioctl(kbd, command, c)
<1>4. CASE /\ kbd' = o.kbd
           /\ Dispatch(Return(Queues, IF o.result = "DONE" THEN "result" ELSE "-1"), Signals)
           /\ UNCHANGED openedDvTable
  <2>1. \/ command = "eof"
        \/ \E x \in {"echo_off", "echo_on", "unknown"} : o = kbd_ioctl(kbd, x, NUL)
    <3>1. CASE command \in {"echo_off", "echo_on"}
      BY <3>1 DEF kbd_ioctl
    <3>2. CASE command \notin {"eof", "echo_off", "echo_on"}
      <4>1. o = kbd_ioctl(kbd, "unknown", NUL)
        BY <3>2 DEF kbd_ioctl
      <4> QED
        BY <4>1
    <3> QED
      BY <3>1, <3>2
  <2>2. /\ o.wakes = FALSE /\ o.result # "BLOCK" /\ o.kbd.proc = kbd.proc
    <3>1. kbd \in Vars
      BY <1>2, KbdIs
    <3>2. /\ [kbd EXCEPT !.eof = c].proc = kbd.proc
          /\ [kbd EXCEPT !.echo = FALSE].proc = kbd.proc
          /\ [kbd EXCEPT !.echo = TRUE].proc = kbd.proc
      BY <3>1 DEF Vars
    <3>3. CASE command = "eof"
      BY <3>2, <3>3 DEF kbd_ioctl, Outcome
    <3>4. CASE command = "echo_off"
      BY <3>2, <3>4 DEF kbd_ioctl, Outcome
    <3>5. CASE command = "echo_on"
      BY <3>2, <3>5 DEF kbd_ioctl, Outcome
    <3>6. CASE command \notin {"eof", "echo_off", "echo_on"}
      BY <3>6 DEF kbd_ioctl, Failed, Outcome
    <3> QED
      BY <3>3, <3>4, <3>5, <3>6
  <2> HIDE DEF o
  <2>3. Calm(Queues') /\ SameReads(Queues, Queues')
    BY <1>2, <1>4, Answers, RetsAre
  <2>4. CallIs(o, p)
    BY <1>2, <1>4, <2>2, <2>3, ReturnsCall
  <2>5. \/ Alone!Ioctl_(p, "eof", c)
        \/ \E x \in {"echo_off", "echo_on", "unknown"} : Alone!Ioctl_(p, x, NUL)
    BY <1>2, <2>1, <2>4, CallIsCalls, SameFunctions DEF Alone!Ioctl_, Alone!Runs, o
  <2>6. Alone!Next_
    BY <1>1, <2>5, SameFunctions DEF Alone!Next_
  <2> QED
    BY <1>2, <1>4, <2>3, <2>6 DEF RunsOn, Tables
<1> QED
  BY <1>3, <1>4 DEF Ioctl

\* The driver's result for the reader does not matter to the lists.
LEMMA DriveAlike ==
    ASSUME NEW q, Calm(q), NEW o, ~o.wakes, o.kbd.proc \in Slot \cup {NoPcb}
    PROVE  Alike(q, Drive(q, o))
<1>1. q \in QueueSet(Ptr)
  BY CalmIs
<1>2. CASE o.ret = NoRet \/ o.kbd.proc = NoPcb
  BY <1>1, <1>2 DEF Drive, Alike
<1>3. CASE ~(o.ret = NoRet \/ o.kbd.proc = NoPcb)
  <2>1. o.kbd.proc \in Slot /\ Drive(q, o) = [q EXCEPT !.ret[o.kbd.proc] = "result"]
    BY <1>3 DEF Drive
  <2> QED
    BY <1>1, <2>1, ResultAlike, RetsAre
<1> QED
  BY <1>2, <1>3

\* The driver readies the reader, which is blocked, and the process that runs goes on.
LEMMA WakesReader ==
    ASSUME DriverInv, Calm(Queues), NEW q, Alike(Queues, q), NEW o, o.wakes, HolderBlocks,
           o.kbd.proc = kbd.proc, kbd' = o.kbd, NEW s, Dispatch(Drive(q, o), s), NEW i
    PROVE  Calm(Queues') /\ CallIs(o, i)
<1> DEFINE r == IF o.ret = NoRet THEN q ELSE [q EXCEPT !.ret[kbd.proc] = "result"]
<1>1. kbd.proc \in Slot /\ kbd.proc # NoPcb /\ Queues.state[kbd.proc] = "BLOCKED_READING"
  BY KbdIs, HolderIs
<1>2. Calm(q) /\ q.state = Queues.state /\ q \in QueueSet(Ptr)
  BY CalmAlike, CalmIs
<1>3. Drive(q, o) = ready(r, kbd.proc)
  BY <1>1 DEF Drive
<1>4. Alike(q, r)
  <2>1. CASE o.ret = NoRet
    BY <1>2, <2>1 DEF Alike
  <2>2. CASE o.ret # NoRet
    BY <1>1, <1>2, <2>2, ResultAlike, RetsAre
  <2> QED
    BY <2>1, <2>2
<1> HIDE DEF r
<1>5. Calm(r) /\ r.state = Queues.state /\ r.state[kbd.proc] = "BLOCKED_READING"
      /\ r.state \in [Slot -> States]
  BY <1>1, <1>2, <1>4, CalmAlike, CalmIs
<1> DEFINE t == ready(r, kbd.proc)
<1>6. Calm(t) /\ t.state = [r.state EXCEPT ![kbd.proc] = "READY"]
  BY <1>1, <1>5, CalmReadied
<1>7. Dispatch(t, s)
  BY <1>3
<1> HIDE DEF t
<1>8. After(t)
  BY <1>6, <1>7, CalmResumes
<1>9. HolderBlocks' = FALSE
  <2>1. t.state[kbd.proc] = "READY" /\ kbd'.proc = kbd.proc
    BY <1>1, <1>5, <1>6
  <2> QED
    BY <1>1, <1>8, <2>1, HolderIs DEF After, SameReads
<1> QED
  BY <1>8, <1>9 DEF CallIs, After

\* A read fails, is over at once, blocks its caller or readies the holder that is blocked.
LEMMA ReadStep ==
    ASSUME DvInv, ~WakesUnblocked, NEW fd, NEW ok \in BOOLEAN, NEW n,
           n \in ReadLens \/ (~ok /\ n = 0), Read(fd, ok, n)
    PROVE  RunsOn
<1>1. MayIssue("read") /\ p \in Readers
  BY DEF Read, MayCall
<1>2. /\ Calm(Queues) /\ DriverInv /\ Tables /\ p \in Slot /\ p # Idle /\ Queues.p = p
      /\ Queues.state[p] = "RUNNING" /\ ~(HolderBlocks /\ p = kbd.proc)
      /\ Queues.state \in [Slot -> States]
  BY <1>1, CallerIs, CalmIs
<1>3. CASE NotOpen(fd)
  BY <1>2, <1>3, FailsGoes DEF NotOpen
<1> DEFINE o == kbd_read(kbd, ok, n)
<1>4. CASE /\ o.wakes => HolderBlocks
           /\ kbd' = o.kbd
           /\ Dispatch(AfterRead(Drive(Queues, o), o), Signals)
           /\ UNCHANGED openedDvTable
  <2>1. /\ VarsOK(kbd) /\ kbd.proc \in Slot \cup {NoPcb} /\ kbd.open = (kbd.proc # NoPcb)
        /\ HolderBlocks => kbd.proc # NoPcb
    BY <1>2, KbdIs
  <2>2. /\ o.kbd.proc = kbd.proc /\ o.wakes \in BOOLEAN
        /\ o.result \in {"ERROR", "DONE", "BLOCK"}
        /\ o.wakes => o.result = "DONE"
    BY <2>1, ReadKeepsProc
  <2> DEFINE d == Drive(Queues, o)
             s == [d EXCEPT !.state[d.p] = "BLOCKED_READING"]
  <2>3. ~ok => o = Failed(kbd)
    BY DEF kbd_read
  <2>4. Alone!Runs(p) /\ (\A r : CallIs(r, p) => Alone!Calls_(r, p))
    BY <1>2, CallIsCalls DEF Alone!Runs
  <2>5. CallIs(o, p) => Alone!Next_
    <3>1. CASE n \in ReadLens /\ ok
      <4>1. CallIs(o, p) => Alone!Read_(p, n)
        BY <2>4, <3>1, SameRead DEF Alone!Read_
      <4> QED
        BY <1>1, <3>1, <4>1 DEF Alone!Next_
    <3>2. CASE ~ok
      <4>1. o = kbd_read(kbd, FALSE, 0)
        BY <2>3, <3>2 DEF kbd_read
      <4>2. CallIs(o, p) => Alone!BadRead_(p)
        BY <2>4, <4>1, SameRead DEF Alone!BadRead_
      <4> QED
        BY <1>1, <4>2 DEF Alone!Next_
    <3> QED
      BY <3>1, <3>2
  <2> HIDE DEF o
  <2>6. CASE o.wakes
    <3>1. Dispatch(Drive(Queues, o), Signals)
      BY <1>4, <2>2, <2>6 DEF AfterRead
    <3>2. Alike(Queues, Queues)
      BY <1>2, CalmIs DEF Alike
    <3>3. Calm(Queues') /\ CallIs(o, p)
      BY <1>2, <1>4, <2>2, <2>6, <3>1, <3>2, WakesReader
    <3> QED
      BY <1>2, <1>4, <2>5, <3>3 DEF RunsOn, Tables
  <2>7. ASSUME ~o.wakes
        PROVE  Alike(Queues, d) /\ Calm(d) /\ d.state = Queues.state /\ d.p = p
    <3>1. Alike(Queues, d)
      BY <1>2, <2>1, <2>2, <2>7, DriveAlike
    <3> HIDE DEF d
    <3> QED
      BY <1>2, <3>1, CalmAlike
  <2> HIDE DEF d
  <2>8. CASE ~o.wakes /\ o.result = "BLOCK"
    <3>1. Dispatch(switch(s), Signals)
      BY <1>4, <2>8 DEF AfterRead, d
    <3>2. (\E L : Blocked(s, L))
          /\ s.state = [Queues.state EXCEPT ![p] = "BLOCKED_READING"]
      BY <1>2, <2>7, <2>8, CalmBlocks
    <3> HIDE DEF s
    <3>3. After(s)
      BY <3>1, <3>2, CalmSwitches
    <3>4. \A i \in Slot : Queues'.state[i] = "BLOCKED_READING"
                          <=> (i = p \/ Queues.state[i] = "BLOCKED_READING")
      BY <1>2, <3>2, <3>3 DEF After, SameReads
    <3>5. HolderBlocks' = (kbd.proc # NoPcb /\ (HolderBlocks \/ p = kbd.proc))
      <4>1. kbd'.proc = kbd.proc
        BY <1>4, <2>2
      <4> QED
        BY <2>1, <3>4, <4>1, HolderIs
    <3>6. CallIs(o, p)
      BY <1>4, <2>2, <2>8, <3>5 DEF CallIs
    <3> QED
      BY <1>2, <1>4, <2>5, <3>3, <3>6 DEF RunsOn, After, Tables
  <2>9. CASE ~o.wakes /\ o.result # "BLOCK"
    <3>1. Calm(Queues') /\ SameReads(Queues, Queues')
      <4>1. CASE o.result = "ERROR"
        <5>1. Alike(d, Return(d, "-1"))
          BY <2>7, <2>9, ReturnAlike, RetsAre
        <5>2. Alike(Queues, Return(d, "-1"))
          BY <2>7, <2>9, <5>1 DEF Alike
        <5>3. Dispatch(Return(d, "-1"), Signals)
          BY <1>4, <4>1 DEF AfterRead, d
        <5> QED
          BY <1>2, <5>2, <5>3, Resumes
      <4>2. CASE o.result = "DONE"
        <5>1. Dispatch(d, Signals)
          BY <1>4, <4>2 DEF AfterRead, d
        <5> QED
          BY <1>2, <2>7, <2>9, <5>1, Resumes
      <4> QED
        BY <2>2, <2>9, <4>1, <4>2
    <3>2. CallIs(o, p)
      BY <1>2, <1>4, <2>2, <2>9, <3>1, ReturnsCall
    <3> QED
      BY <1>2, <1>4, <2>5, <3>1, <3>2 DEF RunsOn, Tables
  <2> QED
    BY <2>2, <2>6, <2>8, <2>9
<1> QED
  BY <1>3, <1>4 DEF Read, Permitted

\* The keyboard interrupt, with or without a holder of the keyboard: the process that runs
\* goes on, and the reader is readied when the driver says so, if that is blocked.
LEMMA KeyStep ==
    ASSUME DvInv, ~WakesUnblocked, NEW c \in Char \cup {NoKey}, Keyboard(c)
    PROVE  RunsOn
<1>1. /\ p # NULL /\ UNCHANGED openedDvTable
      /\ DriverInv /\ Tables /\ Calm(Queues)
  BY DEF Keyboard, DvInv, ListsCalm
<1> DEFINE o == kbd_int_read(kbd, c, HolderBlocks)
           q == Return(Queues, "eax")
           b == [q EXCEPT !.state[p] = "BLOCKED_READING"]
<1>2. /\ kbd' = o.kbd /\ (o.wakes => HolderBlocks)
      /\ Dispatch(Drive(IF o.result = "BLOCK" THEN b ELSE q, o), Signals)
  BY DEF Keyboard, Permitted
<1>3. /\ VarsOK(kbd) /\ kbd \in Vars /\ kbd.proc \in Slot \cup {NoPcb}
      /\ HolderBlocks \in BOOLEAN
  BY <1>1, KbdIs
<1>4. /\ o.kbd.proc = kbd.proc /\ o.result = IF o.wakes THEN "DONE" ELSE "BLOCK"
      /\ o.wakes \in BOOLEAN
  BY <1>3, InterruptKeepsProc
<1>5. CallIs(o, NoPcb) => Alone!Next_
  <2>1. CallIs(o, NoPcb) => Alone!Interrupt_(c)
    BY <1>1, CallIsCalls, SameInterrupt, SameFunctions DEF Alone!Interrupt_
  <2> QED
    BY <2>1, SameFunctions DEF Alone!Next_
<1>6. Alike(Queues, q) /\ Calm(q) /\ q.state = Queues.state /\ q.p = p
      /\ q \in QueueSet(Ptr) /\ p \in Slot /\ q.state[p] = "RUNNING"
      /\ q.state \in [Slot -> States]
  <2>1. Queues.p = p
    BY DEF Queues
  <2>2. Alike(Queues, q)
    BY <1>1, ReturnAlike, RetsAre
  <2> HIDE DEF q
  <2>3. Calm(q) /\ q.state = Queues.state /\ q.p = p
    BY <1>1, <2>1, <2>2, CalmAlike
  <2> QED
    BY <2>2, <2>3, CalmIs
<1> HIDE DEF o, q
<1>7. CASE o.wakes
  <2>1. Dispatch(Drive(q, o), Signals)
    BY <1>2, <1>4, <1>7
  <2>2. Calm(Queues') /\ CallIs(o, NoPcb)
    BY <1>1, <1>2, <1>4, <1>6, <1>7, <2>1, WakesReader
  <2> QED
    BY <1>1, <1>5, <2>2 DEF RunsOn, Tables
<1>8. CASE ~o.wakes
  <2> DEFINE d == Drive(q, o)
             e == Drive(b, o)
  <2>1. Dispatch(e, Signals)
    BY <1>2, <1>4, <1>8
  <2>2. Alike(q, d)
    BY <1>3, <1>4, <1>6, <1>8, DriveAlike
  <2>3. Calm(d) /\ d.state = Queues.state /\ d.p = p /\ d \in QueueSet(Ptr)
    <3> HIDE DEF d
    <3> QED
      BY <1>6, <2>2, CalmAlike DEF Alike
  <2>4. e = [d EXCEPT !.state[p] = "BLOCKED_READING"]
    <3>1. CASE o.ret = NoRet \/ o.kbd.proc = NoPcb
      BY <1>4, <1>8, <3>1 DEF Drive
    <3>2. CASE ~(o.ret = NoRet \/ o.kbd.proc = NoPcb)
      BY <1>4, <1>6, <1>8, <3>2 DEF Drive, QueueSet
    <3> QED
      BY <3>1, <3>2
  <2> HIDE DEF d, e
  <2>5. e \in QueueSet(Ptr) /\ e.p = p /\ Resumed(e) = Resumed(d)
    <3>1. e \in QueueSet(Ptr) /\ e.p = p
      BY <1>6, <2>3, <2>4 DEF QueueSet, States
    <3>2. [e EXCEPT !.state[p] = "RUNNING"] = [d EXCEPT !.state[p] = "RUNNING"]
      BY <1>6, <2>3, <2>4 DEF QueueSet, States
    <3> QED
      BY <1>1, <2>3, <3>1, <3>2 DEF Resumed
  <2>6. Queues' = Resumed(d)
    BY <2>1, <2>5, DispatchEffect
  <2>7. Calm(Queues') /\ SameReads(Queues, Queues')
    BY <2>3, <2>6, CalmResumed DEF SameReads
  <2>8. HolderBlocks' = HolderBlocks
    <3>1. kbd'.proc = kbd.proc
      BY <1>2, <1>4
    <3> QED
      BY <1>3, <2>7, <3>1, HolderIs DEF SameReads
  <2>9. CallIs(o, NoPcb)
    BY <1>2, <1>3, <1>4, <1>8, <2>8, HolderIs DEF CallIs
  <2> QED
    BY <1>1, <1>5, <2>7, <2>9 DEF RunsOn, Tables
<1> QED
  BY <1>4, <1>7, <1>8

LEMMA CreateStep ==
    ASSUME DvInv, createDv
    PROVE  RunsOn
<1>1. create /\ kbd' = kbd
  BY DEF createDv
<1>2. /\ Calm(Queues) /\ DriverInv /\ Tables /\ Queues.state = state
  BY <1>1, CallerIs DEF create
<1>3. Calm(Queues') /\ SameReads(Queues, Queues')
  <2>1. CASE Dispatch(Return(Queues, "-1"), Signals)
    BY <1>2, <2>1, Answers, RetsAre
  <2>2. ASSUME NEW i \in Slot, state[i] = "STOPPED",
               Dispatch(Return(ready(Emptied(Queues, i), i), "result"), initSignals(Signals, i))
        PROVE  Calm(Queues') /\ SameReads(Queues, Queues')
    <3> DEFINE r == ready(Emptied(Queues, i), i)
    <3>1. Calm(r) /\ SameReads(Queues, r)
      BY <1>2, <2>2, CalmCreates
    <3> HIDE DEF r
    <3>2. Alike(r, Return(r, "result"))
      BY <3>1, ReturnAlike, RetsAre
    <3>3. Calm(Return(r, "result")) /\ Return(r, "result").state = r.state
      BY <3>1, <3>2, CalmAlike
    <3>4. After(Return(r, "result"))
      BY <2>2, <3>3, CalmResumes DEF r
    <3> QED
      BY <3>1, <3>3, <3>4 DEF After, SameReads
  <2> QED
    BY <1>1, <2>1, <2>2 DEF create, Emptied
<1>4. Tables'
  <2>1. [fd \in Fd |-> Closed] \in [Fd -> Fd \cup {Closed}]
    OBVIOUS
  <2> QED
    BY <1>2, <2>1 DEF createDv, Tables
<1> QED
  BY <1>1, <1>2, <1>3, <1>4, LeavesDriver DEF RunsOn

\* A signal readies a process that is blocked in a read, and not one that is ready.
LEMMA KillStep ==
    ASSUME DvInv, KillStates \subseteq {"READY", "BLOCKED_READING"}, NEW target, NEW n,
           Kill(target, n), UNCHANGED dvVars
    PROVE  RunsOn
<1>1. /\ Calm(Queues) /\ DriverInv /\ Tables /\ Queues.state = state
      /\ Queues \in QueueSet(Ptr) /\ kbd' = kbd /\ Tables' /\ Queues.p = p
  BY CallerIs DEF Kill, dvVars, Tables
<1>2. ASSUME NEW r \in Rets, Dispatch(Return(Queues, r), Signals)  PROVE RunsOn
  BY <1>1, <1>2, Answers, LeavesDriver DEF RunsOn
<1>3. ASSUME NEW i, i = findPCB(target), i # NULL, state[i] \in KillStates,
             Dispatch(Return(unblock(Queues, i), "result"), mark(Signals, i, n))
      PROVE  RunsOn
  <2> DEFINE u == [Queues EXCEPT !.ret[i] = "-99"]
             v == unblock(Queues, i)
  <2>1. i \in Slot
    BY <1>3, FindTypes
  <2>2. Alike(Queues, u)
    BY <1>1, <2>1, ResultAlike, RetsAre
  <2>3. v = IF u.state[i] = "READY" THEN u ELSE ready(u, i)
    BY DEF unblock
  <2> HIDE DEF u, v
  <2>4. Calm(u) /\ u.state = state
    BY <1>1, <2>2, CalmAlike
  <2>5. ASSUME Calm(v)
        PROVE  /\ Calm(Queues')
               /\ \A j \in Slot : Queues'.state[j] = "BLOCKED_READING"
                                  <=> v.state[j] = "BLOCKED_READING"
    <3>1. Alike(v, Return(v, "result"))
      BY <2>5, ReturnAlike, RetsAre
    <3>2. Calm(Return(v, "result")) /\ Return(v, "result").state = v.state
      BY <2>5, <3>1, CalmAlike
    <3>3. After(Return(v, "result"))
      BY <1>3, <3>2, CalmResumes DEF v
    <3> QED
      BY <3>2, <3>3 DEF After, SameReads
  <2>6. CASE state[i] = "READY"
    <3>1. v = u
      BY <2>3, <2>4, <2>6
    <3>2. Calm(Queues') /\ SameReads(Queues, Queues')
      BY <1>1, <2>4, <2>5, <3>1 DEF SameReads
    <3> QED
      BY <1>1, <3>2, LeavesDriver DEF RunsOn
  <2>7. CASE state[i] = "BLOCKED_READING"
    <3>1. v = ready(u, i)
      BY <2>3, <2>4, <2>7
    <3>2. Calm(v) /\ v.state = [state EXCEPT ![i] = "READY"]
      BY <2>1, <2>4, <2>7, <3>1, CalmReadied
    <3>3. state \in [Slot -> States]
      BY <1>1, CalmIs
    <3>4. Calm(Queues') /\ \A j \in Slot : Queues'.state[j] = "BLOCKED_READING"
                               <=> (j # i /\ state[j] = "BLOCKED_READING")
      BY <2>5, <3>2, <3>3
    <3>5. kbd.proc \in Slot \cup {NoPcb}
      BY <1>1, KbdIs
    <3>6. CASE kbd.proc = i
      <4>1. HolderBlocks /\ HolderBlocks' = FALSE
        <5>1. i # NoPcb
          BY <2>1 DEF NoPcb, Slot
        <5> QED
          BY <1>1, <2>1, <2>7, <3>4, <3>6, <5>1, HolderIs
      <4>2. Alone!Woken_
        BY <1>1, <4>1 DEF Alone!Woken_
      <4> QED
        BY <1>1, <3>4, <4>2 DEF RunsOn, Alone!Next_
    <3>7. CASE kbd.proc # i
      <4>1. HolderBlocks' = HolderBlocks
        BY <1>1, <3>4, <3>5, <3>7, HolderIs
      <4> QED
        BY <1>1, <3>4, <4>1 DEF RunsOn, Alone!kbdVars
    <3> QED
      BY <3>6, <3>7
  <2> QED
    BY <1>3, <2>6, <2>7
<1> QED
  BY <1>2, <1>3, RetsAre DEF Kill

LEMMA OtherStep ==
    ASSUME DvInv, KillStates \subseteq {"READY", "BLOCKED_READING"}, Other
    PROVE  RunsOn
<1>1. kbd' = kbd /\ openedDvTable' = openedDvTable /\ UNCHANGED dvVars
  BY DEF Other, dvVars
<1>2. ASSUME p # NULL
      PROVE  Calm(Queues) /\ DriverInv /\ Tables' /\ Queues.p = p /\ Queues.state = state
  BY <1>1, <1>2 DEF DvInv, ListsCalm, Tables, Queues
\* The process that runs is put off, or blocked, and next() takes another.
<1>3. ASSUME p # NULL, NEW q, SameReads(Queues, q), \E L : Blocked(q, L),
             NEW s, Dispatch(switch(q), s)
      PROVE  RunsOn
  <2>1. After(q)
    BY <1>3, CalmSwitches
  <2>2. Calm(Queues') /\ SameReads(Queues, Queues')
    BY <1>3, <2>1 DEF After, SameReads
  <2> QED
    BY <1>1, <1>2, <1>3, <2>2, LeavesDriver DEF RunsOn
\* The process that runs gets a result.
<1>10. ASSUME p # NULL, NEW r \in Rets, NEW s, Dispatch(Return(Queues, r), s)
       PROVE  RunsOn
  <2>1. Calm(Queues') /\ SameReads(Queues, Queues')
    BY <1>2, <1>10, Answers
  <2> QED
    BY <1>1, <1>2, <1>10, <2>1, LeavesDriver DEF RunsOn
<1>4. CASE Yield
  <2>1. p # NULL /\ Dispatch(switch(ready(Queues, p)), Signals)
    BY <1>4 DEF Yield, MayIssue
  <2>2. (\E L : Blocked(ready(Queues, p), L)) /\ SameReads(Queues, ready(Queues, p))
    BY <1>2, <2>1, CalmYields
  <2> QED
    BY <1>3, <2>1, <2>2
<1>5. CASE Timer
  <2>1. p # NULL
    BY <1>5 DEF Timer
  <2> DEFINE q == Return(Queues, "eax")
  <2>2. Dispatch(IF tick(q).p = NULL THEN tick(q) ELSE switch(ready(tick(q), p)), Signals)
    BY <1>5 DEF Timer
  <2>3. Alike(Queues, q)
    BY <1>2, <2>1, ReturnAlike, RetsAre
  <2> HIDE DEF q
  <2>4. Calm(q) /\ q.state = state /\ q.p = p
    BY <1>2, <2>1, <2>3, CalmAlike
  <2>5. Calm(tick(q)) /\ SameReads(q, tick(q)) /\ tick(q).p = p
    BY <2>4, CalmTicks
  <2> DEFINE t == tick(q)
  <2> HIDE DEF t
  <2>6. (\E L : Blocked(ready(t, p), L)) /\ SameReads(t, ready(t, p))
    BY <2>5, CalmYields DEF t
  <2>7. SameReads(Queues, ready(t, p))
    BY <1>2, <2>1, <2>4, <2>5, <2>6 DEF SameReads, t
  <2>8. Dispatch(switch(ready(t, p)), Signals)
    BY <2>1, <2>2, <2>5 DEF t
  <2> QED
    BY <1>3, <2>1, <2>6, <2>7, <2>8
<1>6. CASE Stop
  <2>1. /\ p # NULL /\ p # Idle
        /\ Dispatch(switch(removeWaiting([Queues EXCEPT !.state[p] = "STOPPED"], p)), Signals)
    BY <1>6 DEF Stop, MayIssue
  <2> DEFINE r == removeWaiting([Queues EXCEPT !.state[p] = "STOPPED"], p)
  <2>2. (\E L : Blocked(r, L)) /\ SameReads(Queues, r)
    BY <1>2, <2>1, CalmStops
  <2>3. Dispatch(switch(r), Signals)
    BY <2>1
  <2> HIDE DEF r
  <2> QED
    BY <1>3, <2>1, <2>2, <2>3
<1>7. ASSUME NEW ms \in Lens, Sleep(ms)  PROVE RunsOn
  <2>1. p # NULL /\ p # Idle /\ Dispatch(switch(sleep(Queues, p, ms)), Signals) /\ ms \in Nat
    BY <1>7, KernelAssumption DEF Sleep, MayIssue
  <2>2. (\E L : Blocked(sleep(Queues, p, ms), L)) /\ SameReads(Queues, sleep(Queues, p, ms))
    BY <1>2, <2>1, CalmSleeps
  <2> QED
    BY <1>3, <2>1, <2>2
<1>8. ASSUME NEW target, Wait(target)  PROVE RunsOn
  <2>1. p # NULL /\ p # Idle
    BY <1>8 DEF Wait, MayIssue
  <2> DEFINE s == [Queues EXCEPT !.state[p] = "WAITING"]
             t(f) == [addToWaiting(Queues, f, p) EXCEPT !.state[p] = "WAITING"]
  <2>2. /\ \E L : Blocked(s, L)
        /\ SameReads(Queues, s)
        /\ \A f \in Slot : Queues.state[f] # "STOPPED" =>
              (\E L : Blocked(t(f), L)) /\ SameReads(Queues, t(f))
    BY ZenonT(40), <1>2, <2>1, CalmWaits
  <2>3. \/ Dispatch(Return(Queues, "-1"), Signals)
        \/ Dispatch(switch(s), Signals)
        \/ \E f \in Slot : state[f] # "STOPPED" /\ Dispatch(switch(t(f)), Signals)
    BY <1>8, FindTypes DEF Wait
  <2> HIDE DEF s, t
  <2>4. CASE Dispatch(Return(Queues, "-1"), Signals)
    BY <1>10, <2>1, <2>4, RetsAre
  <2>5. CASE Dispatch(switch(s), Signals)
    BY <1>3, <2>1, <2>2, <2>5
  <2>6. ASSUME NEW f \in Slot, state[f] # "STOPPED", Dispatch(switch(t(f)), Signals)
        PROVE  RunsOn
    <3>1. (\E L : Blocked(t(f), L)) /\ SameReads(Queues, t(f))
      BY <1>2, <2>1, <2>2, <2>6
    <3> QED
      BY <1>3, <2>1, <2>6, <3>1
  <2> QED
    BY <2>3, <2>4, <2>5, <2>6
<1>9. ASSUME NEW target, NEW n, Kill(target, n)  PROVE RunsOn
  BY <1>1, <1>9, KillStep
<1>11. CASE Query
  BY <1>10, <1>11, RetsAre DEF Query, MayIssue
<1>12. CASE SigReturn
  BY <1>10, <1>12, RetsAre DEF SigReturn, MayIssue
<1>13. ASSUME NEW n, NEW own, sighandler(n, own)  PROVE RunsOn
  BY <1>10, <1>13, RetsAre DEF sighandler, MayIssue
<1> QED
  BY <1>4, <1>5, <1>6, <1>7, <1>8, <1>9, <1>11, <1>12, <1>13 DEF Other

-----------------------------------------------------------------------------
LEMMA DvStart ==
    ASSUME InitDv
    PROVE  DvInv /\ Calm(Queues) /\ Alone!Init_
<1>1. Init /\ kbd = kbd_reset_state
  BY DEF InitDv
<1>2. HolderBlocks = FALSE
  BY <1>1 DEF HolderBlocks, kbd_reset_state
<1>3. DriverInv
  BY <1>1, <1>2, ResetGood DEF DriverInv, Inv
<1>4. Tables
  <2>1. 0 \in Fd
    BY DevicesAssumption DEF Fd
  <2> QED
    BY <2>1 DEF InitDv, Tables
<1>5. Calm(Queues)
  BY <1>1, FirstLists DEF Calm
<1>6. Alone!Init_
  BY <1>1, <1>2, SameFunctions DEF Alone!Init_
<1> QED
  BY <1>3, <1>4, <1>5, <1>6 DEF DvInv, ListsCalm

LEMMA DvStep ==
    ASSUME KillStates \subseteq {"READY", "BLOCKED_READING"}, 1 \notin FullOpens,
           ~WaitedFor, ~WakesUnblocked, DvInv, [NextDv]_allVars
    PROVE  /\ DvInv' /\ [Alone!Next_]_(Alone!kbdVars)
           /\ Calm(Queues) => Calm(Queues') \/ Astray
<1>1. CASE NextDv
  <2>1. RunsOn
    <3>1. CASE createDv
      BY <3>1, CreateStep
    <3>2. CASE Other
      BY <3>2, OtherStep
    <3>3. CASE \E d \in DeviceNos : Open(d)
      BY <3>3, OpenStep
    <3>4. ASSUME NEW fd \in Fd \cup {-1, NUM_FD},
                 \/ Close(fd) \/ Write(fd) \/ Read(fd, FALSE, 0)
                 \/ \E buflen \in ReadLens : Read(fd, TRUE, buflen)
                 \/ \E command \in Commands : \E c \in Char : Ioctl(fd, command, c)
          PROVE  RunsOn
      <4>1. ASSUME Read(fd, FALSE, 0)  PROVE RunsOn
        BY <4>1, ReadStep
      <4>2. ASSUME NEW buflen \in ReadLens, Read(fd, TRUE, buflen)  PROVE RunsOn
        BY <4>2, ReadStep
      <4> QED
        BY <3>4, <4>1, <4>2, CloseStep, WriteStep, IoctlStep
    <3>5. CASE \E c \in Char \cup {NoKey} : Keyboard(c)
      BY <3>5, KeyStep
    <3> QED
      BY <1>1, <3>1, <3>2, <3>3, <3>4, <3>5 DEF NextDv
  <2>2. DriverInv'
    BY <2>1, DriverStep DEF DvInv, RunsOn
  <2>3. ListsCalm'
    BY <2>1 DEF RunsOn, ListsCalm
  <2> QED
    BY <2>1, <2>2, <2>3 DEF DvInv, RunsOn
<1>2. CASE UNCHANGED allVars
  <2>1. Queues' = Queues /\ kbd' = kbd /\ openedDvTable' = openedDvTable /\ p' = p
    BY <1>2 DEF allVars, vars, lists, dvVars, Queues
  <2>2. HolderBlocks' = HolderBlocks
    BY <2>1, HolderIs
  <2> QED
    BY <2>1, <2>2 DEF DvInv, DriverInv, Tables, ListsCalm, Alone!kbdVars
<1> QED
  BY <1>1, <1>2

LEMMA DvAlways ==
    ASSUME KillStates \subseteq {"READY", "BLOCKED_READING"}, 1 \notin FullOpens,
           ~WaitedFor, ~WakesUnblocked
    PROVE  DvSpec => []DvInv
  BY DvStart, DvStep, PTL DEF DvSpec

-----------------------------------------------------------------------------
(* The types, which hold also where the lists do not                        *)

TypesInv == VarsOK(kbd) /\ Tables

LEMMA TablesStep ==
    ASSUME TypesInv, [NextDv]_allVars
    PROVE  TypesInv'
<1>0. VarsOK(kbd) /\ Tables /\ HolderBlocks \in BOOLEAN
  BY DEF TypesInv, HolderBlocks
<1>1. CASE UNCHANGED dvVars
  BY <1>0, <1>1 DEF dvVars, TypesInv, Tables
<1>2. ASSUME openedDvTable' = openedDvTable, VarsOK(kbd')  PROVE TypesInv'
  BY <1>0, <1>2 DEF TypesInv, Tables
<1>3. CASE createDv
  <2>1. [fd \in Fd |-> Closed] \in [Fd -> Fd \cup {Closed}]
    OBVIOUS
  <2> QED
    BY <1>0, <1>3, <2>1 DEF createDv, TypesInv, Tables
<1>4. CASE Other
  BY <1>1, <1>4 DEF Other
<1>5. ASSUME NEW d \in DeviceNos, Open(d)  PROVE TypesInv'
  <2>1. p \in Readers
    BY <1>5 DEF Open, MayCall
  <2>2. VarsOK(kbd_open(kbd, p, d = 1).kbd)
    BY <1>0, <2>1, OpenTypes
  <2>3. UNCHANGED dvVars \/ (kbd' = IF d \in Keyboards THEN kbd_open(kbd, p, d = 1).kbd ELSE kbd)
    BY <1>5 DEF Open
  <2>4. CASE UNCHANGED dvVars
    BY <1>1, <2>4
  <2>5. CASE ~UNCHANGED dvVars
    <3>1. VarsOK(kbd')
      BY <1>0, <2>2, <2>3, <2>5
    <3>2. ValidDevice(d) => d \in Fd
      BY DEF ValidDevice, Fd
    <3>3. \/ openedDvTable' = openedDvTable
          \/ ValidDevice(d) /\ openedDvTable' = [openedDvTable EXCEPT ![p][FreeFd] = d]
      BY <1>5, <2>5 DEF Open, dvVars
    <3>4. Tables'
      BY <1>0, <3>2, <3>3 DEF Tables
    <3> QED
      BY <3>1, <3>4 DEF TypesInv
  <2> QED
    BY <2>4, <2>5
<1>6. ASSUME NEW fd, Close(fd)  PROVE TypesInv'
  <2>1. VarsOK(kbd_close(kbd).kbd)
    BY <1>0, CloseTypes
  <2>2. CASE UNCHANGED dvVars
    BY <1>1, <2>2
  <2>3. CASE /\ kbd' = kbd_close(kbd).kbd
             /\ \/ openedDvTable' = [openedDvTable EXCEPT ![p][fd] = Closed]
                \/ openedDvTable' = openedDvTable
    <3>1. Closed \in Fd \cup {Closed}
      OBVIOUS
    <3> QED
      BY <1>0, <2>1, <2>3, <3>1 DEF TypesInv, Tables
  <2> QED
    BY <1>6, <2>2, <2>3 DEF Close, NotOpen
<1>7. ASSUME NEW fd, NEW ok \in BOOLEAN, NEW n, n \in ReadLens \/ ~ok, Read(fd, ok, n)
      PROVE  TypesInv'
  <2>1. VarsOK(kbd_read(kbd, ok, n).kbd)
    BY <1>0, <1>7, ReadTypes
  <2>2. \/ UNCHANGED dvVars
        \/ kbd' = kbd_read(kbd, ok, n).kbd /\ openedDvTable' = openedDvTable
    BY <1>7 DEF Read, NotOpen
  <2> QED
    BY <1>1, <1>2, <2>1, <2>2
<1>8. ASSUME NEW fd, Write(fd)  PROVE TypesInv'
  BY <1>1, <1>8 DEF Write
<1>9. ASSUME NEW fd, NEW command, NEW c \in Char, Ioctl(fd, command, c)  PROVE TypesInv'
  <2>1. VarsOK(kbd_ioctl(kbd, command, c).kbd)
    BY <1>0, IoctlTypes
  <2>2. \/ UNCHANGED dvVars
        \/ kbd' = kbd_ioctl(kbd, command, c).kbd /\ openedDvTable' = openedDvTable
    BY <1>9 DEF Ioctl, NotOpen
  <2> QED
    BY <1>1, <1>2, <2>1, <2>2
<1>10. ASSUME NEW c \in Char \cup {NoKey}, Keyboard(c)  PROVE TypesInv'
  <2>1. VarsOK(kbd_int_read(kbd, c, HolderBlocks).kbd)
    BY <1>0, InterruptTypes
  <2>2. kbd' = kbd_int_read(kbd, c, HolderBlocks).kbd /\ openedDvTable' = openedDvTable
    BY <1>10 DEF Keyboard
  <2> QED
    BY <1>2, <2>1, <2>2
<1>11. CASE UNCHANGED allVars
  BY <1>1, <1>11 DEF allVars
<1>12. CASE \E fd \in Fd \cup {-1, NUM_FD} :
               \/ Close(fd) \/ Write(fd) \/ Read(fd, FALSE, 0)
               \/ \E buflen \in ReadLens : Read(fd, TRUE, buflen)
               \/ \E command \in Commands : \E c \in Char : Ioctl(fd, command, c)
  BY <1>6, <1>7, <1>8, <1>9, <1>12
<1> QED
  BY <1>3, <1>4, <1>5, <1>10, <1>11, <1>12 DEF NextDv

\* The driver's variables and the tables of descriptors keep their types in every
\* behaviour of Devices: whatever is opened with a full table of descriptors, whether or
\* not the driver readies a process that is not blocked.
THEOREM DevicesKeepTypes == DvSpec => []DvTypeOK
<1>1. InitDv => TypesInv
  BY DvStart DEF DvInv, DriverInv, Inv, TypesInv
<1>2. TypesInv /\ [NextDv]_allVars => TypesInv'
  BY TablesStep
<1>3. TypesInv => DvTypeOK
  <2> SUFFICES ASSUME TypesInv  PROVE DvTypeOK
    OBVIOUS
  <2>1. kbd \in Vars /\ kbd.open = (kbd.proc # NoPcb)
    BY DEF TypesInv, VarsOK
  <2>2. /\ kbd.proc \in Readers \cup {NoPcb} /\ kbd.len \in 0 .. BufSize
        /\ kbd.index \in 0 .. BufSize - 1
    BY <2>1, Fields
  <2> QED
    BY <2>1, <2>2 DEF TypesInv, Tables, DvTypeOK
<1> QED
  BY <1>1, <1>2, <1>3, PTL DEF DvSpec

-----------------------------------------------------------------------------
(* The driver as Keyboard has it, and the lists.  Excluded are the driver's ready() of   *)
(* a process that is not blocked, after which the kernel hangs (~WakesUnblocked: a line  *)
(* or as many characters as are asked for typed before the read, or a key after a read   *)
(* that the end of the file or of the buffer ended), and what a full table of            *)
(* descriptors lets di_open() write over the head of the list of waiting processes.      *)

\* The dispatcher uses the driver as Keyboard assumes: the holder of the keyboard is blocked
\* exactly from a read that returns DEV_BLOCK to the ready(kbd_proc) of the driver or of a
\* signal.  So what is proved of Keyboard holds of the kernel with its devices, as long as
\* the driver readies only its holder, and that when it is blocked (c/kbd.c:200, 252), and no
\* device number is written over the head of a list of waiting processes (c/di_calls.c:69).
THEOREM DevicesImplementKeyboard ==
    ASSUME KillStates \subseteq {"READY", "BLOCKED_READING"}, 1 \notin FullOpens,
           ~WaitedFor, ~WakesUnblocked
    PROVE  DvSpec => ImplementsKeyboard
<1>1. InitDv => Alone!Init_
  BY DvStart
<1>2. DvInv /\ [NextDv]_allVars => [Alone!Next_]_(Alone!kbdVars)
  BY DvStep
<1>3. DvSpec => Alone!KbdSpec
  BY <1>1, <1>2, DvAlways, PTL DEF DvSpec, Alone!KbdSpec
<1> QED
  BY <1>3 DEF ImplementsKeyboard

\* Although the driver readies processes by itself, with no look at their state, the lists
\* stay in order, unless a device is opened that has no routines.
LEMMA DevicesAlwaysCalm ==
    ASSUME KillStates \subseteq {"READY", "BLOCKED_READING"}, 1 \notin FullOpens,
           ~WaitedFor, ~WakesUnblocked,
           \A d \in DeviceNos : ValidDevice(d) => d \in Keyboards
    PROVE  DvSpec => []Calm(Queues)
<1>1. ~Astray
  BY DEF Astray
<1> DEFINE I == DvInv /\ Calm(Queues)
<1>2. InitDv => I
  BY DvStart
<1>3. I /\ [NextDv]_allVars => I'
  BY <1>1, DvStep
<1>4. I => Calm(Queues)
  OBVIOUS
<1> QED
  BY <1>2, <1>3, <1>4, PTL DEF DvSpec

\* Although the driver readies its holder without a look at the state of that, and the
\* interrupt marks whoever runs as blocked, the ready and the sleep queue are exact and one
\* process runs, and what is on a list of waiting processes is WAITING and on no other list,
\* on the same exclusions.
THEOREM DevicesKeepLists ==
    ASSUME KillStates \subseteq {"READY", "BLOCKED_READING"}, 1 \notin FullOpens,
           ~WaitedFor, ~WakesUnblocked,
           \A d \in DeviceNos : ValidDevice(d) => d \in Keyboards
    PROVE  DvSpec => [](QueuesKept /\ WaitListsExact)
<1>1. Calm(Queues) => QueuesKept /\ WaitListsExact
  BY ListsAreExact DEF Calm, ListsExact, QueuesKept
<1> QED
  BY <1>1, DevicesAlwaysCalm, PTL

\* With the devices, too, next() finds a process to run (c/disp.c:291), on the same
\* exclusions: the driver's ready() of a process that is not blocked is what can hang it.
THEOREM DevicesNeverHang ==
    ASSUME KillStates \subseteq {"READY", "BLOCKED_READING"}, 1 \notin FullOpens,
           ~WaitedFor, ~WakesUnblocked,
           \A d \in DeviceNos : ValidDevice(d) => d \in Keyboards
    PROVE  DvSpec => []NeverHangs
<1>1. Calm(Queues) => NeverHangs
  BY CalmIs DEF NeverHangs, Queues
<1> QED
  BY <1>1, DevicesAlwaysCalm, PTL
=============================================================================
