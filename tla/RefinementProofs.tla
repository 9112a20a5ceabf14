-------------------------- MODULE RefinementProofs --------------------------
(***************************************************************************)
(* The pcb lists of Kernel implement the sequences of Sched, for any       *)
(* number of processes (MCKernel!ImplementsSched).                         *)
(*                                                                         *)
(* KernelProofs has the sequences L that the pointers stand for; here each *)
(* process also has a time d, the ticks it has left to sleep, and the      *)
(* differences kept in the list of sleepers are those of d.  The           *)
(* refinement mapping gives exactly L and d (MappedIs), so that there is a *)
(* lemma for each request, <request>Step: what it does to L and d is what  *)
(* the action of Sched does.                                               *)
(*                                                                         *)
(* Two things are assumed of the constants.  Only processes in state READY *)
(* are sent signals, as in KernelProofs.  A sleep is for no time or for a  *)
(* tick at least: shorter ones take the differences below 0, where they    *)
(* are compared as unsigned numbers and mean nothing (c/sleep.c:139).      *)
(* For Sched, which readies all that wait for a process that stops, also   *)
(* what KernelProofs assumes where nobody is forgotten: one process at     *)
(* most waits for another, and no syswait() blocks its caller on no list.  *)
(***************************************************************************)
EXTENDS MCKernel, KernelProofs

\* The n-th difference of a list of sleepers l, where d are the ticks they have left.
Gap(l, d, n) == d[l[n]] - IF n = 1 THEN 0 ELSE d[l[n - 1]]

\* The differences sd of the sleepers l are those of the times d, and l is in their order.
Timed(sd, l, d) ==
    /\ d \in [Slot -> Int]
    /\ \A i \in Slot : (\A n \in 1 .. Len(l) : l[n] # i) => d[i] = 0
    /\ \A n \in 1 .. Len(l) : sd[l[n]] = Gap(l, d, n)
    /\ \A m, n \in 1 .. Len(l) : d[l[m]] >= 1 /\ (m <= n => d[l[m]] <= d[l[n]])

\* The queues of the kernel stand for the lists L and the times d.
Fits(L, d) == Running(Queues, L) /\ Timed(Queues.sleepdiff, L[SQ], d)

\* The variables of Sched, as the refinement mapping gives them.
Shown(L, d) ==
    /\ List(head) = L[RQ] /\ List(sleepQ) = L[SQ]
    /\ [i \in Slot |-> List(waiting[i])] = [i \in Slot |-> L[i]]
    /\ [i \in Slot |-> IF state[i] = "SLEEP" THEN TicksLeft(i) ELSE 0] = d

\* The sum that the definition of TicksLeft takes is the time left.
LEMMA SumIs ==
    ASSUME NEW L, NEW d, Fits(L, d), NEW i \in Slot, In(L, SQ, i)
    PROVE  TicksLeft(i) = d[i]
<1> DEFINE l == L[SQ]
           Body(h) == [n \in 0 .. Len(l) |->
                          IF n = 0 THEN 0 ELSE h[n - 1] + sleepdiff[l[n]]]
           sum == CHOOSE h : h = Body(h)
           a == [n \in 0 .. Len(l) |-> IF n = 0 THEN 0 ELSE d[l[n]]]
           at == CHOOSE n \in DOMAIN l : l[n] = i
<1>1. /\ Fam(next, L) /\ Queues.sleepQ = First(L[SQ]) /\ Queues.sleepdiff = sleepdiff
      /\ Queues.sleepQ = sleepQ
  <2>1. Fam(Queues.next, L) /\ Ends(Queues, L)
    BY RunningIs DEF Fits
  <2>2. /\ Queues.next = next /\ Queues.sleepQ = sleepQ /\ Queues.sleepdiff = sleepdiff
    BY DEF Queues
  <2> QED
    BY <2>1, <2>2 DEF Ends
<1>2. /\ l \in Seq(Slot) /\ Len(l) \in Nat /\ DOMAIN l = 1 .. Len(l)
      /\ \A k \in 1 .. Len(l) : l[k] \in Slot
      /\ \A m, n \in 1 .. Len(l) : l[m] = l[n] => m = n
  <2>1. SQ \in Ix
    BY SlotsAre
  <2> QED
    BY <1>1, <2>1, FamIs DEF Fam, Apart
<1>3. List(sleepQ) = l
  BY <1>1, SlotsAre, ListIs
<1>4. TicksLeft(i) = sum[at]
  BY <1>3 DEF TicksLeft
<1>5. /\ d \in [Slot -> Int] /\ \A n \in 1 .. Len(l) : sleepdiff[l[n]] = Gap(l, d, n)
  BY <1>1 DEF Fits, Timed
<1>6. \E n \in 1 .. Len(l) : l[n] = i
  BY DEF In
<1> HIDE DEF l
<1>7. at \in 1 .. Len(l) /\ l[at] = i
  BY <1>2, <1>6
<1>8. a = Body(a)
  <2>1. ASSUME NEW n \in 0 .. Len(l)  PROVE Body(a)[n] = a[n]
    <3>1. CASE n = 0
      BY <3>1
    <3>2. CASE n # 0
      <4>1. n - 1 \in 0 .. Len(l) /\ n \in 1 .. Len(l) /\ (n # 1 => n - 1 \in 1 .. Len(l))
        BY <1>2, <3>2
      <4>2. a[n - 1] = IF n = 1 THEN 0 ELSE d[l[n - 1]]
        BY <1>2, <4>1
      <4>3. sleepdiff[l[n]] = d[l[n]] - IF n = 1 THEN 0 ELSE d[l[n - 1]]
        BY <1>5, <4>1 DEF Gap
      <4>4. d[l[n]] \in Int /\ (n # 1 => d[l[n - 1]] \in Int)
        BY <1>2, <1>5, <4>1
      <4>5. a[n - 1] + sleepdiff[l[n]] = d[l[n]]
        BY <4>2, <4>3, <4>4
      <4> QED
        BY <3>2, <4>5
    <3> QED
      BY <3>1, <3>2
  <2> QED
    BY <2>1
<1> HIDE DEF a
<1>9. sum = Body(sum)
  BY <1>8
<1> HIDE DEF sum
<1>10. \A n \in 0 .. Len(l) : sum[n] = a[n]
  <2> DEFINE T == {n \in Nat : n \in 0 .. Len(l) => sum[n] = a[n]}
  <2>1. 0 \in T
    BY <1>8, <1>9
  <2>2. ASSUME NEW n \in Nat, n \in T  PROVE n + 1 \in T
    <3> SUFFICES ASSUME n + 1 \in 0 .. Len(l)  PROVE sum[n + 1] = a[n + 1]
      OBVIOUS
    <3>1. n \in 0 .. Len(l) /\ (n + 1) - 1 = n /\ n + 1 # 0
      BY <1>2
    <3>2. sum[n] = a[n]
      BY <2>2, <3>1
    <3>3. Body(sum)[n + 1] = Body(a)[n + 1]
      BY <3>1, <3>2
    <3> HIDE DEF Body
    <3> QED
      BY <1>8, <1>9, <3>3
  <2> HIDE DEF T
  <2>3. Nat \subseteq T
    BY <2>1, <2>2, SetInduction
  <2> QED
    BY <2>3 DEF T
<1> HIDE DEF at
<1>11. at \in 0 .. Len(l) /\ at # 0
  BY <1>2, <1>7
<1>12. sum[at] = d[l[at]]
  BY <1>10, <1>11 DEF a
<1> QED
  BY <1>4, <1>7, <1>12

\* The refinement mapping gives the lists and the times.
Mapped == \A L, d : Fits(L, d) => Shown(L, d)

\* List and TicksLeft read the lists and the times off the pcb fields.
LEMMA MappedIs == Mapped
<1> SUFFICES ASSUME NEW L, NEW d, Fits(L, d)  PROVE Shown(L, d)
  BY DEF Mapped
<1>1. /\ Queues.state = state /\ Queues.next = next /\ Queues.waiting = waiting
      /\ Queues.head = head /\ Queues.sleepQ = sleepQ
  BY DEF Queues
<1>2. Fam(next, L) /\ Ends(Queues, L) /\ Listed(Queues, L, Slot) /\ Waited(Queues, L, Slot)
  BY <1>1, RunningIs DEF Fits
<1>3. RQ \in Ix /\ SQ \in Ix /\ Slot \subseteq Ix
  BY SlotsAre
<1>4. List(head) = L[RQ] /\ List(sleepQ) = L[SQ]
  BY <1>1, <1>2, <1>3, ListIs DEF Ends
<1>5. ASSUME NEW i \in Slot  PROVE List(waiting[i]) = L[i]
  <2>1. waiting[i] = First(L[i])
    BY <1>1, <1>2 DEF Waited
  <2> QED
    BY <1>2, <1>3, <2>1, ListIs
<1>6. ASSUME NEW i \in Slot
      PROVE  (IF state[i] = "SLEEP" THEN TicksLeft(i) ELSE 0) = d[i]
  <2>1. state[i] = "SLEEP" <=> In(L, SQ, i)
    BY <1>1, <1>2 DEF Listed
  <2>2. ~In(L, SQ, i) => d[i] = 0
    BY DEF Fits, Timed, In
  <2> QED
    BY <2>1, <2>2, SumIs
<1>7. d \in [Slot -> Int]
  BY DEF Fits, Timed
<1>8. [i \in Slot |-> IF state[i] = "SLEEP" THEN TicksLeft(i) ELSE 0] = d
  BY <1>6, <1>7
<1>9. [i \in Slot |-> List(waiting[i])] = [i \in Slot |-> L[i]]
  BY <1>5
<1> QED
  BY <1>4, <1>8, <1>9 DEF Shown

\* The same of the state after a step.
LEMMA MappedNext == Mapped'
  BY MappedIs, PTL

\* What the mapping makes of the state after a step.
LEMMA ShownNext ==
    ASSUME NEW L, NEW d, Fits(L, d)'
    PROVE  /\ List(head)' = L[RQ] /\ List(sleepQ)' = L[SQ]
           /\ [i \in Slot |-> List(waiting[i])]' = [i \in Slot |-> L[i]]
           /\ [i \in Slot |-> IF state[i] = "SLEEP" THEN TicksLeft(i) ELSE 0]' = d
  BY MappedNext DEF Mapped, Shown

\* The fields of the record of queues.
LEMMA QueuesAre ==
    /\ Queues.state = state /\ Queues.next = next /\ Queues.sleepdiff = sleepdiff
    /\ Queues.waiting = waiting /\ Queues.head = head /\ Queues.sleepQ = sleepQ /\ Queues.p = p
  BY DEF Queues

\* The inductive invariant of the refinement.
TimesInv == \E L, d : Fits(L, d)

\* A step that leaves the lists L and the times d.
Leaves(L, d) ==
    /\ TimesInv'
    /\ List(head)' = L[RQ] /\ List(sleepQ)' = L[SQ]
    /\ [i \in Slot |-> List(waiting[i])]' = [i \in Slot |-> L[i]]
    /\ [i \in Slot |-> IF state[i] = "SLEEP" THEN TicksLeft(i) ELSE 0]' = d

\* The process that runs goes on.
LEMMA GoesOnWith ==
    ASSUME NEW q, NEW L, NEW d, Running(q, L), Timed(q.sleepdiff, L[SQ], d),
           NEW s, Dispatch(q, s)
    PROVE  Leaves(L, d) /\ state' = q.state /\ p' = q.p
<1>1. /\ q \in QueueSet(Ptr) /\ q.p \in Slot /\ q.p # NULL /\ q.state[q.p] = "RUNNING"
      /\ q.state \in [Slot -> States]
  BY RunningIs
<1>2. Queues' = Resumed(q)
  BY <1>1, DispatchEffect
<1>3. Resumed(q) = [q EXCEPT !.state[q.p] = "RUNNING"]
  BY <1>1 DEF Resumed
<1>4. LET r == [q EXCEPT !.state[q.p] = "RUNNING"] IN
      /\ r.state = [q.state EXCEPT ![q.p] = "RUNNING"] /\ r.p = q.p
      /\ r.sleepdiff = q.sleepdiff
  BY <1>1, StateIs DEF States
<1>5. Resumed(q).state = q.state /\ Resumed(q).p = q.p /\ Resumed(q).sleepdiff = q.sleepdiff
  BY <1>1, <1>3, <1>4
<1>6. Running(Resumed(q), L)
  BY ResumedRuns
<1>7. Fits(L, d)'
  BY <1>2, <1>5, <1>6 DEF Fits
<1>8. state' = Queues'.state /\ p' = Queues'.p
  BY DEF Queues
<1> QED
  BY <1>2, <1>5, <1>7, <1>8, ShownNext DEF Leaves, TimesInv

\* The process that ran stops or is on a list, and the first that is ready runs.
LEMMA SwitchesWith ==
    ASSUME NEW q, NEW L, NEW d, Blocked(q, L), Timed(q.sleepdiff, L[SQ], d),
           NEW s, Dispatch(switch(q), s)
    PROVE  Leaves(Less(L, RQ), d) /\ S!Resume(L[RQ], q.state)
<1>1. /\ q \in QueueSet(Ptr) /\ Fam(q.next, L) /\ Ends(q, L) /\ q.p # NULL
      /\ q.head = First(L[RQ]) /\ Listed(q, L, Slot) /\ IdleOK(q)
      /\ \A i \in Slot : q.state[i] # "RUNNING"
  BY DEF Blocked, Sane, Linked, Ends
<1>2. RQ \in Ix /\ SQ \in Ix /\ RQ # SQ /\ L \in [Ix -> Seq(Slot)]
  BY <1>1, SlotsAre DEF Fam
<1>3. L[RQ] # <<>>
  <2>1. q.state[Idle] = "READY"
    BY <1>1, IdleIsSlot DEF IdleOK
  <2>2. In(L, RQ, Idle)
    BY <1>1, <2>1, IdleIsSlot DEF Listed
  <2>3. Len(<<>>) = 0
    OBVIOUS
  <2>4. L[RQ] = <<>> => Len(L[RQ]) = 0
    BY <2>3
  <2> HIDE DEF RQ
  <2> QED
    BY <2>2, <2>4 DEF In
<1>4. q.head \in Slot /\ q.head = L[RQ][1] /\ L[RQ][1] = Head(L[RQ])
  BY <1>1, <1>2, <1>3, EndsAre
<1>5. /\ Resumed(switch(q)).p = q.head /\ Resumed(switch(q)).sleepdiff = q.sleepdiff
      /\ Resumed(switch(q)).state = [q.state EXCEPT ![q.head] = "RUNNING"]
  BY <1>1, <1>4, SwitchIs
<1>6. switch(q) \in QueueSet(Ptr)
  BY <1>1, SwitchTypes
<1>7. Queues' = Resumed(switch(q))
  BY <1>6, DispatchEffect
<1>8. Running(Resumed(switch(q)), Less(L, RQ))
  BY SwitchRuns
<1>9. Less(L, RQ)[SQ] = L[SQ] /\ Less(L, RQ)[RQ] = Tail(L[RQ])
  BY <1>2 DEF Less
<1>10. Fits(Less(L, RQ), d)'
  BY <1>5, <1>7, <1>8, <1>9 DEF Fits
<1>11. state' = Queues'.state /\ p' = Queues'.p
  BY DEF Queues
<1>12. Leaves(Less(L, RQ), d)
  BY <1>10, ShownNext DEF Leaves, TimesInv
<1>13. /\ p' = Head(L[RQ]) /\ List(head)' = Tail(L[RQ])
       /\ state' = [q.state EXCEPT ![Head(L[RQ])] = "RUNNING"]
  BY <1>4, <1>5, <1>7, <1>9, <1>11, <1>12 DEF Leaves
<1>14. S!Resume(L[RQ], q.state)
  BY <1>3, <1>13 DEF S!Resume
<1> QED
  BY <1>12, <1>14

\* M is L with i at the end of the list of x.
Longer(L, x, i, M) ==
    /\ M \in [Ix -> Seq(Slot)] /\ M[x] = Append(L[x], i)
    /\ \A y \in Ix \ {x} : M[y] = L[y]

\* A process goes to the end of a list.
LEMMA PutLast ==
    ASSUME NEW L \in [Ix -> Seq(Slot)], NEW x \in Ix, NEW i \in Slot
    PROVE  Longer(L, x, i, Put(L, x, Len(L[x]), i))
<1>1. Insert(L[x], Len(L[x]), i) = Append(L[x], i) /\ Append(L[x], i) \in Seq(Slot)
  BY InsertLast, AppendProperties
<1> QED
  BY <1>1 DEF Put, Longer

\* The variables waitQ and left of Sched, as the refinement mapping gives them.
WaitQ == [i \in Slot |-> List(waiting[i])]
Left == [i \in Slot |-> IF state[i] = "SLEEP" THEN TicksLeft(i) ELSE 0]

\* sysstop() as the kernel does it: of several processes that wait for the one that
\* stops, removeWaiting() does not ready the last.
Stopped ==
    LET released == SubSeq(WaitQ[p], 1, Count(WaitQ[p]))
    IN  /\ S!MayRequest
        /\ S!Resume(List(head) \o released,
                    [i \in S!Slot |-> IF i = p THEN "STOPPED"
                                      ELSE IF i \in S!Elements(released) THEN "READY"
                                      ELSE state[i]])
        /\ WaitQ' = [WaitQ EXCEPT ![p] = <<>>]
        /\ UNCHANGED <<pid, nextpid, List(sleepQ), Left>>

\* A syswait() that blocks its caller on no list.
NowhereWaits ==
    /\ targetPCB = NULL
    /\ S!Resume(List(head), [state EXCEPT ![p] = "WAITING"])
    /\ UNCHANGED <<pid, nextpid, List(sleepQ), Left, WaitQ>>

\* A step that is not a tick: one of Sched, one of the two above, or none.
Steps ==
    /\ TimesInv'
    /\ \/ UNCHANGED S!vars
       \/ S!Yield \/ Stopped \/ NowhereWaits
       \/ \E i \in Slot : S!Create(i) \/ S!Wait(i)
       \/ \E ms \in Lens : S!Sleep(ms)

\* What the mapping makes of the state before a step.
LEMMA ShownNow ==
    ASSUME NEW L, NEW d, Fits(L, d)
    PROVE  /\ List(head) = L[RQ] /\ List(sleepQ) = L[SQ]
           /\ [i \in Slot |-> List(waiting[i])] = [i \in Slot |-> L[i]]
           /\ [i \in Slot |-> IF state[i] = "SLEEP" THEN TicksLeft(i) ELSE 0] = d
           /\ L \in [Ix -> Seq(Slot)] /\ d \in [Slot -> Int]
           /\ p \in Slot /\ p # NULL /\ Queues \in QueueSet(Ptr)
           /\ Running(Queues, L) /\ Timed(sleepdiff, L[SQ], d)
<1>1. Shown(L, d)
  BY MappedIs DEF Mapped
<1>2. Running(Queues, L) /\ Timed(sleepdiff, L[SQ], d)
  BY QueuesAre DEF Fits
<1>3. Fam(Queues.next, L) /\ Queues.p \in Slot /\ Queues.p # NULL /\ Queues \in QueueSet(Ptr)
  BY <1>2, RunningIs
<1> QED
  BY <1>1, <1>2, <1>3, QueuesAre DEF Shown, Fam, Timed

\* A request that does nothing to the lists, or fails.
LEMMA QuietStep ==
    ASSUME NEW L, NEW d, Fits(L, d), NEW q, Running(q, L), q.sleepdiff = sleepdiff,
           q.state = state, q.p = p, NEW s, Dispatch(q, s),
           UNCHANGED <<pid, nextpid, targetPCB>>
    PROVE  Steps
<1>1. Leaves(L, d) /\ state' = state /\ p' = p
  BY ShownNow, GoesOnWith
<1>2. UNCHANGED S!vars
  BY <1>1, ShownNow DEF Leaves, S!vars
<1> QED
  BY <1>1, <1>2 DEF Leaves, Steps

\* The result of a request is all that Return changes.
LEMMA ReturnKeeps ==
    ASSUME NEW L, NEW d, Fits(L, d), NEW r \in Rets
    PROVE  LET q == Return(Queues, r)
           IN  Running(q, L) /\ q.sleepdiff = sleepdiff /\ q.state = state /\ q.p = p
<1>1. Running(Queues, L) /\ Queues \in QueueSet(Ptr)
  BY ShownNow
<1>2. Running(Return(Queues, r), L) /\ Return(Queues, r).p = Queues.p
  BY <1>1, ReturnRuns
<1>3. ASSUME NEW q \in QueueSet(Ptr)
      PROVE  Return(q, r).sleepdiff = q.sleepdiff /\ Return(q, r).state = q.state
  BY DEF Return, QueueSet
<1> QED
  BY <1>1, <1>2, <1>3, QueuesAre

\* A request that only returns a result.
LEMMA ReturnStep ==
    ASSUME NEW L, NEW d, Fits(L, d), NEW r \in Rets, NEW s, Dispatch(Return(Queues, r), s),
           UNCHANGED <<pid, nextpid, targetPCB>>
    PROVE  Steps
<1>1. LET q == Return(Queues, r)
      IN  Running(q, L) /\ q.sleepdiff = sleepdiff /\ q.state = state /\ q.p = p
  BY ReturnKeeps
<1> QED
  BY <1>1, QuietStep

\* sysyield(), and syssleep() for no time.
LEMMA YieldStep ==
    ASSUME NEW L, NEW d, Fits(L, d), NEW s, Dispatch(switch(ready(Queues, p)), s),
           UNCHANGED <<pid, nextpid, targetPCB>>
    PROVE  TimesInv' /\ S!Yield
<1> DEFINE q == ready(Queues, p)
           M == Put(L, RQ, Len(L[RQ]), p)
<1>1. /\ List(head) = L[RQ] /\ List(sleepQ) = L[SQ]
      /\ [i \in Slot |-> List(waiting[i])] = [i \in Slot |-> L[i]]
      /\ [i \in Slot |-> IF state[i] = "SLEEP" THEN TicksLeft(i) ELSE 0] = d
      /\ L \in [Ix -> Seq(Slot)] /\ p \in Slot /\ p # NULL /\ Queues \in QueueSet(Ptr)
      /\ Running(Queues, L) /\ Timed(sleepdiff, L[SQ], d)
  BY ShownNow
<1>2. /\ Slot \subseteq Ix /\ RQ \in Ix /\ SQ \in Ix /\ RQ # SQ /\ RQ \notin Slot /\ SQ \notin Slot
  BY SlotsAre
<1>3. Blocked(q, M)
  BY <1>1, QueuesAre, ReadyBlocks
<1>4. q.state = [state EXCEPT ![p] = "READY"] /\ q.sleepdiff = sleepdiff
  BY <1>1, QueuesAre, ReadyIs
<1>5. /\ M \in [Ix -> Seq(Slot)] /\ M[RQ] = Append(L[RQ], p)
      /\ \A y \in Ix \ {RQ} : M[y] = L[y]
  <2>1. Longer(L, RQ, p, M)
    BY <1>1, <1>2, PutLast
  <2> HIDE DEF M
  <2> QED
    BY <2>1 DEF Longer
<1> HIDE DEF q, M
<1>6. M[SQ] = L[SQ]
  BY <1>2, <1>5
<1>7. Leaves(Less(M, RQ), d) /\ S!Resume(M[RQ], q.state)
  BY <1>1, <1>3, <1>4, <1>6, SwitchesWith DEF q
<1>8. Less(M, RQ)[SQ] = L[SQ] /\ [i \in Slot |-> Less(M, RQ)[i]] = [i \in Slot |-> L[i]]
  BY <1>2, <1>5 DEF Less
<1>9. S!Yield
  BY <1>1, <1>4, <1>5, <1>7, <1>8 DEF S!Yield, Leaves
<1> QED
  BY <1>7, <1>9 DEF Leaves

\* create() puts the process in the lowest stopped slot behind those that are ready.
LEMMA CreateStep ==
    ASSUME NEW L, NEW d, Fits(L, d), p # Idle, NEW i \in Slot, state[i] = "STOPPED",
           \A j \in 0 .. i - 1 : state[j] # "STOPPED", nextpid <= MaxPid,
           pid' = [pid EXCEPT ![i] = nextpid], nextpid' = nextpid + 1, UNCHANGED targetPCB,
           NEW s, Dispatch(Return(ready(Emptied(Queues, i), i), "result"), s)
    PROVE  Steps
<1> DEFINE r == ready(Emptied(Queues, i), i)
           q == Return(r, "result")
           M == Put(L, RQ, Len(L[RQ]), i)
<1>1. /\ List(head) = L[RQ] /\ List(sleepQ) = L[SQ]
      /\ [j \in Slot |-> List(waiting[j])] = [j \in Slot |-> L[j]]
      /\ [j \in Slot |-> IF state[j] = "SLEEP" THEN TicksLeft(j) ELSE 0] = d
      /\ L \in [Ix -> Seq(Slot)] /\ p \in Slot /\ p # NULL
      /\ Running(Queues, L) /\ Timed(sleepdiff, L[SQ], d)
  BY ShownNow
<1>2. /\ Slot \subseteq Ix /\ RQ \in Ix /\ SQ \in Ix /\ RQ # SQ /\ RQ \notin Slot /\ SQ \notin Slot
  BY SlotsAre
<1>3. /\ Running(r, M) /\ L[i] = <<>> /\ r.p = p
      /\ r.state = [state EXCEPT ![i] = "READY"] /\ r.sleepdiff = sleepdiff
  <2>1. Queues.state[i] = "STOPPED"
    BY QueuesAre
  <2>2. /\ Running(r, M) /\ L[i] = <<>> /\ r.p = Queues.p
        /\ r.state = [Queues.state EXCEPT ![i] = "READY"] /\ r.sleepdiff = Queues.sleepdiff
    BY ZenonT(40), <1>1, <2>1, CreateRuns
  <2> HIDE DEF r, M
  <2> QED
    BY <2>2, QueuesAre
<1>4. /\ M \in [Ix -> Seq(Slot)] /\ M[RQ] = Append(L[RQ], i)
      /\ \A y \in Ix \ {RQ} : M[y] = L[y]
  <2>1. Longer(L, RQ, i, M)
    BY <1>1, <1>2, PutLast
  <2> HIDE DEF M
  <2> QED
    BY <2>1 DEF Longer
<1> HIDE DEF r, M
<1>5. Running(q, M) /\ q.p = r.p
  BY <1>3, ReturnRuns DEF Rets
<1>6. q.sleepdiff = r.sleepdiff /\ q.state = r.state
  <2>1. r \in QueueSet(Ptr)
    BY <1>3, RunningIs
  <2> QED
    BY <2>1 DEF Return, QueueSet
<1>7. Dispatch(q, s)
  BY DEF r
<1> HIDE DEF q
<1>8. M[SQ] = L[SQ]
  BY <1>2, <1>4
<1>9. Leaves(M, d) /\ state' = q.state /\ p' = q.p
  BY <1>1, <1>3, <1>5, <1>6, <1>7, <1>8, GoesOnWith
<1>10. [j \in Slot |-> M[j]] = [[j \in Slot |-> L[j]] EXCEPT ![i] = <<>>]
  BY <1>2, <1>3, <1>4
<1>11. S!Create(i)
  BY <1>1, <1>3, <1>4, <1>5, <1>6, <1>8, <1>9, <1>10
     DEF S!Create, S!MayRequest, S!Idle, Idle, Leaves
<1> QED
  BY <1>9, <1>11 DEF Steps, Leaves

\* syswait() on a live process that targetPCB points to.
LEMMA WaitStep ==
    ASSUME NEW L, NEW d, Fits(L, d), p # Idle, NEW i \in Slot, state[i] # "STOPPED",
           pid[i] # 0, UNCHANGED <<pid, nextpid, targetPCB>>,
           NEW s, Dispatch(switch([addToWaiting(Queues, i, p) EXCEPT !.state[p] = "WAITING"]), s)
    PROVE  Steps
<1> DEFINE q == [addToWaiting(Queues, i, p) EXCEPT !.state[p] = "WAITING"]
           M == Put(L, i, Len(L[i]), p)
<1>1. /\ List(head) = L[RQ] /\ List(sleepQ) = L[SQ]
      /\ [j \in Slot |-> List(waiting[j])] = [j \in Slot |-> L[j]]
      /\ [j \in Slot |-> IF state[j] = "SLEEP" THEN TicksLeft(j) ELSE 0] = d
      /\ L \in [Ix -> Seq(Slot)] /\ p \in Slot /\ p # NULL
      /\ Running(Queues, L) /\ Timed(sleepdiff, L[SQ], d)
  BY ShownNow
<1>2. /\ Slot \subseteq Ix /\ RQ \in Ix /\ SQ \in Ix /\ RQ # SQ /\ RQ \notin Slot /\ SQ \notin Slot
  BY SlotsAre
<1>3. /\ Blocked(q, M) /\ q.p = p
      /\ q.state = [state EXCEPT ![p] = "WAITING"] /\ q.sleepdiff = sleepdiff
  <2> DEFINE t == [addToWaiting(Queues, i, Queues.p) EXCEPT !.state[Queues.p] = "WAITING"]
             N == Put(L, i, Len(L[i]), Queues.p)
  <2>1. Queues.p # Idle /\ Queues.state[i] # "STOPPED"
    BY QueuesAre
  <2>2. /\ Blocked(t, N) /\ t.p = Queues.p
        /\ t.state = [Queues.state EXCEPT ![Queues.p] = "WAITING"]
        /\ t.sleepdiff = Queues.sleepdiff
    BY ZenonT(40), <1>1, <2>1, AddBlocks
  <2>3. t = q /\ N = M
    BY QueuesAre
  <2> HIDE DEF t, q, N, M
  <2> QED
    BY <2>2, <2>3, QueuesAre
<1>4. /\ M \in [Ix -> Seq(Slot)] /\ M[i] = Append(L[i], p)
      /\ \A y \in Ix \ {i} : M[y] = L[y]
  <2>1. i \in Ix
    BY <1>2
  <2> QED
    <3>1. Longer(L, i, p, M)
      BY <1>1, <2>1, PutLast
    <3> HIDE DEF M
    <3> QED
      BY <3>1 DEF Longer
<1> HIDE DEF M
<1>5. M[SQ] = L[SQ] /\ M[RQ] = L[RQ]
  BY <1>2, <1>4
<1>6. Leaves(Less(M, RQ), d) /\ S!Resume(M[RQ], q.state)
  <2>1. Dispatch(switch(q), s)
    OBVIOUS
  <2> HIDE DEF q
  <2> QED
    BY <1>1, <1>3, <1>5, <2>1, SwitchesWith
<1> HIDE DEF q
<1>7. /\ Less(M, RQ)[SQ] = L[SQ]
      /\ [j \in Slot |-> Less(M, RQ)[j]] = [[j \in Slot |-> L[j]] EXCEPT ![i] = Append(@, p)]
  BY <1>2, <1>4 DEF Less
<1>8. S!Wait(i)
  BY ZenonT(40), <1>1, <1>3, <1>5, <1>6, <1>7 DEF S!Wait, S!MayRequest, S!Idle, Idle, Leaves
<1> QED
  BY <1>6, <1>8 DEF Steps, Leaves

\* syswait() at address 0: the running process is on no list.
LEMMA WaitNowhereStep ==
    ASSUME NEW L, NEW d, Fits(L, d), p # Idle, targetPCB = NULL,
           UNCHANGED <<pid, nextpid, targetPCB>>,
           NEW s, Dispatch(switch([Queues EXCEPT !.state[p] = "WAITING"]), s)
    PROVE  Steps
<1> DEFINE q == [Queues EXCEPT !.state[p] = "WAITING"]
<1>1. /\ List(head) = L[RQ] /\ List(sleepQ) = L[SQ]
      /\ [j \in Slot |-> List(waiting[j])] = [j \in Slot |-> L[j]]
      /\ [j \in Slot |-> IF state[j] = "SLEEP" THEN TicksLeft(j) ELSE 0] = d
      /\ L \in [Ix -> Seq(Slot)] /\ p \in Slot /\ p # NULL /\ Queues \in QueueSet(Ptr)
      /\ Running(Queues, L) /\ Timed(sleepdiff, L[SQ], d)
  BY ShownNow
<1>2. /\ Slot \subseteq Ix /\ RQ \in Ix /\ SQ \in Ix /\ RQ # SQ /\ RQ \notin Slot /\ SQ \notin Slot
  BY SlotsAre
<1>3. Blocked(q, L)
  <2>1. Queues.p # Idle
    BY QueuesAre
  <2>2. Blocked([Queues EXCEPT !.state[Queues.p] = "WAITING"], L)
    BY ZenonT(40), <1>1, <2>1, UnlistedBlocks
  <2> QED
    BY <2>2, QueuesAre
<1>4. q.state = [state EXCEPT ![p] = "WAITING"] /\ q.sleepdiff = sleepdiff
  <2>1. "WAITING" \in States
    BY DEF States
  <2>2. /\ q.state = [Queues.state EXCEPT ![p] = "WAITING"]
        /\ q.sleepdiff = Queues.sleepdiff
    <3>1. ASSUME NEW r \in QueueSet(Ptr), NEW i \in Slot
          PROVE  LET u == [r EXCEPT !.state[i] = "WAITING"]
                 IN  /\ u.state = [r.state EXCEPT ![i] = "WAITING"]
                     /\ u.sleepdiff = r.sleepdiff
      BY DEF QueueSet
    <3> QED
      BY <1>1, <3>1
  <2> HIDE DEF q
  <2> QED
    BY <2>2, QueuesAre
<1>5. Leaves(Less(L, RQ), d) /\ S!Resume(L[RQ], q.state)
  <2>1. Dispatch(switch(q), s)
    OBVIOUS
  <2> HIDE DEF q
  <2> QED
    BY <1>1, <1>3, <1>4, <2>1, SwitchesWith
<1> HIDE DEF q
<1>6. Less(L, RQ)[SQ] = L[SQ] /\ [j \in Slot |-> Less(L, RQ)[j]] = [j \in Slot |-> L[j]]
  BY <1>1, <1>2 DEF Less
<1>7. NowhereWaits
  BY <1>1, <1>4, <1>5, <1>6 DEF NowhereWaits, WaitQ, Left, Leaves
<1> QED
  BY <1>5, <1>7 DEF Steps, Leaves

Has(l, j) == \E n \in 1 .. Len(l) : l[n] = j

\* What is in one sequence behind another.
LEMMA ConcatIn ==
    ASSUME NEW a \in Seq(Slot), NEW b \in Seq(Slot), NEW j
    PROVE  Has(a \o b, j) <=> Has(a, j) \/ Has(b, j)
<1>1. /\ Len(a) \in Nat /\ Len(b) \in Nat /\ Len(a \o b) = Len(a) + Len(b)
      /\ \A n \in 1 .. Len(a) + Len(b) :
            (a \o b)[n] = IF n <= Len(a) THEN a[n] ELSE b[n - Len(a)]
  BY LenProperties, ConcatProperties
<1> DEFINE x == Len(a)
           y == Len(b)
<1>2. x \in Nat /\ y \in Nat
  BY <1>1
<1>3. ASSUME NEW n \in 1 .. x  PROVE n \in 1 .. x + y /\ n <= x
  <2> HIDE DEF x, y
  <2> QED
    BY <1>2
<1>4. ASSUME NEW n \in 1 .. y  PROVE n + x \in 1 .. x + y /\ ~(n + x <= x) /\ (n + x) - x = n
  <2> HIDE DEF x, y
  <2> QED
    BY <1>2
<1>5. ASSUME NEW n \in 1 .. x + y  PROVE IF n <= x THEN n \in 1 .. x ELSE n - x \in 1 .. y
  <2> HIDE DEF x, y
  <2> QED
    BY <1>2
<1>6. ASSUME NEW n \in 1 .. Len(a), a[n] = j  PROVE \E k \in 1 .. Len(a \o b) : (a \o b)[k] = j
  BY <1>1, <1>3, <1>6
<1>7. ASSUME NEW n \in 1 .. Len(b), b[n] = j  PROVE \E k \in 1 .. Len(a \o b) : (a \o b)[k] = j
  BY <1>1, <1>4, <1>7
<1>8. ASSUME NEW n \in 1 .. Len(a \o b), (a \o b)[n] = j
      PROVE  (\E k \in 1 .. Len(a) : a[k] = j) \/ (\E k \in 1 .. Len(b) : b[k] = j)
  BY <1>1, <1>5, <1>8
<1> QED
  BY <1>6, <1>7, <1>8 DEF Has

\* The first m of a sequence.
LEMMA FirstFew ==
    ASSUME NEW l \in Seq(Slot), NEW m \in 0 .. Len(l)
    PROVE  /\ SubSeq(l, 1, m) \in Seq(Slot) /\ Len(SubSeq(l, 1, m)) = m /\ m \in Nat
           /\ \A n \in 1 .. m : n \in 1 .. Len(l) /\ SubSeq(l, 1, m)[n] = l[n]
           /\ S!Elements(SubSeq(l, 1, m)) = {l[n] : n \in 1 .. m}
<1>1. m \in Nat /\ Len(l) \in Nat /\ m <= Len(l)
  BY LenProperties
<1>2. /\ SubSeq(l, 1, m) \in Seq(Slot) /\ Len(SubSeq(l, 1, m)) = m
      /\ \A n \in 1 .. m : SubSeq(l, 1, m)[n] = l[n]
  BY <1>1
<1>3. \A n \in 1 .. m : n \in 1 .. Len(l)
  BY <1>1
<1>4. DOMAIN SubSeq(l, 1, m) = 1 .. m
  BY <1>2, LenProperties
<1> QED
  BY <1>1, <1>2, <1>3, <1>4 DEF S!Elements

\* Those that are READY once the first m of a list are moved.
LEMMA MovedIn ==
    ASSUME NEW L \in [Ix -> Seq(Slot)], NEW x \in Ix \ {RQ}, NEW m \in 0 .. Len(L[x]), NEW j
    PROVE  In(Moved(L, x, m), RQ, j) <=> In(L, RQ, j) \/ j \in S!Elements(SubSeq(L[x], 1, m))
<1> DEFINE b == SubSeq(L[x], 1, m)
<1>1. RQ \in Ix /\ L[RQ] \in Seq(Slot) /\ L[x] \in Seq(Slot)
  BY SlotsAre
<1>2. Moved(L, x, m)[RQ] = L[RQ] \o b
  BY ZenonT(40), MovedIs
<1>3. b \in Seq(Slot)
  BY <1>1, FirstFew
<1>4. S!Elements(b) = {b[n] : n \in 1 .. Len(b)}
  <2>1. DOMAIN b = 1 .. Len(b)
    BY <1>3, LenProperties
  <2> QED
    BY <2>1 DEF S!Elements
<1> HIDE DEF b
<1>5. In(Moved(L, x, m), RQ, j) <=> \E n \in 1 .. Len(L[RQ] \o b) : (L[RQ] \o b)[n] = j
  BY <1>2 DEF In
<1>6. In(Moved(L, x, m), RQ, j) <=> In(L, RQ, j) \/ j \in S!Elements(b)
  <2>1. Has(L[RQ] \o b, j) <=> Has(L[RQ], j) \/ Has(b, j)
    BY <1>1, <1>3, ConcatIn
  <2>2. /\ Has(L[RQ] \o b, j) <=> In(Moved(L, x, m), RQ, j)
        /\ Has(L[RQ], j) <=> In(L, RQ, j)
    BY <1>5 DEF In, Has
  <2>3. j \in S!Elements(b) <=> Has(b, j)
    BY <1>4 DEF Has
  <2> QED
    BY <2>1, <2>2, <2>3
<1> QED
  BY <1>6 DEF b

\* How many removeWaiting() readies: all, as Sched says, of one that waits at most.
LEMMA CountIs ==
    ASSUME NEW l \in Seq(Slot)
    PROVE  /\ Count(l) \in 0 .. Len(l)
           /\ Len(l) <= 1 => SubSeq(l, 1, Count(l)) = l
<1>1. Len(l) \in Nat /\ SubSeq(l, 1, Len(l)) = l
  OBVIOUS
<1> DEFINE n == Len(l)
           c == Count(l)
<1>2. c = IF n <= 1 THEN n ELSE n - 1
  BY DEF Count
<1>3. c \in 0 .. n /\ (n <= 1 => c = n)
  <2> n \in Nat
    BY <1>1
  <2> HIDE DEF n, c
  <2> QED
    BY <1>2
<1> QED
  BY <1>1, <1>3

\* sysstop(): removeWaiting() readies all that wait for the process, or all but the last.
LEMMA StopStep ==
    ASSUME NEW L, NEW d, Fits(L, d), p # Idle, UNCHANGED <<pid, nextpid, targetPCB>>,
           NEW s, Dispatch(switch(removeWaiting([Queues EXCEPT !.state[p] = "STOPPED"], p)), s)
    PROVE  Steps
<1> DEFINE t == [Queues EXCEPT !.state[p] = "STOPPED"]
           q == removeWaiting(t, p)
           c == Count(L[p])
           b == SubSeq(L[p], 1, c)
           N == Moved(L, p, c)
           M == Dropped(N, p)
           st == [i \in S!Slot |-> IF i = p THEN "STOPPED"
                                   ELSE IF i \in S!Elements(b) THEN "READY"
                                   ELSE state[i]]
<1>1. /\ List(head) = L[RQ] /\ List(sleepQ) = L[SQ]
      /\ [j \in Slot |-> List(waiting[j])] = [j \in Slot |-> L[j]]
      /\ [j \in Slot |-> IF state[j] = "SLEEP" THEN TicksLeft(j) ELSE 0] = d
      /\ L \in [Ix -> Seq(Slot)] /\ p \in Slot /\ p # NULL /\ Queues \in QueueSet(Ptr)
      /\ Running(Queues, L) /\ Timed(sleepdiff, L[SQ], d)
  BY ShownNow
<1>2. /\ Slot \subseteq Ix /\ RQ \in Ix /\ SQ \in Ix /\ RQ # SQ /\ RQ \notin Slot /\ SQ \notin Slot
  BY SlotsAre
<1>3. /\ Blocked(q, M) /\ Kept(t, q, M)
      /\ t.state = [state EXCEPT ![p] = "STOPPED"] /\ t.sleepdiff = sleepdiff
  <2> DEFINE u == [Queues EXCEPT !.state[Queues.p] = "STOPPED"]
             O == Dropped(Moved(L, Queues.p, Count(L[Queues.p])), Queues.p)
             r == removeWaiting(u, Queues.p)
  <2>1. Queues.p # Idle
    BY QueuesAre
  <2>2. /\ Blocked(r, O) /\ Kept(u, r, O)
        /\ u.state = [Queues.state EXCEPT ![Queues.p] = "STOPPED"]
        /\ u.sleepdiff = Queues.sleepdiff
    BY ZenonT(40), <1>1, <2>1, StopBlocks
  <2>3. u = t /\ O = M /\ r = q
    BY QueuesAre
  <2> HIDE DEF t, q, M, u, O, r
  <2> QED
    BY <2>2, <2>3, QueuesAre
<1>4. L[p] \in Seq(Slot) /\ c \in 0 .. Len(L[p]) /\ p \in Ix \ {RQ}
  BY <1>1, <1>2, CountIs
<1>5. /\ N \in [Ix -> Seq(Slot)] /\ N[RQ] = L[RQ] \o b /\ \A y \in Ix \ {p, RQ} : N[y] = L[y]
  BY ZenonT(40), <1>1, <1>4, MovedIs
<1>6. \A j : In(N, RQ, j) <=> In(L, RQ, j) \/ j \in S!Elements(b)
  BY <1>1, <1>4, MovedIn
<1>7. \A j \in S!Elements(b) : In(L, p, j)
  <2>1. /\ S!Elements(b) = {L[p][n] : n \in 1 .. c} /\ \A n \in 1 .. c : n \in 1 .. Len(L[p])
    <3> HIDE DEF c
    <3> QED
      BY <1>4, FirstFew
  <2> HIDE DEF b, c
  <2> QED
    BY <2>1 DEF In
<1> DEFINE a == SubSeq(WaitQ[p], 1, Count(WaitQ[p]))
<1>14. a = b
  BY <1>1 DEF WaitQ
<1> HIDE DEF N, a, b, c
<1>8. /\ M[RQ] = L[RQ] \o b /\ M[SQ] = L[SQ] /\ M[p] = <<>> /\ M \in [Ix -> Seq(Slot)]
      /\ \A y \in Slot \ {p} : M[y] = L[y]
  <2>1. M = [N EXCEPT ![p] = <<>>] /\ <<>> \in Seq(Slot)
    BY DEF Dropped
  <2> HIDE DEF M
  <2>2. M[p] = <<>> /\ M \in [Ix -> Seq(Slot)] /\ \A y \in Ix \ {p} : M[y] = N[y]
    BY <1>1, <1>2, <1>5, <2>1
  <2> QED
    BY <1>1, <1>2, <1>5, <2>2
<1>9. \A j : In(M, RQ, j) <=> In(L, RQ, j) \/ j \in S!Elements(b)
  BY ZenonT(40), <1>5, <1>6, <1>8 DEF In
<1>10. q.state = st
  <2>1. /\ Listed(Queues, L, Slot) /\ Loose(L, p) /\ state \in [Slot -> States]
        /\ state[p] = "RUNNING"
    BY <1>1, RunningIs, QueuesAre
  <2>2. Listed(q, M, Slot) /\ q.state \in [Slot -> States]
    BY <1>3 DEF Blocked, Sane, Linked, QueueSet
  <2> HIDE DEF q, t, M
  <2>3. ASSUME NEW j \in Slot  PROVE q.state[j] = st[j]
    <3>0. j \in S!Slot
      BY DEF S!Slot, Slot
    <3>1. CASE In(M, RQ, j)
      <4>1. q.state[j] = "READY"
        BY <2>2, <3>1 DEF Listed
      <4>2. CASE In(L, RQ, j)
        <5>1. state[j] = "READY" /\ j # p
          BY <1>2, <2>1, <4>2, QueuesAre DEF Listed, Loose
        <5> QED
          BY <3>0, <4>1, <5>1
      <4>3. CASE j \in S!Elements(b)
        <5>1. j # p
          <6>1. In(L, p, j)
            BY <1>7, <4>3
          <6> QED
            BY <1>1, <1>2, <2>1, <6>1 DEF Loose
        <5> QED
          BY <3>0, <4>1, <4>3, <5>1
      <4> QED
        BY <1>9, <3>1, <4>2, <4>3
    <3>2. CASE ~In(M, RQ, j)
      <4>1. q.state[j] = t.state[j] /\ j \notin S!Elements(b)
        BY <1>3, <1>9, <3>2 DEF Kept
      <4> QED
        BY <1>1, <1>3, <2>1, <3>0, <4>1
    <3> QED
      BY <3>1, <3>2
  <2>4. S!Slot = Slot
    BY DEF S!Slot, Slot
  <2> QED
    BY <2>2, <2>3, <2>4
<1>11. q.sleepdiff = sleepdiff
  BY <1>3 DEF Kept
<1>12. Leaves(Less(M, RQ), d) /\ S!Resume(M[RQ], q.state)
  <2>1. Dispatch(switch(q), s)
    OBVIOUS
  <2> HIDE DEF q, t, M
  <2> QED
    BY <1>1, <1>3, <1>8, <1>11, <2>1, SwitchesWith
<1> HIDE DEF q, t, M
<1>13. /\ Less(M, RQ)[SQ] = L[SQ]
       /\ [j \in Slot |-> Less(M, RQ)[j]] = [[j \in Slot |-> L[j]] EXCEPT ![p] = <<>>]
  BY <1>1, <1>2, <1>8 DEF Less
<1>15. Stopped
  <2>3. S!Resume(List(head) \o b, st)
    BY <1>1, <1>8, <1>10, <1>12
  <2>4. S!MayRequest
    BY <1>1 DEF S!MayRequest, S!Idle, Idle
  <2> HIDE DEF st
  <2>5. /\ WaitQ' = [WaitQ EXCEPT ![p] = <<>>]
        /\ List(sleepQ)' = List(sleepQ) /\ Left' = Left
    BY <1>1, <1>12, <1>13 DEF Leaves, WaitQ, Left
  <2> QED
    BY <1>14, <2>3, <2>4, <2>5 DEF Stopped, st, a
<1> QED
  BY <1>12, <1>15 DEF Steps, Leaves

\* The times once each sleeper has a tick less.
Later(l, d) == [i \in S!Slot |-> IF i \in S!Elements(l) THEN d[i] - 1 ELSE d[i]]

\* A tick takes one from the first difference, which is one from the time of each; those
\* that tick() wakes are those whose time has come.
LEMMA TickTimes ==
    ASSUME NEW q \in QueueSet(Ptr), NEW r, NEW L, NEW m \in 0 .. Len(L[SQ]), Woken(q, r, L, m),
           Fam(q.next, L), NEW d, Timed(q.sleepdiff, L[SQ], d)
    PROVE  /\ \A k \in 1 .. m : d[L[SQ][k]] = 1
           /\ m < Len(L[SQ]) => d[L[SQ][m + 1]] # 1
           /\ Timed(r.sleepdiff, Moved(L, SQ, m)[SQ], Later(L[SQ], d))
<1> DEFINE l == L[SQ]
           sd == q.sleepdiff
           rd == r.sleepdiff
           e == Later(l, d)
           n == Moved(L, SQ, m)[SQ]
<1>1. /\ L \in [Ix -> Seq(Slot)] /\ SQ \in Ix /\ SQ \in Ix \ {RQ} /\ l \in Seq(Slot)
      /\ Len(l) \in Nat /\ DOMAIN l = 1 .. Len(l)
      /\ \A k \in 1 .. Len(l) : l[k] \in Slot
      /\ \A j, k \in 1 .. Len(l) : l[j] = l[k] => j = k
  <2>1. SQ \in Ix /\ SQ \in Ix \ {RQ}
    BY SlotsAre
  <2> QED
    BY <2>1, FamIs DEF Fam, Apart
<1>2. /\ Len(n) = Len(l) - m
      /\ \A k \in 1 .. Len(n) : m + k \in 1 .. Len(l) /\ n[k] = l[m + k]
  BY ZenonT(40), <1>1, MovedIs
<1>3. /\ d \in [Slot -> Int] /\ sd \in [Slot -> Int]
      /\ \A i \in Slot : (\A k \in 1 .. Len(l) : l[k] # i) => d[i] = 0
      /\ \A k \in 1 .. Len(l) : sd[l[k]] = Gap(l, d, k)
      /\ \A j, k \in 1 .. Len(l) : d[l[j]] >= 1 /\ (j <= k => d[l[j]] <= d[l[k]])
  BY DEF Timed, QueueSet
<1>4. /\ l # <<>> => rd = [sd EXCEPT ![l[1]] = IF @ < 0 THEN LATE ELSE @ - 1]
      /\ \A k \in 1 .. m : rd[l[k]] = 0
      /\ m # Len(l) => rd[l[m + 1]] # 0
  BY DEF Woken, Ticks
<1>5. m \in Nat /\ m <= Len(l) /\ \A k \in 1 .. m : k \in 1 .. Len(l)
  BY <1>1
<1>6. m \in Nat /\ Len(l) \in Nat /\ m <= Len(l) /\ Len(n) = Len(l) - m
  BY <1>1, <1>2, <1>5
<1>7. e = [i \in Slot |-> IF \E k \in 1 .. Len(l) : l[k] = i THEN d[i] - 1 ELSE d[i]]
  BY <1>1 DEF Later, S!Slot, Slot, S!Elements
<1> HIDE DEF l, n, sd, rd, e
<1>8. ASSUME NEW k \in 1 .. Len(l)
      PROVE  rd[l[k]] = IF k = 1 THEN d[l[1]] - 1 ELSE d[l[k]] - d[l[k - 1]]
  <2>1. 1 \in 1 .. Len(l) /\ l # <<>>
    BY <1>1, EmptySeq
  <2>2. sd[l[1]] = d[l[1]] - 0 /\ d[l[1]] >= 1 /\ d[l[1]] \in Int
    BY <1>1, <1>3, <2>1 DEF Gap
  <2>3. rd[l[1]] = d[l[1]] - 1
    <3>1. l[1] \in Slot
      BY <1>1, <2>1
    <3>2. rd[l[1]] = IF sd[l[1]] < 0 THEN LATE ELSE sd[l[1]] - 1
      BY <1>3, <1>4, <2>1, <3>1
    <3> QED
      BY <2>2, <3>2
  <2>4. ASSUME k # 1  PROVE rd[l[k]] = d[l[k]] - d[l[k - 1]]
    <3>1. l[k] # l[1]
      BY <1>1, <2>1, <2>4
    <3>2. rd[l[k]] = sd[l[k]]
      BY <1>1, <1>3, <1>4, <2>1, <3>1
    <3> QED
      BY <1>3, <2>4, <3>2 DEF Gap
  <2> QED
    BY <2>3, <2>4
<1>9. \A k \in 1 .. m : d[l[k]] = 1
  <2> DEFINE T == {k \in Nat : k \in 1 .. m => d[l[k]] = 1}
  <2>1. 0 \in T
    OBVIOUS
  <2>2. ASSUME NEW k \in Nat, k \in T  PROVE k + 1 \in T
    <3> SUFFICES ASSUME k + 1 \in 1 .. m  PROVE d[l[k + 1]] = 1
      OBVIOUS
    <3>1. k + 1 \in 1 .. Len(l) /\ rd[l[k + 1]] = 0 /\ (k + 1) - 1 = k
      BY <1>4, <1>5
    <3>2. d[l[k + 1]] \in Int
      BY <1>1, <1>3, <3>1
    <3>3. CASE k = 0
      <4>1. k + 1 = 1
        BY <3>3
      <4>2. d[l[1]] - 1 = 0
        BY <1>8, <3>1, <4>1
      <4> QED
        BY <3>2, <4>1, <4>2
    <3>4. CASE k # 0
      <4>1. k \in 1 .. m /\ k + 1 # 1
        BY <1>5, <3>4
      <4>2. d[l[k]] = 1
        BY <2>2, <4>1
      <4>3. d[l[k + 1]] - 1 = 0
        BY <1>8, <3>1, <4>1, <4>2
      <4> QED
        BY <3>2, <4>3
    <3> QED
      BY <3>3, <3>4
  <2> HIDE DEF T
  <2>3. Nat \subseteq T
    BY <2>1, <2>2, SetInduction
  <2> QED
    BY <1>5, <2>3 DEF T
<1>10. m # Len(l) => m + 1 \in 1 .. Len(l) /\ d[l[m + 1]] # 1 /\ d[l[m + 1]] \in Int
  <2> SUFFICES ASSUME m # Len(l)
               PROVE  m + 1 \in 1 .. Len(l) /\ d[l[m + 1]] # 1 /\ d[l[m + 1]] \in Int
    OBVIOUS
  <2>1. m + 1 \in 1 .. Len(l) /\ (m + 1) - 1 = m
    BY <1>6
  <2>2. d[l[m + 1]] \in Int /\ rd[l[m + 1]] # 0
    BY <1>1, <1>3, <1>4, <2>1
  <2>3. CASE m = 0
    <3>1. d[l[m + 1]] - 1 # 0
      BY <1>8, <2>1, <2>2, <2>3
    <3> QED
      BY <2>1, <2>2, <3>1
  <2>4. CASE m # 0
    <3>1. m \in 1 .. m /\ m + 1 # 1
      BY <1>5, <2>4
    <3>2. d[l[m + 1]] - d[l[m]] # 0 /\ d[l[m]] = 1
      BY <1>8, <1>9, <2>1, <2>2, <3>1
    <3> QED
      BY <2>1, <2>2, <3>2
  <2> QED
    BY <2>3, <2>4
<1>11. \A k \in 1 .. Len(n) : m + k \in 1 .. Len(l) /\ d[l[m + k]] >= 2 /\ d[l[m + k]] \in Int
  <2> SUFFICES ASSUME NEW k \in 1 .. Len(n)  PROVE d[l[m + k]] >= 2 /\ d[l[m + k]] \in Int
    BY <1>2
  <2>0. k \in Nat \ {0}
    BY <1>6
  <2>1. m + k \in 1 .. Len(l) /\ k \in Nat \ {0} /\ d[l[m + k]] \in Int
    BY <1>1, <1>2, <1>3, <2>0
  <2>2. m # Len(l) /\ m + 1 <= m + k
    BY <1>6, <2>0
  <2>3. d[l[m + 1]] >= 1 /\ d[l[m + 1]] <= d[l[m + k]] /\ d[l[m + 1]] # 1
        /\ d[l[m + 1]] \in Int
    BY <1>3, <1>10, <2>1, <2>2
  <2> QED
    BY <2>1, <2>3
<1>12. e \in [Slot -> Int] /\ \A k \in 1 .. Len(l) : e[l[k]] = d[l[k]] - 1
  BY <1>1, <1>3, <1>7
<1>13. ASSUME NEW i \in Slot, \A k \in 1 .. Len(n) : n[k] # i  PROVE e[i] = 0
  <2>1. CASE \E k \in 1 .. Len(l) : l[k] = i
    <3>1. PICK k \in 1 .. Len(l) : l[k] = i
      BY <2>1
    <3>2. k \in 1 .. m
      <4> SUFFICES ASSUME ~(k <= m)  PROVE FALSE
        BY <1>5
      <4>1. k - m \in 1 .. Len(n) /\ m + (k - m) = k
        BY <1>1, <1>2, <1>5
      <4> QED
        BY <1>2, <1>13, <3>1, <4>1
    <3> QED
      BY <1>9, <1>12, <3>1, <3>2
  <2>2. CASE ~\E k \in 1 .. Len(l) : l[k] = i
    BY <1>3, <1>7, <2>2
  <2> QED
    BY <2>1, <2>2
<1>14. ASSUME NEW k \in 1 .. Len(n)  PROVE rd[n[k]] = Gap(n, e, k)
  <2>1. m + k \in 1 .. Len(l) /\ n[k] = l[m + k] /\ k \in Nat \ {0}
    BY <1>1, <1>2
  <2>2. e[n[k]] = d[l[m + k]] - 1 /\ d[l[m + k]] \in Int
    BY <1>11, <1>12, <2>1
  <2>3. CASE k = 1
    <3>1. rd[n[k]] = d[l[m + k]] - 1
      <4>1. CASE m = 0
        BY <1>8, <2>1, <2>3, <4>1
      <4>2. CASE m # 0
        <5>1. m \in 1 .. m /\ m + 1 # 1 /\ (m + 1) - 1 = m
          BY <1>5, <4>2
        <5> QED
          BY <1>8, <1>9, <2>1, <2>3, <5>1
      <4> QED
        BY <4>1, <4>2
    <3> QED
      BY <2>2, <2>3, <3>1 DEF Gap
  <2>4. CASE k # 1
    <3>1. k - 1 \in 1 .. Len(n) /\ (m + k) - 1 = m + (k - 1) /\ m + k # 1
      BY <1>1, <1>2, <1>5, <2>1, <2>4
    <3>2. /\ n[k - 1] = l[m + (k - 1)] /\ m + (k - 1) \in 1 .. Len(l)
          /\ e[n[k - 1]] = d[l[m + (k - 1)]] - 1 /\ d[l[m + (k - 1)]] \in Int
      BY <1>2, <1>11, <1>12, <3>1
    <3>3. rd[n[k]] = d[l[m + k]] - d[l[m + (k - 1)]]
      BY <1>8, <2>1, <3>1
    <3>4. rd[n[k]] = e[n[k]] - e[n[k - 1]]
      <4>1. \A x, y \in Int : x - y = (x - 1) - (y - 1)
        OBVIOUS
      <4>2. d[l[m + k]] - d[l[m + (k - 1)]] = (d[l[m + k]] - 1) - (d[l[m + (k - 1)]] - 1)
        BY <2>2, <3>2, <4>1
      <4> QED
        BY <2>2, <3>2, <3>3, <4>2
    <3> QED
      BY <2>4, <3>4 DEF Gap
  <2> QED
    BY <2>3, <2>4
<1>15. ASSUME NEW j \in 1 .. Len(n), NEW k \in 1 .. Len(n)
       PROVE  e[n[j]] >= 1 /\ (j <= k => e[n[j]] <= e[n[k]])
  <2>1. /\ m + j \in 1 .. Len(l) /\ m + k \in 1 .. Len(l)
        /\ e[n[j]] = d[l[m + j]] - 1 /\ e[n[k]] = d[l[m + k]] - 1
        /\ d[l[m + j]] >= 2 /\ d[l[m + j]] \in Int /\ d[l[m + k]] \in Int
    BY <1>2, <1>11, <1>12
  <2>2. j <= k => m + j <= m + k
    BY <1>6
  <2>3. j <= k => d[l[m + j]] <= d[l[m + k]]
    BY <1>3, <2>1, <2>2
  <2>4. \A x, y \in Int : (x >= 2 => x - 1 >= 1) /\ (x <= y => x - 1 <= y - 1)
    OBVIOUS
  <2> QED
    BY <2>1, <2>3, <2>4
<1>16. Timed(rd, n, e)
  BY <1>12, <1>13, <1>14, <1>15 DEF Timed
<1>17. m < Len(l) => m # Len(l)
  BY <1>6
<1> QED
  BY <1>9, <1>10, <1>16, <1>17 DEF l, n, e, rd

\* The timer: those whose time has come are READY, before the process that ran.
LEMMA TimerStep ==
    ASSUME NEW L, NEW d, Fits(L, d), UNCHANGED <<pid, nextpid, targetPCB>>,
           NEW t, t = tick(Return(Queues, "eax")), NEW s,
           Dispatch(IF t.p = NULL THEN t ELSE switch(ready(t, p)), s)
    PROVE  TimesInv' /\ S!Timer
<1> DEFINE u == Return(Queues, "eax")
           l == L[SQ]
           q == ready(t, p)
           e == Later(l, d)
<1>1. /\ List(head) = L[RQ] /\ List(sleepQ) = l
      /\ [j \in Slot |-> List(waiting[j])] = [j \in Slot |-> L[j]]
      /\ [j \in Slot |-> IF state[j] = "SLEEP" THEN TicksLeft(j) ELSE 0] = d
      /\ L \in [Ix -> Seq(Slot)] /\ p \in Slot /\ p # NULL /\ Timed(sleepdiff, l, d)
  BY ShownNow
<1>2. /\ Slot \subseteq Ix /\ RQ \in Ix /\ SQ \in Ix /\ RQ # SQ /\ RQ \notin Slot /\ SQ \notin Slot
  BY SlotsAre
<1>3. Running(u, L) /\ u.sleepdiff = sleepdiff /\ u.state = state /\ u.p = p
  <2>1. "eax" \in Rets
    BY DEF Rets
  <2> QED
    BY <2>1, ReturnKeeps
<1>4. /\ u \in QueueSet(Ptr) /\ Fam(u.next, L) /\ Listed(u, L, Slot) /\ u.state[p] = "RUNNING"
  BY <1>3, RunningIs
<1> HIDE DEF u
<1>5. PICK m \in 0 .. Len(l) : Woken(u, t, L, m)
  BY <1>3, TickRuns DEF u
<1> DEFINE N == Moved(L, SQ, m)
           b == SubSeq(l, 1, m)
           M == Put(N, RQ, Len(N[RQ]), p)
           st == [i \in S!Slot |-> IF i = p \/ i \in S!Elements(b) THEN "READY" ELSE state[i]]
<1>6. /\ Running(t, N) /\ t.p = p
      /\ \A j \in Slot : ~In(N, RQ, j) => t.state[j] = state[j]
  BY <1>3, <1>5 DEF Woken
<1>7. /\ N \in [Ix -> Seq(Slot)] /\ N[SQ] = SubSeq(l, m + 1, Len(l)) /\ N[RQ] = L[RQ] \o b
      /\ \A y \in Ix \ {SQ, RQ} : N[y] = L[y]
  <2>1. SQ \in Ix \ {RQ}
    BY <1>2
  <2> QED
    BY ZenonT(40), <1>1, <2>1, MovedIs
<1>8. \A j : In(N, RQ, j) <=> In(L, RQ, j) \/ j \in S!Elements(b)
  BY <1>1, <1>2, MovedIn
<1>9. /\ \A k \in 1 .. m : d[l[k]] = 1
      /\ m < Len(l) => d[l[m + 1]] # 1
      /\ Timed(t.sleepdiff, N[SQ], e)
  BY <1>1, <1>3, <1>4, <1>5, TickTimes
<1> HIDE DEF N, b, e
<1>10. /\ M \in [Ix -> Seq(Slot)] /\ M[RQ] = Append(L[RQ] \o b, p) /\ M[SQ] = N[SQ]
       /\ \A y \in Slot : M[y] = L[y]
  <2>1. /\ M \in [Ix -> Seq(Slot)] /\ M[RQ] = Append(N[RQ], p)
        /\ \A y \in Ix \ {RQ} : M[y] = N[y]
    <3>1. Longer(N, RQ, p, M)
      BY <1>1, <1>2, <1>7, PutLast
    <3> HIDE DEF M
    <3> QED
      BY <3>1 DEF Longer
  <2> HIDE DEF M
  <2> QED
    <3>1. M[RQ] = Append(L[RQ] \o b, p) /\ M[SQ] = N[SQ]
      BY <1>2, <1>7, <2>1
    <3>2. \A y \in Slot : M[y] = L[y]
      BY <1>2, <1>7, <2>1
    <3> QED
      BY <2>1, <3>1, <3>2
<1>11. t \in QueueSet(Ptr) /\ Listed(t, N, Slot) /\ t.p # NULL /\ t.state \in [Slot -> States]
  BY <1>6, RunningIs
<1>12. Blocked(q, M)
  BY <1>6, ReadyBlocks
<1>13. q.state = [t.state EXCEPT ![p] = "READY"] /\ q.sleepdiff = t.sleepdiff
  BY <1>1, <1>11, ReadyIs
<1>14. q.state = st
  <2> HIDE DEF q, M
  <2>1. ASSUME NEW j \in Slot  PROVE q.state[j] = st[j]
    <3>1. j \in S!Slot
      BY DEF S!Slot, Slot
    <3>2. CASE j = p
      BY <1>11, <1>13, <3>1, <3>2
    <3>3. CASE j # p
      <4>1. q.state[j] = t.state[j]
        BY <1>11, <1>13, <3>3
      <4>2. CASE j \in S!Elements(b)
        <5>1. t.state[j] = "READY"
          BY <1>8, <1>11, <4>2 DEF Listed
        <5> QED
          BY <3>1, <4>1, <4>2, <5>1
      <4>3. CASE j \notin S!Elements(b)
        <5>1. t.state[j] = state[j]
          <6>1. CASE In(L, RQ, j)
            BY <1>3, <1>4, <1>8, <1>11, <6>1 DEF Listed
          <6>2. CASE ~In(L, RQ, j)
            BY <1>6, <1>8, <4>3, <6>2
          <6> QED
            BY <6>1, <6>2
        <5> QED
          BY <3>1, <3>3, <4>1, <4>3, <5>1
      <4> QED
        BY <4>2, <4>3
    <3> QED
      BY <3>2, <3>3
  <2>2. S!Slot = Slot
    BY DEF S!Slot, Slot
  <2>3. q.state \in [Slot -> States]
    BY <1>11, <1>13 DEF States
  <2> QED
    BY <2>1, <2>2, <2>3
<1>15. Leaves(Less(M, RQ), e) /\ S!Resume(M[RQ], q.state)
  <2>1. Dispatch(switch(q), s)
    BY <1>11
  <2> HIDE DEF q, M
  <2> QED
    BY <1>9, <1>10, <1>12, <1>13, <2>1, SwitchesWith
<1> HIDE DEF q, M
<1>16. /\ Less(M, RQ)[SQ] = SubSeq(l, m + 1, Len(l))
       /\ [j \in Slot |-> Less(M, RQ)[j]] = [j \in Slot |-> L[j]]
  BY <1>1, <1>2, <1>7, <1>10 DEF Less
<1>17. S!Due(m)
  BY <1>1, <1>9 DEF S!Due
<1>18. S!Timer
  <2>1. S!Resume(Append(List(head) \o SubSeq(List(sleepQ), 1, m), p),
                 [i \in S!Slot |-> IF i = p \/ i \in S!Elements(SubSeq(List(sleepQ), 1, m))
                                   THEN "READY" ELSE state[i]])
    BY <1>1, <1>10, <1>14, <1>15 DEF b
  <2>2. /\ List(sleepQ)' = SubSeq(List(sleepQ), m + 1, Len(List(sleepQ)))
        /\ [j \in Slot |-> List(waiting[j])]' = [j \in Slot |-> List(waiting[j])]
        /\ m \in 0 .. Len(List(sleepQ))
    BY <1>1, <1>15, <1>16 DEF Leaves
  <2>3. [i \in Slot |-> IF state[i] = "SLEEP" THEN TicksLeft(i) ELSE 0]' = Later(l, d)
    BY <1>15 DEF Leaves, e
  <2>4. Later(l, d) = [i \in S!Slot |-> IF i \in S!Elements(List(sleepQ))
            THEN [j \in Slot |-> IF state[j] = "SLEEP" THEN TicksLeft(j) ELSE 0][i] - 1
            ELSE [j \in Slot |-> IF state[j] = "SLEEP" THEN TicksLeft(j) ELSE 0][i]]
    <3> DEFINE D == [j \in Slot |-> IF state[j] = "SLEEP" THEN TicksLeft(j) ELSE 0]
    <3>1. D = d /\ List(sleepQ) = l
      BY <1>1
    <3> HIDE DEF D
    <3>2. Later(List(sleepQ), D) = [i \in S!Slot |-> IF i \in S!Elements(List(sleepQ))
                                                      THEN D[i] - 1 ELSE D[i]]
      BY DEF Later
    <3> QED
      BY ZenonT(40), <3>1, <3>2 DEF D
  <2> QED
    BY <1>1, <1>17, <2>1, <2>2, <2>3, <2>4 DEF S!Timer
<1> QED
  BY <1>15, <1>18 DEF Leaves

\* A process that sleeps for len ticks wakes after the first k of the list, and before
\* the others.
Between(l, d, k, len) ==
    /\ k > 0 => d[l[k]] <= len
    /\ k # Len(l) => d[l[k + 1]] > len

\* The loop of sleep() takes the differences off len one by one.
Reached(l, d, len, w, k) == w.tmp = l[k] /\ w.len = len - d[l[k]] /\ d[l[k]] <= len
ReachedBy(s, l, d, len, w, n) ==
    \E k \in 1 .. Len(l) : Reached(l, d, len, w, k) /\ (Placed(s, w) \/ k > n)

\* The loop of sleep() ends behind the last that is due no later than len.
LEMMA PlaceIs ==
    ASSUME NEW s \in QueueSet(Ptr), NEW l \in Seq(Slot), l # <<>>, Len(l) <= MaxProc,
           s.sleepQ = l[1], NEW d, Timed(s.sleepdiff, l, d), NEW len \in Int,
           ~Above(s.sleepdiff[l[1]], len),
           \A k \in 1 .. Len(l) : s.next[l[k]] = IF k = Len(l) THEN NULL ELSE l[k + 1]
    PROVE  \E k \in 1 .. Len(l) :
              Reached(l, d, len, place(s, len), k) /\ Between(l, d, k, len)
<1> DEFINE I == [n \in 0 .. Fuel |-> {w \in Spots : ReachedBy(s, l, d, len, w, n)}]
           sd == s.sleepdiff
<1>1. Fuel \in Nat /\ MaxProc \in Nat /\ Fuel > MaxProc
  BY FuelIsEnough
<1>2. /\ Len(l) \in Nat /\ 1 \in 1 .. Len(l) /\ \A k \in 1 .. Len(l) : l[k] \in Slot
  <2>1. Len(l) \in Nat /\ Len(l) # 0 /\ \A k \in 1 .. Len(l) : l[k] \in Slot
    BY LenProperties, EmptySeq, ElementOfSeq
  <2> QED
    BY <2>1
<1>3. /\ d \in [Slot -> Int] /\ \A k \in 1 .. Len(l) : sd[l[k]] = Gap(l, d, k) /\ d[l[k]] \in Int
      /\ \A j, k \in 1 .. Len(l) : d[l[j]] >= 1 /\ (j <= k => d[l[j]] <= d[l[k]])
  BY <1>2 DEF Timed
<1>4. sd[l[1]] = d[l[1]] /\ d[l[1]] <= len
  <2>1. sd[l[1]] = d[l[1]]
    <3>1. \A x \in Int : x - 0 = x
      OBVIOUS
    <3> QED
      BY <1>2, <1>3, <3>1 DEF Gap
  <2> QED
    BY <1>2, <1>3, <2>1 DEF Above
<1>5. ASSUME NEW k \in 1 .. Len(l), k # Len(l)
      PROVE  /\ k + 1 \in 1 .. Len(l)
             /\ sd[l[k + 1]] = d[l[k + 1]] - d[l[k]] /\ sd[l[k + 1]] >= 0
  <2>1. k + 1 \in 1 .. Len(l) /\ k + 1 # 1 /\ (k + 1) - 1 = k /\ k <= k + 1
    BY <1>2, <1>5
  <2>2. sd[l[k + 1]] = d[l[k + 1]] - d[l[k]]
    BY <1>3, <2>1 DEF Gap
  <2>3. d[l[k]] <= d[l[k + 1]] /\ d[l[k]] \in Int /\ d[l[k + 1]] \in Int
    BY <1>3, <2>1
  <2> QED
    BY <2>1, <2>2, <2>3
<1>6. FirstSpot(s, len) \in I[0]
  <2>1. FirstSpot(s, len) \in Spots
    BY <1>2, FirstSpotTypes
  <2>2. Reached(l, d, len, FirstSpot(s, len), 1)
    BY <1>4 DEF FirstSpot, Spot, Reached
  <2>3. ReachedBy(s, l, d, len, FirstSpot(s, len), 0)
    BY <1>2, <2>2 DEF ReachedBy
  <2> QED
    BY <1>1, <2>1, <2>3
<1>7. ASSUME NEW n \in 0 .. Fuel - 1, NEW w \in I[n] \cap Spots  PROVE PlaceTurn(s, w) \in I[n + 1]
  <2>1. n \in 0 .. Fuel /\ n + 1 \in 0 .. Fuel /\ n \in Nat
    BY <1>1
  <2>2. PICK k \in 1 .. Len(l) : Reached(l, d, len, w, k) /\ (Placed(s, w) \/ k > n)
    BY <2>1 DEF ReachedBy
  <2>3. PlaceTurn(s, w) \in Spots
    BY PlaceTypes
  <2>4. CASE Placed(s, w)
    BY <2>1, <2>2, <2>3, <2>4 DEF PlaceTurn, ReachedBy
  <2>5. CASE ~Placed(s, w)
    <3> DEFINE succ == s.next[w.tmp]
    <3>1. /\ succ # NULL /\ PlaceTurn(s, w) = Spot(succ, w.len - sd[succ])
          /\ ~Above(sd[succ], w.len)
      BY <2>5 DEF PlaceTurn, Placed
    <3>2. k # Len(l) /\ succ = l[k + 1]
      BY <2>2, <3>1 DEF Reached
    <3>3. k + 1 \in 1 .. Len(l) /\ sd[l[k + 1]] = d[l[k + 1]] - d[l[k]]
      BY <1>5, <3>2
    <3>4. k + 1 > n + 1
      BY <2>1, <2>2, <2>5
    <3>5. d[l[k]] \in Int /\ d[l[k + 1]] \in Int /\ w.len = len - d[l[k]]
      BY <1>3, <2>2, <3>3 DEF Reached
    <3>6. w.len - sd[l[k + 1]] = len - d[l[k + 1]]
      BY <3>3, <3>5
    <3>7. d[l[k + 1]] <= len
      <4>1. ~(sd[l[k + 1]] > w.len)
        BY <3>1, <3>2 DEF Above
      <4> QED
        BY <3>3, <3>5, <4>1
    <3>8. Reached(l, d, len, PlaceTurn(s, w), k + 1)
      BY <3>1, <3>2, <3>6, <3>7 DEF Spot, Reached
    <3>9. ReachedBy(s, l, d, len, PlaceTurn(s, w), n + 1)
      BY <3>3, <3>4, <3>8 DEF ReachedBy
    <3> QED
      BY <2>1, <2>3, <3>9
  <2> QED
    BY <2>4, <2>5
<1>8. PICK w \in I[Fuel] \cap Spots : place(s, len) = Found(s, w)
  <2> HIDE DEF I
  <2>1. s.sleepQ \in Slot
    BY <1>2
  <2> QED
    BY <1>6, <1>7, <2>1, PlaceLoop
<1>9. PICK k \in 1 .. Len(l) : Reached(l, d, len, w, k) /\ (Placed(s, w) \/ k > Fuel)
  <2>1. Fuel \in 0 .. Fuel
    BY <1>1
  <2> QED
    BY <1>8, <2>1 DEF ReachedBy
<1>10. Placed(s, w)
  BY <1>1, <1>2, <1>9
<1>11. Found(s, w) = w
  BY <1>8, <1>10 DEF Found, Spots
<1>12. Between(l, d, k, len)
  <2>1. ASSUME k # Len(l)  PROVE d[l[k + 1]] > len
    <3>1. k + 1 \in 1 .. Len(l) /\ sd[l[k + 1]] = d[l[k + 1]] - d[l[k]] /\ sd[l[k + 1]] >= 0
      BY <1>5, <2>1
    <3>2. s.next[w.tmp] = l[k + 1] /\ w.len = len - d[l[k]] /\ l[k + 1] \in Slot
      BY <1>2, <1>9, <2>1, <3>1 DEF Reached
    <3>3. Above(sd[l[k + 1]], w.len)
      BY <1>10, <3>2, NullIsNoSlot DEF Placed
    <3>4. d[l[k]] \in Int /\ d[l[k + 1]] \in Int
      BY <1>3, <3>1
    <3> QED
      BY <3>1, <3>2, <3>3, <3>4 DEF Above
  <2> QED
    BY <1>9, <2>1 DEF Between, Reached
<1> QED
  BY <1>8, <1>9, <1>11, <1>12

\* What remains of len behind the first k is the difference that the process keeps.
Settles(l, d, k, len, x) == Between(l, d, k, len) /\ x = len - IF k = 0 THEN 0 ELSE d[l[k]]

\* The place where sleep() puts a process is where Sched says.
LEMMA GoesIs ==
    ASSUME NEW q, NEW L, Running(q, L), NEW d, Timed(q.sleepdiff, L[SQ], d),
           NEW k \in 0 .. Len(L[SQ]), NEW len \in Int, NEW x, Goes(q, L[SQ], k, len, x)
    PROVE  Settles(L[SQ], d, k, len, x)
<1> DEFINE l == L[SQ]
           s == Slept(q, q.p)
<1>1. /\ q \in QueueSet(Ptr) /\ Fam(q.next, L) /\ Ends(q, L) /\ Loose(L, q.p)
      /\ q.p \in Slot /\ q.next \in [Slot -> Ptr]
  BY RunningIs
<1>2. /\ SQ \in Ix /\ l \in Seq(Slot) /\ Len(l) \in Nat /\ Len(l) <= MaxProc
      /\ (l = <<>> <=> Len(l) = 0) /\ \A j \in 1 .. Len(l) : l[j] \in Slot
      /\ \A i, j \in 1 .. Len(l) : l[i] = l[j] => i = j
  <2>1. SQ \in Ix
    BY SlotsAre
  <2>2. Len(l) \in 0 .. MaxProc
    BY <1>1, <2>1, ListFits
  <2> QED
    BY <1>1, <2>1, <2>2, FamIs, FuelIsEnough DEF Fam, Apart
<1>3. \A j \in 1 .. Len(l) : l[j] # q.p /\ q.next[l[j]] = IF j = Len(l) THEN NULL ELSE l[j + 1]
  BY <1>1, <1>2 DEF Fam, Chained, Loose, In
<1>4. /\ s \in QueueSet(Ptr) /\ s.next = [q.next EXCEPT ![q.p] = NULL]
      /\ s.sleepQ = q.sleepQ /\ s.sleepdiff = q.sleepdiff
  BY ZenonT(40), <1>1, SleptIs
<1>5. \A j \in 1 .. Len(l) : s.next[l[j]] = IF j = Len(l) THEN NULL ELSE l[j + 1]
  BY <1>1, <1>2, <1>3, <1>4
<1>6. l # <<>> => s.sleepQ = l[1]
  BY <1>1, <1>2, <1>4, EndsAre DEF Ends
<1>7. Timed(s.sleepdiff, l, d)
  BY <1>4
<1>8. Goes(q, l, k, len, x)
  OBVIOUS
<1> HIDE DEF l, s
<1>9. CASE k = 0
  <2>1. x = len /\ (l = <<>> \/ Above(q.sleepdiff[l[1]], len))
    BY <1>8, <1>9 DEF Goes
  <2>2. ASSUME k # Len(l)  PROVE d[l[k + 1]] > len
    <3>1. 1 \in 1 .. Len(l) /\ l # <<>> /\ k + 1 = 1
      BY <1>2, <1>9, <2>2
    <3>2. q.sleepdiff[l[1]] = d[l[1]] - 0 /\ d[l[1]] >= 1 /\ d[l[1]] \in Int
      BY <1>2, <1>4, <1>7, <3>1 DEF Timed, Gap
    <3> QED
      BY <2>1, <3>1, <3>2 DEF Above
  <2> QED
    BY <1>9, <2>1, <2>2 DEF Between, Settles, l
<1>10. CASE k # 0
  <2>1. /\ ~Above(s.sleepdiff[l[1]], len)
        /\ place(s, len).tmp = l[k] /\ place(s, len).len = x
    BY <1>4, <1>8, <1>10 DEF Goes, s
  <2>2. l # <<>> /\ k \in 1 .. Len(l)
    BY <1>2, <1>10 DEF l
  <2>3. PICK j \in 1 .. Len(l) : Reached(l, d, len, place(s, len), j) /\ Between(l, d, j, len)
    BY ZenonT(60), <1>2, <1>4, <1>5, <1>6, <1>7, <2>1, <2>2, PlaceIs
  <2>4. j = k
    BY <1>2, <2>1, <2>2, <2>3 DEF Reached
  <2> QED
    BY <1>10, <2>1, <2>3, <2>4 DEF Reached, Settles, l
<1> QED
  BY <1>9, <1>10

\* The differences that sleep() leaves.
LEMMA DelayedIs ==
    ASSUME NEW l \in Seq(Slot), NEW k \in 0 .. Len(l), NEW i \in Slot, NEW x,
           NEW sd \in [Slot -> Int], \A j \in 1 .. Len(l) : l[j] # i,
           \A j, n \in 1 .. Len(l) : l[j] = l[n] => j = n
    PROVE  /\ Delayed(sd, l, k, i, x)[i] = x
           /\ \A j \in 1 .. Len(l) : Delayed(sd, l, k, i, x)[l[j]] =
                 IF j = k + 1 THEN Minus(sd[l[j]], x) ELSE sd[l[j]]
<1>1. /\ Len(l) \in Nat /\ k \in Nat /\ \A j \in 1 .. Len(l) : l[j] \in Slot /\ l[j] # NULL
      /\ \A j \in 1 .. Len(l) : k = Len(l) => j # k + 1
      /\ k # Len(l) => k + 1 \in 1 .. Len(l)
  <2>1. Len(l) \in Nat /\ \A j \in 1 .. Len(l) : l[j] \in Slot
    BY LenProperties, ElementOfSeq
  <2> QED
    BY <2>1, NullIsNoSlot
<1>2. CASE k = Len(l)
  <2>1. Delayed(sd, l, k, i, x) = [sd EXCEPT ![i] = x]
    BY <1>2 DEF Delayed, Ahead
  <2> QED
    BY <1>1, <1>2, <2>1
<1>3. CASE k # Len(l)
  <2>1. Delayed(sd, l, k, i, x) = [[sd EXCEPT ![i] = x] EXCEPT ![l[k + 1]] = Minus(@, x)]
    BY <1>1, <1>3 DEF Delayed, Ahead
  <2> QED
    BY <1>1, <1>3, <2>1
<1> QED
  BY <1>2, <1>3

\* A process that sleeps behind the first k of the list has len ticks left, and the
\* others the ticks they had.
LEMMA SleepTimes ==
    ASSUME NEW l \in Seq(Slot), NEW k \in 0 .. Len(l), NEW i \in Slot, NEW len \in Int, len >= 1,
           NEW sd \in [Slot -> Int], \A j \in 1 .. Len(l) : l[j] # i,
           \A j, n \in 1 .. Len(l) : l[j] = l[n] => j = n,
           NEW d, Timed(sd, l, d), Between(l, d, k, len),
           NEW x, x = len - IF k = 0 THEN 0 ELSE d[l[k]]
    PROVE  Timed(Delayed(sd, l, k, i, x), Insert(l, k, i), [d EXCEPT ![i] = len])
<1> DEFINE m == Insert(l, k, i)
           rd == Delayed(sd, l, k, i, x)
           e == [d EXCEPT ![i] = len]
<1>1. /\ Len(l) \in Nat /\ k \in Nat /\ k <= Len(l) /\ Len(m) = Len(l) + 1
      /\ \A j \in 1 .. Len(l) : l[j] \in Slot
  BY InsertIs, LenProperties, ElementOfSeq
<1>2. \A n \in 1 .. Len(l) + 1 : m[n] = IF n <= k THEN l[n] ELSE IF n = k + 1 THEN i ELSE l[n - 1]
  BY InsertIs
<1>3. /\ rd[i] = x
      /\ \A j \in 1 .. Len(l) : rd[l[j]] = IF j = k + 1 THEN Minus(sd[l[j]], x) ELSE sd[l[j]]
  <2> DEFINE rr == Delayed(sd, l, k, i, x)
  <2>1. rr[i] = x /\ \A j \in 1 .. Len(l) :
           rr[l[j]] = IF j = k + 1 THEN Minus(sd[l[j]], x) ELSE sd[l[j]]
    BY SMTT(30), DelayedIs
  <2> QED
    BY <2>1
<1>4. /\ d \in [Slot -> Int] /\ \A j \in 1 .. Len(l) : d[l[j]] \in Int
      /\ \A j \in Slot : (\A n \in 1 .. Len(l) : l[n] # j) => d[j] = 0
      /\ \A n \in 1 .. Len(l) : sd[l[n]] = Gap(l, d, n)
      /\ \A j, n \in 1 .. Len(l) : d[l[j]] >= 1 /\ (j <= n => d[l[j]] <= d[l[n]])
  BY <1>1 DEF Timed
<1>5. /\ e \in [Slot -> Int] /\ e[i] = len
      /\ \A j \in 1 .. Len(l) : e[l[j]] = d[l[j]]
      /\ \A j \in Slot \ {i} : e[j] = d[j]
  BY <1>1, <1>4
<1> HIDE DEF m, rd, e
<1>6. ASSUME NEW n \in 1 .. Len(m)
      PROVE  /\ n <= k => n \in 1 .. Len(l) /\ m[n] = l[n] /\ e[m[n]] = d[l[n]]
             /\ n = k + 1 => m[n] = i /\ e[m[n]] = len
             /\ n > k + 1 => n - 1 \in 1 .. Len(l) /\ m[n] = l[n - 1] /\ e[m[n]] = d[l[n - 1]]
  <2>1. n \in 1 .. Len(l) + 1
    BY <1>1
  <2>2. CASE n <= k
    <3>1. n \in 1 .. Len(l) /\ n # k + 1 /\ ~(n > k + 1)
      BY <1>1, <2>1, <2>2
    <3> QED
      BY <1>2, <1>5, <2>1, <2>2, <3>1
  <2>3. CASE n = k + 1
    <3>1. ~(n <= k) /\ ~(n > k + 1)
      BY <1>1, <2>3
    <3> QED
      BY <1>2, <1>5, <2>1, <2>3, <3>1
  <2>4. CASE n > k + 1
    <3>1. n - 1 \in 1 .. Len(l) /\ ~(n <= k) /\ n # k + 1
      BY <1>1, <2>1, <2>4
    <3> QED
      BY <1>2, <1>5, <2>1, <2>4, <3>1
  <2> QED
    BY <2>2, <2>3, <2>4
<1>7. k \in Nat /\ Len(l) \in Nat /\ k <= Len(l) /\ Len(m) = Len(l) + 1
  BY <1>1
<1>8. ASSUME NEW j \in Slot, \A n \in 1 .. Len(m) : m[n] # j  PROVE e[j] = 0
  <2>1. j # i
    <3>1. k + 1 \in 1 .. Len(l) + 1 /\ ~(k + 1 <= k)
      BY <1>1
    <3>2. m[k + 1] = i
      BY <1>2, <3>1
    <3> QED
      BY <1>1, <1>8, <3>1, <3>2
  <2>2. ASSUME NEW n \in 1 .. Len(l), l[n] = j  PROVE FALSE
    <3>1. CASE n <= k
      <4>1. n \in 1 .. Len(l) + 1
        BY <1>1
      <4> QED
        BY <1>1, <1>2, <1>8, <2>2, <3>1, <4>1
    <3>2. CASE ~(n <= k)
      <4>1. n + 1 \in 1 .. Len(l) + 1 /\ ~(n + 1 <= k) /\ n + 1 # k + 1 /\ (n + 1) - 1 = n
        BY <1>1, <3>2
      <4> QED
        BY <1>1, <1>2, <1>8, <2>2, <4>1
    <3> QED
      BY <3>1, <3>2
  <2> QED
    BY <1>4, <1>5, <2>1, <2>2
<1>9. ASSUME NEW j \in 1 .. Len(m), NEW n \in 1 .. Len(m)
      PROVE  e[m[j]] >= 1 /\ (j <= n => e[m[j]] <= e[m[n]])
  <2>0. j \in Nat /\ n \in Nat
    BY <1>7
  <2>1. e[m[j]] >= 1
    <3>1. j <= k \/ j = k + 1 \/ j > k + 1
      BY <1>7, <2>0
    <3>2. CASE j <= k
      <4>1. j \in 1 .. Len(l) /\ e[m[j]] = d[l[j]]
        BY <1>6, <3>2
      <4> QED
        BY <1>4, <4>1
    <3>3. CASE j = k + 1
      BY <1>6, <3>3
    <3>4. CASE j > k + 1
      <4>1. j - 1 \in 1 .. Len(l) /\ e[m[j]] = d[l[j - 1]]
        BY <1>6, <3>4
      <4> QED
        BY <1>4, <4>1
    <3> QED
      BY <3>1, <3>2, <3>3, <3>4
  <2>2. ASSUME j <= n  PROVE e[m[j]] <= e[m[n]]
    <3>1. CASE n <= k
      <4>1. j <= k
        BY <1>7, <2>0, <2>2, <3>1
      <4>2. /\ j \in 1 .. Len(l) /\ e[m[j]] = d[l[j]]
            /\ n \in 1 .. Len(l) /\ e[m[n]] = d[l[n]]
        BY <1>6, <3>1, <4>1
      <4> QED
        BY <1>4, <2>2, <4>2
    <3>2. CASE n = k + 1
      <4>1. CASE j = k + 1
        BY <3>2, <4>1, <1>6
      <4>2. CASE j # k + 1
        <5>1. j <= k /\ k \in 1 .. Len(l) /\ k > 0
          BY <1>7, <2>0, <2>2, <3>2, <4>2
        <5>2. j \in 1 .. Len(l) /\ e[m[j]] = d[l[j]]
          BY <1>1, <1>6, <5>1
        <5>3. d[l[j]] <= d[l[k]] /\ d[l[k]] <= len /\ e[m[n]] = len
          BY <1>1, <1>4, <1>6, <3>2, <5>1, <5>2 DEF Between
        <5>4. d[l[j]] \in Int /\ d[l[k]] \in Int
          BY <1>4, <5>1, <5>2
        <5>5. d[l[j]] <= len
          BY SMTT(30), <5>3, <5>4
        <5> QED
          BY <5>2, <5>3, <5>5
      <4> QED
        BY <4>1, <4>2
    <3>3. CASE n > k + 1
      <4>1. n - 1 \in 1 .. Len(l) /\ e[m[n]] = d[l[n - 1]] /\ d[l[n - 1]] \in Int
        BY <1>4, <1>6, <3>3
      <4>2. CASE j <= k
        <5>1. j \in 1 .. Len(l) /\ e[m[j]] = d[l[j]]
          BY <1>6, <4>2
        <5>2. j <= n - 1
          BY <1>7, <2>0, <3>3, <4>2
        <5> QED
          BY <1>4, <4>1, <5>1, <5>2
      <4>3. CASE j = k + 1
        <5>1. k + 1 \in 1 .. Len(l) /\ k + 1 <= n - 1 /\ k # Len(l)
          BY <1>7, <2>0, <3>3
        <5>2. e[m[j]] = len /\ d[l[k + 1]] > len /\ d[l[k + 1]] <= d[l[n - 1]]
          BY <1>4, <1>6, <4>1, <4>3, <5>1 DEF Between
        <5>3. d[l[k + 1]] \in Int
          BY <1>4, <5>1
        <5>4. \A u, v, w \in Int : u > v /\ u <= w => v <= w
          OBVIOUS
        <5> QED
          BY <4>1, <5>2, <5>3, <5>4
      <4>4. CASE j > k + 1
        <5>1. j - 1 \in 1 .. Len(l) /\ e[m[j]] = d[l[j - 1]]
          BY <1>6, <4>4
        <5>2. j - 1 <= n - 1
          BY <2>0, <2>2
        <5> QED
          BY <1>4, <4>1, <5>1, <5>2
      <4> QED
        BY <1>7, <2>0, <4>2, <4>3, <4>4
    <3> QED
      BY <1>7, <2>0, <3>1, <3>2, <3>3
  <2> QED
    BY <2>1, <2>2
<1>10. ASSUME NEW n \in 1 .. Len(m)  PROVE rd[m[n]] = Gap(m, e, n)
  <2> DEFINE y == IF k = 0 THEN 0 ELSE d[l[k]]
  <2>1. y \in Int /\ x = len - y
    BY <1>1, <1>4
  <2>2. CASE n <= k
    <3>1. n \in 1 .. Len(l) /\ m[n] = l[n] /\ e[m[n]] = d[l[n]] /\ n # k + 1
      BY <1>1, <1>6, <2>2
    <3>2. rd[m[n]] = Gap(l, d, n)
      BY <1>3, <1>4, <3>1
    <3>3. n # 1 => e[m[n - 1]] = d[l[n - 1]]
      <4> SUFFICES ASSUME n # 1  PROVE e[m[n - 1]] = d[l[n - 1]]
        OBVIOUS
      <4>1. n - 1 \in 1 .. Len(m) /\ n - 1 <= k
        BY <1>1, <2>2
      <4> QED
        BY <1>1, <1>6, <4>1
    <3> QED
      BY <3>1, <3>2, <3>3 DEF Gap
  <2>3. CASE n = k + 1
    <3>1. m[n] = i /\ e[m[n]] = len /\ rd[m[n]] = x /\ (n = 1 <=> k = 0)
      BY <1>1, <1>3, <1>6, <2>3
    <3>2. k # 0 => e[m[n - 1]] = d[l[k]]
      <4> SUFFICES ASSUME k # 0  PROVE e[m[n - 1]] = d[l[k]]
        OBVIOUS
      <4>1. n - 1 \in 1 .. Len(m) /\ n - 1 <= k /\ n - 1 = k
        BY <1>1, <2>3
      <4> QED
        BY <1>1, <1>6, <4>1
    <3>3. x = len - y
      BY <2>1
    <3> QED
      BY <3>1, <3>2, <3>3 DEF Gap
  <2>4. CASE n > k + 1
    <3>1. n - 1 \in 1 .. Len(l) /\ m[n] = l[n - 1] /\ e[m[n]] = d[l[n - 1]] /\ n # 1
      BY <1>1, <1>6, <2>4
    <3>2. d[l[n - 1]] \in Int /\ sd[l[n - 1]] = Gap(l, d, n - 1)
      BY <1>4, <3>1
    <3>3. CASE n - 1 = k + 1
      <4>1. n - 1 \in 1 .. Len(m) /\ (n - 1) - 1 = k /\ (n - 1 = 1 <=> k = 0)
        BY <1>1, <3>1, <3>3
      <4>2. e[m[n - 1]] = len
        BY <1>1, <1>6, <3>3, <4>1
      <4>3. sd[l[n - 1]] = d[l[n - 1]] - y
        BY <3>2, <4>1 DEF Gap
      <4>4. sd[l[n - 1]] >= 0
        <5>1. CASE k = 0
          <6>1. sd[l[n - 1]] = d[l[n - 1]] - 0 /\ d[l[n - 1]] >= 1
            BY <1>4, <3>1, <4>3, <5>1
          <6> QED
            BY <3>2, <6>1
        <5>2. CASE k # 0
          <6>1. k \in 1 .. Len(l) /\ k <= n - 1
            BY <1>1, <3>3, <5>2
          <6>2. d[l[k]] <= d[l[n - 1]] /\ y = d[l[k]]
            BY <1>4, <3>1, <5>2, <6>1
          <6> QED
            BY SMTT(30), <2>1, <3>2, <4>3, <6>2
        <5> QED
          BY <5>1, <5>2
      <4>5. rd[m[n]] = Minus(sd[l[n - 1]], x)
        BY <1>3, <3>1, <3>3
      <4>6. rd[m[n]] = sd[l[n - 1]] - x
        <5>1. sd[l[n - 1]] \in Int
          BY <1>1, <3>1
        <5> HIDE DEF y
        <5> QED
          BY <4>4, <4>5, <5>1 DEF Minus
      <4>7. rd[m[n]] = d[l[n - 1]] - len
        <5> HIDE DEF y
        <5> QED
          BY <2>1, <3>2, <4>3, <4>6
      <4> QED
        BY <3>1, <4>2, <4>7 DEF Gap
    <3>4. CASE n - 1 # k + 1
      <4>1. /\ n - 1 \in 1 .. Len(m) /\ n - 1 > k + 1 /\ n - 1 # 1
        BY <1>1, <2>4, <3>1, <3>4
      <4>2. e[m[n - 1]] = d[l[(n - 1) - 1]]
        BY <1>1, <1>6, <4>1
      <4>3. rd[m[n]] = sd[l[n - 1]]
        BY <1>3, <3>1, <3>4
      <4> QED
        BY <3>1, <3>2, <4>1, <4>2, <4>3 DEF Gap
    <3> QED
      BY <3>3, <3>4
  <2> QED
    BY <1>1, <2>2, <2>3, <2>4
<1>11. Timed(rd, m, e)
  BY <1>5, <1>8, <1>9, <1>10 DEF Timed
<1> QED
  BY <1>11 DEF m, rd, e

\* syssleep(): the running process goes where the differences say.
LEMMA SleepStep ==
    ASSUME NEW L, NEW d, Fits(L, d), p # Idle, UNCHANGED <<pid, nextpid, targetPCB>>,
           NEW ms \in Nat, ms \in Lens, ms >= MILLISECONDS_TICK,
           NEW s, Dispatch(switch(sleep(Queues, p, ms)), s)
    PROVE  TimesInv' /\ S!Sleep(ms)
<1> DEFINE l == L[SQ]
           q == sleep(Queues, p, ms)
           len == ms \div MILLISECONDS_TICK
           e == [d EXCEPT ![p] = len]
<1>1. /\ List(head) = L[RQ] /\ List(sleepQ) = l
      /\ [j \in Slot |-> List(waiting[j])] = [j \in Slot |-> L[j]]
      /\ [j \in Slot |-> IF state[j] = "SLEEP" THEN TicksLeft(j) ELSE 0] = d
      /\ L \in [Ix -> Seq(Slot)] /\ p \in Slot /\ p # NULL /\ d \in [Slot -> Int]
      /\ Running(Queues, L) /\ Timed(sleepdiff, l, d)
  BY ShownNow
<1>2. /\ Slot \subseteq Ix /\ RQ \in Ix /\ SQ \in Ix /\ RQ # SQ /\ RQ \notin Slot /\ SQ \notin Slot
  BY SlotsAre
<1>3. len \in Int /\ len >= 1 /\ ~(ms < 1) /\ ms >= 1
  BY DEF MILLISECONDS_TICK
<1>4. /\ Fam(next, L) /\ Loose(L, p) /\ sleepdiff \in [Slot -> Int]
  <2>1. Fam(Queues.next, L) /\ Loose(L, Queues.p) /\ Queues \in QueueSet(Ptr)
    BY <1>1, RunningIs
  <2>2. Queues.sleepdiff \in [Slot -> Int]
    BY <2>1 DEF QueueSet
  <2> QED
    BY <2>1, <2>2, QueuesAre
<1>5. /\ l \in Seq(Slot) /\ Len(l) \in Nat /\ DOMAIN l = 1 .. Len(l)
      /\ \A j \in 1 .. Len(l) : l[j] \in Slot /\ l[j] # p
      /\ \A j, n \in 1 .. Len(l) : l[j] = l[n] => j = n
  BY <1>2, <1>4, FamIs DEF Fam, Apart, Loose, In
<1> HIDE DEF len
<1>6. PICK k \in 0 .. Len(l), x \in Int : SleptBehind(Queues, q, L, k, len, x)
  <2>1. Queues.p # Idle
    BY QueuesAre
  <2>2. \E k \in 0 .. Len(L[SQ]), x \in Int :
           SleptBehind(Queues, sleep(Queues, Queues.p, ms), L, k, ms \div MILLISECONDS_TICK, x)
    BY <1>1, <1>3, <2>1, SleepRuns
  <2> QED
    BY <2>2, QueuesAre DEF len
<1> DEFINE M == Put(L, SQ, k, p)
<1> HIDE DEF q
<1>7. /\ Blocked(q, M) /\ Goes(Queues, l, k, len, x)
      /\ q.state = [state EXCEPT ![p] = "SLEEP"]
      /\ q.sleepdiff = Delayed(sleepdiff, l, k, p, x)
  BY <1>6, QueuesAre DEF SleptBehind
<1>8. Between(l, d, k, len) /\ x = len - IF k = 0 THEN 0 ELSE d[l[k]]
  <2>1. /\ Running(Queues, L) /\ Timed(Queues.sleepdiff, L[SQ], d)
        /\ Goes(Queues, L[SQ], k, len, x) /\ k \in 0 .. Len(L[SQ])
    BY <1>1, <1>7, QueuesAre
  <2>2. Settles(L[SQ], d, k, len, x)
    BY ZenonT(40), <1>3, <2>1, GoesIs
  <2> QED
    BY <2>2 DEF Settles
<1>9. /\ M[SQ] = Insert(l, k, p) /\ M[RQ] = L[RQ] /\ \A y \in Slot : M[y] = L[y]
      /\ M \in [Ix -> Seq(Slot)]
  <2>1. Insert(l, k, p) \in Seq(Slot)
    BY <1>1, <1>5, InsertIs
  <2> QED
    BY <1>1, <1>2, <2>1 DEF Put
<1> HIDE DEF M, e, l
<1>10. Timed(q.sleepdiff, M[SQ], e)
  <2>1. /\ l \in Seq(Slot) /\ k \in 0 .. Len(l) /\ p \in Slot /\ len \in Int /\ len >= 1
        /\ sleepdiff \in [Slot -> Int] /\ \A j \in 1 .. Len(l) : l[j] # p
    BY <1>1, <1>3, <1>4, <1>5
  <2>2. \A j, n \in 1 .. Len(l) : l[j] = l[n] => j = n
    BY <1>5
  <2>3. Timed(sleepdiff, l, d) /\ Between(l, d, k, len) /\ x = len - IF k = 0 THEN 0 ELSE d[l[k]]
    BY <1>1, <1>8
  <2>4. Timed(Delayed(sleepdiff, l, k, p, x), Insert(l, k, p), [d EXCEPT ![p] = len])
    BY ZenonT(40), <2>1, <2>2, <2>3, SleepTimes
  <2> QED
    BY <1>7, <1>9, <2>4 DEF e
<1>11. Leaves(Less(M, RQ), e) /\ S!Resume(M[RQ], q.state)
  <2>1. Dispatch(switch(q), s)
    BY DEF q
  <2>2. Blocked(q, M)
    BY <1>7
  <2>3. Leaves(Less(M, RQ), e)
    <3>1. PICK N, c : N = M /\ c = e
      OBVIOUS
    <3>2. Leaves(Less(N, RQ), c)
      BY <1>10, <2>1, <2>2, <3>1, SwitchesWith
    <3> QED
      BY <3>1, <3>2 DEF Leaves
  <2>4. S!Resume(M[RQ], q.state)
    BY <1>10, <2>1, <2>2, SwitchesWith
  <2> QED
    BY <2>3, <2>4
<1>12. /\ Less(M, RQ)[SQ] = Insert(l, k, p)
       /\ [j \in Slot |-> Less(M, RQ)[j]] = [j \in Slot |-> L[j]]
  BY <1>1, <1>2, <1>9 DEF Less
<1>13. /\ \A n \in 1 .. k : Gap(l, d, n) >= 0 /\ d[l[n]] <= len
       /\ k < Len(l) => Gap(l, d, k + 1) < 0 \/ d[l[k + 1]] > len
  <2>1. \A j, n \in 1 .. Len(l) : d[l[j]] >= 1 /\ (j <= n => d[l[j]] <= d[l[n]])
    BY <1>1 DEF Timed
  <2>2. \A j \in 1 .. Len(l) : d[l[j]] \in Int
    BY <1>1, <1>5
  <2>3. ASSUME NEW n \in 1 .. k  PROVE Gap(l, d, n) >= 0 /\ d[l[n]] <= len
    <3>1. n \in 1 .. Len(l) /\ k \in 1 .. Len(l) /\ n <= k /\ k > 0
      <4>1. Len(l) \in Nat /\ k \in 0 .. Len(l)
        BY <1>5
      <4> QED
        BY <4>1
    <3>2. d[l[n]] <= d[l[k]] /\ d[l[k]] <= len /\ d[l[n]] \in Int /\ d[l[k]] \in Int
      BY <1>8, <2>1, <2>2, <3>1 DEF Between
    <3>3. CASE n = 1
      <4>1. d[l[n]] >= 1
        BY <2>1, <3>1
      <4> QED
        BY <1>3, <3>2, <3>3, <4>1 DEF Gap
    <3>4. CASE n # 1
      <4>1. n - 1 \in 1 .. Len(l) /\ n - 1 <= n
        BY <1>5, <3>1, <3>4
      <4>2. d[l[n - 1]] <= d[l[n]] /\ d[l[n - 1]] \in Int
        BY <2>1, <2>2, <3>1, <4>1
      <4> QED
        BY <1>3, <3>2, <3>4, <4>2 DEF Gap
    <3> QED
      BY <3>3, <3>4
  <2>4. k < Len(l) => k # Len(l)
    OBVIOUS
  <2> QED
    BY <1>8, <2>3, <2>4 DEF Between
<1>14. S!GoesBehind(k, len)
  <2> DEFINE D == [j \in Slot |-> IF state[j] = "SLEEP" THEN TicksLeft(j) ELSE 0]
             Q == List(sleepQ)
  <2>1. D = d /\ Q = l
    BY <1>1
  <2> HIDE DEF D, Q
  <2>2. /\ \A n \in 1 .. k : D[Q[n]] - (IF n = 1 THEN 0 ELSE D[Q[n - 1]]) >= 0 /\ D[Q[n]] <= len
        /\ k < Len(Q) => \/ D[Q[k + 1]] - (IF k + 1 = 1 THEN 0 ELSE D[Q[(k + 1) - 1]]) < 0
                         \/ D[Q[k + 1]] > len
    BY ZenonT(40), <1>13, <2>1 DEF Gap
  <2> QED
    BY <2>2 DEF S!GoesBehind, S!Delta, D, Q
<1>15. S!Sleep(ms)
  <2>1. S!InsertBehind(l, k, p) = Insert(l, k, p)
    BY DEF S!InsertBehind, Insert
  <2>2. List(sleepQ)' = S!InsertBehind(List(sleepQ), k, p) /\ k \in 0 .. Len(List(sleepQ))
    BY <1>1, <1>11, <1>12, <2>1 DEF Leaves, l
  <2>3. S!Resume(List(head), [state EXCEPT ![p] = "SLEEP"])
    BY <1>1, <1>7, <1>9, <1>11
  <2>4. S!MayRequest
    BY <1>1 DEF S!MayRequest, S!Idle, Idle
  <2>5. /\ [j \in Slot |-> List(waiting[j])]' = [j \in Slot |-> List(waiting[j])]
        /\ [j \in Slot |-> IF state[j] = "SLEEP" THEN TicksLeft(j) ELSE 0]' = e
    BY <1>1, <1>11, <1>12 DEF Leaves
  <2>6. e = [[j \in Slot |-> IF state[j] = "SLEEP" THEN TicksLeft(j) ELSE 0]
                EXCEPT ![p] = ms \div S!MILLISECONDS_TICK]
    BY <1>1 DEF e, len, S!MILLISECONDS_TICK, MILLISECONDS_TICK
  <2>7. S!GoesBehind(k, ms \div S!MILLISECONDS_TICK)
    BY <1>14 DEF len, S!MILLISECONDS_TICK, MILLISECONDS_TICK
  <2> QED
    BY <1>3, <2>2, <2>3, <2>4, <2>5, <2>6, <2>7 DEF S!Sleep
<1> QED
  BY <1>11, <1>15 DEF Leaves

\* signal() on a process that is READY: the queues stay as they are.
LEMMA KillStep ==
    ASSUME NEW L, NEW d, Fits(L, d), NEW i \in Slot, state[i] = "READY",
           UNCHANGED <<pid, nextpid, targetPCB>>,
           NEW s, Dispatch(Return(unblock(Queues, i), "result"), s)
    PROVE  Steps
<1> DEFINE u == [Queues EXCEPT !.ret[i] = "-99"]
<1>1. Running(Queues, L) /\ Queues \in QueueSet(Ptr) /\ {"-99", "result"} \subseteq Rets
  BY ShownNow DEF Rets
<1>2. ASSUME NEW q \in QueueSet(Ptr)
      PROVE  LET v == [q EXCEPT !.ret[i] = "-99"] IN
             /\ v \in QueueSet(Ptr) /\ v.state = q.state /\ v.next = q.next
             /\ v.head = q.head /\ v.tail = q.tail /\ v.sleepQ = q.sleepQ /\ v.p = q.p
             /\ v.waiting = q.waiting /\ v.waitingTail = q.waitingTail
             /\ v.sleepdiff = q.sleepdiff
  BY <1>1 DEF QueueSet
<1>3. /\ u \in QueueSet(Ptr) /\ u.state = Queues.state /\ u.next = Queues.next
      /\ u.head = Queues.head /\ u.tail = Queues.tail /\ u.sleepQ = Queues.sleepQ
      /\ u.p = Queues.p /\ u.sleepdiff = Queues.sleepdiff
      /\ u.waiting = Queues.waiting /\ u.waitingTail = Queues.waitingTail
  BY <1>1, <1>2
<1> HIDE DEF u
<1>4. Running(u, L)
  BY <1>1, <1>3, RunningSame
<1>5. unblock(Queues, i) = u
  BY <1>3, QueuesAre DEF unblock, u
<1>6. Running(Return(u, "result"), L) /\ Return(u, "result").p = u.p
  BY <1>1, <1>4, ReturnRuns
<1>7. ASSUME NEW q \in QueueSet(Ptr), NEW r \in Rets
      PROVE  Return(q, r).sleepdiff = q.sleepdiff /\ Return(q, r).state = q.state
  BY DEF Return, QueueSet
<1>8. Return(u, "result").sleepdiff = u.sleepdiff /\ Return(u, "result").state = u.state
  BY <1>1, <1>3, <1>7
<1>9. Dispatch(Return(u, "result"), s)
  BY <1>5
<1> QED
  BY <1>3, <1>6, <1>8, <1>9, QueuesAre, QuietStep

\* findPCB() finds the lowest slot with the pid.
LEMMA FindFirst ==
    ASSUME NEW n, NEW i, i = findPCB(n), i # NULL
    PROVE  i \in Slot /\ pid[i] = n /\ \A j \in 0 .. i - 1 : pid[j] # n
<1> DEFINE slots == {j \in Slot : pid[j] = n}
<1>1. slots \subseteq Nat /\ Slot \subseteq Nat /\ MaxProc \in Nat
  BY FuelIsEnough DEF Slot
<1>2. slots # {} /\ i = CHOOSE j \in slots : \A m \in slots : j <= m
  BY DEF findPCB
<1>3. \E h \in slots : \A m \in slots : h <= m
  <2> HIDE DEF slots
  <2> QED
    BY <1>1, <1>2, LeastIs
<1>4. i \in slots /\ \A m \in slots : i <= m
  <2> HIDE DEF slots
  <2> QED
    BY <1>2, <1>3
<1>5. ASSUME NEW j \in 0 .. i - 1  PROVE pid[j] # n
  <2>1. i \in Nat /\ i <= MaxProc - 1
    BY <1>1, <1>4 DEF Slot
  <2>2. j \in Slot /\ ~(i <= j)
    BY <1>1, <2>1 DEF Slot
  <2> QED
    BY <1>4, <2>2
<1> QED
  BY <1>4, <1>5

\* At the start idle runs, root is ready, and nobody sleeps or waits.
LEMMA TimesInit == Init => TimesInv /\ S!Init
<1> SUFFICES ASSUME Init  PROVE TimesInv /\ S!Init
  OBVIOUS
<1> DEFINE d == [i \in Slot |-> 0]
<1>1. Running(Queues, AtFirst)
  BY FirstLists
<1>2. RQ \in Ix /\ SQ \in Ix /\ RQ # SQ /\ Slot \subseteq Ix /\ RQ \notin Slot /\ SQ \notin Slot
  BY SlotsAre
<1>3. AtFirst[RQ] = <<1>> /\ AtFirst[SQ] = <<>> /\ \A i \in Slot : AtFirst[i] = <<>>
  BY <1>2 DEF AtFirst
<1>4. Timed(Queues.sleepdiff, <<>>, d)
  <2>1. d \in [Slot -> Int] /\ \A i \in Slot : d[i] = 0
    OBVIOUS
  <2>2. Len(<<>>) = 0 /\ 1 .. 0 = {}
    OBVIOUS
  <2> HIDE DEF d
  <2> QED
    BY <2>1, <2>2 DEF Timed
<1>5. Fits(AtFirst, d)
  BY <1>1, <1>3, <1>4 DEF Fits
<1>6. Shown(AtFirst, d)
  BY <1>5, MappedIs DEF Mapped
<1>7. /\ List(head) = <<1>> /\ List(sleepQ) = <<>>
      /\ [i \in Slot |-> List(waiting[i])] = [i \in Slot |-> <<>>]
      /\ [i \in Slot |-> IF state[i] = "SLEEP" THEN TicksLeft(i) ELSE 0] = d
  <2>1. [i \in Slot |-> AtFirst[i]] = [i \in Slot |-> <<>>]
    BY <1>3
  <2> QED
    BY <1>3, <1>6, <2>1 DEF Shown
<1>8. S!Slot = Slot /\ S!Idle = Idle
  BY DEF S!Slot, Slot, S!Idle, Idle
<1>9. state = [i \in Slot |-> IF i = 0 THEN "RUNNING" ELSE IF i = 1 THEN "READY" ELSE "STOPPED"]
  <2>1. state = [i \in Slot |-> CASE i = 0 -> "RUNNING" [] i = 1 -> "READY"
                                  [] i > 1 -> "STOPPED"]
    BY DEF Init
  <2>2. ASSUME NEW i \in Slot
        PROVE  state[i] = IF i = 0 THEN "RUNNING" ELSE IF i = 1 THEN "READY" ELSE "STOPPED"
    <3>1. i \in Nat /\ (i = 0 \/ i = 1 \/ i > 1)
      BY FuelIsEnough DEF Slot
    <3> QED
      BY <2>1, <3>1
  <2> QED
    BY <2>1, <2>2
<1>10. S!Init
  BY <1>7, <1>8, <1>9 DEF Init, S!Init
<1> QED
  BY <1>5, <1>10 DEF TimesInv

\* tick() does to the sequences what Sched says.
LEMMA TimerTicks ==
    ASSUME TimesInv, Timer
    PROVE  TimesInv' /\ S!Timer
<1>1. PICK L, d : Fits(L, d)
  BY DEF TimesInv
<1>2. PICK q \in {tick(Return(Queues, "eax"))} :
         Dispatch(IF q.p = NULL THEN q ELSE switch(ready(q, p)), Signals)
  BY DEF Timer
<1>3. q = tick(Return(Queues, "eax")) /\ UNCHANGED <<pid, nextpid, targetPCB>>
  BY <1>2 DEF Timer
<1> QED
  BY <1>1, <1>2, <1>3, TimerStep

\* What syssleep() does: a sleep for no time is a yield.
Sleeps(ms) == TimesInv' /\ IF ms < 1 THEN S!Yield ELSE S!Sleep(ms)

LEMMA SleepSleeps ==
    ASSUME S!WholeTicks, TimesInv, NEW ms \in Lens, Sleep(ms)
    PROVE  Sleeps(ms)
<1>1. PICK L, d : Fits(L, d)
  BY DEF TimesInv
<1>2. ms \in Nat /\ p # Idle /\ UNCHANGED <<pid, nextpid, targetPCB>>
  BY KernelAssumption DEF Sleep, MayIssue
<1>3. Dispatch(switch(sleep(Queues, p, ms)), Signals)
  BY DEF Sleep
<1>4. CASE ms < 1
  <2>1. sleep(Queues, p, ms) = ready(Queues, p)
    BY <1>4 DEF sleep
  <2> QED
    BY <1>1, <1>2, <1>3, <1>4, <2>1, YieldStep DEF Sleeps
<1>5. CASE ~(ms < 1)
  <2>1. ms >= MILLISECONDS_TICK
    BY <1>5 DEF S!WholeTicks, S!MILLISECONDS_TICK, MILLISECONDS_TICK
  <2> QED
    BY <1>1, <1>2, <1>3, <1>5, <2>1, SleepStep DEF Sleeps
<1> QED
  BY <1>4, <1>5

\* Every request does to the sequences what Sched says.
LEMMA RequestSteps ==
    ASSUME KillStates \subseteq {"READY"}, S!WholeTicks, TimesInv, [Next]_vars, ~Timer
    PROVE  Steps
<1>1. PICK L, d : Fits(L, d)
  BY DEF TimesInv
<1>2. {"result", "eax", "-1", "-99", "-561", "-512", "junk"} \subseteq Rets
  BY DEF Rets
<1>3. ASSUME NEW r \in Rets, NEW s, Dispatch(Return(Queues, r), s),
             UNCHANGED <<pid, nextpid, targetPCB>>
      PROVE  Steps
  BY <1>1, <1>3, ReturnStep
<1>4. ASSUME NEW call, MayIssue(call), call # "yield"  PROVE p # Idle
  BY <1>4 DEF MayIssue
<1>5. CASE create
  <2>1. ASSUME NEW i \in Slot, state[i] = "STOPPED",
               \A j \in 0 .. i - 1 : state[j] # "STOPPED", nextpid <= MaxPid,
               pid' = [pid EXCEPT ![i] = nextpid], nextpid' = nextpid + 1,
               Dispatch(Return(ready([Queues EXCEPT !.waiting[i] = NULL,
                                                    !.waitingTail[i] = NULL], i), "result"),
                        initSignals(Signals, i)),
               UNCHANGED targetPCB
        PROVE  Steps
    <3>1. Dispatch(Return(ready(Emptied(Queues, i), i), "result"), initSignals(Signals, i))
      BY <2>1 DEF Emptied
    <3>2. p # Idle
      BY <1>4, <1>5 DEF create
    <3> QED
      BY <1>1, <2>1, <3>1, <3>2, CreateStep
  <2> QED
    BY <1>2, <1>3, <1>5, <2>1 DEF create
<1>6. CASE Query
  BY <1>2, <1>3, <1>6 DEF Query
<1>7. CASE Yield
  BY <1>1, <1>7, YieldStep DEF Yield, Steps
<1>8. CASE Stop
  <2>1. p # Idle
    BY <1>4, <1>8 DEF Stop
  <2> QED
    BY <1>1, <1>8, <2>1, StopStep DEF Stop
<1>9. CASE SigReturn
  BY <1>2, <1>3, <1>9 DEF SigReturn
<1>10. ASSUME NEW ms \in Lens, Sleep(ms)  PROVE Steps
  BY <1>10, SleepSleeps DEF Sleeps, Steps
<1>11. ASSUME NEW target, NEW n, Kill(target, n)  PROVE Steps
  <2>1. UNCHANGED <<pid, nextpid, targetPCB>>
    BY <1>11 DEF Kill
  <2>2. ASSUME NEW i, i = findPCB(target), i # NULL, state[i] \in KillStates,
               Dispatch(Return(unblock(Queues, i), "result"), mark(Signals, i, n))
        PROVE  Steps
    <3>1. i \in Slot /\ state[i] = "READY"
      BY <2>2, FindTypes
    <3> QED
      BY <1>1, <2>1, <2>2, <3>1, KillStep
  <2> QED
    BY <1>2, <1>3, <1>11, <2>1, <2>2 DEF Kill
<1>12. ASSUME NEW n, NEW own, sighandler(n, own)  PROVE Steps
  BY <1>2, <1>3, <1>12 DEF sighandler
<1>13. ASSUME NEW target, Wait(target)  PROVE Steps
  <2>1. p # Idle /\ UNCHANGED <<pid, nextpid, targetPCB>>
    BY <1>4, <1>13 DEF Wait
  <2>2. CASE Dispatch(Return(Queues, "-1"), Signals)
    BY <1>2, <1>3, <2>1, <2>2
  <2>3. ASSUME targetPCB = NULL, Dispatch(switch([Queues EXCEPT !.state[p] = "WAITING"]), Signals)
        PROVE  Steps
    BY <1>1, <2>1, <2>3, WaitNowhereStep
  <2>4. ASSUME NEW f, f = findPCB(target), f # NULL, target # 0, state[f] # "STOPPED",
               Dispatch(switch([addToWaiting(Queues, f, p) EXCEPT !.state[p] = "WAITING"]),
                        Signals)
        PROVE  Steps
    <3>1. f \in Slot /\ pid[f] = target /\ \A j \in 0 .. f - 1 : pid[j] # target
      BY <2>4, FindFirst
    <3>2. pid[f] # 0
      BY <2>4, <3>1
    <3> QED
      BY <1>1, <2>1, <2>4, <3>1, <3>2, WaitStep
  <2> QED
    BY <1>13, <2>2, <2>3, <2>4 DEF Wait
<1>14. CASE UNCHANGED vars
  <2>1. Queues' = Queues /\ UNCHANGED <<state, pid, nextpid, p, targetPCB>>
    BY <1>14 DEF vars, lists, Queues
  <2>2. Fits(L, d)'
    BY <1>1, <2>1 DEF Fits
  <2>3. UNCHANGED S!vars
    BY <1>1, <2>1, <2>2, ShownNow, ShownNext DEF S!vars
  <2> QED
    BY <2>2, <2>3 DEF Steps, TimesInv
<1> QED
  BY <1>5, <1>6, <1>7, <1>8, <1>9, <1>10, <1>11, <1>12, <1>13, <1>14 DEF Next

\* The invariant holds and every step is one of Sched.
LEMMA TimesStep ==
    ASSUME KillStates \subseteq {"READY"}, S!WholeTicks, TimesInv, [Next]_vars
    PROVE  TimesInv' /\ (S!Timer \/ Steps)
<1>1. CASE Timer
  BY <1>1, TimerTicks
<1>2. CASE ~Timer
  BY <1>2, RequestSteps DEF Steps
<1> QED
  BY <1>1, <1>2

\* Where one process at most waits for another, all that wait are readied.
LEMMA StoppedIsStop ==
    ASSUME Recalled(Queues), MaxWaiters <= 1, Stopped
    PROVE  S!Stop
<1>1. PICK L : Running(Queues, L) /\ Few(L)
  BY DEF Recalled, Remembered
<1>2. p \in Slot /\ Fam(next, L) /\ waiting[p] = First(L[p])
  BY <1>1, RunningIs, QueuesAre DEF Waited
<1>3. WaitQ[p] = L[p] /\ L[p] \in Seq(Slot)
  <2>1. p \in Ix
    BY <1>2, SlotsAre
  <2> QED
    BY <1>2, <2>1, ListIs, FamIs DEF WaitQ
<1>4. Len(L[p]) <= 1
  <2>1. Len(L[p]) \in Nat /\ Len(L[p]) <= MaxWaiters /\ MaxWaiters \in Nat
    BY <1>1, <1>2, <1>3, KernelAssumption DEF Few
  <2> QED
    BY <2>1
<1> DEFINE a == SubSeq(WaitQ[p], 1, Count(WaitQ[p]))
<1>5. a = WaitQ[p]
  BY <1>3, <1>4, CountIs
<1>6. /\ S!MayRequest
      /\ S!Resume(List(head) \o a,
                  [i \in S!Slot |-> IF i = p THEN "STOPPED"
                                    ELSE IF i \in S!Elements(a) THEN "READY" ELSE state[i]])
      /\ WaitQ' = [WaitQ EXCEPT ![p] = <<>>]
      /\ UNCHANGED <<pid, nextpid, List(sleepQ), Left>>
  BY DEF Stopped
<1> HIDE DEF a
<1> QED
  BY <1>5, <1>6 DEF S!Stop, WaitQ, Left

\* Then every step is one of Sched.
LEMMA StepIsSched ==
    ASSUME MaxWaiters <= 1, NULL \notin StaleWords, targetPCB \in StaleWords,
           Recalled(Queues), S!Timer \/ Steps
    PROVE  [S!Next]_S!vars
<1>1. S!Slot = Slot
  BY DEF S!Slot, Slot
<1>2. ~NowhereWaits
  BY DEF NowhereWaits
<1>3. Stopped => S!Stop
  BY StoppedIsStop
<1> QED
  BY <1>1, <1>2, <1>3 DEF Steps, S!Next

\* The pcb lists of the kernel behave as the sequences of Sched, for any number of
\* processes, if only READY processes are sent signals, every sleep is for nothing or
\* for a tick at least, one process at most waits for another (the break at c/disp.c:54
\* forgets the last of several, whom Sched readies), and targetPCB is not NULL.
THEOREM KernelImplementsSched ==
    ASSUME KillStates \subseteq {"READY"}, S!WholeTicks, MaxWaiters <= 1, NULL \notin StaleWords
    PROVE  Spec => ImplementsSched
<1> DEFINE Inv == TimesInv /\ Recalled(Queues)
<1>1. Init => Inv /\ S!Init
  BY TimesInit, RecalledInit
<1>2. TypeInv /\ Inv /\ [Next]_vars => Inv' /\ [S!Next]_S!vars
  <2> SUFFICES ASSUME TypeInv, Inv, [Next]_vars  PROVE Inv' /\ [S!Next]_S!vars
    OBVIOUS
  <2>1. targetPCB \in StaleWords
    BY DEF TypeInv, PidTypes
  <2>2. TimesInv' /\ (S!Timer \/ Steps)
    BY TimesStep
  <2>3. Recalled(Queues)'
    BY <2>1, RecalledStep
  <2> QED
    BY <2>1, <2>2, <2>3, StepIsSched
<1>3. Spec => []TypeInv
  BY TypesInductive
<1> QED
  BY <1>1, <1>2, <1>3, PTL DEF Spec, ImplementsSched, S!Spec

-----------------------------------------------------------------------------
(* What a sleep takes.                                                      *)

\* A process that sleeps is on the list of sleepers only, and has some time left.
LEMMA SleeperIs ==
    ASSUME NEW L, NEW d, Fits(L, d), NEW i \in Slot, state[i] = "SLEEP"
    PROVE  /\ i # p /\ ~In(L, RQ, i) /\ \A x \in Slot : ~In(L, x, i)
           /\ TicksLeft(i) = d[i] /\ d[i] \in Int /\ d[i] >= 1
           /\ \E n \in 1 .. Len(L[SQ]) : L[SQ][n] = i
<1>1. /\ Listed(Queues, L, Slot) /\ Queues.state = state /\ Queues.p = p
      /\ \A j \in Slot : Queues.state[j] = "RUNNING" <=> j = Queues.p
      /\ Timed(Queues.sleepdiff, L[SQ], d)
  BY RunningIs, QueuesAre DEF Fits
<1>2. In(L, SQ, i) /\ i # p /\ ~In(L, RQ, i) /\ \A x \in Slot : ~In(L, x, i)
  BY <1>1 DEF Listed
<1>3. TicksLeft(i) = d[i]
  BY <1>2, SumIs
<1> QED
  BY <1>1, <1>2, <1>3 DEF In, Timed

\* Only the process at the head of the list that is resumed changes its state.
LEMMA OthersKeep ==
    ASSUME NEW l \in Seq(Slot), NEW st \in [Slot -> States], S!Resume(l, st),
           NEW i \in Slot, ~Has(l, i)
    PROVE  state'[i] = st[i]
<1>1. CASE l = <<>>
  BY <1>1 DEF S!Resume
<1>2. CASE l # <<>>
  <2>1. 1 \in 1 .. Len(l) /\ Head(l) = l[1]
    BY <1>2, LenProperties
  <2>2. Head(l) # i /\ state' = [st EXCEPT ![Head(l)] = "RUNNING"]
    BY <1>2, <2>1 DEF Has, S!Resume
  <2> QED
    BY <2>2
<1> QED
  BY <1>1, <1>2

\* The time that i has left after a step.
LEMMA TimeNext ==
    ASSUME NEW d, [j \in Slot |-> IF state[j] = "SLEEP" THEN TicksLeft(j) ELSE 0]' = d,
           NEW i \in Slot, state'[i] = "SLEEP"
    PROVE  TicksLeft(i)' = d[i]
<1>1. [j \in Slot |-> IF state'[j] = "SLEEP" THEN TicksLeft(j)' ELSE 0] = d
  OBVIOUS
<1> QED
  BY <1>1

\* No request changes the time of a process that sleeps.
LEMMA RequestKeeps ==
    ASSUME TimesInv, Steps, NEW i \in Slot, state[i] = "SLEEP"
    PROVE  /\ state'[i] = "SLEEP" /\ TicksLeft(i)' = TicksLeft(i)
           /\ TicksLeft(i) \in Int /\ TicksLeft(i) >= 1
<1>1. PICK L, d : Fits(L, d)
  BY DEF TimesInv
<1>2. /\ i # p /\ ~In(L, RQ, i) /\ \A x \in Slot : ~In(L, x, i)
      /\ TicksLeft(i) = d[i] /\ d[i] \in Int /\ d[i] >= 1
  BY <1>1, SleeperIs
<1>3. /\ List(head) = L[RQ]
      /\ [j \in Slot |-> List(waiting[j])] = [j \in Slot |-> L[j]]
      /\ [j \in Slot |-> IF state[j] = "SLEEP" THEN TicksLeft(j) ELSE 0] = d
      /\ L \in [Ix -> Seq(Slot)] /\ p \in Slot /\ d \in [Slot -> Int]
  BY <1>1, ShownNow
<1>4. L[RQ] \in Seq(Slot) /\ ~Has(L[RQ], i) /\ \A x \in Slot : L[x] \in Seq(Slot) /\ ~Has(L[x], i)
  BY <1>2, <1>3, SlotsAre DEF In, Has
<1>5. state \in [Slot -> States]
  BY <1>1, RunningIs, QueuesAre DEF Fits
<1>6. ASSUME NEW l \in Seq(Slot), NEW st \in [Slot -> States], S!Resume(l, st), ~Has(l, i),
             st[i] = "SLEEP", NEW e, e[i] = d[i],
             [j \in Slot |-> IF state[j] = "SLEEP" THEN TicksLeft(j) ELSE 0]' = e
      PROVE  state'[i] = "SLEEP" /\ TicksLeft(i)' = TicksLeft(i)
  <2>1. state'[i] = "SLEEP"
    BY <1>6, OthersKeep
  <2>2. TicksLeft(i)' = e[i]
    BY <1>6, <2>1, TimeNext
  <2> QED
    BY <1>2, <1>6, <2>1, <2>2
<1> DEFINE Goal == state'[i] = "SLEEP" /\ TicksLeft(i)' = TicksLeft(i)
<1>7. CASE UNCHANGED S!vars
  <2>1. /\ state' = state
        /\ [j \in Slot |-> IF state[j] = "SLEEP" THEN TicksLeft(j) ELSE 0]' = d
    BY <1>3, <1>7 DEF S!vars
  <2>2. TicksLeft(i)' = d[i]
    BY <2>1, TimeNext
  <2> QED
    BY <1>2, <2>1, <2>2
<1>8. CASE S!Yield
  <2>1. /\ S!Resume(Append(L[RQ], p), [state EXCEPT ![p] = "READY"])
        /\ [j \in Slot |-> IF state[j] = "SLEEP" THEN TicksLeft(j) ELSE 0]' = d
    BY <1>3, <1>8 DEF S!Yield
  <2>2. Append(L[RQ], p) \in Seq(Slot) /\ ~Has(Append(L[RQ], p), i)
    BY <1>2, <1>3, <1>4, AppendProperties DEF Has
  <2>3. /\ [state EXCEPT ![p] = "READY"] \in [Slot -> States]
        /\ [state EXCEPT ![p] = "READY"][i] = "SLEEP"
    BY <1>2, <1>5 DEF States
  <2> QED
    BY <1>2, <1>6, <2>1, <2>2, <2>3
<1>9. CASE Stopped
  <2> DEFINE b == SubSeq(L[p], 1, Count(L[p]))
             st == [j \in S!Slot |-> IF j = p THEN "STOPPED"
                                     ELSE IF j \in S!Elements(b) THEN "READY" ELSE state[j]]
  <2>1. /\ S!Resume(L[RQ] \o b, st)
        /\ [j \in Slot |-> IF state[j] = "SLEEP" THEN TicksLeft(j) ELSE 0]' = d
    <3>1. WaitQ[p] = L[p] /\ Left = d
      BY <1>3 DEF WaitQ, Left
    <3>2. /\ S!Resume(L[RQ] \o b, st) /\ Left' = d
      BY <1>3, <1>9, <3>1 DEF Stopped
    <3> QED
      BY <3>2 DEF Left
  <2>2. L[p] \in Seq(Slot) /\ ~Has(L[p], i)
    BY <1>3, <1>4
  <2>3. /\ b \in Seq(Slot) /\ S!Elements(b) = {L[p][n] : n \in 1 .. Count(L[p])}
        /\ \A n \in 1 .. Count(L[p]) : n \in 1 .. Len(L[p])
        /\ Len(b) = Count(L[p]) /\ \A n \in 1 .. Count(L[p]) : b[n] = L[p][n]
    <3>1. Count(L[p]) \in 0 .. Len(L[p]) /\ b = SubSeq(L[p], 1, Count(L[p]))
      BY <2>2, CountIs
    <3> HIDE DEF b
    <3> QED
      BY <2>2, <3>1, FirstFew
  <2>4. ~Has(b, i) /\ i \notin S!Elements(b)
    BY <2>2, <2>3 DEF Has
  <2> HIDE DEF b
  <2>5. L[RQ] \o b \in Seq(Slot) /\ ~Has(L[RQ] \o b, i)
    BY <1>4, <2>3, <2>4, ConcatIn, ConcatProperties
  <2>6. st \in [Slot -> States] /\ st[i] = "SLEEP"
    BY <1>2, <1>5, <2>4 DEF S!Slot, Slot, States
  <2> HIDE DEF st
  <2> QED
    BY <1>2, <1>6, <2>1, <2>5, <2>6
<1>10. ASSUME S!Resume(L[RQ], [state EXCEPT ![p] = "WAITING"]),
              [j \in Slot |-> IF state[j] = "SLEEP" THEN TicksLeft(j) ELSE 0]' = d
       PROVE  Goal
  <2>1. /\ [state EXCEPT ![p] = "WAITING"] \in [Slot -> States]
        /\ [state EXCEPT ![p] = "WAITING"][i] = "SLEEP"
    BY <1>2, <1>5 DEF States
  <2> QED
    BY <1>2, <1>4, <1>6, <1>10, <2>1
<1>11. CASE NowhereWaits
  <2>1. /\ S!Resume(L[RQ], [state EXCEPT ![p] = "WAITING"])
        /\ [j \in Slot |-> IF state[j] = "SLEEP" THEN TicksLeft(j) ELSE 0]' = d
    BY <1>3, <1>11 DEF NowhereWaits, Left
  <2> QED
    BY <1>2, <1>10, <2>1
<1>12. ASSUME NEW c \in Slot, S!Wait(c)  PROVE Goal
  <2>1. /\ S!Resume(L[RQ], [state EXCEPT ![p] = "WAITING"])
        /\ [j \in Slot |-> IF state[j] = "SLEEP" THEN TicksLeft(j) ELSE 0]' = d
    BY <1>3, <1>12 DEF S!Wait
  <2> QED
    BY <1>10, <2>1
<1>13. ASSUME NEW c \in Slot, S!Create(c)  PROVE Goal
  <2>1. /\ state' = [state EXCEPT ![c] = "READY"] /\ state[c] = "STOPPED"
        /\ [j \in Slot |-> IF state[j] = "SLEEP" THEN TicksLeft(j) ELSE 0]' = d
    BY <1>3, <1>13 DEF S!Create
  <2>2. state'[i] = "SLEEP"
    BY <1>5, <2>1
  <2>3. TicksLeft(i)' = d[i]
    BY <2>1, <2>2, TimeNext
  <2> QED
    BY <1>2, <2>2, <2>3
<1>14. ASSUME NEW ms \in Lens, S!Sleep(ms)  PROVE Goal
  <2> DEFINE e == [d EXCEPT ![p] = ms \div S!MILLISECONDS_TICK]
  <2>1. /\ S!Resume(L[RQ], [state EXCEPT ![p] = "SLEEP"])
        /\ [j \in Slot |-> IF state[j] = "SLEEP" THEN TicksLeft(j) ELSE 0]' = e
    BY <1>3, <1>14 DEF S!Sleep
  <2>2. /\ [state EXCEPT ![p] = "SLEEP"] \in [Slot -> States]
        /\ [state EXCEPT ![p] = "SLEEP"][i] = "SLEEP"
    BY <1>2, <1>5 DEF States
  <2>3. e[i] = d[i]
    BY <1>2, <1>3
  <2> HIDE DEF e
  <2> QED
    BY <1>2, <1>4, <1>6, <2>1, <2>2, <2>3
<1>15. Goal
  BY <1>7, <1>8, <1>9, <1>11, <1>12, <1>13, <1>14 DEF Steps
<1> QED
  BY <1>2, <1>15

\* A tick takes one off the time of every process that sleeps, and wakes those whose
\* time is over.
LEMMA TickTakesOne ==
    ASSUME TimesInv, S!Timer, NEW i \in Slot, state[i] = "SLEEP"
    PROVE  /\ TicksLeft(i) \in Int
           /\ IF TicksLeft(i) - 1 <= 0 THEN state'[i] # "SLEEP"
              ELSE state'[i] = "SLEEP" /\ TicksLeft(i)' = TicksLeft(i) - 1
<1>1. PICK L, d : Fits(L, d)
  BY DEF TimesInv
<1> DEFINE l == L[SQ]
<1>2. /\ i # p /\ ~In(L, RQ, i)
      /\ TicksLeft(i) = d[i] /\ d[i] \in Int /\ d[i] >= 1
      /\ \E n \in 1 .. Len(l) : l[n] = i
  BY <1>1, SleeperIs
<1>3. /\ List(head) = L[RQ] /\ List(sleepQ) = l
      /\ [j \in Slot |-> IF state[j] = "SLEEP" THEN TicksLeft(j) ELSE 0] = d
      /\ L \in [Ix -> Seq(Slot)] /\ p \in Slot /\ d \in [Slot -> Int]
      /\ Timed(sleepdiff, l, d) /\ Running(Queues, L)
  BY <1>1, ShownNow
<1>4. L[RQ] \in Seq(Slot) /\ ~Has(L[RQ], i) /\ l \in Seq(Slot) /\ Len(l) \in Nat
  BY <1>2, <1>3, SlotsAre, LenProperties DEF In, Has
<1>5. state \in [Slot -> States]
  BY <1>1, RunningIs, QueuesAre DEF Fits
<1>6. \A m, n \in 1 .. Len(l) : l[m] = l[n] => m = n
  <2>1. Fam(Queues.next, L) /\ SQ \in Ix
    BY <1>3, RunningIs, SlotsAre
  <2> QED
    BY <2>1, FamIs DEF Fam, Apart
<1>7. PICK n \in 1 .. Len(l) : l[n] = i
  BY <1>2
<1> HIDE DEF l
<1>8. PICK k \in 0 .. Len(l) :
         /\ \A m \in 1 .. k : d[l[m]] = 1
         /\ k < Len(l) => d[l[k + 1]] # 1
         /\ [j \in Slot |-> IF state[j] = "SLEEP" THEN TicksLeft(j) ELSE 0]' =
               [j \in S!Slot |-> IF j \in S!Elements(l) THEN d[j] - 1 ELSE d[j]]
         /\ S!Resume(Append(L[RQ] \o SubSeq(l, 1, k), p),
                     [j \in S!Slot |-> IF j = p \/ j \in S!Elements(SubSeq(l, 1, k))
                                       THEN "READY" ELSE state[j]])
  <2> DEFINE D == [j \in Slot |-> IF state[j] = "SLEEP" THEN TicksLeft(j) ELSE 0]
             Q == List(sleepQ)
             H == List(head)
  <2>1. \E k \in 0 .. Len(Q) :
           /\ \A m \in 1 .. k : D[Q[m]] = 1
           /\ k < Len(Q) => D[Q[k + 1]] # 1
           /\ D' = [j \in S!Slot |-> IF j \in S!Elements(Q) THEN D[j] - 1 ELSE D[j]]
           /\ S!Resume(Append(H \o SubSeq(Q, 1, k), p),
                       [j \in S!Slot |-> IF j = p \/ j \in S!Elements(SubSeq(Q, 1, k))
                                         THEN "READY" ELSE state[j]])
    BY DEF S!Timer, S!Due
  <2>2. D = d /\ Q = l /\ H = L[RQ]
    BY <1>3
  <2> HIDE DEF D, Q, H
  <2>3. \E k \in 0 .. Len(l) :
           /\ \A m \in 1 .. k : d[l[m]] = 1
           /\ k < Len(l) => d[l[k + 1]] # 1
           /\ D' = [j \in S!Slot |-> IF j \in S!Elements(l) THEN d[j] - 1 ELSE d[j]]
           /\ S!Resume(Append(L[RQ] \o SubSeq(l, 1, k), p),
                       [j \in S!Slot |-> IF j = p \/ j \in S!Elements(SubSeq(l, 1, k))
                                         THEN "READY" ELSE state[j]])
    BY <2>1, <2>2
  <2> QED
    BY <2>3 DEF D
<1> DEFINE b == SubSeq(l, 1, k)
           q == Append(L[RQ] \o b, p)
           e == [j \in S!Slot |-> IF j \in S!Elements(l) THEN d[j] - 1 ELSE d[j]]
           st == [j \in S!Slot |-> IF j = p \/ j \in S!Elements(b) THEN "READY" ELSE state[j]]
<1>9. S!Slot = Slot /\ k \in Nat /\ k <= Len(l) /\ n \in Nat
  BY <1>4 DEF S!Slot, Slot
<1>10. /\ b \in Seq(Slot) /\ Len(b) = k /\ S!Elements(b) = {l[m] : m \in 1 .. k}
       /\ \A m \in 1 .. k : m \in 1 .. Len(l) /\ b[m] = l[m]
  BY <1>4, FirstFew
<1>11. i \in S!Elements(b) <=> n <= k
  <2>1. n <= k => n \in 1 .. k
    BY <1>9
  <2>2. \A m \in 1 .. k : l[m] = i => n <= k
    BY <1>6, <1>7, <1>9, <1>10
  <2> HIDE DEF b
  <2> QED
    BY <1>7, <1>10, <2>1, <2>2
<1>12. Has(b, i) <=> i \in S!Elements(b)
  <2> HIDE DEF b
  <2> QED
    BY <1>10 DEF Has
<1>13. e[i] = d[i] - 1
  <2>1. i \in S!Elements(l)
    BY <1>4, <1>7 DEF S!Elements
  <2> QED
    BY <1>9, <2>1
<1>14. st \in [Slot -> States] /\ st[i] = IF i \in S!Elements(b) THEN "READY" ELSE "SLEEP"
  <2> HIDE DEF b
  <2> QED
    BY <1>2, <1>5, <1>9 DEF States
<1>15. q \in Seq(Slot) /\ (Has(q, i) <=> Has(b, i))
  <2> HIDE DEF b
  <2>1. L[RQ] \o b \in Seq(Slot) /\ (Has(L[RQ] \o b, i) <=> Has(b, i))
    BY <1>4, <1>10, ConcatIn, ConcatProperties
  <2> DEFINE a == L[RQ] \o b
  <2> HIDE DEF a
  <2>2. /\ Append(a, p) \in Seq(Slot) /\ Len(Append(a, p)) = Len(a) + 1 /\ Len(a) \in Nat
        /\ Append(a, p)[Len(a) + 1] = p
        /\ \A m \in 1 .. Len(a) : Append(a, p)[m] = a[m]
    BY <1>3, <2>1, AppendProperties DEF a
  <2>3. Has(Append(a, p), i) <=> Has(a, i)
    BY <1>2, <2>2 DEF Has
  <2> QED
    BY <2>1, <2>2, <2>3 DEF a
<1>16. S!Resume(q, st) /\ [j \in Slot |-> IF state[j] = "SLEEP" THEN TicksLeft(j) ELSE 0]' = e
  BY <1>3, <1>8
<1> HIDE DEF b, q, e, st
<1>17. CASE n <= k
  <2>1. d[i] = 1 /\ st[i] = "READY"
    <3>1. n \in 1 .. k
      BY <1>9, <1>17
    <3> QED
      BY <1>7, <1>8, <1>11, <1>14, <1>17, <3>1
  <2>2. state'[i] # "SLEEP"
    <3>1. q # <<>> => state' = [st EXCEPT ![Head(q)] = "RUNNING"]
      BY <1>16 DEF S!Resume
    <3>2. q = <<>> => state' = st
      BY <1>16 DEF S!Resume
    <3> QED
      BY <1>14, <2>1, <3>1, <3>2
  <2> QED
    BY <1>2, <2>1, <2>2
<1>18. CASE ~(n <= k)
  <2>1. state'[i] = "SLEEP"
    <3>1. ~Has(q, i) /\ st[i] = "SLEEP"
      BY <1>11, <1>12, <1>14, <1>15, <1>18
    <3> QED
      BY <1>14, <1>15, <1>16, <3>1, OthersKeep
  <2>2. TicksLeft(i)' = d[i] - 1
    BY <1>13, <1>16, <2>1, TimeNext
  <2>3. d[i] # 1
    <3>1. k + 1 \in 1 .. Len(l) /\ k + 1 <= n /\ k < Len(l)
      BY <1>9, <1>18
    <3>2. d[l[k + 1]] >= 1 /\ d[l[k + 1]] <= d[l[n]] /\ d[l[k + 1]] # 1
      BY <1>3, <1>8, <3>1 DEF Timed
    <3>3. d[l[k + 1]] \in Int
      <4>1. l[k + 1] \in Slot
        BY <1>4, <3>1, ElementOfSeq
      <4> QED
        BY <1>3, <4>1
    <3> QED
      BY <1>2, <1>7, <3>2, <3>3
  <2> QED
    BY <1>2, <2>1, <2>2, <2>3
<1> QED
  BY <1>17, <1>18

\* A process that goes to sleep has as many ticks left as it asked for.
LEMMA AsksFor ==
    ASSUME TimesInv, NEW ms \in Lens, Sleeps(ms), NEW i \in Slot,
           state[i] # "SLEEP", state'[i] = "SLEEP"
    PROVE  i = p /\ TicksLeft(i)' = ms \div MILLISECONDS_TICK
<1>1. PICK L, d : Fits(L, d)
  BY DEF TimesInv
<1>2. /\ List(head) = L[RQ] /\ L \in [Ix -> Seq(Slot)] /\ p \in Slot /\ d \in [Slot -> Int]
      /\ [j \in Slot |-> IF state[j] = "SLEEP" THEN TicksLeft(j) ELSE 0] = d
  BY <1>1, ShownNow
<1>3. state \in [Slot -> States]
  BY <1>1, RunningIs, QueuesAre DEF Fits
<1>4. ASSUME NEW l, NEW st \in [Slot -> States], S!Resume(l, st)  PROVE st[i] = "SLEEP"
  <2>1. state' = st \/ state' = [st EXCEPT ![Head(l)] = "RUNNING"]
    BY <1>4 DEF S!Resume
  <2> QED
    BY <2>1
<1>5. ~(ms < 1) /\ S!Sleep(ms)
  <2> SUFFICES ASSUME S!Yield  PROVE FALSE
    BY DEF Sleeps
  <2>1. S!Resume(Append(L[RQ], p), [state EXCEPT ![p] = "READY"])
    BY <1>2 DEF S!Yield
  <2>2. [state EXCEPT ![p] = "READY"] \in [Slot -> States]
    BY <1>3 DEF States
  <2>3. [state EXCEPT ![p] = "READY"][i] = "SLEEP"
    BY <1>4, <2>1, <2>2
  <2> QED
    BY <1>2, <1>3, <2>3
<1>6. /\ S!Resume(L[RQ], [state EXCEPT ![p] = "SLEEP"])
      /\ [j \in Slot |-> IF state[j] = "SLEEP" THEN TicksLeft(j) ELSE 0]' =
            [d EXCEPT ![p] = ms \div MILLISECONDS_TICK]
  BY <1>2, <1>5 DEF S!Sleep, S!MILLISECONDS_TICK, MILLISECONDS_TICK
<1>7. i = p
  <2>1. [state EXCEPT ![p] = "SLEEP"] \in [Slot -> States]
    BY <1>3 DEF States
  <2>2. [state EXCEPT ![p] = "SLEEP"][i] = "SLEEP"
    BY <1>4, <1>6, <2>1
  <2> QED
    BY <1>2, <1>3, <2>2
<1> DEFINE e == [d EXCEPT ![p] = ms \div MILLISECONDS_TICK]
<1>8. e[i] = ms \div MILLISECONDS_TICK
  BY <1>2, <1>7
<1>9. TicksLeft(i)' = e[i]
  <2>1. [j \in Slot |-> IF state[j] = "SLEEP" THEN TicksLeft(j) ELSE 0]' = e
    BY <1>6
  <2> HIDE DEF e
  <2> QED
    BY <2>1, TimeNext
<1> QED
  BY <1>7, <1>8, <1>9

\* Whatever is inserted before or behind it, a sleeper's time goes down by one at each
\* tick and by nothing else; the tick that brings it to 0 wakes it, and no other step;
\* and it starts at the number of whole ticks it asked for: for any number of processes,
\* however many wait for each other, if only READY processes are sent signals and every
\* sleep is for nothing or for a tick at least.
THEOREM SleepersTimeKept ==
    ASSUME KillStates \subseteq {"READY"}, S!WholeTicks
    PROVE  Spec => SleepersKeepTheirTime
<1> DEFINE TimeKept ==
      /\ \A i \in Slot : state[i] = "SLEEP" =>
            LET left == TicksLeft(i) - IF Timer THEN 1 ELSE 0
            IN  IF left <= 0 THEN state'[i] # "SLEEP"
                ELSE state'[i] = "SLEEP" /\ TicksLeft(i)' = left
      /\ \A ms \in Lens : Sleep(ms) =>
            \A i \in Slot : state[i] # "SLEEP" /\ state'[i] = "SLEEP" =>
                i = p /\ TicksLeft(i)' = ms \div MILLISECONDS_TICK
<1>1. ASSUME TimesInv, [Next]_vars  PROVE TimeKept
  <2>1. ASSUME NEW i \in Slot, state[i] = "SLEEP"
        PROVE  LET left == TicksLeft(i) - IF Timer THEN 1 ELSE 0
               IN  IF left <= 0 THEN state'[i] # "SLEEP"
                   ELSE state'[i] = "SLEEP" /\ TicksLeft(i)' = left
    <3>1. CASE Timer
      <4>1. S!Timer
        BY <1>1, <3>1, TimerTicks
      <4>2. /\ TicksLeft(i) \in Int
            /\ IF TicksLeft(i) - 1 <= 0 THEN state'[i] # "SLEEP"
               ELSE state'[i] = "SLEEP" /\ TicksLeft(i)' = TicksLeft(i) - 1
        BY <1>1, <2>1, <4>1, TickTakesOne
      <4> QED
        BY <3>1, <4>2
    <3>2. CASE ~Timer
      <4>1. Steps
        BY <1>1, <3>2, RequestSteps
      <4>2. /\ state'[i] = "SLEEP" /\ TicksLeft(i)' = TicksLeft(i)
            /\ TicksLeft(i) \in Int /\ TicksLeft(i) >= 1
        BY <1>1, <2>1, <4>1, RequestKeeps
      <4>3. TicksLeft(i) - 0 = TicksLeft(i) /\ ~(TicksLeft(i) - 0 <= 0)
        BY <4>2
      <4> QED
        BY <3>2, <4>2, <4>3
    <3> QED
      BY <3>1, <3>2
  <2>2. ASSUME NEW ms \in Lens, Sleep(ms), NEW i \in Slot,
               state[i] # "SLEEP", state'[i] = "SLEEP"
        PROVE  i = p /\ TicksLeft(i)' = ms \div MILLISECONDS_TICK
    <3>1. Sleeps(ms)
      BY <1>1, <2>2, SleepSleeps
    <3> QED
      BY <1>1, <2>2, <3>1, AsksFor
  <2> QED
    BY <2>1, <2>2
<1>2. TimesInv /\ [Next]_vars => TimesInv' /\ [TimeKept]_vars
  BY <1>1, TimesStep
<1>3. Init => TimesInv
  BY TimesInit
<1> QED
  BY <1>2, <1>3, PTL DEF Spec, SleepersKeepTheirTime
=============================================================================
