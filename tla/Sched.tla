-------------------------------- MODULE Sched --------------------------------
(***************************************************************************)
(* What the scheduler of the Xeros kernel does to its processes, without   *)
(* the pointers: the ready queue, the sleep queue and the waiting lists    *)
(* are sequences, and a sleeping process has the ticks it has left instead *)
(* of a difference with the process before it.  SchedProofs proves it      *)
(* correct; Kernel implements it (MCKernel!ImplementsSched) as long as one *)
(* process at most waits for another.                                      *)
(*                                                                         *)
(* It promises what the comments of the kernel promise of syswait: that a  *)
(* process that stops readies all those that wait for it (c/disp.c:43 and  *)
(* :96).  Requests that neither create, block nor ready a process, and a   *)
(* syswait that fails, do not appear: here they are stuttering steps.      *)
(***************************************************************************)
EXTENDS Integers, Sequences

CONSTANTS
    MaxProc,     \* MAX_PROC, the number of slots of proctab
    MaxPid,      \* bound: no process is created once nextpid is above it
    Lens,        \* bound: the arguments of syssleep, in milliseconds
    NULL

ASSUME SchedAssumption ==
    /\ MaxProc \in Nat /\ MaxProc >= 2
    /\ MaxPid \in Nat /\ Lens \subseteq Nat
    /\ NULL \notin 0 .. MaxProc - 1

Slot == 0 .. MaxProc - 1
Idle == 0
States == {"STOPPED", "READY", "SLEEP", "RUNNING", "WAITING"}
MILLISECONDS_TICK == 10

VARIABLES
    state, pid, nextpid,
    p,         \* the current process; NULL when next() found none
    readyQ,    \* processes, the next to run first
    sleepQ,    \* processes, the first to wake first
    left,      \* the ticks a sleeping process has left, 0 for any other
    waitQ      \* per process, those that wait for it to stop

vars == <<state, pid, nextpid, p, readyQ, sleepQ, left, waitQ>>

Elements(q) == {q[n] : n \in DOMAIN q}

\* The idle process makes no request but sysyield.
MayRequest == p # NULL /\ p # Idle

\* The process at the head of q is run, or next() spins for want of one.
Resume(q, st) ==
    IF q = <<>>
    THEN p' = NULL /\ readyQ' = q /\ state' = st
    ELSE /\ p' = Head(q) /\ readyQ' = Tail(q)
         /\ state' = [st EXCEPT ![Head(q)] = "RUNNING"]

\* Mutant of Create: nextpid is not incremented.
CreateSamePid(i) ==
    /\ MayRequest
    /\ state[i] = "STOPPED" /\ \A j \in 0 .. i - 1 : state[j] # "STOPPED"
    /\ nextpid <= MaxPid
    /\ state' = [state EXCEPT ![i] = "READY"]
    /\ pid' = [pid EXCEPT ![i] = nextpid]
    /\ readyQ' = Append(readyQ, i)
    /\ waitQ' = [waitQ EXCEPT ![i] = <<>>]
    /\ UNCHANGED <<p, nextpid, sleepQ, left>>

Create(i) ==
    /\ MayRequest
    /\ state[i] = "STOPPED" /\ \A j \in 0 .. i - 1 : state[j] # "STOPPED"
    /\ nextpid <= MaxPid
    /\ state' = [state EXCEPT ![i] = "READY"]
    /\ pid' = [pid EXCEPT ![i] = nextpid]
    /\ nextpid' = nextpid + 1
    /\ readyQ' = Append(readyQ, i)
    /\ waitQ' = [waitQ EXCEPT ![i] = <<>>]
    /\ UNCHANGED <<p, sleepQ, left>>

\* Mutant of Yield: the process that yields is not readied.
YieldForever ==
    /\ p # NULL
    /\ Resume(readyQ, state)
    /\ UNCHANGED <<pid, nextpid, sleepQ, left, waitQ>>

\* sysyield, and syssleep for no time at all.
Yield ==
    /\ p # NULL
    /\ Resume(Append(readyQ, p), [state EXCEPT ![p] = "READY"])
    /\ UNCHANGED <<pid, nextpid, sleepQ, left, waitQ>>

\* Mutant of Stop: of several processes that wait, the last is not readied.
StopForgetsLast ==
    /\ MayRequest
    /\ LET n == Len(waitQ[p])
           released == SubSeq(waitQ[p], 1, IF n > 1 THEN n - 1 ELSE n)
       IN  Resume(readyQ \o released,
                  [i \in Slot |-> IF i = p THEN "STOPPED"
                                  ELSE IF i \in Elements(released) THEN "READY"
                                  ELSE state[i]])
    /\ waitQ' = [waitQ EXCEPT ![p] = <<>>]
    /\ UNCHANGED <<pid, nextpid, sleepQ, left>>

\* All that wait for the process that stops are ready, in the order they came.
Stop ==
    /\ MayRequest
    /\ Resume(readyQ \o waitQ[p],
              [i \in Slot |-> IF i = p THEN "STOPPED"
                              ELSE IF i \in Elements(waitQ[p]) THEN "READY"
                              ELSE state[i]])
    /\ waitQ' = [waitQ EXCEPT ![p] = <<>>]
    /\ UNCHANGED <<pid, nextpid, sleepQ, left>>

\* The difference kept in the n-th process of the sleep queue.
Delta(n) == left[sleepQ[n]] - IF n = 1 THEN 0 ELSE left[sleepQ[n - 1]]

\* Mutant of GoesBehind: every process goes to the end of the queue.
GoesLast(k, len) == k = Len(sleepQ)

\* A process that sleeps for len ticks goes behind the first k: sleep() stops
\* before an element that is due later, or whose difference is below 0.
GoesBehind(k, len) ==
    /\ \A n \in 1 .. k : Delta(n) >= 0 /\ left[sleepQ[n]] <= len
    /\ k < Len(sleepQ) => Delta(k + 1) < 0 \/ left[sleepQ[k + 1]] > len

InsertBehind(q, k, i) ==
    [n \in 1 .. Len(q) + 1 |-> IF n <= k THEN q[n]
                               ELSE IF n = k + 1 THEN i ELSE q[n - 1]]

Sleep(ms) ==
    /\ MayRequest
    /\ ms >= 1
    /\ \E k \in 0 .. Len(sleepQ) :
          /\ GoesBehind(k, ms \div MILLISECONDS_TICK)
          /\ sleepQ' = InsertBehind(sleepQ, k, p)
    /\ left' = [left EXCEPT ![p] = ms \div MILLISECONDS_TICK]
    /\ Resume(readyQ, [state EXCEPT ![p] = "SLEEP"])
    /\ UNCHANGED <<pid, nextpid, waitQ>>

\* The first k sleepers are those that tick() finds due, one after the other.
Due(k) ==
    /\ \A n \in 1 .. k : left[sleepQ[n]] = 1
    /\ k < Len(sleepQ) => left[sleepQ[k + 1]] # 1

Timer ==
    /\ p # NULL
    /\ \E k \in 0 .. Len(sleepQ) :
          LET woken == SubSeq(sleepQ, 1, k)
          IN  /\ Due(k)
              /\ sleepQ' = SubSeq(sleepQ, k + 1, Len(sleepQ))
              /\ left' = [i \in Slot |-> IF i \in Elements(sleepQ)
                                         THEN left[i] - 1 ELSE left[i]]
              /\ Resume(Append(readyQ \o woken, p),
                        [i \in Slot |-> IF i = p \/ i \in Elements(woken)
                                        THEN "READY" ELSE state[i]])
    /\ UNCHANGED <<pid, nextpid, waitQ>>

\* syswait on a process that has not stopped, when it does not fail.
Wait(i) ==
    /\ MayRequest
    /\ pid[i] # 0 /\ state[i] # "STOPPED"
    /\ waitQ' = [waitQ EXCEPT ![i] = Append(@, p)]
    /\ Resume(readyQ, [state EXCEPT ![p] = "WAITING"])
    /\ UNCHANGED <<pid, nextpid, sleepQ, left>>

Init ==
    /\ state = [i \in Slot |-> IF i = 0 THEN "RUNNING"
                               ELSE IF i = 1 THEN "READY" ELSE "STOPPED"]
    /\ pid = [i \in Slot |-> IF i = 1 THEN 1 ELSE 0]
    /\ nextpid = 2
    /\ p = Idle /\ readyQ = <<1>> /\ sleepQ = <<>>
    /\ left = [i \in Slot |-> 0]
    /\ waitQ = [i \in Slot |-> <<>>]

Next ==
    \/ Yield \/ Stop \/ Timer
    \/ \E i \in Slot : Create(i) \/ Wait(i)
    \/ \E ms \in Lens : Sleep(ms)

Spec == Init /\ [][Next]_vars

-----------------------------------------------------------------------------
(* Properties                                                               *)

\* Every variable holds a value of its kind.
TypeOK ==
    /\ state \in [Slot -> States]
    /\ pid \in [Slot -> Nat]
    /\ nextpid \in Nat
    /\ p \in Slot \cup {NULL}
    /\ readyQ \in Seq(Slot) /\ sleepQ \in Seq(Slot)
    /\ left \in [Slot -> Int]
    /\ waitQ \in [Slot -> Seq(Slot)]

\* next() never finds the ready queue empty: "there should at least be the idle
\* proc" (c/disp.c:291).
NeverHangs == p # NULL

Injective(q) == \A m, n \in 1 .. Len(q) : q[m] = q[n] => m = n

ReadyQueueExact ==
    Injective(readyQ) /\ \A i \in Slot : state[i] = "READY" <=> i \in Elements(readyQ)

SleepQueueExact ==
    Injective(sleepQ) /\ \A i \in Slot : state[i] = "SLEEP" <=> i \in Elements(sleepQ)

WaitListsExact ==
    /\ \A w \in Slot :
          state[w] = "WAITING" <=> \E i \in Slot : w \in Elements(waitQ[i])
    /\ \A i \in Slot :
          /\ Injective(waitQ[i])
          /\ state[i] = "STOPPED" => waitQ[i] = <<>>
          /\ \A j \in Slot \ {i} : Elements(waitQ[i]) \cap Elements(waitQ[j]) = {}

\* Every process is once on the queue its state names and on no other: nobody is
\* forgotten, neither a sleeper nor one that waits for a process to stop.  Exactly
\* the current process is running, and idle is always there to be run.
QueuesExact ==
    /\ ReadyQueueExact /\ SleepQueueExact /\ WaitListsExact
    /\ p \in Slot /\ \A i \in Slot : state[i] = "RUNNING" <=> i = p
    /\ state[Idle] \in {"READY", "RUNNING"}

\* A pid other than 0 is given to one slot only, so findPCB() is not ambiguous,
\* even about processes that have stopped.
PidsUnique ==
    \A i, j \in Slot : pid[i] = pid[j] /\ pid[i] # 0 => i = j

\* Programs sleep for 0 ms or for at least a tick.  A shorter sleep becomes 0
\* ticks, which tick() then decrements past 0.
WholeTicks == \A ms \in Lens : ms < 1 \/ ms >= MILLISECONDS_TICK

\* No sleeper's time has come while it still sleeps, and the queue is in order of
\* waking: tick(), which looks at the head only, wakes everyone on time.
SleepersInOrder ==
    \A m, n \in 1 .. Len(sleepQ) :
        left[sleepQ[m]] >= 1 /\ (m <= n => left[sleepQ[m]] <= left[sleepQ[n]])

PidsBelowNext == nextpid \in Nat \ {0} /\ \A i \in Slot : pid[i] < nextpid

\* The inductive invariant: the queues are exact, and the next pid is fresh.
IInv == TypeOK /\ QueuesExact /\ PidsUnique /\ PidsBelowNext
=============================================================================
