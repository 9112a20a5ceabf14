------------------------------- MODULE Kernel -------------------------------
(***************************************************************************)
(* The Xeros kernel proper: the dispatcher (c/disp.c), process creation    *)
(* (c/create.c), the sleep device (c/sleep.c) and signals (c/signal.c),    *)
(* over the process control blocks and the pointers that link them.        *)
(*                                                                         *)
(* The kernel runs with interrupts disabled from the entry points of       *)
(* c/ctsw.c until the iret, so one request, from the trap to the next      *)
(* return to a process, is one step.  Every action is a whole case of the  *)
(* switch in dispatch() followed by the top of its loop (Dispatch below).  *)
(* A process is the index of its slot in proctab, a pcb pointer is a slot  *)
(* or NULL.  What a process does between two requests is not modelled: it  *)
(* may issue any request its own code may issue, in any order.             *)
(***************************************************************************)
EXTENDS Integers, Sequences, FiniteSets

CONSTANTS
    MaxProc,     \* MAX_PROC, the number of slots of proctab
    MaxPid,      \* bound: no process is created once nextpid is above it
    Calls,       \* bound: the requests that processes issue
    Lens,        \* bound: the arguments of syssleep, in milliseconds
    Sig,         \* bound: the signal numbers in use, among 0 .. 31
    KillStates,  \* bound: the states a signalled process is in
    MaxNest,     \* bound: signals pending and handlers active, per process
    MaxWaiters,  \* bound: the processes that wait for one process at once
    StaleWords,  \* what the uninitialized targetPCB of dispatch() may hold
    NULL, SYSSTOP, WILD

ASSUME KernelAssumption ==
    /\ MaxProc \in Nat /\ MaxProc >= 2
    /\ MaxPid \in Nat \ {0} /\ Lens \subseteq Nat
    /\ MaxNest \in Nat /\ MaxWaiters \in Nat
    /\ {NULL, WILD} \cap 0 .. MaxProc - 1 = {} /\ NULL # WILD
    /\ 31 \in Sig /\ Sig \subseteq 0 .. 31
    /\ StaleWords \subseteq (0 .. MaxProc - 1) \cup {NULL, WILD}

Slot == 0 .. MaxProc - 1

\* The idle process: the first one created, in the first slot, with pid 0.
Idle == 0

States == {"STOPPED", "READY", "SLEEP", "RUNNING", "WAITING", "BLOCKED_READING"}

\* Values of ret.  "result" is what a request computed, "eax" the register of
\* a preempted process, "junk" a stale word of its stack.
Rets == {"result", "eax", "junk", "-1", "-99", "-512", "-561"}

MILLISECONDS_TICK == 10

\* A sleepdiff that was decremented below 0.  It never equals 0 again before
\* the 32-bit counter wraps, and it is above every len as an unsigned number.
LATE == -1

VARIABLES
    state, pid, ret, next, sleepdiff, waiting, waitingTail,  \* pcb fields
    sigHandlerTable, handledSignals, incomingSignals,        \* pcb fields
    frames,      \* the signal frames on each process's stack, oldest first
    head, tail,  \* the ready queue
    sleepQ,      \* the delta list of sleeping processes
    p,           \* dispatch()'s current process; NULL when the kernel hangs
    nextpid,
    targetPCB    \* dispatch()'s local that no statement assigns

lists == <<state, next, sleepdiff, ret, waiting, waitingTail,
           head, tail, sleepQ, p>>
signals == <<sigHandlerTable, handledSignals, incomingSignals, frames>>
vars == <<lists, signals, pid, nextpid, targetPCB>>

-----------------------------------------------------------------------------
(* The statements of the C functions act in sequence on the queues and on   *)
(* the signal fields.  An operator below takes such a record and returns    *)
(* the one the C function leaves.                                           *)

Queues == [state |-> state, next |-> next, sleepdiff |-> sleepdiff,
           ret |-> ret, waiting |-> waiting, waitingTail |-> waitingTail,
           head |-> head, tail |-> tail, sleepQ |-> sleepQ, p |-> p]

Signals == [table |-> sigHandlerTable, handled |-> handledSignals,
            incoming |-> incomingSignals, frames |-> frames]

Hang(q) == [q EXCEPT !.p = NULL]

\* A C loop over a list: Step until Done.  A loop that is still running after
\* Fuel iterations is on a cyclic list and never ends.
Fuel == 4 * MaxProc
Loop(Step(_), Done(_), start) ==
    LET After(s) == IF Done(s) THEN s ELSE Step(s)
        run[n \in 0 .. Fuel] ==
            IF n = 0 THEN start
            ELSE CHOOSE s \in {After(before) : before \in {run[n - 1]}} : TRUE
    IN  run[Fuel]

\* Mutant of ready: the process goes to the front of the queue.
readyAtFront(q, i) ==
    [q EXCEPT !.next[i] = q.head, !.state[i] = "READY", !.head = i,
              !.tail = IF @ = NULL THEN i ELSE @]

ready(q, i) ==
    LET s == [q EXCEPT !.next[i] = NULL, !.state[i] = "READY"]
    IN  IF s.tail # NULL
        THEN [s EXCEPT !.next[s.tail] = i, !.tail = i]
        ELSE [s EXCEPT !.head = i, !.tail = i]

\* Mutant of switch: the tail still points to the process that was taken.
switchKeepsTail(q) ==
    IF q.p = NULL \/ q.head = NULL
    THEN Hang(q)
    ELSE [q EXCEPT !.p = q.head, !.head = q.next[q.head], !.next[q.head] = NULL]

\* p = next(): take the head of the ready queue, spin for ever if there is none.
switch(q) ==
    IF q.p = NULL \/ q.head = NULL
    THEN Hang(q)
    ELSE LET rest == q.next[q.head]
         IN  [q EXCEPT !.p = q.head, !.head = rest,
                       !.tail = IF rest = NULL THEN NULL ELSE @,
                       !.next[q.head] = NULL]

addToWaiting(q, target, i) ==
    LET s == IF q.waitingTail[target] # NULL
             THEN [q EXCEPT !.next[q.waitingTail[target]] = i]
             ELSE [q EXCEPT !.waiting[target] = i]
    IN  [s EXCEPT !.waitingTail[target] = i, !.next[i] = NULL]

removeWaiting(q, i) ==
    LET Step(s) ==
            LET w    == s.waiting[i]
                rest == s.next[w]
                cut  == [s EXCEPT !.next[w] = NULL,
                                  !.waiting[i] = IF rest = s.waitingTail[i]
                                                 THEN NULL ELSE rest]
            IN  IF s.state[w] = "WAITING" THEN ready(cut, w) ELSE cut
        Done(s) == s.waiting[i] = NULL
    IN  [Loop(Step, Done, q) EXCEPT !.waiting[i] = NULL, !.waitingTail[i] = NULL]

\* Mutant of Above: a process goes before those that wake at the same tick.
AboveOrEqual(d, len) == d < 0 \/ d >= len

\* sleepdiff > len, compared as unsigned numbers.
Above(d, len) == d < 0 \/ d > len
Minus(d, len) == IF d < 0 THEN LATE ELSE d - len

\* Where a process that sleeps for len ticks goes on a non-empty sleepQ whose
\* head is due first: after tmp, with len counted from when tmp is due.
place(q, len) ==
    LET Step(w) == LET succ == q.next[w.tmp]
                   IN  [tmp |-> succ, len |-> w.len - q.sleepdiff[succ]]
        Done(w) == LET succ == q.next[w.tmp]
                   IN  succ = NULL \/ Above(q.sleepdiff[succ], w.len)
        found   == Loop(Step, Done, [tmp |-> q.sleepQ,
                                     len |-> len - q.sleepdiff[q.sleepQ]])
    IN  [found EXCEPT !.tmp = IF Done(found) THEN @ ELSE NULL]

\* Mutant of insertAfter: the next process keeps its difference.
insertAfterUnadjusted(q, i, w) ==
    [q EXCEPT !.next[i] = q.next[w.tmp], !.sleepdiff[i] = w.len, !.next[w.tmp] = i]

insertAfter(q, i, w) ==
    LET s == [q EXCEPT !.next[i] = q.next[w.tmp], !.sleepdiff[i] = w.len,
                       !.next[w.tmp] = i]
        succ == s.next[i]
    IN  IF succ = NULL THEN s
        ELSE [s EXCEPT !.sleepdiff[succ] = Minus(@, w.len)]

sleep(q, i, ms) ==
    LET len == ms \div MILLISECONDS_TICK
        s   == [q EXCEPT !.state[i] = "SLEEP", !.next[i] = NULL]
        w   == place(s, len)
    IN  IF ms < 1 THEN ready(q, i)
        ELSE IF s.sleepQ = NULL THEN
            [s EXCEPT !.sleepQ = i, !.sleepdiff[i] = len]
        ELSE IF Above(s.sleepdiff[s.sleepQ], len) THEN
            [s EXCEPT !.next[i] = s.sleepQ, !.sleepQ = i,
                      !.sleepdiff = [s.sleepdiff EXCEPT ![s.sleepQ] = Minus(@, len),
                                                       ![i] = len]]
        ELSE IF w.tmp = NULL THEN Hang(s)
        ELSE insertAfter(s, i, w)

\* Mutant of tick: only the head of the list is woken.
tickOne(q) ==
    LET s   == [q EXCEPT !.sleepdiff[q.sleepQ] = IF @ < 0 THEN LATE ELSE @ - 1]
        due == s.sleepQ
    IN  IF q.sleepQ = NULL THEN q
        ELSE IF s.sleepdiff[due] # 0 THEN s
        ELSE ready([s EXCEPT !.sleepQ = s.next[due], !.ret[due] = "result"], due)

tick(q) ==
    LET Step(s) == LET due == s.sleepQ
                   IN  ready([s EXCEPT !.sleepQ = s.next[due],
                                       !.ret[due] = "result"], due)
        Done(s) == s.sleepQ = NULL \/ s.sleepdiff[s.sleepQ] # 0
        woken   == Loop(Step, Done, [q EXCEPT !.sleepdiff[q.sleepQ] =
                                         IF @ < 0 THEN LATE ELSE @ - 1])
    IN  IF q.sleepQ = NULL THEN q
        ELSE IF Done(woken) THEN woken ELSE Hang(woken)

findPCB(n) ==
    LET slots == {i \in Slot : pid[i] = n}
    IN  IF slots = {} THEN NULL
        ELSE CHOOSE i \in slots : \A j \in slots : i <= j

get_highest(incoming) == CHOOSE n \in incoming : \A m \in incoming : m <= n

\* Mutants of deliver_signal: the pending bit stays, all pending bits go, and no
\* signal is delivered while a handler is active.
deliverAndKeep(s, i, old) ==
    LET n == get_highest(s.incoming[i])
    IN  IF s.incoming[i] = {} THEN s
        ELSE [s EXCEPT !.frames[i] = Append(@, [sig |-> n, handler |-> s.table[i][n],
                                                old_return |-> old])]

deliverAndClear(s, i, old) ==
    [deliverAndKeep(s, i, old) EXCEPT !.incoming[i] = {}]

deliverOne(s, i, old) ==
    LET n == get_highest(s.incoming[i])
    IN  IF s.incoming[i] = {} \/ s.frames[i] # <<>> THEN s
        ELSE [deliverAndKeep(s, i, old) EXCEPT !.incoming[i] = @ \ {n}]

\* deliver_signal(i): push a signal frame for the highest pending signal, if any.
\* old is the process's ret, which the frame keeps in old_return.
deliver_signal(s, i, old) ==
    LET n == get_highest(s.incoming[i])
        frame == [sig |-> n, handler |-> s.table[i][n], old_return |-> old]
    IN  IF s.incoming[i] = {} THEN s
        ELSE [table    |-> s.table,
              handled  |-> [s.handled EXCEPT ![i] = IF n = 15 THEN @ \ {15} ELSE @],
              incoming |-> [s.incoming EXCEPT ![i] = @ \ {n}],
              frames   |-> [s.frames EXCEPT ![i] = Append(@, frame)]]

\* The end of every case: the top of dispatch()'s loop for the process q.p, up
\* to the iret that resumes it.  Nothing happens in a kernel that hangs.
Dispatch(queues, signalled) ==
    \E q \in {queues}, s \in {signalled} :
        LET delivered == IF q.p = NULL THEN s
                         ELSE deliver_signal(s, q.p, q.ret[q.p])
        IN  /\ state' = IF q.p = NULL THEN q.state
                        ELSE [q.state EXCEPT ![q.p] = "RUNNING"]
            /\ next' = q.next
            /\ sleepdiff' = q.sleepdiff
            /\ ret' = q.ret
            /\ waiting' = q.waiting
            /\ waitingTail' = q.waitingTail
            /\ head' = q.head
            /\ tail' = q.tail
            /\ sleepQ' = q.sleepQ
            /\ p' = q.p
            /\ sigHandlerTable' = delivered.table
            /\ handledSignals' = delivered.handled
            /\ incomingSignals' = delivered.incoming
            /\ frames' = delivered.frames

-----------------------------------------------------------------------------
(* The requests of the running process, and the timer interrupt.            *)

\* The idle process only yields.  sigtramp calls the handler of the innermost
\* frame: the code of sysstop only stops, and there is no code at address 0.
MayIssue(call) ==
    /\ p # NULL
    /\ call \in Calls
    /\ p = Idle => call = "yield"
    /\ frames[p] # <<>> =>
          LET handler == frames[p][Len(frames[p])].handler
          IN  handler # NULL /\ (handler = SYSSTOP => call = "stop")

Return(q, r) == [q EXCEPT !.ret[q.p] = r]

\* Of the old process's signals create() resets those pending and sets 31 up.
initSignals(s, i) ==
    [table    |-> [s.table EXCEPT ![i] = [@ EXCEPT ![31] = SYSSTOP]],
     handled  |-> [s.handled EXCEPT ![i] = @ \cup {31}],
     incoming |-> [s.incoming EXCEPT ![i] = {}],
     frames   |-> [s.frames EXCEPT ![i] = <<>>]]

\* The lowest stopped slot is taken.  create() also fails for want of memory.
create ==
    /\ MayIssue("create")
    /\ \/ \E i \in Slot :
            /\ state[i] = "STOPPED" /\ \A j \in 0 .. i - 1 : state[j] # "STOPPED"
            /\ nextpid <= MaxPid
            /\ pid' = [pid EXCEPT ![i] = nextpid]
            /\ nextpid' = nextpid + 1
            /\ Dispatch(
                 Return(ready([Queues EXCEPT !.waiting[i] = NULL,
                                             !.waitingTail[i] = NULL], i),
                        "result"),
                 initSignals(Signals, i))
       \/ UNCHANGED <<pid, nextpid>> /\ Dispatch(Return(Queues, "-1"), Signals)
    /\ UNCHANGED targetPCB

\* SYS_CPUTIMES, SYS_PUTS and SYS_GETPID change nothing but their result.
Query ==
    /\ MayIssue("query")
    /\ Dispatch(Return(Queues, "result"), Signals)
    /\ UNCHANGED <<pid, nextpid, targetPCB>>

Yield ==
    /\ MayIssue("yield")
    /\ Dispatch(switch(ready(Queues, p)), Signals)
    /\ UNCHANGED <<pid, nextpid, targetPCB>>

Stop ==
    /\ MayIssue("stop")
    /\ Dispatch(switch(removeWaiting([Queues EXCEPT !.state[p] = "STOPPED"], p)),
                Signals)
    /\ UNCHANGED <<pid, nextpid, targetPCB>>

Sleep(ms) ==
    /\ MayIssue("sleep")
    /\ Dispatch(switch(sleep(Queues, p, ms)), Signals)
    /\ UNCHANGED <<pid, nextpid, targetPCB>>

\* The timer interrupts any process; its eax is kept in ret.
Timer ==
    /\ p # NULL
    /\ "timer" \in Calls
    /\ \E q \in {tick(Return(Queues, "eax"))} :
          Dispatch(IF q.p = NULL THEN q ELSE switch(ready(q, p)), Signals)
    /\ UNCHANGED <<pid, nextpid, targetPCB>>

\* Mutants of mark, which does not look at handledSignals, and of unblock, which
\* also readies a process that is ready.
markAlways(s, i, n) == [s EXCEPT !.incoming[i] = @ \cup {n}]

unblockAlways(q, i) == ready([q EXCEPT !.ret[i] = "-99"], i)

\* signal() on the process in slot i, which has a handler for n.  It marks n
\* only if handled, and readies the process whatever it was blocked on.
mark(s, i, n) ==
    IF n \notin s.handled[i] THEN s
    ELSE [table    |-> s.table,
          handled  |-> s.handled,
          incoming |-> [s.incoming EXCEPT ![i] = @ \cup {n}],
          frames   |-> s.frames]

unblock(q, i) ==
    LET s == [q EXCEPT !.ret[i] = "-99"]
    IN  IF s.state[i] = "READY" THEN s ELSE ready(s, i)

Kill(target, n) ==
    /\ MayIssue("kill")
    /\ LET i      == findPCB(target)
           exists == i # NULL /\ target # 0 /\ state[i] # "STOPPED"
       IN  \/ n \notin Sig /\ Dispatch(Return(Queues, "-561"), Signals)
           \/ n \in Sig /\ ~exists /\ Dispatch(Return(Queues, "-512"), Signals)
           \/ /\ n \in Sig /\ exists /\ sigHandlerTable[i][n] = NULL
              /\ Dispatch(Return(Queues, "result"), Signals)
           \/ /\ n \in Sig /\ exists /\ sigHandlerTable[i][n] # NULL
              /\ state[i] \in KillStates
              /\ Cardinality(incomingSignals[i]) + Len(frames[i]) < MaxNest
              /\ Dispatch(Return(unblock(Queues, i), "result"), mark(Signals, i, n))
    /\ UNCHANGED <<pid, nextpid, targetPCB>>

register(s, i, n, handler) ==
    [table    |-> [s.table EXCEPT ![i] = [@ EXCEPT ![n] = handler]],
     handled  |-> [s.handled EXCEPT ![i] = @ \cup {n}],
     incoming |-> s.incoming,
     frames   |-> s.frames]

\* Mutant of sighandler: signal 31 is a signal like any other.
sighandlerAny(n, own) ==
    /\ MayIssue("sighandler")
    /\ IF n \in Sig
       THEN Dispatch(Return(Queues, "result"),
                     register(Signals, p, n, IF own THEN pid[p] ELSE NULL))
       ELSE Dispatch(Return(Queues, "-1"), Signals)
    /\ UNCHANGED <<pid, nextpid, targetPCB>>

\* A program registers a handler of its own, named by its pid, or address 0.
sighandler(n, own) ==
    /\ MayIssue("sighandler")
    /\ IF n \in Sig /\ n # 31
       THEN Dispatch(Return(Queues, "result"),
                     register(Signals, p, n, IF own THEN pid[p] ELSE NULL))
       ELSE Dispatch(Return(Queues, "-1"), Signals)
    /\ UNCHANGED <<pid, nextpid, targetPCB>>

\* The stack pointer goes back above the innermost frame.  The result is read
\* just below it, where deliver_signal did not put the frame.
SigReturn ==
    /\ MayIssue("sigreturn")
    /\ frames[p] # <<>>
    /\ Dispatch(Return(Queues, "junk"),
                [Signals EXCEPT !.frames[p] = SubSeq(@, 1, Len(@) - 1)])
    /\ UNCHANGED <<pid, nextpid, targetPCB>>

\* The processes linked from pointer x, in order; MaxProc + 1 of them (hence
\* one of them twice) when the links run into a cycle.
List(x) ==
    LET at[n \in 0 .. MaxProc] ==
            IF n = 0 THEN x
            ELSE LET before == at[n - 1]
                 IN  IF before = NULL THEN NULL ELSE next[before]
    IN  [n \in 1 .. Cardinality({m \in 0 .. MaxProc : at[m] # NULL}) |-> at[n - 1]]

\* The target is compared with targetPCB, which nothing has assigned.  Where
\* both are NULL the kernel follows address 0: the word read there as a state
\* may look stopped, or p is linked to memory that is no pcb.
Wait(target) ==
    /\ MayIssue("wait")
    /\ LET found == findPCB(target)
           fails == Dispatch(Return(Queues, "-1"), Signals)
           block(q) == Dispatch(switch([q EXCEPT !.state[p] = "WAITING"]), Signals)
       IN  IF target = 0 \/ targetPCB # found THEN fails
           ELSE IF found = NULL THEN fails \/ block(Queues)
           ELSE IF state[found] = "STOPPED" THEN fails
           ELSE /\ Len(List(waiting[found])) < MaxWaiters
                /\ block(addToWaiting(Queues, found, p))
    /\ UNCHANGED <<pid, nextpid, targetPCB>>

-----------------------------------------------------------------------------
\* initproc() creates the idle process and root; dispatch() resumes the first.
Init ==
    /\ state = [i \in Slot |-> CASE i = 0 -> "RUNNING" [] i = 1 -> "READY"
                                 [] i > 1 -> "STOPPED"]
    /\ pid = [i \in Slot |-> IF i = 1 THEN 1 ELSE 0]
    /\ nextpid = 2
    /\ ret = [i \in Slot |-> "result"]
    /\ next = [i \in Slot |-> NULL]
    /\ sleepdiff = [i \in Slot |-> 0]
    /\ waiting = [i \in Slot |-> NULL]
    /\ waitingTail = [i \in Slot |-> NULL]
    /\ sigHandlerTable = [i \in Slot |->
          [n \in Sig |-> IF n = 31 /\ i \in {0, 1} THEN SYSSTOP ELSE NULL]]
    /\ handledSignals = [i \in Slot |-> IF i \in {0, 1} THEN {31} ELSE {}]
    /\ incomingSignals = [i \in Slot |-> {}]
    /\ frames = [i \in Slot |-> <<>>]
    /\ head = 1 /\ tail = 1 /\ sleepQ = NULL /\ p = Idle
    /\ targetPCB \in StaleWords

Next ==
    \/ create \/ Query \/ Yield \/ Stop \/ Timer \/ SigReturn
    \/ \E ms \in Lens : Sleep(ms)
    \/ \E target \in 0 .. MaxPid : \E n \in Sig \cup {-1} : Kill(target, n)
    \/ \E n \in Sig \cup {-1} : \E own \in BOOLEAN : sighandler(n, own)
    \/ \E target \in 0 .. MaxPid : Wait(target)

Spec == Init /\ [][Next]_vars

\* While a process runs, interrupts are enabled and the PIT ticks 100 times a
\* second: the timer interrupt comes, whatever the processes do.
FairSpec == Spec /\ WF_vars(Timer)

-----------------------------------------------------------------------------
(* Properties                                                               *)

Ptr == Slot \cup {NULL}
Handlers == 0 .. MaxPid \cup {NULL, SYSSTOP}
Frames == [sig : Sig, handler : Handlers, old_return : Rets]

\* Every field holds a value of its C type, cut to the bounds of the model, and
\* no process has more frames and pending signals than the bound MaxNest.
TypeOK ==
    /\ state \in [Slot -> States]
    /\ pid \in [Slot -> 0 .. MaxPid]
    /\ ret \in [Slot -> Rets]
    /\ next \in [Slot -> Ptr]
    /\ sleepdiff \in [Slot -> Int]
    /\ waiting \in [Slot -> Ptr] /\ waitingTail \in [Slot -> Ptr]
    /\ sigHandlerTable \in [Slot -> [Sig -> Handlers]]
    /\ handledSignals \in [Slot -> SUBSET Sig]
    /\ incomingSignals \in [Slot -> SUBSET Sig]
    /\ frames \in [Slot -> Seq(Frames)]
    /\ \A i \in Slot : Len(frames[i]) + Cardinality(incomingSignals[i]) <= MaxNest
    /\ head \in Ptr /\ tail \in Ptr /\ sleepQ \in Ptr /\ p \in Ptr
    /\ nextpid \in 2 .. MaxPid + 1
    /\ targetPCB \in StaleWords

Live(i) == state[i] # "STOPPED"

Elements(q) == {q[n] : n \in DOMAIN q}
NoDuplicates(q) == Cardinality(Elements(q)) = Len(q)
EndsAt(q, x) == x = IF q = <<>> THEN NULL ELSE q[Len(q)]

ReadyQueueExact ==
    LET q == List(head)
    IN  /\ NoDuplicates(q) /\ EndsAt(q, tail)
        /\ Elements(q) = {i \in Slot : state[i] = "READY"}

SleepQueueExact ==
    LET q == List(sleepQ)
    IN  NoDuplicates(q) /\ Elements(q) = {i \in Slot : state[i] = "SLEEP"}

WaitListsExact ==
    \A i \in Slot :
        LET q == List(waiting[i])
        IN  /\ NoDuplicates(q) /\ EndsAt(q, waitingTail[i])
            /\ \A w \in Elements(q) : state[w] = "WAITING"
            /\ q # <<>> => state[i] # "STOPPED"
            /\ \A j \in Slot \ {i} : Elements(q) \cap Elements(List(waiting[j])) = {}

WaitersListed ==
    \A w \in Slot : state[w] = "WAITING" =>
        \E i \in Slot : w \in Elements(List(waiting[i]))

\* The one field next links three kinds of list.  No list has a cycle or a wrong
\* tail, a process is once on a list of its state and on no other, exactly the
\* ready and the sleeping processes are on the ready and the sleep queue, and
\* exactly the process that dispatch() has in p is running.  Of waiting processes
\* it says what is on a waiting list, not that each of them is on one.
ListsExact ==
    /\ ReadyQueueExact /\ SleepQueueExact /\ WaitListsExact
    /\ {i \in Slot : state[i] = "RUNNING"} = {p}

\* Every process is on exactly the list its state names, a waiting one on the list
\* of a process that has not stopped: nobody is forgotten (c/disp.c:43).
EachProcessOnItsList == ListsExact /\ WaitersListed

\* "set all the processes sigwaiting on proc to ready" (c/disp.c:43), "ready all
\* processes waiting on this process to die" (c/disp.c:96): sysstop() forgets no
\* process that waits for the one that stops.
StopReadiesWaiters ==
    [][Stop => \A w \in Elements(List(waiting[p])) :
          state'[w] \in {"READY", "RUNNING"}]_vars

\* next() never finds the ready queue empty: "there should at least be the idle
\* proc" (c/disp.c:291); and no loop over a list runs for ever.
NeverHangs == p # NULL

\* Ticks until the i-th process of the delta list is due: the sum of the deltas.
TicksLeft(i) ==
    LET q == List(sleepQ)
        sum[n \in 0 .. Len(q)] == IF n = 0 THEN 0 ELSE sum[n - 1] + sleepdiff[q[n]]
    IN  sum[CHOOSE n \in DOMAIN q : q[n] = i]

\* Whatever is inserted before or behind it, a sleeper's time goes down by one at
\* each tick and by nothing else; it is woken by the tick that brings it to 0, and
\* by no other step; and it starts at the number of whole ticks it asked for.
SleepersKeepTheirTime ==
    [][ /\ \A i \in Slot : state[i] = "SLEEP" =>
              LET left == TicksLeft(i) - IF Timer THEN 1 ELSE 0
              IN  IF left <= 0 THEN state'[i] # "SLEEP"
                  ELSE state'[i] = "SLEEP" /\ TicksLeft(i)' = left
        /\ \A ms \in Lens : Sleep(ms) =>
              \A i \in Slot : state[i] # "SLEEP" /\ state'[i] = "SLEEP" =>
                  i = p /\ TicksLeft(i)' = ms \div MILLISECONDS_TICK
      ]_vars

\* "To get the value of a node we sum all the preceding values [...] When that
\* value gets to 0 the time has expired" (c/sleep.c:22-25): every sleep ends.
SleeperWakes == \A i \in Slot : state[i] = "SLEEP" ~> state[i] # "SLEEP"

\* Round robin without starvation: a ready process is run.
ReadyRuns == \A i \in Slot : state[i] = "READY" ~> state[i] = "RUNNING"

\* A syswait() on a process that has not stopped blocks the caller, for a signal to
\* wake it with -99 (testdoc.txt:290, the test at c/user.c:244).
WaitBlocks ==
    [][\A t \in 1 .. MaxPid :
          Wait(t) /\ (\E i \in Slot : pid[i] = t /\ Live(i))
              => state'[p] = "WAITING"]_vars

\* A signal is pending only where it is handled: signal 15, which is disabled by
\* its delivery (c/signal.c:144), does not stay pending behind that.
PendingIsHandled == \A i \in Slot : incomingSignals[i] \subseteq handledSignals[i]

\* Whatever a process registers, and in whatever slot it was created, signal 31
\* stops it (c/signal.c:16).  A slot was created if it is idle's or has a pid.
CanBeStopped ==
    \A i \in Slot : i = Idle \/ pid[i] # 0 =>
        sigHandlerTable[i][31] = SYSSTOP /\ 31 \in handledSignals[i]

\* A pending signal goes away only by being delivered, as the newest frame of its
\* process, or with the process, when create() takes over a stopped slot.
SignalsNotLost ==
    [][\A i \in Slot : \A n \in incomingSignals[i] :
          n \notin incomingSignals'[i] =>
              \/ p' = i /\ frames'[i] # <<>> /\ frames'[i][Len(frames'[i])].sig = n
              \/ state[i] = "STOPPED" /\ pid'[i] # pid[i]]_vars

\* A pending signal is delivered, or its process stops first.
PendingDelivered ==
    \A i \in Slot : \A n \in Sig :
        n \in incomingSignals[i] /\ Live(i) ~> n \notin incomingSignals[i] \/ ~Live(i)
=============================================================================
