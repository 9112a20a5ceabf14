------------------------------ MODULE Devices ------------------------------
(***************************************************************************)
(* The device calls of c/di_calls.c and the keyboard interrupt, as cases   *)
(* of dispatch() (c/disp.c:191): the keyboard driver composed with the     *)
(* dispatcher, whose ready queue and results it writes.                    *)
(***************************************************************************)
EXTENDS Kernel, KbdDriver, FiniteSetsExt

CONSTANTS
    NUM_FD,      \* the number of descriptors of a process, and of devices
    DeviceNos,   \* bound: the device numbers in calls
    Commands,    \* bound: the commands given to sysioctl
    FullOpens,   \* bound: the devices opened with all descriptors in use
    WaitedFor,   \* bound: may a process with waiters do that
    WakesUnblocked \* bound: may the driver ready a process that is not blocked

ASSUME DevicesAssumption ==
    /\ NUM_FD \in Nat \ {0} /\ DeviceNos \subseteq Int
    /\ Readers \subseteq Slot \ {Idle} /\ FullOpens \subseteq DeviceNos
    /\ WaitedFor \in BOOLEAN /\ WakesUnblocked \in BOOLEAN

VARIABLES
    kbd,             \* the static variables of the driver
    openedDvTable    \* pcb field: the device behind each descriptor, or -1

dvVars == <<kbd, openedDvTable>>
allVars == <<vars, dvVars>>

Fd == 0 .. NUM_FD - 1
Closed == -1

\* Of deviceTable only the two keyboards are set up, without and with echo.
Keyboards == {0, 1}

\* Mutants of Drive: the reader is not readied when its read is over, or it is
\* readied at each character.
DriveNoWake(q, o) ==
    IF o.ret = NoRet \/ o.kbd.proc = NoPcb THEN q
    ELSE [q EXCEPT !.ret[o.kbd.proc] = "result"]

DriveAlways(q, o) ==
    IF o.ret = NoRet \/ o.kbd.proc = NoPcb THEN q
    ELSE ready(DriveNoWake(q, o), o.kbd.proc)

\* What the driver does to kbd_proc: it has no look at the state of that.  With no
\* holder the interrupt writes its result through NULL, to memory that is no pcb
\* (c/kbd.c:292).
Drive(q, o) ==
    LET s == IF o.ret = NoRet \/ o.kbd.proc = NoPcb THEN q
             ELSE [q EXCEPT !.ret[o.kbd.proc] = "result"]
    IN  IF o.wakes THEN ready(s, o.kbd.proc) ELSE s

\* The bound WakesUnblocked on an outcome.
HolderBlocks == kbd.proc # NoPcb /\ state[kbd.proc] = "BLOCKED_READING"
Permitted(o) == WakesUnblocked \/ (o.wakes => HolderBlocks)

MayCall(call) == MayIssue(call) /\ p \in Readers /\ UNCHANGED <<pid, nextpid, targetPCB>>

Fails == Dispatch(Return(Queues, "-1"), Signals)

\* Mutant of ValidDevice: the comparison is off by one.
ValidDeviceOrNext(d) == d \in 0 .. NUM_FD

ValidDevice(d) == d \in 0 .. NUM_FD - 1

\* The process's lowest free descriptor, or the number after the last.
FreeFd == Min({fd \in Fd : openedDvTable[p][fd] = Closed} \cup {NUM_FD})

\* The entry after the last descriptor is the pcb's field waiting.
Overrun(q, d) == [q EXCEPT !.waiting[q.p] = IF d = 0 THEN NULL ELSE WILD]

\* di_open() returns a descriptor whether or not dvopen succeeds.
Open(d) ==
    /\ MayCall("open")
    /\ \/ ~ValidDevice(d) /\ Fails /\ UNCHANGED dvVars
       \/ /\ ValidDevice(d) /\ FreeFd \in Fd
          /\ openedDvTable' = [openedDvTable EXCEPT ![p][FreeFd] = d]
          /\ kbd' = IF d \in Keyboards THEN kbd_open(kbd, p, d = 1).kbd ELSE kbd
          /\ Dispatch(IF d \in Keyboards THEN Return(Queues, "result")
                      ELSE Hang(Queues), Signals)
       \/ /\ ValidDevice(d) /\ FreeFd \notin Fd
          /\ d \in FullOpens /\ (WaitedFor \/ waiting[p] = NULL)
          /\ kbd' = IF d \in Keyboards THEN kbd_open(kbd, p, d = 1).kbd ELSE kbd
          /\ Dispatch(IF d \in Keyboards THEN Return(Overrun(Queues, d), "result")
                      ELSE Hang(Overrun(Queues, d)), Signals)
          /\ UNCHANGED openedDvTable

\* The other calls fail on a descriptor that is not open.
IsOpen(fd) == fd \in Fd /\ openedDvTable[p][fd] # Closed
NotOpen(fd) == ~IsOpen(fd) /\ Fails /\ UNCHANGED dvVars

Close(fd) ==
    /\ MayCall("close")
    /\ \/ NotOpen(fd)
       \/ /\ IsOpen(fd)
          /\ LET o == kbd_close(kbd)
             IN  /\ kbd' = o.kbd
                 /\ IF o.result = "DONE"
                    THEN /\ openedDvTable' = [openedDvTable EXCEPT ![p][fd] = Closed]
                         /\ Dispatch(Return(Queues, "result"), Signals)
                    ELSE Fails /\ UNCHANGED openedDvTable

\* Mutant of AfterRead: a read that is done blocks like one that is not.
AfterReadBlocks(q, o) ==
    IF o.result = "ERROR" THEN Return(q, "-1")
    ELSE switch([q EXCEPT !.state[q.p] = "BLOCKED_READING"])

\* The end of SYS_READ.  Only kbd_proc gets a result from the driver; another
\* process is resumed with the result of an earlier call.
AfterRead(q, o) ==
    CASE o.result = "BLOCK" -> switch([q EXCEPT !.state[q.p] = "BLOCKED_READING"])
      [] o.result = "ERROR" -> Return(q, "-1")
      [] o.result = "DONE"  -> q

Read(fd, ok, buflen) ==
    /\ MayCall("read")
    /\ \/ NotOpen(fd)
       \/ /\ IsOpen(fd)
          /\ \E o \in {kbd_read(kbd, ok, buflen)} :
                /\ Permitted(o)
                /\ kbd' = o.kbd /\ Dispatch(AfterRead(Drive(Queues, o), o), Signals)
          /\ UNCHANGED openedDvTable

\* kbd_write() always fails, too.
Write(fd) == MayCall("write") /\ Fails /\ UNCHANGED dvVars

Ioctl(fd, command, c) ==
    /\ MayCall("ioctl")
    /\ \/ NotOpen(fd)
       \/ /\ IsOpen(fd)
          /\ LET o == kbd_ioctl(kbd, command, c)
             IN  /\ kbd' = o.kbd
                 /\ Dispatch(Return(Queues, IF o.result = "DONE" THEN "result" ELSE "-1"),
                             Signals)
          /\ UNCHANGED openedDvTable

\* IRQ 1, of whatever process runs.  DEV_BLOCK marks that process as blocked, but
\* the loop of dispatch() resumes it, which marks it as running.  Nothing masks the
\* interrupt before the first open; after a close, which does, it stays allowed here.
Keyboard(c) ==
    /\ p # NULL /\ "keyboard" \in Calls
    /\ \E o \in {kbd_int_read(kbd, c, HolderBlocks)} :
          LET q == Return(Queues, "eax")
          IN  /\ Permitted(o)
              /\ kbd' = o.kbd
              /\ Dispatch(Drive(IF o.result = "BLOCK"
                                THEN [q EXCEPT !.state[p] = "BLOCKED_READING"]
                                ELSE q, o), Signals)
    /\ UNCHANGED <<pid, nextpid, targetPCB, openedDvTable>>

\* create() closes the descriptors of the slot it takes; a stop does not, nor does
\* it close the keyboard.
createDv ==
    /\ create
    /\ openedDvTable' = [i \in Slot |-> IF pid'[i] # pid[i] THEN [fd \in Fd |-> Closed]
                                        ELSE openedDvTable[i]]
    /\ UNCHANGED kbd

\* The other cases of dispatch(), as in Kernel.  Bound: no process stops whose field
\* waiting has been overwritten by a device number.
Other ==
    /\ \/ Query \/ Yield \/ Timer \/ SigReturn
       \/ Stop /\ waiting[p] # WILD
       \/ \E ms \in Lens : Sleep(ms)
       \/ \E target \in 0 .. MaxPid :
             Wait(target) \/ \E n \in Sig \cup {-1} : Kill(target, n)
       \/ \E n \in Sig \cup {-1} : \E own \in BOOLEAN : sighandler(n, own)
    /\ UNCHANGED dvVars

InitDv ==
    /\ Init
    /\ kbd = kbd_reset_state
    /\ openedDvTable = [i \in Slot |-> [fd \in Fd |-> IF i \in {0, 1} THEN Closed ELSE 0]]

NextDv ==
    \/ createDv \/ Other
    \/ \E d \in DeviceNos : Open(d)
    \/ \E fd \in Fd \cup {-1, NUM_FD} :
          \/ Close(fd) \/ Write(fd) \/ Read(fd, FALSE, 0)
          \/ \E buflen \in ReadLens : Read(fd, TRUE, buflen)
          \/ \E command \in Commands : \E c \in Char : Ioctl(fd, command, c)
    \/ \E c \in Char \cup {NoKey} : Keyboard(c)

DvSpec == InitDv /\ [][NextDv]_allVars

\* The timer ticks, and whoever sits at the keyboard goes on pressing Enter.
FairDvSpec == DvSpec /\ WF_allVars(Timer /\ UNCHANGED dvVars) /\ WF_allVars(Keyboard(ENTER))

-----------------------------------------------------------------------------
(* Properties                                                               *)

\* Each descriptor of a process is closed or names a valid device, whatever is opened,
\* and the keyboard is open exactly while it has a holder.
DvTypeOK ==
    /\ openedDvTable \in [Slot -> [Fd -> Fd \cup {Closed}]]
    /\ kbd.proc \in Readers \cup {NoPcb} /\ kbd.open = (kbd.proc # NoPcb)
    /\ kbd.len \in 0 .. BufSize /\ kbd.index \in 0 .. BufSize - 1

\* The driver readies its holder without a look at the state of that, and its interrupt
\* marks whoever runs as blocked in a read: still no process is twice on the ready queue
\* or on it without being ready, and one runs.  Of waiting processes nothing is said:
\* the entry after a full table of descriptors is the head of their list
\* (c/di_calls.c:69), and a device number there forgets them.
QueuesKept ==
    ReadyQueueExact /\ SleepQueueExact /\ {i \in Slot : state[i] = "RUNNING"} = {p}

\* However the calls of several processes, preemption, signals and keys interleave,
\* the driver is used as Keyboard assumes: who holds it is blocked exactly from a
\* read that returns DEV_BLOCK to the ready(kbd_proc) of the driver or a signal.
Alone == INSTANCE Keyboard WITH blocked <- HolderBlocks
ImplementsKeyboard == Alone!KbdSpec

\* A process that blocks in a read runs again, unless another one closes the keyboard
\* that it holds: "if there is a process blocked, do a transfer" (c/kbd.c:282).
HolderServed ==
    \A i \in Readers :
        HolderBlocks /\ kbd.proc = i /\ kbd.p_len > 0
            ~> state[i] = "RUNNING" \/ kbd.proc # i
=============================================================================
