------------------------------ MODULE Context -------------------------------
(***************************************************************************)
(* The way in and out of the kernel: contextswitch() of c/ctsw.c, the trap *)
(* of syscall() in c/syscall.c, and the interrupt controller as init8259(),*)
(* enable_irq() and end_of_intr() of c/i386.c set it up.                   *)
(*                                                                         *)
(* set_evec() makes every gate a trap gate, which leaves interrupts on:    *)
(* until the cli that an entry point begins with, an interrupt may come in *)
(* between.  The processor and the controller are modelled from how the    *)
(* code uses them.                                                         *)
(***************************************************************************)
EXTENDS Integers, Sequences, FiniteSetsExt

CONSTANTS
    Proc,      \* bound: the processes
    Value,     \* bound: what registers hold
    Holder     \* the process that holds the keyboard

ASSUME ContextAssumption == Holder \in Proc /\ Value \subseteq Nat \ {0}

TIMER == 0       \* the numbers of the interrupt requests; the lower is served first
KEYBOARD == 1
EntryOf == <<"_TimerEntryPoint", "_KeyboardEntryPoint">>
trapNoOf == [_KernelEntryPoint |-> 0, _TimerEntryPoint |-> 1, _KeyboardEntryPoint |-> 2]

VARIABLES
    cur,       \* the process that was last switched to
    regs,      \* the processor: eax, edx (for all others), eip, and whether
               \* interrupts are on (the flag IF)
    frames,    \* on each stack, the places to iret to, the last pushed first
    pushed,    \* on each stack, the registers that pusha left
    ret,       \* pcb field
    args,      \* pcb field
    trapNo, rc,  \* static variables of ctsw.c
    isr, imr,  \* the controller: the requests in service, and those masked
    left,      \* what the process expects in its registers
    asked      \* its system call: eax and edx

ctxVars == <<cur, regs, frames, pushed, ret, args, trapNo, rc, isr, imr, left, asked>>

InKernel == regs.eip = "kernel"
InEntry == regs.eip \in DOMAIN trapNoOf
InUser == regs.eip = "user"
NoRegs == [eax |-> 0, edx |-> 0]
Data == [eax |-> regs.eax, edx |-> regs.edx]

\* The first control word clears the mask, and nothing but kbd_close() sets it again.
InitController == isr = {} /\ imr = {}

\* create() makes a frame that starts in user code with interrupts armed.
InitContext ==
    /\ cur = Holder
    /\ regs = [eax |-> 0, edx |-> 0, eip |-> "kernel", intr |-> FALSE]
    /\ frames = [p \in Proc |-> <<"user">>]
    /\ pushed = [p \in Proc |-> NoRegs] /\ left = pushed
    /\ ret = [p \in Proc |-> 0] /\ args = ret
    /\ trapNo = 0 /\ rc = 0
    /\ InitController
    /\ asked = [p \in Proc |-> <<0, 0>>]

\* The process computes.
Compute ==
    /\ InUser
    /\ \E d \in [eax : Value, edx : Value] :
          /\ regs' = [regs EXCEPT !.eax = d.eax, !.edx = d.edx]
          /\ left' = [left EXCEPT ![cur] = d]
    /\ UNCHANGED <<cur, frames, pushed, ret, args, trapNo, rc, isr, imr, asked>>

\* A gate: the place to return to is pushed, IF stays.
Gate(entry) ==
    /\ frames' = [frames EXCEPT ![cur] = <<regs.eip>> \o @]
    /\ regs' = [regs EXCEPT !.eip = entry]

\* int KERNEL_INT, with the request in eax and the arguments in edx.
Trap ==
    /\ InUser
    /\ Gate("_KernelEntryPoint")
    /\ asked' = [asked EXCEPT ![cur] = <<regs.eax, regs.edx>>]
    /\ UNCHANGED <<cur, pushed, ret, args, trapNo, rc, isr, imr, left>>

\* A request is served when it is not masked and none as urgent is in service.
Irq(k) ==
    /\ regs.intr /\ k \notin imr /\ \A j \in isr : k < j
    /\ Gate(EntryOf[k + 1])
    /\ isr' = isr \cup {k}
    /\ UNCHANGED <<cur, pushed, ret, args, trapNo, rc, imr, left, asked>>

\* A mutant of NewRet: eax is taken to be a result after every trap.
NewRetNever(trap, eax, old) == old

\* What contextswitch() leaves in p->ret: after an interrupt, the interrupted eax.
NewRet(trap, eax, old) == IF trap = 0 THEN old ELSE eax

\* From cli to the return of contextswitch().
Enter ==
    /\ InEntry
    /\ LET trap == trapNoOf[regs.eip]
       IN  /\ trapNo' = trap
           /\ ret' = [ret EXCEPT ![cur] = NewRet(trap, regs.eax, @)]
           /\ args' = [args EXCEPT ![cur] = IF trap = 0 THEN regs.edx ELSE @]
    /\ rc' = regs.eax
    /\ pushed' = [pushed EXCEPT ![cur] = Data]
    /\ regs' = [regs EXCEPT !.eip = "kernel", !.intr = FALSE]
    /\ UNCHANGED <<cur, frames, isr, imr, left, asked>>

\* contextswitch(p) up to the iret: eax gets p->ret, and interrupts are on.
Switch(p, r) ==
    /\ cur' = p
    /\ regs' = [eax |-> r[p], edx |-> pushed[p].edx,
                eip |-> Head(frames[p]), intr |-> TRUE]
    /\ frames' = [frames EXCEPT ![p] = Tail(@)]
    /\ pushed' = [pushed EXCEPT ![p] = NoRegs]
    /\ ret' = r
    /\ UNCHANGED <<args, trapNo, rc, asked>>

\* A mutant of end_of_intr: it ends the least urgent one.
end_of_intrLeast == isr' = isr \ {Max(isr)}

\* A non-specific end of interrupt ends the most urgent one in service.
end_of_intr == isr' = isr \ {Min(isr)}

enable_irq(irq, disable) == imr' = IF disable THEN imr \cup {irq} ELSE imr \ {irq}

\* A system call has a result; the keyboard is opened or closed by some.
ServeCall(p) ==
    /\ InKernel /\ trapNo = 0
    /\ \E v \in Value :
          /\ Switch(p, [ret EXCEPT ![cur] = v])
          /\ left' = [left EXCEPT ![cur].eax = v]
    /\ UNCHANGED imr \/ \E disable \in BOOLEAN : enable_irq(KEYBOARD, disable)
    /\ UNCHANGED isr

ServeTimer(p) ==
    /\ InKernel /\ trapNo = 1
    /\ Switch(p, ret) /\ end_of_intr
    /\ UNCHANGED <<imr, left>>

\* The driver writes a result for the holder of the keyboard, whatever it is doing.
ServeKeyboard ==
    /\ InKernel /\ trapNo = 2
    /\ \E v \in Value : Switch(cur, [ret EXCEPT ![Holder] = v])
    /\ end_of_intr
    /\ UNCHANGED <<imr, left>>

NextContext ==
    \/ Compute \/ Trap \/ Irq(TIMER) \/ Irq(KEYBOARD) \/ Enter
    \/ \E p \in Proc : ServeCall(p) \/ ServeTimer(p)
    \/ ServeKeyboard

ContextSpec == InitContext /\ [][NextContext]_ctxVars

-----------------------------------------------------------------------------
(* Properties                                                               *)

\* A process that computes has in its registers what it had when it was interrupted,
\* by whatever and in whatever entry point, and after a system call the result in
\* eax.  The holder of the keyboard is not sure of eax (c/kbd.c:251, 292).
RegistersKept ==
    InUser => \/ Data = left[cur]
              \/ cur = Holder /\ [Data EXCEPT !.eax = left[cur].eax] = left[cur]

\* A request reaches the dispatcher as it was made, even if interrupts came between
\* the trap and its cli and other processes ran meanwhile; not that of the holder of
\* the keyboard, whose eax then holds the request.
RequestsReach ==
    (InKernel /\ trapNo = 0 /\ asked[cur] # <<0, 0>> /\ cur # Holder) =>
        <<rc, args[cur]>> = asked[cur]

\* The end of interrupt that the kernel sends is that of the interrupt it served, also
\* when the entry point of the keyboard's was interrupted by the timer and another
\* process ran then; and when processes compute none but such a keyboard's is open.
ServedIsEnded ==
    /\ InKernel /\ trapNo \in {1, 2} => isr # {} /\ Min(isr) = trapNo - 1
    /\ KEYBOARD \in isr =>
           \/ InKernel /\ trapNo = 2
           \/ regs.eip = "_KeyboardEntryPoint"
           \/ \E p \in Proc : \E i \in DOMAIN frames[p] : frames[p][i] = "_KeyboardEntryPoint"
=============================================================================
