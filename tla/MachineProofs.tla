---------------------------- MODULE MachineProofs ----------------------------
(***************************************************************************)
(* What lies under the kernel and beside it, for any values: the way in    *)
(* and out of the kernel keeps registers, requests and the interrupts in   *)
(* service apart; kbtoa() follows the modifier keys; qsort() sorts;        *)
(* kmalloc() gives no byte away twice; kbmputc() is a terminal; the string *)
(* functions compare, copy, join and search strings.                       *)
(***************************************************************************)
EXTENDS Context, ScanCodes, Memory, Console, Library, FiniteSetTheorems, FunctionTheorems,
        SequenceTheorems, WellFoundedInduction, TLAPS

-----------------------------------------------------------------------------
(* Entry and exit: module Context                                           *)

KernelGate == "_KernelEntryPoint"
KeyboardGate == "_KeyboardEntryPoint"
TimerGate == "_TimerEntryPoint"

Place == {"user", "kernel", KernelGate, KeyboardGate, TimerGate}
Data_ == [eax : Nat, edx : Nat]

ContextTypes ==
    /\ cur \in Proc
    /\ regs = [eax |-> regs.eax, edx |-> regs.edx, eip |-> regs.eip, intr |-> regs.intr]
    /\ regs.eax \in Nat /\ regs.edx \in Nat
    /\ regs.eip \in Place
    /\ regs.intr \in BOOLEAN
    /\ regs.intr <=> regs.eip # "kernel"
    /\ pushed \in [Proc -> Data_] /\ left \in [Proc -> Data_]
    /\ ret \in [Proc -> Nat] /\ args \in [Proc -> Nat]
    /\ asked \in [Proc -> Nat \X Nat]
    /\ trapNo \in 0 .. 2 /\ rc \in Nat
    /\ isr \in SUBSET {TIMER, KEYBOARD} /\ frames \in [Proc -> Seq(Place)]

\* The places that a process returns to: its program, by way of the entry point of its
\* system call, and before that of the keyboard's, if an interrupt came in these.
Calling == {<<"user">>, <<KernelGate, "user">>}
Stacks == Calling \cup {<<KeyboardGate, "user">>, <<KeyboardGate, KernelGate, "user">>}

FramesNow(f) ==
    CASE regs.eip = "user" -> f = <<>>
      [] regs.eip = KernelGate -> f = <<"user">>
      [] regs.eip = KeyboardGate -> f \in Calling
      [] regs.eip = TimerGate -> f \in Stacks
      [] OTHER -> /\ trapNo = 0 => f = <<"user">>
                  /\ trapNo = 2 => f \in Calling
                  /\ f \in Stacks

StacksOK ==
    /\ FramesNow(frames[cur])
    /\ \A q \in Proc \ {cur} : frames[q] \in Stacks

\* The keyboard's interrupt is in service in its entry point, in the kernel, or where a
\* process was interrupted in that entry point, and at one of these places only.
InService(k, entry) == regs.eip = entry \/ (InKernel /\ trapNo = k + 1)
Interrupted(q) == frames[q] \in {<<KeyboardGate, "user">>, <<KeyboardGate, KernelGate, "user">>}

ServiceOK ==
    /\ TIMER \in isr <=> InService(TIMER, TimerGate)
    /\ KEYBOARD \in isr <=> InService(KEYBOARD, KeyboardGate) \/ \E q \in Proc : Interrupted(q)
    /\ InService(KEYBOARD, KeyboardGate) => \A q \in Proc : ~Interrupted(q)
    /\ \A q, r \in Proc : Interrupted(q) /\ Interrupted(r) => q = r

\* Where a process is stopped, what it left is saved; whether it is in a system call.
Stopped(q) == q # cur \/ InKernel
InCall(q) == frames[q] \in {<<KernelGate, "user">>, <<KeyboardGate, KernelGate, "user">>} \/ (q = cur /\ regs.eip = KernelGate)

DataOK ==
    \A q \in Proc :
        /\ left[q].edx = IF Stopped(q) THEN pushed[q].edx ELSE regs.edx
        /\ q # Holder =>
              /\ ~(q = cur /\ InKernel /\ trapNo = 0)
                     => left[q].eax = IF Stopped(q) THEN ret[q] ELSE regs.eax
              /\ InCall(q) => asked[q] = <<left[q].eax, left[q].edx>>
              /\ (q = cur /\ InKernel /\ trapNo = 0) => asked[q] = <<rc, args[q]>>

\* The inductive invariant.
ContextInv == ContextTypes /\ StacksOK /\ ServiceOK /\ DataOK

-----------------------------------------------------------------------------
\* The stacks differ.
LEMMA StacksDiffer ==
    /\ KernelGate # KeyboardGate /\ KernelGate # "user" /\ KeyboardGate # "user" /\ TimerGate \notin {KernelGate, KeyboardGate, "user"}
    /\ "kernel" \notin {KernelGate, KeyboardGate, TimerGate, "user"}
    /\ <<"user">> \notin {<<>>, <<KernelGate, "user">>, <<KeyboardGate, "user">>, <<KeyboardGate, KernelGate, "user">>}
    /\ <<KernelGate, "user">> \notin {<<>>, <<KeyboardGate, "user">>, <<KeyboardGate, KernelGate, "user">>}
    /\ <<KeyboardGate, "user">> \notin {<<>>, <<KeyboardGate, KernelGate, "user">>}
    /\ <<KeyboardGate, KernelGate, "user">> # <<>>
<1>1. /\ Len(<<>>) = 0 /\ Len(<<"user">>) = 1 /\ Len(<<KernelGate, "user">>) = 2
      /\ Len(<<KeyboardGate, "user">>) = 2 /\ Len(<<KeyboardGate, KernelGate, "user">>) = 3
  OBVIOUS
<1>2. <<KernelGate, "user">>[1] # <<KeyboardGate, "user">>[1]
  BY DEF KernelGate, KeyboardGate
<1>3. /\ KernelGate # KeyboardGate /\ KernelGate # "user" /\ KeyboardGate # "user" /\ TimerGate \notin {KernelGate, KeyboardGate, "user"}
      /\ "kernel" \notin {KernelGate, KeyboardGate, TimerGate, "user"}
  BY DEF KernelGate, KeyboardGate, TimerGate
<1> QED
  BY <1>1, <1>2, <1>3

\* What a gate pushes comes first.
LEMMA PushFirst ==
    ASSUME NEW S, NEW e \in S, NEW t \in Seq(S), NEW u \in Seq(S),
           Len(u) = Len(t) + 1, u[1] = e, \A k \in 1 .. Len(t) : u[k + 1] = t[k]
    PROVE  <<e>> \o t = u
<1> DEFINE r == <<e>> \o t
<1>1. /\ r \in Seq(S) /\ Len(r) = Len(t) + 1 /\ r[1] = e
      /\ \A k \in 1 .. Len(t) : r[k + 1] = t[k]
  OBVIOUS
<1> HIDE DEF r
<1>2. \A k \in 1 .. Len(u) : r[k] = u[k]
  <2> TAKE k \in 1 .. Len(u)
  <2>1. CASE k = 1
    BY <1>1, <2>1
  <2>2. CASE k # 1
    <3>1. k - 1 \in 1 .. Len(t) /\ (k - 1) + 1 = k
      BY <2>2
    <3> QED
      BY <1>1, <3>1
  <2> QED
    BY <2>1, <2>2
<1>3. r = u
  BY <1>1, <1>2, SeqEqual
<1> QED
  BY <1>3 DEF r

LEMMA PushOne == ASSUME NEW S, NEW a \in S, NEW b \in S  PROVE <<a>> \o <<b>> = <<a, b>>
<1> DEFINE t == <<b>>
           u == <<a, b>>
<1>1. /\ t \in Seq(S) /\ u \in Seq(S) /\ Len(t) = 1 /\ Len(u) = 2
      /\ u[1] = a /\ u[2] = b /\ t[1] = b
  OBVIOUS
<1> HIDE DEF t, u
<1>2. \A k \in 1 .. Len(t) : u[k + 1] = t[k]
  <2> TAKE k \in 1 .. Len(t)
  <2>1. k = 1
    BY <1>1
  <2> QED
    BY <1>1, <2>1
<1>3. Len(u) = Len(t) + 1
  BY <1>1
<1>4. <<a>> \o t = u
  BY <1>1, <1>2, <1>3, PushFirst
<1> QED
  BY <1>4 DEF t, u

LEMMA PushTwo ==
    ASSUME NEW S, NEW a \in S, NEW b \in S, NEW c \in S
    PROVE  <<a>> \o <<b, c>> = <<a, b, c>>
<1> DEFINE t == <<b, c>>
           u == <<a, b, c>>
<1>1. /\ t \in Seq(S) /\ u \in Seq(S) /\ Len(t) = 2 /\ Len(u) = 3
      /\ u[1] = a /\ u[2] = b /\ u[3] = c /\ t[1] = b /\ t[2] = c
  OBVIOUS
<1> HIDE DEF t, u
<1>2. \A k \in 1 .. Len(t) : u[k + 1] = t[k]
  <2> TAKE k \in 1 .. Len(t)
  <2>1. k = 1 \/ k = 2
    BY <1>1
  <2> QED
    BY <1>1, <2>1
<1>3. Len(u) = Len(t) + 1
  BY <1>1
<1>4. <<a>> \o t = u
  BY <1>1, <1>2, <1>3, PushFirst
<1> QED
  BY <1>4 DEF t, u

\* The stacks as the gates make them and as iret leaves them.
LEMMA Pushes ==
    /\ \A e \in Place : <<e>> \o <<>> = <<e>>
    /\ <<KernelGate>> \o <<"user">> = <<KernelGate, "user">>
    /\ <<KeyboardGate>> \o <<"user">> = <<KeyboardGate, "user">>
    /\ <<KeyboardGate>> \o <<KernelGate, "user">> = <<KeyboardGate, KernelGate, "user">>
<1>1. {"user", KernelGate, KeyboardGate} \subseteq Place
  BY DEF Place
<1>2. \A e \in Place : <<e>> \o <<>> = <<e>>
  OBVIOUS
<1> QED
  BY <1>1, <1>2, PushOne, PushTwo

LEMMA ContextInit == InitContext => ContextInv
<1> SUFFICES ASSUME InitContext  PROVE ContextInv
  OBVIOUS
<1> USE DEF InitContext, InitController
<1>1. ContextTypes
  <2>1. /\ pushed \in [Proc -> Data_] /\ left \in [Proc -> Data_]
        /\ ret \in [Proc -> Nat] /\ args \in [Proc -> Nat]
        /\ asked \in [Proc -> Nat \X Nat]
    BY DEF Data_, NoRegs
  <2>3. frames \in [Proc -> Seq(Place)]
    <3>1. <<"user">> \in Seq(Place)
      BY DEF Place
    <3> QED
      BY <3>1
  <2>4. /\ cur \in Proc /\ trapNo = 0 /\ rc = 0 /\ isr = {}
    BY ContextAssumption
  <2>2. /\ regs.eax = 0 /\ regs.edx = 0 /\ regs.eip = "kernel" /\ regs.intr = FALSE
        /\ regs = [eax |-> regs.eax, edx |-> regs.edx, eip |-> regs.eip,
                   intr |-> regs.intr]
    OBVIOUS
  <2> QED
    BY <2>1, <2>2, <2>3, <2>4 DEF ContextTypes, Place
<1>2. StacksOK
  BY ContextAssumption DEF StacksOK, FramesNow, Stacks, Calling, KernelGate, KeyboardGate, TimerGate
<1>3. \A q \in Proc : ~Interrupted(q)
  BY DEF Interrupted, KeyboardGate, KernelGate
<1>4. ServiceOK
  BY <1>3 DEF ServiceOK, InService, InKernel, TIMER, KEYBOARD, TimerGate, KeyboardGate
<1>5. DataOK
  BY ContextAssumption DEF DataOK, Stopped, InCall, InKernel, NoRegs, KernelGate, KeyboardGate
<1> QED
  BY <1>1, <1>2, <1>4, <1>5 DEF ContextInv

LEMMA ComputeInv == ContextInv /\ Compute => ContextInv'
<1> SUFFICES ASSUME ContextInv, Compute  PROVE ContextInv'
  OBVIOUS
<1>1. PICK d \in [eax : Value, edx : Value] :
        /\ regs' = [regs EXCEPT !.eax = d.eax, !.edx = d.edx]
        /\ left' = [left EXCEPT ![cur] = d]
  BY DEF Compute
<1>2. /\ d \in Data_ /\ regs.eip = "user"
      /\ UNCHANGED <<cur, frames, pushed, ret, args, trapNo, rc, isr, imr, asked>>
  BY ContextAssumption DEF Compute, InUser, Data_
<1>3. /\ regs' = [eax |-> d.eax, edx |-> d.edx, eip |-> "user", intr |-> TRUE]
      /\ left' \in [Proc -> Data_]
  BY <1>1, <1>2 DEF ContextInv, ContextTypes
<1>4. ContextTypes'
  BY <1>2, <1>3 DEF ContextInv, ContextTypes, Data_
<1>5. StacksOK' /\ ServiceOK'
  BY <1>2, <1>3 DEF ContextInv, StacksOK, FramesNow, ServiceOK, InService, InKernel,
                    Interrupted, KernelGate, KeyboardGate, TimerGate
<1>6. frames[cur] = <<>> /\ cur \in Proc
  BY <1>2 DEF ContextInv, ContextTypes, StacksOK, FramesNow, KernelGate, KeyboardGate, TimerGate
<1>7. DataOK'
  <2>1. ~InCall(cur)' /\ ~Stopped(cur)' /\ ~InKernel' /\ ~InKernel
    BY <1>2, <1>3, <1>6 DEF InCall, Stopped, InKernel, KernelGate, KeyboardGate
  <2>2. \A q \in Proc \ {cur} : /\ InCall(q)' <=> InCall(q)
                                /\ Stopped(q)' /\ Stopped(q) /\ left'[q] = left[q]
    BY <1>1, <1>2, <1>3 DEF InCall, Stopped, ContextInv, ContextTypes
  <2>3. left'[cur] = d
    BY <1>1, <1>6 DEF ContextInv, ContextTypes
  <2> QED
    BY <1>2, <1>3, <2>1, <2>2, <2>3 DEF ContextInv, DataOK
<1> QED
  BY <1>4, <1>5, <1>7 DEF ContextInv

\* What a gate does to the processor.
LEMMA GateFacts ==
    ASSUME ContextInv, NEW entry, Gate(entry)
    PROVE  /\ regs' = [eax |-> regs.eax, edx |-> regs.edx, eip |-> entry,
                       intr |-> regs.intr]
           /\ frames' \in [Proc -> Seq(Place)]
           /\ frames'[cur] = <<regs.eip>> \o frames[cur]
           /\ \A q \in Proc \ {cur} : frames'[q] = frames[q]
<1>1. /\ regs = [eax |-> regs.eax, edx |-> regs.edx, eip |-> regs.eip,
                 intr |-> regs.intr]
      /\ regs' = [regs EXCEPT !.eip = entry]
      /\ frames' = [frames EXCEPT ![cur] = <<regs.eip>> \o @]
      /\ frames \in [Proc -> Seq(Place)] /\ cur \in Proc /\ regs.eip \in Place
  BY DEF ContextInv, ContextTypes, Gate
<1>2. regs' = [eax |-> regs.eax, edx |-> regs.edx, eip |-> entry, intr |-> regs.intr]
  BY <1>1
<1>3. <<regs.eip>> \o frames[cur] \in Seq(Place)
  BY <1>1
<1> QED
  BY <1>1, <1>2, <1>3

LEMMA TrapInv == ContextInv /\ Trap => ContextInv'
<1> SUFFICES ASSUME ContextInv, Trap  PROVE ContextInv'
  OBVIOUS
<1>1. /\ regs.eip = "user" /\ Gate(KernelGate)
      /\ asked' = [asked EXCEPT ![cur] = <<regs.eax, regs.edx>>]
      /\ UNCHANGED <<cur, pushed, ret, args, trapNo, rc, isr, imr, left>>
  BY DEF Trap, InUser, KernelGate
<1>2. frames[cur] = <<>> /\ cur \in Proc /\ regs.intr
  BY <1>1 DEF ContextInv, ContextTypes, StacksOK, FramesNow, KernelGate, KeyboardGate, TimerGate
<1>3. /\ regs' = [eax |-> regs.eax, edx |-> regs.edx, eip |-> KernelGate, intr |-> TRUE]
      /\ frames' \in [Proc -> Seq(Place)]
      /\ frames'[cur] = <<"user">>
      /\ \A q \in Proc \ {cur} : frames'[q] = frames[q]
  BY <1>1, <1>2, GateFacts DEF ContextInv, ContextTypes
<1>4. ContextTypes'
  <2>1. asked' \in [Proc -> Nat \X Nat]
    BY <1>1 DEF ContextInv, ContextTypes
  <2> QED
    BY <1>1, <1>3, <2>1 DEF ContextInv, ContextTypes, Place, KernelGate
<1>5. StacksOK'
  BY <1>1, <1>3 DEF ContextInv, StacksOK, FramesNow, KernelGate, KeyboardGate, TimerGate
<1>6. \A q \in Proc : Interrupted(q)' <=> Interrupted(q)
  BY <1>2, <1>3 DEF Interrupted, KeyboardGate, KernelGate
<1>7. ServiceOK'
  BY <1>1, <1>3, <1>6 DEF ContextInv, ServiceOK, InService, InKernel, KernelGate, KeyboardGate, TimerGate
<1>8. DataOK'
  <2>1. InCall(cur)' /\ ~Stopped(cur)' /\ ~Stopped(cur) /\ ~InKernel' /\ ~InKernel
    BY <1>1, <1>3 DEF InCall, Stopped, InKernel, KernelGate
  <2>2. \A q \in Proc \ {cur} : /\ InCall(q)' <=> InCall(q)
                                /\ Stopped(q)' /\ Stopped(q) /\ asked'[q] = asked[q]
    BY <1>1, <1>3 DEF InCall, Stopped, ContextInv, ContextTypes
  <2>3. asked'[cur] = <<regs.eax, regs.edx>>
    BY <1>1, <1>2 DEF ContextInv, ContextTypes
  <2> QED
    BY <1>1, <1>3, <2>1, <2>2, <2>3 DEF ContextInv, DataOK
<1> QED
  BY <1>4, <1>5, <1>7, <1>8 DEF ContextInv

\* In no entry point but the timer's is the timer in service, and only while the
\* keyboard is not in service can it interrupt.
LEMMA TimerInv == ContextInv /\ Irq(TIMER) => ContextInv'
<1> SUFFICES ASSUME ContextInv, Irq(TIMER)  PROVE ContextInv'
  OBVIOUS
<1>1. /\ regs.intr /\ TIMER \notin isr /\ Gate(TimerGate)
      /\ isr' = isr \cup {TIMER}
      /\ UNCHANGED <<cur, pushed, ret, args, trapNo, rc, imr, left, asked>>
  BY DEF Irq, EntryOf, TIMER, TimerGate
<1>2. /\ regs.eip \in {"user", KernelGate, KeyboardGate} /\ cur \in Proc
      /\ ~InKernel
  BY <1>1 DEF ContextInv, ContextTypes, Place, ServiceOK, InService, InKernel
<1>3. /\ regs' = [eax |-> regs.eax, edx |-> regs.edx, eip |-> TimerGate, intr |-> TRUE]
      /\ frames' \in [Proc -> Seq(Place)]
      /\ frames'[cur] = <<regs.eip>> \o frames[cur]
      /\ \A q \in Proc \ {cur} : frames'[q] = frames[q]
  BY <1>1, GateFacts DEF ContextInv, ContextTypes
<1>4. \/ regs.eip = "user" /\ frames'[cur] = <<"user">>
      \/ regs.eip = KernelGate /\ frames'[cur] = <<KernelGate, "user">>
      \/ /\ regs.eip = KeyboardGate
         /\ frames'[cur] = <<KeyboardGate, "user">> /\ frames[cur] = <<"user">>
      \/ /\ regs.eip = KeyboardGate
         /\ frames'[cur] = <<KeyboardGate, KernelGate, "user">> /\ frames[cur] = <<KernelGate, "user">>
  <2>1. FramesNow(frames[cur])
    BY DEF ContextInv, StacksOK
  <2>2. CASE regs.eip = "user"
    <3>1. frames[cur] = <<>>
      BY <2>1, <2>2 DEF FramesNow, KernelGate, KeyboardGate, TimerGate
    <3> QED
      BY <1>3, <2>2, <3>1, Pushes DEF Place
  <2>3. CASE regs.eip = KernelGate
    <3>1. frames[cur] = <<"user">>
      BY <2>1, <2>3 DEF FramesNow, KernelGate, KeyboardGate, TimerGate
    <3> QED
      BY <1>3, <2>3, <3>1, Pushes
  <2>4. CASE regs.eip = KeyboardGate
    <3>1. frames[cur] = <<"user">> \/ frames[cur] = <<KernelGate, "user">>
      BY <2>1, <2>4 DEF FramesNow, Calling, KernelGate, KeyboardGate, TimerGate
    <3> QED
      BY <1>3, <2>4, <3>1, Pushes
  <2> QED
    BY <1>2, <2>2, <2>3, <2>4
<1>5. ContextTypes'
  BY <1>1, <1>3 DEF ContextInv, ContextTypes, Place, TimerGate
<1>6. StacksOK'
  BY <1>1, <1>3, <1>4 DEF ContextInv, StacksOK, FramesNow, Stacks, Calling, KernelGate, KeyboardGate, TimerGate
<1>7. /\ \A q \in Proc \ {cur} : Interrupted(q)' <=> Interrupted(q)
      /\ Interrupted(cur)' <=> regs.eip = KeyboardGate
      /\ ~Interrupted(cur)
  <2>1. \A q \in Proc \ {cur} : Interrupted(q)' <=> Interrupted(q)
    BY <1>3 DEF Interrupted
  <2>2. Interrupted(cur)' <=> regs.eip = KeyboardGate
    BY <1>1, <1>2, <1>4, StacksDiffer DEF Interrupted
  <2>3. ~Interrupted(cur)
    BY <1>2 DEF ContextInv, StacksOK, FramesNow, Calling, Interrupted, KernelGate, KeyboardGate, TimerGate
  <2> QED
    BY <2>1, <2>2, <2>3
<1>8. ServiceOK'
  <2>1. ~InKernel' /\ regs'.eip = TimerGate
    BY <1>3 DEF InKernel, TimerGate
  <2>2. ~InService(KEYBOARD, KeyboardGate)' /\ InService(TIMER, TimerGate)'
    BY <2>1 DEF InService, TimerGate, KeyboardGate
  <2>3. KEYBOARD \in isr' <=> KEYBOARD \in isr
    BY <1>1 DEF TIMER, KEYBOARD
  <2>4. InService(KEYBOARD, KeyboardGate) <=> regs.eip = KeyboardGate
    BY <1>2 DEF InService
  <2>5. TIMER \in isr'
    BY <1>1
  <2> QED
    BY <1>1, <1>2, <1>7, <2>2, <2>3, <2>4, <2>5 DEF ContextInv, ServiceOK
<1>9. DataOK'
  <2>1. /\ ~Stopped(cur)' /\ ~Stopped(cur) /\ ~InKernel' /\ ~InKernel
        /\ InCall(cur)' => InCall(cur)
    BY <1>1, <1>2, <1>3, <1>4, StacksDiffer DEF InCall, Stopped, InKernel, TimerGate, KernelGate, KeyboardGate
  <2>2. \A q \in Proc \ {cur} : /\ InCall(q)' <=> InCall(q)
                                /\ Stopped(q)' /\ Stopped(q)
    BY <1>1, <1>3 DEF InCall, Stopped
  <2> QED
    BY <1>1, <1>3, <2>1, <2>2 DEF ContextInv, DataOK
<1> QED
  BY <1>5, <1>6, <1>8, <1>9 DEF ContextInv

\* The keyboard can interrupt only while no interrupt is in service.
LEMMA KeyboardInv == ContextInv /\ Irq(KEYBOARD) => ContextInv'
<1> SUFFICES ASSUME ContextInv, Irq(KEYBOARD)  PROVE ContextInv'
  OBVIOUS
<1>1. /\ regs.intr /\ isr = {} /\ Gate(KeyboardGate)
      /\ isr' = {KEYBOARD}
      /\ UNCHANGED <<cur, pushed, ret, args, trapNo, rc, imr, left, asked>>
  <2>1. isr \in SUBSET {0, 1} /\ \A j \in isr : 1 < j
    BY DEF Irq, TIMER, KEYBOARD, ContextInv, ContextTypes
  <2>2. isr = {}
    BY <2>1
  <2> QED
    BY <2>2 DEF Irq, EntryOf, KEYBOARD, KeyboardGate
<1>2. /\ regs.eip \in {"user", KernelGate} /\ cur \in Proc
      /\ ~InKernel /\ \A q \in Proc : ~Interrupted(q)
  BY <1>1 DEF ContextInv, ContextTypes, Place, ServiceOK, InService, InKernel
<1>3. /\ regs' = [eax |-> regs.eax, edx |-> regs.edx, eip |-> KeyboardGate, intr |-> TRUE]
      /\ frames' \in [Proc -> Seq(Place)]
      /\ frames'[cur] = <<regs.eip>> \o frames[cur]
      /\ \A q \in Proc \ {cur} : frames'[q] = frames[q]
  BY <1>1, GateFacts DEF ContextInv, ContextTypes
<1>4. \/ regs.eip = "user" /\ frames'[cur] = <<"user">>
      \/ regs.eip = KernelGate /\ frames'[cur] = <<KernelGate, "user">>
  <2>1. FramesNow(frames[cur])
    BY DEF ContextInv, StacksOK
  <2>2. CASE regs.eip = "user"
    <3>1. frames[cur] = <<>>
      BY <2>1, <2>2 DEF FramesNow, KernelGate, KeyboardGate, TimerGate
    <3> QED
      BY <1>3, <2>2, <3>1, Pushes DEF Place
  <2>3. CASE regs.eip = KernelGate
    <3>1. frames[cur] = <<"user">>
      BY <2>1, <2>3 DEF FramesNow, KernelGate, KeyboardGate, TimerGate
    <3> QED
      BY <1>3, <2>3, <3>1, Pushes
  <2> QED
    BY <1>2, <2>2, <2>3
<1>5. ContextTypes'
  BY <1>1, <1>3 DEF ContextInv, ContextTypes, Place, KeyboardGate
<1>6. StacksOK'
  BY <1>1, <1>3, <1>4 DEF ContextInv, StacksOK, FramesNow, Calling, KernelGate, KeyboardGate, TimerGate
<1>7. \A q \in Proc : ~Interrupted(q)'
  BY <1>2, <1>3, <1>4, StacksDiffer DEF Interrupted
<1>8. ServiceOK'
  <2>1. ~InService(TIMER, TimerGate)' /\ InService(KEYBOARD, KeyboardGate)'
    BY <1>3 DEF InService, InKernel, TimerGate, KeyboardGate
  <2> QED
    BY <1>1, <1>7, <2>1 DEF ServiceOK, TIMER, KEYBOARD
<1>9. DataOK'
  <2>1. /\ ~Stopped(cur)' /\ ~Stopped(cur) /\ ~InKernel' /\ ~InKernel
        /\ InCall(cur)' => InCall(cur)
    BY <1>1, <1>2, <1>3, <1>4, StacksDiffer DEF InCall, Stopped, InKernel
  <2>2. \A q \in Proc \ {cur} : /\ InCall(q)' <=> InCall(q)
                                /\ Stopped(q)' /\ Stopped(q)
    BY <1>1, <1>3 DEF InCall, Stopped
  <2> QED
    BY <1>1, <1>3, <2>1, <2>2 DEF ContextInv, DataOK
<1> QED
  BY <1>5, <1>6, <1>8, <1>9 DEF ContextInv

LEMMA EnterInv == ContextInv /\ Enter => ContextInv'
<1> SUFFICES ASSUME ContextInv, Enter  PROVE ContextInv'
  OBVIOUS
<1>1. /\ regs.eip \in {KernelGate, KeyboardGate, TimerGate} /\ cur \in Proc
      /\ UNCHANGED <<cur, frames, isr, imr, left, asked>>
      /\ rc' = regs.eax
      /\ pushed' = [pushed EXCEPT ![cur] = Data]
  BY DEF Enter, InEntry, trapNoOf, KernelGate, KeyboardGate, TimerGate, ContextInv, ContextTypes
<1>2. /\ regs' = [eax |-> regs.eax, edx |-> regs.edx, eip |-> "kernel", intr |-> FALSE]
      /\ regs.eax \in Nat /\ regs.edx \in Nat
  <2>1. /\ regs' = [regs EXCEPT !.eip = "kernel", !.intr = FALSE]
        /\ regs = [eax |-> regs.eax, edx |-> regs.edx, eip |-> regs.eip, intr |-> regs.intr]
        /\ regs.eax \in Nat /\ regs.edx \in Nat
    BY DEF Enter, ContextInv, ContextTypes
  <2> QED
    BY <2>1
<1>3. /\ trapNo' = IF regs.eip = KernelGate THEN 0 ELSE IF regs.eip = TimerGate THEN 1 ELSE 2
      /\ ret' = [ret EXCEPT ![cur] = IF trapNo' = 0 THEN @ ELSE regs.eax]
      /\ args' = [args EXCEPT ![cur] = IF trapNo' = 0 THEN regs.edx ELSE @]
  <2>1. trapNoOf[regs.eip] = IF regs.eip = KernelGate THEN 0 ELSE IF regs.eip = TimerGate THEN 1 ELSE 2
    BY <1>1 DEF trapNoOf, KernelGate, KeyboardGate, TimerGate
  <2> QED
    BY <2>1 DEF Enter, NewRet
<1>4. ContextTypes'
  <2>1. Data \in Data_
    BY <1>2 DEF Data, Data_
  <2>2. /\ pushed' \in [Proc -> Data_]
        /\ ret' \in [Proc -> Nat] /\ args' \in [Proc -> Nat]
        /\ trapNo' \in 0 .. 2
    BY <1>1, <1>2, <1>3, <2>1 DEF ContextInv, ContextTypes
  <2> QED
    BY <1>1, <1>2, <2>2 DEF ContextInv, ContextTypes, Place
<1>5. /\ regs.eip # "kernel" /\ regs'.eip = "kernel"
      /\ ~InKernel /\ InKernel'
  BY <1>1, <1>2, StacksDiffer DEF InKernel
<1>6. StacksOK'
  <2>1. FramesNow(frames[cur])
    BY DEF ContextInv, StacksOK
  <2>2. FramesNow(frames[cur])'
    <3>1. FramesNow(frames[cur])' <=>
              /\ trapNo' = 0 => frames[cur] = <<"user">>
              /\ trapNo' = 2 => frames[cur] \in Calling
              /\ frames[cur] \in Stacks
      BY <1>1, <1>5, StacksDiffer DEF FramesNow
    <3>2. CASE regs.eip = KernelGate
      BY <1>3, <2>1, <3>1, <3>2, StacksDiffer DEF FramesNow, Stacks, Calling
    <3>3. CASE regs.eip = KeyboardGate
      BY <1>3, <2>1, <3>1, <3>3, StacksDiffer DEF FramesNow, Stacks
    <3>4. CASE regs.eip = TimerGate
      BY <1>3, <2>1, <3>1, <3>4, StacksDiffer DEF FramesNow
    <3> QED
      BY <1>1, <3>2, <3>3, <3>4
  <2> QED
    BY <1>1, <2>2 DEF ContextInv, StacksOK
<1>7. ServiceOK'
  <2>1. /\ InService(TIMER, TimerGate)' <=> InService(TIMER, TimerGate)
        /\ InService(KEYBOARD, KeyboardGate)' <=> InService(KEYBOARD, KeyboardGate)
    BY <1>1, <1>3, <1>5, StacksDiffer DEF InService, TIMER, KEYBOARD
  <2>2. \A q \in Proc : Interrupted(q)' <=> Interrupted(q)
    BY <1>1 DEF Interrupted
  <2> QED
    BY <1>1, <2>1, <2>2 DEF ContextInv, ServiceOK
<1>8. DataOK'
  <2>1. \A q \in Proc \ {cur} : /\ InCall(q)' <=> InCall(q)
                                /\ Stopped(q)' /\ Stopped(q)
                                /\ pushed'[q] = pushed[q] /\ ret'[q] = ret[q]
                                /\ args'[q] = args[q]
    BY <1>1, <1>2, <1>3 DEF InCall, Stopped, ContextInv, ContextTypes
  <2>2. /\ Stopped(cur)' /\ ~Stopped(cur) /\ pushed'[cur].edx = regs.edx
        /\ InCall(cur)' => InCall(cur)
    <3>1. pushed'[cur] = Data
      BY <1>1 DEF ContextInv, ContextTypes
    <3> QED
      BY <1>1, <1>5, <3>1, StacksDiffer DEF Stopped, InCall, Data
  <2>3. CASE trapNo' = 0
    <3>1. regs.eip = KernelGate /\ args'[cur] = regs.edx
      BY <1>1, <1>3, <2>3 DEF ContextInv, ContextTypes
    <3>2. InCall(cur)
      BY <3>1 DEF InCall
    <3> QED
      BY <1>1, <1>5, <2>1, <2>2, <2>3, <3>1, <3>2 DEF ContextInv, DataOK
  <2>4. CASE trapNo' # 0
    <3>1. ret'[cur] = regs.eax
      BY <1>1, <1>3, <2>4 DEF ContextInv, ContextTypes
    <3> QED
      BY <1>1, <1>5, <2>1, <2>2, <2>4, <3>1 DEF ContextInv, DataOK
  <2> QED
    BY <2>3, <2>4
<1> QED
  BY <1>4, <1>6, <1>7, <1>8 DEF ContextInv

\* What iret takes off a stack.
LEMMA Pops ==
    /\ Head(<<"user">>) = "user" /\ Tail(<<"user">>) = <<>>
    /\ Head(<<KernelGate, "user">>) = KernelGate /\ Tail(<<KernelGate, "user">>) = <<"user">>
    /\ Head(<<KeyboardGate, "user">>) = KeyboardGate /\ Tail(<<KeyboardGate, "user">>) = <<"user">>
    /\ Head(<<KeyboardGate, KernelGate, "user">>) = KeyboardGate /\ Tail(<<KeyboardGate, KernelGate, "user">>) = <<KernelGate, "user">>
OBVIOUS

\* The kernel leaves by a switch to any process, and has ended the interrupt it served.
LEMMA SwitchInv ==
    ASSUME ContextInv, InKernel, NEW p \in Proc, NEW r \in [Proc -> Nat], Switch(p, r),
           left' \in [Proc -> Data_],
           \A q \in Proc : left'[q].edx = left[q].edx,
           \A q \in Proc \ {Holder} : left'[q].eax = r[q],
           \A q \in Proc \ {Holder} : InCall(q) => left'[q] = left[q],
           isr' = isr \ {trapNo - 1}
    PROVE  ContextInv'
<1>1. /\ cur' = p /\ ret' = r
      /\ regs' = [eax |-> r[p], edx |-> pushed[p].edx, eip |-> Head(frames[p]), intr |-> TRUE]
      /\ frames' = [frames EXCEPT ![p] = Tail(@)]
      /\ pushed' = [pushed EXCEPT ![p] = NoRegs]
      /\ UNCHANGED <<args, trapNo, rc, asked>>
  BY DEF Switch
<1>2. /\ regs.eip = "kernel" /\ trapNo \in 0 .. 2 /\ cur \in Proc
      /\ \A q \in Proc : frames[q] \in Stacks
  <2>1. frames[cur] \in Stacks
    BY DEF InKernel, ContextInv, StacksOK, FramesNow, KernelGate, KeyboardGate, TimerGate
  <2> QED
    BY <2>1 DEF InKernel, ContextInv, ContextTypes, StacksOK
<1>3. \/ frames[p] = <<"user">> /\ regs'.eip = "user" /\ frames'[p] = <<>>
      \/ frames[p] = <<KernelGate, "user">> /\ regs'.eip = KernelGate /\ frames'[p] = <<"user">>
      \/ frames[p] = <<KeyboardGate, "user">> /\ regs'.eip = KeyboardGate /\ frames'[p] = <<"user">>
      \/ frames[p] = <<KeyboardGate, KernelGate, "user">> /\ regs'.eip = KeyboardGate /\ frames'[p] = <<KernelGate, "user">>
  <2>1. regs'.eip = Head(frames[p]) /\ frames'[p] = Tail(frames[p])
    BY <1>1 DEF ContextInv, ContextTypes
  <2>2. frames[p] \in {<<"user">>, <<KernelGate, "user">>, <<KeyboardGate, "user">>, <<KeyboardGate, KernelGate, "user">>}
    BY <1>2 DEF Stacks, Calling
  <2> QED
    BY <2>1, <2>2, Pops
<1>4. /\ \A q \in Proc \ {p} : frames'[q] = frames[q] /\ pushed'[q] = pushed[q]
      /\ pushed[p] \in Data_
      /\ regs'.eax = r[p] /\ regs'.edx = pushed[p].edx /\ regs'.intr = TRUE
  BY <1>1 DEF ContextInv, ContextTypes
<1>5. ContextTypes'
  <2>1. pushed' \in [Proc -> Data_]
    BY <1>1 DEF ContextInv, ContextTypes, NoRegs, Data_
  <2>2. frames' \in [Proc -> Seq(Place)]
    <3>1. frames'[p] \in Seq(Place)
      <4>1. {"user", KernelGate} \subseteq Place
        BY DEF Place
      <4>2. <<>> \in Seq(Place) /\ <<"user">> \in Seq(Place) /\ <<KernelGate, "user">> \in Seq(Place)
        BY <4>1
      <4> QED
        BY <1>3, <4>2
    <3>2. frames' = [frames EXCEPT ![p] = frames'[p]]
      BY <1>1 DEF ContextInv, ContextTypes
    <3> QED
      BY <3>1, <3>2 DEF ContextInv, ContextTypes
  <2>3. /\ regs'.eip \in Place /\ regs'.eip # "kernel"
        /\ regs'.eax \in Nat /\ regs'.edx \in Nat
    BY <1>3, <1>4, StacksDiffer DEF Place, Data_
  <2>4. regs' = [eax |-> regs'.eax, edx |-> regs'.edx, eip |-> regs'.eip, intr |-> regs'.intr]
    BY <1>1
  <2> QED
    BY <1>1, <1>4, <2>1, <2>2, <2>3, <2>4 DEF ContextInv, ContextTypes
<1>6. StacksOK'
  BY <1>1, <1>2, <1>3, <1>4 DEF StacksOK, FramesNow, Calling, KernelGate, KeyboardGate, TimerGate
<1>7. /\ regs'.eip # "kernel" /\ regs'.eip # TimerGate /\ ~InKernel'
      /\ regs'.eip = KeyboardGate <=> Interrupted(p)
      /\ ~Interrupted(p)'
      /\ \A q \in Proc \ {p} : Interrupted(q)' <=> Interrupted(q)
  <2>1. \A q \in Proc \ {p} : Interrupted(q)' <=> Interrupted(q)
    BY <1>4 DEF Interrupted
  <2>2. /\ regs'.eip # "kernel" /\ regs'.eip # TimerGate /\ ~InKernel'
    BY <1>3, StacksDiffer DEF InKernel
  <2>3. regs'.eip = KeyboardGate <=> Interrupted(p)
    BY <1>3, StacksDiffer DEF Interrupted
  <2>4. \A q \in Proc : q = p => ~Interrupted(q)'
    BY <1>3, StacksDiffer DEF Interrupted
  <2> QED
    BY <2>1, <2>2, <2>3, <2>4
<1>8. ServiceOK'
  <2>1. /\ InService(TIMER, TimerGate) <=> trapNo = 1
        /\ InService(KEYBOARD, KeyboardGate) <=> trapNo = 2
    BY <1>2, StacksDiffer DEF InService, InKernel, TIMER, KEYBOARD
  <2>2. /\ ~InService(TIMER, TimerGate)'
        /\ InService(KEYBOARD, KeyboardGate)' <=> regs'.eip = KeyboardGate
    BY <1>7 DEF InService
  <2>3. /\ TIMER \in isr' <=> TIMER \in isr /\ trapNo # 1
        /\ KEYBOARD \in isr' <=> KEYBOARD \in isr /\ trapNo # 2
    BY <1>2 DEF TIMER, KEYBOARD
  <2> QED
    BY <1>7, <2>1, <2>2, <2>3 DEF ContextInv, ServiceOK
<1>9. DataOK'
  <2>1. \A q \in Proc : InCall(q)' => InCall(q)
    <3>1. \A q \in Proc \ {p} : InCall(q)' => InCall(q)
      BY <1>1, <1>4 DEF InCall
    <3>2. \A q \in Proc : q = p /\ InCall(q)' => InCall(q)
      BY <1>1, <1>3, StacksDiffer DEF InCall
    <3> QED
      BY <3>1, <3>2
  <2>2. \A q \in Proc : /\ left[q].edx = pushed[q].edx
                        /\ q # Holder /\ InCall(q) =>
                              asked[q] = <<left[q].eax, left[q].edx>>
    BY DEF ContextInv, DataOK, Stopped
  <2>3. \A q \in Proc : Stopped(q)' <=> q # p
    BY <1>1, <1>7 DEF Stopped
  <2> QED
    BY <1>1, <1>4, <1>7, <2>1, <2>2, <2>3 DEF DataOK
<1> QED
  BY <1>5, <1>6, <1>8, <1>9 DEF ContextInv

\* The most urgent request in service.
LEMMA MostUrgent ==
    ASSUME NEW s \in SUBSET {0, 1}, s # {}
    PROVE  Min(s) = IF 0 \in s THEN 0 ELSE 1
<1>1. s \in {{0}, {1}, {0, 1}}
  OBVIOUS
<1> QED
  BY <1>1 DEF Min

LEMMA EndOfIntr ==
    ASSUME ContextInv, InKernel, trapNo \in {1, 2}
    PROVE  isr # {} /\ Min(isr) = trapNo - 1
<1>1. /\ TIMER \in isr <=> trapNo = 1
      /\ trapNo = 2 => KEYBOARD \in isr
      /\ isr \in SUBSET {0, 1}
  BY StacksDiffer DEF ContextInv, ContextTypes, ServiceOK, InService, InKernel, TIMER, KEYBOARD
<1> QED
  BY <1>1, MostUrgent DEF TIMER, KEYBOARD

\* In the kernel, what a process left is in its ret, but that of the one that called.
LEMMA InKernelFacts ==
    ASSUME ContextInv, InKernel
    PROVE  /\ \A q \in Proc \ {Holder} :
                  (q # cur \/ trapNo # 0) => left[q].eax = ret[q]
           /\ trapNo = 0 => ~InCall(cur)
<1>1. \A q \in Proc \ {Holder} : (q # cur \/ trapNo # 0) => left[q].eax = ret[q]
  BY DEF ContextInv, DataOK, Stopped
<1>2. trapNo = 0 => frames[cur] = <<"user">>
  BY DEF InKernel, ContextInv, StacksOK, FramesNow, KernelGate, KeyboardGate, TimerGate
<1>3. trapNo = 0 => ~InCall(cur)
  BY <1>2, StacksDiffer DEF InCall, InKernel
<1> QED
  BY <1>1, <1>3

LEMMA ServeCallInv == ASSUME NEW p \in Proc  PROVE ContextInv /\ ServeCall(p) => ContextInv'
<1> SUFFICES ASSUME ContextInv, ServeCall(p)  PROVE ContextInv'
  OBVIOUS
<1>1. PICK v \in Value : /\ Switch(p, [ret EXCEPT ![cur] = v])
                         /\ left' = [left EXCEPT ![cur].eax = v]
  BY DEF ServeCall
<1> DEFINE r == [ret EXCEPT ![cur] = v]
<1>2. /\ InKernel /\ trapNo = 0 /\ isr' = isr /\ v \in Nat /\ cur \in Proc
      /\ left \in [Proc -> Data_] /\ ret \in [Proc -> Nat]
      /\ isr' = isr \ {trapNo - 1}
  <2>1. /\ InKernel /\ trapNo = 0 /\ isr' = isr /\ v \in Nat /\ cur \in Proc
        /\ left \in [Proc -> Data_] /\ ret \in [Proc -> Nat]
        /\ isr \in SUBSET {0, 1}
    BY ContextAssumption DEF ServeCall, ContextInv, ContextTypes, TIMER, KEYBOARD
  <2> QED
    BY <2>1
<1>3. /\ r \in [Proc -> Nat] /\ r[cur] = v
      /\ \A q \in Proc \ {cur} : r[q] = ret[q]
  BY <1>2
<1>4. /\ left' \in [Proc -> Data_]
      /\ left'[cur].eax = v /\ left'[cur].edx = left[cur].edx
      /\ \A q \in Proc \ {cur} : left'[q] = left[q]
  <2>1. left' = [left EXCEPT ![cur] = [eax |-> v, edx |-> left[cur].edx]]
    <3>1. left' = [left EXCEPT ![cur] = [left[cur] EXCEPT !.eax = v]]
      BY <1>1
    <3>2. left[cur] = [eax |-> left[cur].eax, edx |-> left[cur].edx]
      BY <1>2 DEF Data_
    <3>3. [left[cur] EXCEPT !.eax = v] = [eax |-> v, edx |-> left[cur].edx]
      BY <3>2
    <3> QED
      BY <3>1, <3>3
  <2>2. [eax |-> v, edx |-> left[cur].edx] \in Data_
    BY <1>2 DEF Data_
  <2> QED
    BY <1>2, <2>1, <2>2
<1>5. Switch(p, r)
  BY <1>1
<1> HIDE DEF r
<1> QED
  BY <1>2, <1>3, <1>4, <1>5, InKernelFacts, SwitchInv

LEMMA ServeTimerInv == ASSUME NEW p \in Proc  PROVE ContextInv /\ ServeTimer(p) => ContextInv'
<1> SUFFICES ASSUME ContextInv, ServeTimer(p)  PROVE ContextInv'
  OBVIOUS
<1>1. /\ InKernel /\ trapNo = 1 /\ Switch(p, ret) /\ left' = left
      /\ isr' = isr \ {Min(isr)}
      /\ left \in [Proc -> Data_] /\ ret \in [Proc -> Nat]
  BY DEF ServeTimer, end_of_intr, ContextInv, ContextTypes
<1>2. isr' = isr \ {trapNo - 1}
  BY <1>1, EndOfIntr
<1> QED
  BY <1>1, <1>2, InKernelFacts, SwitchInv

LEMMA ServeKeyboardInv == ContextInv /\ ServeKeyboard => ContextInv'
<1> SUFFICES ASSUME ContextInv, ServeKeyboard  PROVE ContextInv'
  OBVIOUS
<1>1. PICK v \in Value : Switch(cur, [ret EXCEPT ![Holder] = v])
  BY DEF ServeKeyboard
<1> DEFINE r == [ret EXCEPT ![Holder] = v]
<1>2. /\ InKernel /\ trapNo = 2 /\ left' = left /\ v \in Nat
      /\ isr' = isr \ {Min(isr)} /\ cur \in Proc
      /\ left \in [Proc -> Data_] /\ ret \in [Proc -> Nat]
  BY ContextAssumption DEF ServeKeyboard, end_of_intr, ContextInv, ContextTypes
<1>3. isr' = isr \ {trapNo - 1}
  BY <1>2, EndOfIntr
<1>4. r \in [Proc -> Nat] /\ \A q \in Proc \ {Holder} : r[q] = ret[q]
  BY <1>2
<1>5. Switch(cur, r)
  BY <1>1
<1> HIDE DEF r
<1> QED
  BY <1>2, <1>3, <1>4, <1>5, InKernelFacts, SwitchInv

LEMMA ContextStep == ContextInv /\ [NextContext]_ctxVars => ContextInv'
<1> SUFFICES ASSUME ContextInv, [NextContext]_ctxVars  PROVE ContextInv'
  OBVIOUS
<1>1. CASE Compute
  BY <1>1, ComputeInv
<1>2. CASE Trap
  BY <1>2, TrapInv
<1>3. CASE Irq(TIMER)
  BY <1>3, TimerInv
<1>4. CASE Irq(KEYBOARD)
  BY <1>4, KeyboardInv
<1>5. CASE Enter
  BY <1>5, EnterInv
<1>6. CASE \E p \in Proc : ServeCall(p) \/ ServeTimer(p)
  BY <1>6, ServeCallInv, ServeTimerInv
<1>7. CASE ServeKeyboard
  BY <1>7, ServeKeyboardInv
<1>8. CASE UNCHANGED ctxVars
  <2>1. ContextTypes' /\ StacksOK'
    BY <1>8 DEF ctxVars, ContextInv, ContextTypes, StacksOK, FramesNow
  <2>2. ServiceOK'
    BY <1>8 DEF ctxVars, ContextInv, ServiceOK, InService, InKernel, Interrupted
  <2>3. DataOK'
    BY <1>8 DEF ctxVars, ContextInv, DataOK, Stopped, InCall, InKernel
  <2> QED
    BY <2>1, <2>2, <2>3 DEF ContextInv
<1> QED
  BY <1>1, <1>2, <1>3, <1>4, <1>5, <1>6, <1>7, <1>8 DEF NextContext

-----------------------------------------------------------------------------
\* contextswitch() and the entry points lose nothing: a process that computes has in its
\* registers what it left in them, and in eax the result of its system call.
THEOREM ContextKeepsRegisters == ContextSpec => []RegistersKept
<1>1. ContextInv => RegistersKept
  <2> SUFFICES ASSUME ContextInv, InUser  PROVE \/ Data = left[cur]
                                                \/ /\ cur = Holder
                                                   /\ [Data EXCEPT !.eax = left[cur].eax] = left[cur]
    BY DEF RegistersKept
  <2>1. ~Stopped(cur) /\ cur \in Proc /\ left[cur] \in Data_ /\ ~InKernel
    BY DEF InUser, InKernel, Stopped, ContextInv, ContextTypes
  <2>2. left[cur] = [eax |-> left[cur].eax, edx |-> left[cur].edx]
    BY <2>1 DEF Data_
  <2>3. /\ left[cur].edx = regs.edx
        /\ cur # Holder => left[cur].eax = regs.eax
    BY <2>1 DEF ContextInv, DataOK
  <2> QED
    BY <2>2, <2>3 DEF Data
<1> QED
  BY ContextInit, ContextStep, <1>1, PTL DEF ContextSpec

\* The request and its argument reach the dispatcher as syscall() left them in eax and
\* edx, whatever interrupted the trap before its cli and whoever ran meanwhile.
THEOREM RequestsArrive == ContextSpec => []RequestsReach
<1>1. ContextInv => RequestsReach
  BY DEF ContextInv, ContextTypes, DataOK, RequestsReach, InKernel
<1> QED
  BY ContextInit, ContextStep, <1>1, PTL DEF ContextSpec

\* end_of_intr() ends the interrupt that was served, and one that is left open is that of
\* the keyboard, of which the entry point is still under way somewhere.
THEOREM ServedInterruptIsEnded == ContextSpec => []ServedIsEnded
<1>1. ContextInv => ServedIsEnded
  <2> SUFFICES ASSUME ContextInv  PROVE ServedIsEnded
    OBVIOUS
  <2>1. InKernel /\ trapNo \in {1, 2} => isr # {} /\ Min(isr) = trapNo - 1
    BY EndOfIntr
  <2>2. ASSUME KEYBOARD \in isr
        PROVE  \/ InKernel /\ trapNo = 2
               \/ regs.eip = "_KeyboardEntryPoint"
               \/ \E p \in Proc : \E i \in DOMAIN frames[p] :
                     frames[p][i] = "_KeyboardEntryPoint"
    <3>1. InService(KEYBOARD, KeyboardGate) \/ \E q \in Proc : Interrupted(q)
      BY <2>2 DEF ContextInv, ServiceOK
    <3>2. CASE InService(KEYBOARD, KeyboardGate)
      BY <3>2 DEF InService, KEYBOARD, KeyboardGate
    <3>3. CASE \E q \in Proc : Interrupted(q)
      <4>1. PICK q \in Proc : Interrupted(q)
        BY <3>3
      <4>2. 1 \in DOMAIN frames[q] /\ frames[q][1] = KeyboardGate
        BY <4>1 DEF Interrupted
      <4> QED
        BY <4>2 DEF KeyboardGate
    <3> QED
      BY <3>1, <3>2, <3>3
  <2> QED
    BY <2>1, <2>2 DEF ServedIsEnded
<1> QED
  BY ContextInit, ContextStep, <1>1, PTL DEF ContextSpec

-----------------------------------------------------------------------------
(* Scan codes: module ScanCodes                                             *)

\* The state once a byte has been read, and once all that are in the port have.
Read_(b, byte) == kbtoa(b, byte).bits
ReadAll(b, s) ==
    CASE Len(s) = 0 -> b
      [] Len(s) = 1 -> Read_(b, s[1])
      [] Len(s) = 2 -> Read_(Read_(b, s[1]), s[2])
      [] OTHER      -> Read_(Read_(Read_(b, s[1]), s[2]), s[3])

Bytes_ == [code : Modifier \cup {"a"}, up : BOOLEAN] \cup {EXTESC}

Agrees(b, down) ==
    /\ b \subseteq {BitOf[k] : k \in Modifier}
    /\ \A bit \in {BitOf[k] : k \in Modifier} :
          /\ KeysOf(bit) \subseteq down => bit \in b
          /\ KeysOf(bit) \cap down = {} => bit \notin b

\* The inductive invariant: what is in the port will make the state agree with the keys.
ScanInv ==
    /\ port \in Seq(Bytes_)
    /\ Len(port) <= 3
    /\ Agrees(ReadAll(bits, port), held)

\* The bit of a key that goes down is set, and of one that goes up is cleared, and the
\* state agrees with the keys as before.
LEMMA BitAgrees ==
    ASSUME NEW b, NEW down, Agrees(b, down), NEW k, NEW m \in {BitOf[l] : l \in Modifier},
           k \in KeysOf(m),
           \A bit \in {BitOf[l] : l \in Modifier} : bit # m => k \notin KeysOf(bit)
    PROVE  /\ Agrees(b \cup {m}, down \cup {k})
           /\ Agrees(b \ {m}, down \ {k})
<1> DEFINE M == {BitOf[l] : l \in Modifier}
<1> HIDE DEF M
<1>0. m \in M /\ \A bit \in M : bit # m => k \notin KeysOf(bit)
  BY DEF M
<1>1. /\ b \subseteq M
      /\ \A bit \in M : /\ KeysOf(bit) \subseteq down => bit \in b
                        /\ KeysOf(bit) \cap down = {} => bit \notin b
  BY DEF Agrees, M
<1>2. /\ b \cup {m} \subseteq M
      /\ \A bit \in M :
            /\ KeysOf(bit) \subseteq down \cup {k} => bit \in b \cup {m}
            /\ KeysOf(bit) \cap (down \cup {k}) = {} => bit \notin b \cup {m}
  BY <1>0, <1>1
<1>3. /\ b \ {m} \subseteq M
      /\ \A bit \in M :
            /\ KeysOf(bit) \subseteq down \ {k} => bit \in b \ {m}
            /\ KeysOf(bit) \cap (down \ {k}) = {} => bit \notin b \ {m}
  BY <1>0, <1>1
<1> QED
  BY <1>2, <1>3 DEF Agrees, M

LEMMA KeysOfBits ==
    /\ \A k \in Modifier : k \in KeysOf(BitOf[k])
    /\ "RCTL" \in KeysOf("INCTL") /\ "INCTL" = BitOf["LCTL"]
    /\ \A k \in Modifier, l \in Modifier : BitOf[l] # BitOf[k] => k \notin KeysOf(BitOf[l])
    /\ \A l \in Modifier : BitOf[l] # "INCTL" => "RCTL" \notin KeysOf(BitOf[l])
    /\ \A l \in Modifier : "a" \notin KeysOf(BitOf[l]) /\ BitOf[l] # "EXTENDED"
  BY DEF KeysOf, BitOf, Modifier

\* A key that goes down or up takes a state that agrees with the keys to one that does.
LEMMA KeyAgrees ==
    ASSUME NEW b, NEW down, Agrees(b, down), NEW k \in Modifier \cup {"a"}
    PROVE  /\ Agrees(Read_(b, [code |-> k, up |-> FALSE]), down \cup {k})
           /\ Agrees(Read_(b, [code |-> k, up |-> TRUE]), down \ {k})
<1>1. "EXTENDED" \notin b
  BY KeysOfBits DEF Agrees
<1>2. CASE k = "a"
  <2>1. /\ Read_(b, [code |-> k, up |-> FALSE]) = b
        /\ Read_(b, [code |-> k, up |-> TRUE]) = b
    BY <1>1, <1>2 DEF Read_, kbtoa, KeyUp, KeyDown, Result, Modifier
  <2>2. \A bit \in {BitOf[l] : l \in Modifier} : "a" \notin KeysOf(bit)
    BY KeysOfBits
  <2>3. Agrees(b, down \cup {k}) /\ Agrees(b, down \ {k})
    BY <1>2, <2>2 DEF Agrees
  <2> QED
    BY <2>1, <2>3
<1>3. CASE k \in Modifier
  <2>1. /\ Read_(b, [code |-> k, up |-> FALSE]) = b \cup {BitOf[k]}
        /\ Read_(b, [code |-> k, up |-> TRUE]) = b \ {BitOf[k]}
    BY <1>1, <1>3 DEF Read_, kbtoa, KeyUp, KeyDown, Result
  <2>2. /\ BitOf[k] \in {BitOf[l] : l \in Modifier} /\ k \in KeysOf(BitOf[k])
        /\ \A bit \in {BitOf[l] : l \in Modifier} : bit # BitOf[k] => k \notin KeysOf(bit)
    BY <1>3, KeysOfBits
  <2>3. Agrees(b \cup {BitOf[k]}, down \cup {k}) /\ Agrees(b \ {BitOf[k]}, down \ {k})
    BY <2>2, BitAgrees
  <2> QED
    BY <2>1, <2>3
<1> QED
  BY <1>2, <1>3

\* So do the two bytes of the control key to the right, which act as that to the left.
LEMMA ExtendedAgrees ==
    ASSUME NEW b, NEW down, Agrees(b, down)
    PROVE  /\ Agrees(Read_(Read_(b, EXTESC), [code |-> "LCTL", up |-> FALSE]),
                     down \cup {"RCTL"})
           /\ Agrees(Read_(Read_(b, EXTESC), [code |-> "LCTL", up |-> TRUE]),
                     down \ {"RCTL"})
<1>1. "EXTENDED" \notin b
  BY KeysOfBits DEF Agrees
<1>2. Read_(b, EXTESC) = b
  BY <1>1 DEF Read_, kbtoa, KeyUp, Result, EXTESC, Modifier
<1>3. /\ Read_(b, [code |-> "LCTL", up |-> FALSE]) = b \cup {"INCTL"}
      /\ Read_(b, [code |-> "LCTL", up |-> TRUE]) = b \ {"INCTL"}
  BY <1>1 DEF Read_, kbtoa, KeyUp, KeyDown, Result, Modifier, BitOf
<1>4. /\ "INCTL" \in {BitOf[l] : l \in Modifier} /\ "RCTL" \in KeysOf("INCTL")
      /\ \A bit \in {BitOf[l] : l \in Modifier} : bit # "INCTL" => "RCTL" \notin KeysOf(bit)
  BY KeysOfBits DEF Modifier
<1>5. Agrees(b \cup {"INCTL"}, down \cup {"RCTL"}) /\ Agrees(b \ {"INCTL"}, down \ {"RCTL"})
  BY <1>4, BitAgrees
<1> QED
  BY <1>2, <1>3, <1>5

\* Bytes behind at most one in the port.
LEMMA Behind ==
    ASSUME NEW S, NEW s \in Seq(S), Len(s) <= 1, NEW u \in Seq(S)
    PROVE  /\ s \o u \in Seq(S) /\ Len(s \o u) = Len(s) + Len(u)
           /\ \A n \in 1 .. Len(u) : (s \o u)[Len(s) + n] = u[n]
           /\ Len(s) = 1 => (s \o u)[1] = s[1]
           /\ Len(s) = 0 \/ Len(s) = 1
<1> DEFINE m == Len(s)
           n == Len(u)
<1>1. m \in Nat /\ n \in Nat /\ m <= 1
  BY LenProperties
<1>3. /\ s \o u \in Seq(S) /\ Len(s \o u) = m + n
      /\ \A i \in 1 .. m + n : (s \o u)[i] = IF i <= m THEN s[i] ELSE u[i - m]
  BY ConcatProperties
<1> HIDE DEF m, n
<1>2. m = 0 \/ m = 1
  BY <1>1
<1>4. \A i \in 1 .. n : (s \o u)[m + i] = u[i]
  <2> TAKE i \in 1 .. n
  <2>1. m + i \in 1 .. m + n /\ ~(m + i <= m) /\ (m + i) - m = i
    BY <1>1
  <2> QED  BY <2>1, <1>3
<1>5. m = 1 => (s \o u)[1] = s[1]
  <2>1. m = 1 => 1 \in 1 .. m + n
    BY <1>1
  <2> QED  BY <2>1, <1>3
<1> QED
  BY <1>2, <1>3, <1>4, <1>5 DEF m, n

\* What a key sends is read after what is in the port.
LEMMA SentAgrees ==
    ASSUME NEW b, NEW down, NEW s \in Seq(Bytes_),
           Len(s) <= 1, Agrees(ReadAll(b, s), down), NEW k \in Key, NEW up \in BOOLEAN
    PROVE  /\ s \o Sent(k, up) \in Seq(Bytes_)
           /\ Len(s \o Sent(k, up)) <= 3
           /\ Agrees(ReadAll(b, s \o Sent(k, up)), IF up THEN down \ {k} ELSE down \cup {k})
<1> DEFINE u == Sent(k, up)
           t == s \o u
           Byte == Bytes_
<1>1. CASE k = "RCTL"
  <2> DEFINE last == [code |-> "LCTL", up |-> up]
  <2>1. u \in Seq(Byte) /\ Len(u) = 2 /\ u[1] = EXTESC /\ u[2] = last
    <3>1. EXTESC \in Byte /\ last \in Byte /\ u = <<EXTESC, last>>
      BY <1>1 DEF Sent, Bytes_, Modifier
    <3> HIDE DEF Byte, u, last
    <3> QED
      BY <3>1
  <2> HIDE DEF u, Byte
  <2>2. /\ t \in Seq(Byte) /\ Len(t) = Len(s) + 2
        /\ t[Len(s) + 1] = EXTESC /\ t[Len(s) + 2] = last
        /\ Len(s) = 1 => t[1] = s[1]
        /\ Len(s) = 0 \/ Len(s) = 1
    <3>1. s \in Seq(Byte) /\ Len(s) <= 1
      BY DEF Byte
    <3>2. /\ t \in Seq(Byte) /\ Len(t) = Len(s) + Len(u)
          /\ \A n \in 1 .. Len(u) : t[Len(s) + n] = u[n]
          /\ Len(s) = 1 => t[1] = s[1]
          /\ Len(s) = 0 \/ Len(s) = 1
      BY <2>1, <3>1, Behind
    <3> QED
      BY <2>1, <3>2
  <2>3. ReadAll(b, t) = Read_(Read_(ReadAll(b, s), EXTESC), last)
    <3> HIDE DEF t, last
    <3>1. CASE Len(s) = 0
      <4>1. Len(t) = 2 /\ t[1] = EXTESC /\ t[2] = last
        BY <3>1, <2>2
      <4> QED  BY <3>1, <4>1 DEF ReadAll
    <3>2. CASE Len(s) = 1
      <4>1. Len(t) = 3 /\ t[1] = s[1] /\ t[2] = EXTESC /\ t[3] = last
        BY <3>2, <2>2
      <4> QED  BY <3>2, <4>1 DEF ReadAll
    <3> QED  BY <2>2, <3>1, <3>2
  <2>4. Agrees(ReadAll(b, t), IF up THEN down \ {k} ELSE down \cup {k})
    <3>1. up = TRUE \/ up = FALSE
      OBVIOUS
    <3> QED
      BY <1>1, <2>3, <3>1, ExtendedAgrees
  <2> QED
    BY <2>2, <2>4 DEF u, Byte
<1>2. CASE k # "RCTL"
  <2> DEFINE byte == [code |-> k, up |-> up]
  <2>1. /\ k \in Modifier \cup {"a"}
        /\ u \in Seq(Byte) /\ Len(u) = 1 /\ u[1] = byte
    BY <1>2 DEF Sent, Key, Bytes_
  <2> HIDE DEF u, Byte
  <2>2. /\ t \in Seq(Byte) /\ Len(t) = Len(s) + 1 /\ t[Len(s) + 1] = byte
        /\ Len(s) = 1 => t[1] = s[1]
        /\ Len(s) = 0 \/ Len(s) = 1
    <3>1. s \in Seq(Byte) /\ Len(s) <= 1
      BY DEF Byte
    <3>2. /\ t \in Seq(Byte) /\ Len(t) = Len(s) + Len(u)
          /\ \A n \in 1 .. Len(u) : t[Len(s) + n] = u[n]
          /\ Len(s) = 1 => t[1] = s[1]
          /\ Len(s) = 0 \/ Len(s) = 1
      BY <2>1, <3>1, Behind
    <3> QED
      BY <2>1, <3>2
  <2>3. ReadAll(b, t) = Read_(ReadAll(b, s), byte)
    <3> HIDE DEF t, byte
    <3>1. CASE Len(s) = 0
      <4>1. Len(t) = 1 /\ t[1] = byte
        BY <3>1, <2>2
      <4> QED  BY <3>1, <4>1 DEF ReadAll
    <3>2. CASE Len(s) = 1
      <4>1. Len(t) = 2 /\ t[1] = s[1] /\ t[2] = byte
        BY <3>2, <2>2
      <4> QED  BY <3>2, <4>1 DEF ReadAll
    <3> QED  BY <2>2, <3>1, <3>2
  <2>4. up = TRUE \/ up = FALSE
    OBVIOUS
  <2>5. Agrees(Read_(ReadAll(b, s), byte), IF up THEN down \ {k} ELSE down \cup {k})
    BY <2>1, <2>4, KeyAgrees
  <2> QED
    BY <2>2, <2>3, <2>5 DEF u, Byte
<1> QED
  BY <1>1, <1>2

\* A byte that is read has been counted on.
LEMMA HeadRead ==
    ASSUME NEW b, NEW s \in Seq(Bytes_),
           s # <<>>, Len(s) <= 3
    PROVE  ReadAll(Read_(b, Head(s)), Tail(s)) = ReadAll(b, s)
<1> DEFINE Byte == Bytes_
<1> HIDE DEF Byte
<1>0. s \in Seq(Byte)
  BY DEF Byte
<1>1. /\ Head(s) = s[1] /\ Len(Tail(s)) = Len(s) - 1
      /\ \A n \in 1 .. Len(s) - 1 : Tail(s)[n] = s[n + 1]
  BY <1>0, HeadTailProperties
<1>5. Len(s) = 1 \/ Len(s) = 2 \/ Len(s) = 3
  <2> DEFINE n == Len(s)
  <2>1. n \in Nat /\ n <= 3 /\ n # 0
    BY <1>0, EmptySeq, LenProperties
  <2> HIDE DEF n
  <2>2. n = 1 \/ n = 2 \/ n = 3
    BY <2>1
  <2> QED
    BY <2>2 DEF n
<1> DEFINE c == Read_(b, Head(s))
           t == Tail(s)
<1>6. /\ c = Read_(b, s[1]) /\ Len(t) = Len(s) - 1
      /\ \A n \in 1 .. Len(s) - 1 : t[n] = s[n + 1]
  BY <1>1
<1> HIDE DEF c, t
<1>2. CASE Len(s) = 1
  <2>1. Len(t) = 0
    BY <1>6, <1>2
  <2>2. ReadAll(c, t) = c /\ ReadAll(b, s) = Read_(b, s[1])
    BY <1>2, <2>1 DEF ReadAll
  <2> QED  BY <1>6, <2>2 DEF c, t
<1>3. CASE Len(s) = 2
  <2>1. Len(t) = 1 /\ t[1] = s[2]
    BY <1>6, <1>3
  <2>2. ReadAll(c, t) = Read_(c, t[1]) /\ ReadAll(b, s) = Read_(Read_(b, s[1]), s[2])
    BY <1>3, <2>1 DEF ReadAll
  <2> QED  BY <1>6, <2>1, <2>2 DEF c, t
<1>4. CASE Len(s) = 3
  <2>1. Len(t) = 2 /\ t[1] = s[2] /\ t[2] = s[3]
    BY <1>6, <1>4
  <2>2. /\ ReadAll(c, t) = Read_(Read_(c, t[1]), t[2])
        /\ ReadAll(b, s) = Read_(Read_(Read_(b, s[1]), s[2]), s[3])
    BY <1>4, <2>1 DEF ReadAll
  <2> QED  BY <1>6, <2>1, <2>2 DEF c, t
<1> QED
  BY <1>5, <1>2, <1>3, <1>4

\* Whatever keys are held together and let go in which order, once the bytes they sent
\* have been read the state has each bit whose keys are all down, and none whose keys are
\* all up; shift and control each have two keys (c/kbd.c:318-338).
THEOREM ModifiersFollowKeys == InitScan /\ [][NextScan]_scanVars => []ModifiersAreHeld
<1> DEFINE Byte == Bytes_
<1>1. InitScan => ScanInv
  BY KeysOfBits DEF InitScan, ScanInv, ReadAll, Agrees
<1>2. ScanInv /\ [NextScan]_scanVars => ScanInv'
  <2> SUFFICES ASSUME ScanInv, [NextScan]_scanVars  PROVE ScanInv'
    OBVIOUS
  <2>1. ASSUME NEW k \in Key, Press(k)  PROVE ScanInv'
    BY <2>1, SentAgrees, FALSE \in BOOLEAN DEF Press, ScanInv
  <2>2. ASSUME NEW k \in Key, Release(k)  PROVE ScanInv'
    BY <2>2, SentAgrees, TRUE \in BOOLEAN DEF Release, ScanInv
  <2>3. CASE ReadPort
    <3>1. bits' = Read_(bits, Head(port)) /\ port' = Tail(port) /\ held' = held
      BY <2>3 DEF ReadPort, Read_
    <3>2. port \in Seq(Byte) /\ port # <<>> /\ Len(port) <= 3
      BY <2>3 DEF ReadPort, ScanInv
    <3>3. ReadAll(bits', port') = ReadAll(bits, port)
      BY <3>1, <3>2, HeadRead
    <3>4. Tail(port) \in Seq(Byte) /\ Len(Tail(port)) <= 3
      <4> HIDE DEF Byte
      <4> QED  BY <3>2, HeadTailProperties, LenProperties
    <3> QED
      BY <3>1, <3>3, <3>4 DEF ScanInv
  <2>4. CASE UNCHANGED scanVars
    BY <2>4 DEF scanVars, ScanInv
  <2> QED
    BY <2>1, <2>2, <2>3, <2>4 DEF NextScan
<1>3. ScanInv => ModifiersAreHeld
  BY DEF ScanInv, ModifiersAreHeld, ReadAll, Agrees
<1> QED
  BY <1>1, <1>2, <1>3, PTL

-----------------------------------------------------------------------------
(* qsort(): module Sort                                                     *)

Part == [a : Int, l : Int]
Reg == [a : Int, l : Int, i : Int, j : Int, lp : Int, hp : Int]

\* An array of n elements and the parts of it that remain to be sorted.
Shape(n) ==
    /\ input \in [0 .. n - 1 -> Keys] /\ array \in [0 .. n - 1 -> Keys]
    /\ at \in {"start", "for", "loop", "done"}
    /\ reg \in Reg /\ 0 <= reg.a /\ reg.a <= reg.l /\ reg.l <= n
    /\ stack \in Seq(Part)
    /\ \A k \in DOMAIN stack :
           0 <= stack[k].a /\ stack[k].a <= stack[k].l /\ stack[k].l <= n
    /\ at = "done" => stack = <<>>

\* The parts that calls of qs1() have still to sort do not overlap.
Disjoint ==
    /\ \A k \in DOMAIN stack : stack[k].l <= reg.a \/ reg.l <= stack[k].a
    /\ \A k, m \in DOMAIN stack :
           k # m => stack[k].l <= stack[m].a \/ stack[m].l <= stack[k].a

\* Elements at x and y are both in the part that is being sorted, or in one that will be.
Together(x, y) ==
    \/ at # "done" /\ {x, y} \subseteq reg.a .. reg.l - 1
    \/ \E k \in DOMAIN stack : {x, y} \subseteq stack[k].a .. stack[k].l - 1

\* Elements that are not together any more are in order.
InOrder(n) ==
    \A x, y \in 0 .. n - 1 : x < y => array[x] <= array[y] \/ Together(x, y)

SameKeys == \A x \in Keys : Occurrences(array, x) = Occurrences(input, x)

\* The first loop was left for an element above the pivot, if it was left below lp.
Above == at = "loop" /\ reg.i # reg.lp => array[reg.i] >= array[reg.lp]

SortInv(n) == Shape(n) /\ Partitioned /\ Above /\ Disjoint /\ InOrder(n) /\ SameKeys

\* The inductive invariant: of some length, which no step changes.
SortIInv == \E n \in 0 .. MaxSize : SortInv(n)

\* The array new has the elements of array, in another order between a and l - 1.
Rearranges(n, new, a, l) ==
    \E pi \in [0 .. n - 1 -> 0 .. n - 1] :
        /\ \A x, y \in 0 .. n - 1 : pi[x] = pi[y] => x = y
        /\ \A y \in 0 .. n - 1 : \E x \in 0 .. n - 1 : pi[x] = y
        /\ \A x \in 0 .. n - 1 : new[x] = array[pi[x]]
        /\ \A x \in 0 .. n - 1 : IF x \in a .. l - 1 THEN pi[x] \in a .. l - 1
                                 ELSE pi[x] = x

-----------------------------------------------------------------------------
(* The exchanges                                                            *)

LEMMA qsexcRearranges ==
    ASSUME NEW n \in Nat, array \in [0 .. n - 1 -> Keys],
           NEW a \in Int, NEW l \in Int, 0 <= a, l <= n,
           NEW i \in a .. l - 1, NEW j \in a .. l - 1
    PROVE  /\ qsexc(i, j) \in [0 .. n - 1 -> Keys]
           /\ Rearranges(n, qsexc(i, j), a, l)
<1> DEFINE pi == [x \in 0 .. n - 1 |-> IF x = j THEN i ELSE IF x = i THEN j ELSE x]
<1>1. i \in 0 .. n - 1 /\ j \in 0 .. n - 1
  OBVIOUS
<1>2. qsexc(i, j) \in [0 .. n - 1 -> Keys]
  BY <1>1 DEF qsexc
<1>3. pi \in [0 .. n - 1 -> 0 .. n - 1]
  BY <1>1
<1>4. \A x, y \in 0 .. n - 1 : pi[x] = pi[y] => x = y
  BY <1>1
<1>5. ASSUME NEW y \in 0 .. n - 1  PROVE \E x \in 0 .. n - 1 : pi[x] = y
  <2>1. CASE y = i
    BY <2>1, <1>1
  <2>2. CASE y = j
    BY <2>2, <1>1
  <2>3. CASE y \notin {i, j}
    BY <2>3, <1>1
  <2> QED
    BY <2>1, <2>2, <2>3
<1>6. \A x \in 0 .. n - 1 : qsexc(i, j)[x] = array[pi[x]]
  BY <1>1 DEF qsexc
<1>7. \A x \in 0 .. n - 1 : IF x \in a .. l - 1 THEN pi[x] \in a .. l - 1
                            ELSE pi[x] = x
  OBVIOUS
<1> HIDE DEF pi
<1> QED
  BY <1>2, <1>3, <1>4, <1>5, <1>6, <1>7 DEF Rearranges

\* The second and the third place may be the same one.
LEMMA qstexcRearranges ==
    ASSUME NEW n \in Nat, array \in [0 .. n - 1 -> Keys],
           NEW a \in Int, NEW l \in Int, 0 <= a, l <= n,
           NEW i \in a .. l - 1, NEW j \in a .. l - 1, NEW k \in a .. l - 1,
           i # j, i # k
    PROVE  /\ qstexc(i, j, k) \in [0 .. n - 1 -> Keys]
           /\ Rearranges(n, qstexc(i, j, k), a, l)
<1> DEFINE pi == [x \in 0 .. n - 1 |->
                     IF x = j THEN i ELSE IF x = k THEN j ELSE IF x = i THEN k ELSE x]
<1>1. i \in 0 .. n - 1 /\ j \in 0 .. n - 1 /\ k \in 0 .. n - 1
  OBVIOUS
<1>2. qstexc(i, j, k) \in [0 .. n - 1 -> Keys]
  BY <1>1 DEF qstexc
<1>3. pi \in [0 .. n - 1 -> 0 .. n - 1]
  BY <1>1
<1>4. \A x, y \in 0 .. n - 1 : pi[x] = pi[y] => x = y
  BY <1>1
<1>5. ASSUME NEW y \in 0 .. n - 1  PROVE \E x \in 0 .. n - 1 : pi[x] = y
  <2>1. CASE y = i
    BY <2>1, <1>1
  <2>2. CASE y = k
    BY <2>2, <1>1
  <2>3. CASE y = j /\ j # k
    BY <2>3, <1>1
  <2>4. CASE y \notin {i, j, k}
    BY <2>4, <1>1
  <2> QED
    BY <2>1, <2>2, <2>3, <2>4
<1>6. \A x \in 0 .. n - 1 : qstexc(i, j, k)[x] = array[pi[x]]
  BY <1>1 DEF qstexc
<1>7. \A x \in 0 .. n - 1 : IF x \in a .. l - 1 THEN pi[x] \in a .. l - 1
                            ELSE pi[x] = x
  OBVIOUS
<1> HIDE DEF pi
<1> QED
  BY <1>2, <1>3, <1>4, <1>5, <1>6, <1>7 DEF Rearranges

\* No key is lost or duplicated.
LEMMA RearrangedKeys ==
    ASSUME NEW n \in Nat, array \in [0 .. n - 1 -> Keys], NEW a, NEW l,
           NEW new \in [0 .. n - 1 -> Keys], Rearranges(n, new, a, l), NEW v
    PROVE  Occurrences(new, v) = Occurrences(array, v)
<1> DEFINE S == {x \in 0 .. n - 1 : new[x] = v}
           T == {x \in 0 .. n - 1 : array[x] = v}
<1>1. PICK pi \in [0 .. n - 1 -> 0 .. n - 1] :
        /\ \A x, y \in 0 .. n - 1 : pi[x] = pi[y] => x = y
        /\ \A y \in 0 .. n - 1 : \E x \in 0 .. n - 1 : pi[x] = y
        /\ \A x \in 0 .. n - 1 : new[x] = array[pi[x]]
  BY DEF Rearranges
<1> DEFINE F == [x \in S |-> pi[x]]
<1>2. F \in Bijection(S, T)
  <2>1. F \in [S -> T]
    BY <1>1
  <2>2. \A x, y \in S : F[x] = F[y] => x = y
    BY <1>1
  <2>3. \A y \in T : \E x \in S : F[x] = y
    BY <1>1
  <2> HIDE DEF F, S, T
  <2> QED
    BY <2>1, <2>2, <2>3, Fun_IsBij
<1>3. IsFiniteSet(S)
  <2>1. S \subseteq 0 .. n - 1 /\ IsFiniteSet(0 .. n - 1)
    BY FS_Interval
  <2> HIDE DEF S
  <2> QED
    BY <2>1, FS_Subset
<1>4. Cardinality(T) = Cardinality(S)
  <2> HIDE DEF F, S, T
  <2> QED
    BY <1>2, <1>3, FS_Bijection DEF ExistsBijection
<1> QED
  BY <1>4 DEF Occurrences

\* Exchanges within the part that is being sorted.
LEMMA RearrangedInv ==
    ASSUME NEW n \in Nat, SortInv(n), at \in {"for", "loop"}, at' \in {"for", "loop"},
           array' \in [0 .. n - 1 -> Keys], Rearranges(n, array', reg.a, reg.l),
           reg' \in Reg, reg'.a = reg.a, reg'.l = reg.l, UNCHANGED <<input, stack>>,
           Partitioned', Above'
    PROVE  SortInv(n)'
<1>1. Shape(n)' /\ Disjoint'
  BY DEF SortInv, Shape, Disjoint
<1>2. SameKeys'
  BY RearrangedKeys DEF SortInv, Shape, SameKeys
<1>3. ASSUME NEW x \in 0 .. n - 1, NEW y \in 0 .. n - 1, x < y, ~Together(x, y)
      PROVE  array'[x] <= array'[y]
  <2>1. PICK pi \in [0 .. n - 1 -> 0 .. n - 1] :
          /\ \A z \in 0 .. n - 1 : array'[z] = array[pi[z]]
          /\ \A z \in 0 .. n - 1 : IF z \in reg.a .. reg.l - 1
                                   THEN pi[z] \in reg.a .. reg.l - 1 ELSE pi[z] = z
    BY DEF Rearranges
  <2>2. reg.a \in Int /\ reg.l \in Int /\ ~({x, y} \subseteq reg.a .. reg.l - 1)
    BY <1>3 DEF SortInv, Shape, Reg, Together
  <2>3. pi[x] < pi[y]
    <3>1. x \in Int /\ y \in Int /\ pi[x] \in Int /\ pi[y] \in Int
      OBVIOUS
    <3>2. x \in reg.a .. reg.l - 1 => y >= reg.l /\ pi[y] = y /\ pi[x] < reg.l
      <4> SUFFICES ASSUME x \in reg.a .. reg.l - 1
                   PROVE  y >= reg.l /\ pi[y] = y /\ pi[x] < reg.l
        OBVIOUS
      <4>1. y >= reg.l /\ y \notin reg.a .. reg.l - 1
        BY SMTT(30), <1>3, <2>2, <3>1
      <4>2. pi[x] \in reg.a .. reg.l - 1
        BY <2>1
      <4>3. pi[y] = y
        BY <2>1, <4>1
      <4>4. pi[x] < reg.l
        BY <2>2, <4>2
      <4> QED
        BY <4>1, <4>3, <4>4
    <3>3. y \in reg.a .. reg.l - 1 => x < reg.a /\ pi[x] = x /\ pi[y] >= reg.a
      BY SMTT(30), <1>3, <2>1, <2>2, <3>1
    <3> QED
      BY <1>3, <2>1, <2>2, <3>1, <3>2, <3>3
  <2>4. ~Together(pi[x], pi[y])
    <3>1. ~({pi[x], pi[y]} \subseteq reg.a .. reg.l - 1)
      BY SMTT(30), <2>1, <2>2
    <3>2. ASSUME NEW k \in DOMAIN stack,
                 {pi[x], pi[y]} \subseteq stack[k].a .. stack[k].l - 1
          PROVE  {x, y} \subseteq stack[k].a .. stack[k].l - 1
      <4>1. stack[k].l <= reg.a \/ reg.l <= stack[k].a
        BY DEF SortInv, Disjoint
      <4>2. stack[k] \in Part
        BY DEF SortInv, Shape
      <4>3. \A z \in 0 .. n - 1 : pi[z] \in stack[k].a .. stack[k].l - 1 => pi[z] = z
        <5> SUFFICES ASSUME NEW z \in 0 .. n - 1, pi[z] \in stack[k].a .. stack[k].l - 1
                     PROVE  z \notin reg.a .. reg.l - 1
          BY <2>1
        <5>1. pi[z] \notin reg.a .. reg.l - 1
          <6> DEFINE w == pi[z]
                     b == stack[k].a
                     e == stack[k].l
          <6>1. w \in b .. e - 1 /\ (e <= reg.a \/ reg.l <= b)
            BY <4>1
          <6>3. b \in Int /\ e \in Int
            BY <4>2 DEF Part
          <6> HIDE DEF w, b, e
          <6>2. w \notin reg.a .. reg.l - 1
            BY <2>2, <6>1, <6>3
          <6> QED
            BY <6>2 DEF w
        <5> QED
          BY <2>1, <5>1
      <4> QED
        BY <3>2, <4>3
    <3> QED
      BY <1>3, <3>1, <3>2 DEF Together
  <2>5. array[pi[x]] <= array[pi[y]]
    BY <2>3, <2>4 DEF SortInv, InOrder
  <2> QED
    BY <2>1, <2>5
<1>4. InOrder(n)'
  <2>1. ASSUME NEW x, NEW y  PROVE Together(x, y)' <=> Together(x, y)
    BY DEF Together
  <2> QED
    BY <1>3, <2>1 DEF InOrder
<1> QED
  BY <1>1, <1>2, <1>4 DEF SortInv

-----------------------------------------------------------------------------
(* The steps                                                                *)

LEMMA StartInv ==
    ASSUME NEW n \in Nat, SortInv(n), Start  PROVE SortInv(n)'
<1>1. UNCHANGED <<input, array>> /\ SameKeys'
  BY DEF Start, SortInv, SameKeys
<1>2. /\ reg \in Reg /\ 0 <= reg.a /\ reg.a <= reg.l /\ reg.l <= n
      /\ array \in [0 .. n - 1 -> Keys] /\ input \in [0 .. n - 1 -> Keys]
      /\ stack \in Seq(Part) /\ at = "start"
      /\ \A k \in DOMAIN stack :
             0 <= stack[k].a /\ stack[k].a <= stack[k].l /\ stack[k].l <= n
  BY DEF SortInv, Shape, Start
<1>3. CASE reg.l - reg.a <= 1 /\ stack = <<>> /\ at' = "done" /\ UNCHANGED <<reg, stack>>
  <2>1. Shape(n)' /\ Disjoint' /\ Partitioned' /\ Above'
    BY <1>1, <1>2, <1>3 DEF Shape, Disjoint, Partitioned, Above
  <2>2. \A x, y : x < y /\ x \in Int /\ y \in Int => ~Together(x, y)
    BY <1>2, <1>3 DEF Together, Reg
  <2>3. InOrder(n)'
    BY <1>1, <2>2 DEF SortInv, InOrder
  <2> QED
    BY <1>1, <2>1, <2>3 DEF SortInv
<1>4. CASE /\ reg.l - reg.a <= 1 /\ stack # <<>>
           /\ reg' = [reg EXCEPT !.a = Head(stack).a, !.l = Head(stack).l]
           /\ stack' = Tail(stack) /\ UNCHANGED at
  <2>1. /\ Len(stack) \in Nat \ {0} /\ 1 \in DOMAIN stack
        /\ Head(stack) = stack[1] /\ stack[1] \in Part
        /\ \A k \in DOMAIN stack : stack[k] \in Part
    BY <1>2, <1>4
  <2>2. /\ stack' \in Seq(Part) /\ DOMAIN stack' = 1 .. Len(stack) - 1
        /\ \A k \in 1 .. Len(stack) - 1 : stack'[k] = stack[k + 1]
    BY <1>2, <1>4, <2>1
  <2>3. reg' \in Reg /\ reg'.a = stack[1].a /\ reg'.l = stack[1].l
    BY <1>2, <1>4, <2>1 DEF Reg, Part
  <2>4. Shape(n)'
    BY <1>1, <1>2, <1>4, <2>1, <2>2, <2>3 DEF Shape
  <2>5. Disjoint'
    <3>1. \A k, m \in DOMAIN stack :
             k # m => stack[k].l <= stack[m].a \/ stack[m].l <= stack[k].a
      BY DEF SortInv, Disjoint
    <3>2. \A k \in DOMAIN stack' : k + 1 \in DOMAIN stack /\ k + 1 # 1
      BY <2>1, <2>2
    <3>3. \A k \in DOMAIN stack' : stack'[k].l <= reg'.a \/ reg'.l <= stack'[k].a
      BY <2>1, <2>2, <2>3, <3>1, <3>2
    <3>4. \A k, m \in DOMAIN stack' :
             k # m => stack'[k].l <= stack'[m].a \/ stack'[m].l <= stack'[k].a
      BY <2>1, <2>2, <3>1, <3>2
    <3> QED
      BY <3>3, <3>4 DEF Disjoint
  <2>6. Partitioned' /\ Above'
    BY <1>2, <1>4 DEF Partitioned, Above
  <2>7. ASSUME NEW x \in 0 .. n - 1, NEW y \in 0 .. n - 1, x < y, Together(x, y)
        PROVE  Together(x, y)'
    <3>1. PICK k \in DOMAIN stack : {x, y} \subseteq stack[k].a .. stack[k].l - 1
      BY <1>2, <1>4, <2>7 DEF Together, Reg
    <3>2. CASE k = 1
      BY <1>2, <1>4, <2>3, <3>1, <3>2 DEF Together
    <3>3. CASE k # 1
      <4>1. k - 1 \in DOMAIN stack' /\ stack'[k - 1] = stack[k]
        BY <2>1, <2>2, <3>3
      <4> QED
        BY <3>1, <4>1 DEF Together
    <3> QED
      BY <3>2, <3>3
  <2>8. InOrder(n)'
    BY <1>1, <2>7 DEF SortInv, InOrder
  <2> QED
    BY <1>1, <2>4, <2>5, <2>6, <2>8 DEF SortInv
<1>5. ASSUME NEW m, m = reg.a + (reg.l - reg.a) \div 2, reg.l - reg.a > 1,
             reg' = [reg EXCEPT !.lp = m, !.hp = m, !.i = reg.a, !.j = reg.l - 1],
             at' = "for", UNCHANGED stack
      PROVE  SortInv(n)'
  <2>1. m \in Int /\ reg.a <= m /\ m < reg.l
    BY <1>2, <1>5 DEF Reg
  <2>2. /\ reg' \in Reg /\ reg'.a = reg.a /\ reg'.l = reg.l
        /\ reg'.lp = m /\ reg'.hp = m /\ reg'.i = reg.a /\ reg'.j = reg.l - 1
    <3>1. reg' = [a |-> reg.a, l |-> reg.l, i |-> reg.a, j |-> reg.l - 1, lp |-> m, hp |-> m]
      BY <1>2, <1>5 DEF Reg
    <3> QED
      BY <1>2, <2>1, <3>1 DEF Reg
  <2>3. Shape(n)' /\ Disjoint'
    BY <1>1, <1>2, <1>5, <2>2 DEF SortInv, Shape, Disjoint
  <2>4. Partitioned'
    <3>1. reg.a .. reg.a - 1 = {} /\ m .. m = {m} /\ reg.l .. reg.l - 1 = {}
      BY SMTT(30), <1>2, <2>1 DEF Reg
    <3>2. (reg.l - 1) + 1 = reg.l /\ m <= reg.l - 1 /\ reg.l - 1 < reg.l
      BY <1>2, <2>1 DEF Reg
    <3>3. array' = array /\ m \in Int
      BY <1>1, <2>1
    <3>4. reg'.a <= reg'.i /\ reg'.i <= reg'.lp /\ reg'.lp <= reg'.hp
      BY <1>2, <2>1, <2>2, <3>3 DEF Reg
    <3>5. reg'.hp <= reg'.j /\ reg'.j < reg'.l
      BY <1>2, <2>1, <2>2, <3>3 DEF Reg
    <3>6. \A x \in reg'.a .. reg'.i - 1 : array'[x] <= array'[reg'.lp]
      BY <2>2, <3>1
    <3>7. \A x \in reg'.lp .. reg'.hp : array'[x] = array'[reg'.lp]
      BY <2>2, <3>1
    <3>8. \A x \in reg'.j + 1 .. reg'.l - 1 : array'[x] >= array'[reg'.lp]
      BY <2>2, <3>1, <3>2
    <3> QED
      BY <3>4, <3>5, <3>6, <3>7, <3>8 DEF Partitioned
  <2>7. Above'
    BY <1>5 DEF Above
  <2>5. \A x, y : Together(x, y)' <=> Together(x, y)
    BY <1>2, <1>5, <2>2 DEF Together
  <2>6. InOrder(n)'
    BY <1>1, <2>5 DEF SortInv, InOrder
  <2> QED
    BY <1>1, <2>3, <2>4, <2>6, <2>7 DEF SortInv
<1> QED
  BY <1>3, <1>4, <1>5 DEF Start

\* Property Partitioned of an array f and the variables of a call of qs1().
Parted(f, a, l, i, j, lp, hp) ==
    /\ a <= i /\ i <= lp /\ lp <= hp /\ hp <= j /\ j < l
    /\ \A x \in a .. i - 1 : f[x] <= f[lp]
    /\ \A x \in lp .. hp : f[x] = f[lp]
    /\ \A x \in j + 1 .. l - 1 : f[x] >= f[lp]

\* Where elements are compared, reg holds integers, and Partitioned what it says.
LEMMA PartedNow ==
    ASSUME NEW n \in Nat, SortInv(n), at \in {"for", "loop"}
    PROVE  /\ reg.a \in Int /\ reg.l \in Int /\ reg.i \in Int
           /\ reg.j \in Int /\ reg.lp \in Int /\ reg.hp \in Int
           /\ reg = [a |-> reg.a, l |-> reg.l, i |-> reg.i, j |-> reg.j,
                     lp |-> reg.lp, hp |-> reg.hp]
           /\ 0 <= reg.a /\ reg.l <= n
           /\ array \in [0 .. n - 1 -> Keys] /\ array \in [0 .. n - 1 -> Int]
           /\ Parted(array, reg.a, reg.l, reg.i, reg.j, reg.lp, reg.hp)
           /\ reg.i <= reg.lp /\ reg.lp <= reg.hp /\ reg.hp <= reg.j
<1>1. reg \in Reg /\ array \in [0 .. n - 1 -> Keys] /\ 0 <= reg.a /\ reg.l <= n
  BY DEF SortInv, Shape
<1>2. reg = [a |-> reg.a, l |-> reg.l, i |-> reg.i, j |-> reg.j,
             lp |-> reg.lp, hp |-> reg.hp]
  BY <1>1 DEF Reg
<1>3. /\ reg.a \in Int /\ reg.l \in Int /\ reg.i \in Int
      /\ reg.j \in Int /\ reg.lp \in Int /\ reg.hp \in Int
  BY <1>1 DEF Reg
<1>4. array \in [0 .. n - 1 -> Int]
  BY <1>1, SortAssumption
<1>5. /\ Parted(array, reg.a, reg.l, reg.i, reg.j, reg.lp, reg.hp)
      /\ reg.i <= reg.lp /\ reg.lp <= reg.hp /\ reg.hp <= reg.j
  BY DEF SortInv, Partitioned, Parted
<1> QED
  BY <1>1, <1>2, <1>3, <1>4, <1>5

\* An element that equals the pivot joins the middle part at its lower end,
LEMMA GrowDown ==
    ASSUME NEW n \in Nat, NEW f \in [0 .. n - 1 -> Int],
           NEW a \in Int, NEW l \in Int, NEW i \in Int, NEW j \in Int,
           NEW lp \in Int, NEW hp \in Int, 0 <= a, l <= n,
           Parted(f, a, l, i, j, lp, hp), i < lp, f[i] = f[lp],
           NEW g, g = [f EXCEPT ![i] = f[lp - 1], ![lp - 1] = f[i]]
    PROVE  Parted(g, a, l, i, j, lp - 1, hp)
<1>1. /\ a <= i /\ i <= lp - 1 /\ lp <= hp /\ hp <= j /\ j < l
      /\ \A x \in a .. i - 1 : f[x] <= f[lp]
      /\ \A x \in lp .. hp : f[x] = f[lp]
      /\ \A x \in j + 1 .. l - 1 : f[x] >= f[lp]
  BY DEF Parted
<1>2. \A x \in 0 .. n - 1 : g[x] = IF x = lp - 1 THEN f[lp]
                                   ELSE IF x = i THEN f[lp - 1] ELSE f[x]
  BY <1>1
<1>3. \A x \in 0 .. n - 1 : x # lp - 1 /\ x # i => g[x] = f[x]
  BY <1>2
<1>4. g[lp - 1] = f[lp]
  BY <1>1, <1>2
<1>5. \A x \in a .. i - 1 : g[x] <= g[lp - 1]
  BY <1>1, <1>3, <1>4
<1>6. \A x \in lp - 1 .. hp : g[x] = g[lp - 1]
  BY <1>1, <1>3, <1>4
<1>7. \A x \in j + 1 .. l - 1 : g[x] >= g[lp - 1]
  BY <1>1, <1>3, <1>4
<1> QED
  BY <1>1, <1>5, <1>6, <1>7 DEF Parted

\* or at its upper end.
LEMMA GrowUp ==
    ASSUME NEW n \in Nat, NEW f \in [0 .. n - 1 -> Int],
           NEW a \in Int, NEW l \in Int, NEW i \in Int, NEW j \in Int,
           NEW lp \in Int, NEW hp \in Int, 0 <= a, l <= n,
           Parted(f, a, l, i, j, lp, hp), hp < j, f[hp] = f[j],
           NEW g, g = [f EXCEPT ![hp + 1] = f[j], ![j] = f[hp + 1]]
    PROVE  Parted(g, a, l, i, j, lp, hp + 1)
<1>1. /\ a <= i /\ i <= lp /\ lp <= hp /\ hp + 1 <= j /\ j < l
      /\ \A x \in a .. i - 1 : f[x] <= f[lp]
      /\ \A x \in lp .. hp : f[x] = f[lp]
      /\ \A x \in j + 1 .. l - 1 : f[x] >= f[lp]
  BY DEF Parted
<1>2. f[j] = f[lp]
  BY <1>1
<1>3. \A x \in 0 .. n - 1 : x # hp + 1 /\ x # j => g[x] = f[x]
  BY <1>1
<1>4. g[hp + 1] = f[lp] /\ g[lp] = f[lp]
  <2>1. g[lp] = f[lp]
    BY <1>1, <1>3
  <2>2. CASE j = hp + 1
    BY <1>1, <1>2, <2>2
  <2>3. CASE j # hp + 1
    BY <1>1, <1>2, <2>3
  <2> QED
    BY <2>1, <2>2, <2>3
<1>5. \A x \in a .. i - 1 : g[x] <= g[lp]
  BY <1>1, <1>3, <1>4
<1>6. \A x \in lp .. hp + 1 : g[x] = g[lp]
  <2>1. \A x \in lp .. hp : g[x] = g[lp]
    BY <1>1, <1>3, <1>4
  <2>2. \A x \in lp .. hp + 1 : x \in lp .. hp \/ x = hp + 1
    OBVIOUS
  <2> QED
    BY <1>4, <2>1, <2>2
<1>7. \A x \in j + 1 .. l - 1 : g[x] >= g[lp]
  BY <1>1, <1>3, <1>4
<1>8. lp <= hp + 1 /\ hp + 1 \in Int
  BY <1>1
<1> QED
  BY <1>1, <1>5, <1>6, <1>7, <1>8 DEF Parted

\* The middle part moves up to let an element below the pivot go in front of it,
LEMMA MoveUp ==
    ASSUME NEW n \in Nat, NEW f \in [0 .. n - 1 -> Int],
           NEW a \in Int, NEW l \in Int, NEW j \in Int,
           NEW lp \in Int, NEW hp \in Int, 0 <= a, l <= n,
           Parted(f, a, l, lp, j, lp, hp), hp < j, f[hp] > f[j],
           NEW g, g = [f EXCEPT ![lp] = f[j], ![j] = f[hp + 1], ![hp + 1] = f[lp]]
    PROVE  Parted(g, a, l, lp + 1, j, lp + 1, hp + 1)
<1>1. /\ a <= lp /\ lp <= hp /\ hp + 1 <= j /\ j < l
      /\ \A x \in a .. lp - 1 : f[x] <= f[lp]
      /\ \A x \in lp .. hp : f[x] = f[lp]
      /\ \A x \in j + 1 .. l - 1 : f[x] >= f[lp]
  BY DEF Parted
<1>2. f[j] <= f[lp]
  BY <1>1
<1>3. \A x \in 0 .. n - 1 : x # lp /\ x # hp + 1 /\ x # j => g[x] = f[x]
  BY <1>1
<1>4. g[hp + 1] = f[lp] /\ g[lp] = f[j] /\ g[lp + 1] = f[lp]
  BY <1>1, <1>3
<1>5. \A x \in a .. (lp + 1) - 1 : g[x] <= g[lp + 1]
  BY <1>1, <1>2, <1>3, <1>4
<1>6. \A x \in lp + 1 .. hp + 1 : g[x] = g[lp + 1]
  BY <1>1, <1>3, <1>4
<1>7. \A x \in j + 1 .. l - 1 : g[x] >= g[lp + 1]
  BY <1>1, <1>3, <1>4
<1> QED
  BY <1>1, <1>5, <1>6, <1>7 DEF Parted

\* or down to let one above it go behind it.
LEMMA MoveDown ==
    ASSUME NEW n \in Nat, NEW f \in [0 .. n - 1 -> Int],
           NEW a \in Int, NEW l \in Int, NEW i \in Int,
           NEW lp \in Int, NEW hp \in Int, 0 <= a, l <= n,
           Parted(f, a, l, i, hp, lp, hp), i < lp, f[i] >= f[lp],
           NEW g, g = [f EXCEPT ![hp] = f[i], ![i] = f[lp - 1], ![lp - 1] = f[hp]]
    PROVE  Parted(g, a, l, i, hp - 1, lp - 1, hp - 1)
<1>1. /\ a <= i /\ i <= lp - 1 /\ lp <= hp /\ hp < l
      /\ \A x \in a .. i - 1 : f[x] <= f[lp]
      /\ \A x \in lp .. hp : f[x] = f[lp]
      /\ \A x \in hp + 1 .. l - 1 : f[x] >= f[lp]
  BY DEF Parted
<1>3. \A x \in 0 .. n - 1 : x # lp - 1 /\ x # hp /\ x # i => g[x] = f[x]
  BY <1>1
<1>4. g[lp - 1] = f[lp] /\ g[hp] = f[i]
  BY <1>1
<1>5. \A x \in a .. i - 1 : g[x] <= g[lp - 1]
  BY <1>1, <1>3, <1>4
<1>6. \A x \in lp - 1 .. hp - 1 : g[x] = g[lp - 1]
  BY <1>1, <1>3, <1>4
<1>7. \A x \in (hp - 1) + 1 .. l - 1 : g[x] >= g[lp - 1]
  <2>1. \A x \in hp + 1 .. l - 1 : g[x] >= g[lp - 1]
    BY <1>1, <1>3, <1>4
  <2>2. g[hp] >= g[lp - 1]
    BY <1>4
  <2>3. \A x \in (hp - 1) + 1 .. l - 1 : x = hp \/ x \in hp + 1 .. l - 1
    OBVIOUS
  <2> QED
    BY <2>1, <2>2, <2>3
<1> QED
  BY <1>1, <1>5, <1>6, <1>7 DEF Parted

\* An element above the pivot and one below it change places.
LEMMA Swap ==
    ASSUME NEW n \in Nat, NEW f \in [0 .. n - 1 -> Int],
           NEW a \in Int, NEW l \in Int, NEW i \in Int, NEW j \in Int,
           NEW lp \in Int, NEW hp \in Int, 0 <= a, l <= n,
           Parted(f, a, l, i, j, lp, hp), i < lp, hp < j, f[i] >= f[lp], f[j] <= f[hp],
           NEW g, g = [f EXCEPT ![i] = f[j], ![j] = f[i]]
    PROVE  Parted(g, a, l, i + 1, j - 1, lp, hp)
<1>1. /\ a <= i /\ i + 1 <= lp /\ lp <= hp /\ hp <= j - 1 /\ j < l
      /\ \A x \in a .. i - 1 : f[x] <= f[lp]
      /\ \A x \in lp .. hp : f[x] = f[lp]
      /\ \A x \in j + 1 .. l - 1 : f[x] >= f[lp]
  BY DEF Parted
<1>2. f[j] <= f[lp] /\ f[i] >= f[lp]
  BY <1>1
<1>3. \A x \in 0 .. n - 1 : x # i /\ x # j => g[x] = f[x]
  BY <1>1
<1>4. g[i] = f[j] /\ g[j] = f[i] /\ g[lp] = f[lp]
  BY <1>1, <1>3
<1>5. \A x \in a .. (i + 1) - 1 : g[x] <= g[lp]
  BY <1>1, <1>2, <1>3, <1>4
<1>6. \A x \in lp .. hp : g[x] = g[lp]
  BY <1>1, <1>3, <1>4
<1>7. \A x \in (j - 1) + 1 .. l - 1 : g[x] >= g[lp]
  BY <1>1, <1>2, <1>3, <1>4
<1> QED
  BY <1>1, <1>5, <1>6, <1>7 DEF Parted

\* The variables of a call after a step in it.
LEMMA NewReg ==
    ASSUME NEW a \in Int, NEW l \in Int, NEW i \in Int, NEW j \in Int,
           NEW lp \in Int, NEW hp \in Int,
           reg' = [a |-> a, l |-> l, i |-> i, j |-> j, lp |-> lp, hp |-> hp],
           Parted(array', a, l, i, j, lp, hp),
           i # lp => at' = "for" \/ array'[i] >= array'[lp]
    PROVE  reg' \in Reg /\ reg'.a = a /\ reg'.l = l /\ Partitioned' /\ Above'
<1>1. /\ reg' \in Reg /\ reg'.a = a /\ reg'.l = l /\ reg'.i = i
      /\ reg'.j = j /\ reg'.lp = lp /\ reg'.hp = hp
  BY DEF Reg
<1>2. Partitioned'
  BY <1>1 DEF Partitioned, Parted
<1>3. Above'
  BY <1>1 DEF Above
<1> QED
  BY <1>1, <1>2, <1>3

\* A step that only moves i or j, or changes from one loop to the other.
LEMMA MoveInv ==
    ASSUME NEW n \in Nat, SortInv(n), at \in {"for", "loop"}, at' \in {"for", "loop"},
           reg' \in Reg, reg'.a = reg.a, reg'.l = reg.l, UNCHANGED <<input, array, stack>>,
           Partitioned', Above'
    PROVE  SortInv(n)'
<1>1. Shape(n)' /\ Disjoint' /\ SameKeys'
  BY DEF SortInv, Shape, Disjoint, SameKeys
<1>2. \A x, y : Together(x, y)' <=> Together(x, y)
  BY DEF Together
<1>3. InOrder(n)'
  BY <1>2 DEF SortInv, InOrder
<1> QED
  BY <1>1, <1>3 DEF SortInv

LEMMA ForInv ==
    ASSUME NEW n \in Nat, SortInv(n), For  PROVE SortInv(n)'
<1>1. at = "for" /\ UNCHANGED <<input, stack>>
  BY DEF For
<1>2. /\ reg.a \in Int /\ reg.l \in Int /\ reg.i \in Int
      /\ reg.j \in Int /\ reg.lp \in Int /\ reg.hp \in Int
      /\ reg = [a |-> reg.a, l |-> reg.l, i |-> reg.i, j |-> reg.j,
                lp |-> reg.lp, hp |-> reg.hp]
      /\ 0 <= reg.a /\ reg.l <= n
      /\ array \in [0 .. n - 1 -> Keys] /\ array \in [0 .. n - 1 -> Int]
      /\ Parted(array, reg.a, reg.l, reg.i, reg.j, reg.lp, reg.hp)
      /\ reg.i <= reg.lp /\ reg.lp <= reg.hp /\ reg.hp <= reg.j
  BY <1>1, PartedNow
<1>3. /\ reg.a <= reg.i /\ reg.i <= reg.lp /\ reg.lp <= reg.hp
      /\ reg.hp <= reg.j /\ reg.j < reg.l
      /\ reg.i \in 0 .. n - 1 /\ reg.lp \in 0 .. n - 1
      /\ array[reg.i] \in Int /\ array[reg.lp] \in Int
  BY <1>2 DEF Parted
<1>4. CASE /\ reg.i < reg.lp /\ qscmp(reg.i, reg.lp) = 0
           /\ array' = qsexc(reg.i, reg.lp - 1)
           /\ reg' = [reg EXCEPT !.lp = @ - 1] /\ UNCHANGED at
  <2>1. reg' = [a |-> reg.a, l |-> reg.l, i |-> reg.i, j |-> reg.j,
                lp |-> reg.lp - 1, hp |-> reg.hp]
    BY <1>2, <1>4
  <2>2. array[reg.i] = array[reg.lp]
    BY <1>3, <1>4 DEF qscmp
  <2>3. Parted(array', reg.a, reg.l, reg.i, reg.j, reg.lp - 1, reg.hp)
    BY <1>2, <1>4, <2>2, GrowDown DEF qsexc
  <2>4. /\ reg' \in Reg /\ reg'.a = reg.a /\ reg'.l = reg.l /\ Partitioned' /\ Above'
    BY <1>1, <1>2, <1>4, <2>1, <2>3, NewReg
  <2>5. reg.i \in reg.a .. reg.l - 1 /\ reg.lp - 1 \in reg.a .. reg.l - 1
    BY <1>2, <1>3, <1>4
  <2>6. array' \in [0 .. n - 1 -> Keys] /\ Rearranges(n, array', reg.a, reg.l)
    BY <1>2, <1>4, <2>5, qsexcRearranges
  <2> QED
    BY <1>1, <1>4, <2>4, <2>6, RearrangedInv
<1>5. CASE /\ reg.i < reg.lp /\ qscmp(reg.i, reg.lp) < 0
           /\ reg' = [reg EXCEPT !.i = @ + 1] /\ UNCHANGED <<array, at>>
  <2>1. reg' = [a |-> reg.a, l |-> reg.l, i |-> reg.i + 1, j |-> reg.j,
                lp |-> reg.lp, hp |-> reg.hp]
    BY <1>2, <1>5
  <2>2. array[reg.i] <= array[reg.lp]
    BY <1>3, <1>5 DEF qscmp
  <2>3. Parted(array, reg.a, reg.l, reg.i + 1, reg.j, reg.lp, reg.hp)
    <3>1. \A x \in reg.a .. (reg.i + 1) - 1 : x = reg.i \/ x \in reg.a .. reg.i - 1
      BY <1>2
    <3> QED
      BY <1>2, <1>3, <1>5, <2>2, <3>1 DEF Parted
  <2>4. /\ reg' \in Reg /\ reg'.a = reg.a /\ reg'.l = reg.l /\ Partitioned' /\ Above'
    BY SMTT(30), <1>1, <1>2, <1>5, <2>1, <2>3, NewReg
  <2> QED
    BY <1>1, <1>5, <2>4, MoveInv
<1>6. CASE /\ reg.i >= reg.lp \/ qscmp(reg.i, reg.lp) > 0
           /\ at' = "loop" /\ UNCHANGED <<array, reg>>
  <2>1. reg.i # reg.lp => array[reg.i] >= array[reg.lp]
    BY <1>2, <1>3, <1>6 DEF qscmp
  <2>2. /\ reg' \in Reg /\ reg'.a = reg.a /\ reg'.l = reg.l /\ Partitioned' /\ Above'
    BY <1>2, <1>6, <2>1, NewReg
  <2> QED
    BY <1>1, <1>6, <2>2, MoveInv
<1> QED
  BY <1>4, <1>5, <1>6 DEF For

LEMMA LoopInv ==
    ASSUME NEW n \in Nat, SortInv(n), Loop  PROVE SortInv(n)'
<1>1. at = "loop" /\ reg.j > reg.hp /\ UNCHANGED <<input, stack>>
  BY DEF Loop
<1>2. /\ reg.a \in Int /\ reg.l \in Int /\ reg.i \in Int
      /\ reg.j \in Int /\ reg.lp \in Int /\ reg.hp \in Int
      /\ reg = [a |-> reg.a, l |-> reg.l, i |-> reg.i, j |-> reg.j,
                lp |-> reg.lp, hp |-> reg.hp]
      /\ 0 <= reg.a /\ reg.l <= n
      /\ array \in [0 .. n - 1 -> Keys] /\ array \in [0 .. n - 1 -> Int]
      /\ Parted(array, reg.a, reg.l, reg.i, reg.j, reg.lp, reg.hp)
      /\ reg.i <= reg.lp /\ reg.lp <= reg.hp /\ reg.hp <= reg.j
  BY <1>1, PartedNow
<1>3. /\ reg.a <= reg.i /\ reg.hp < reg.j /\ reg.j < reg.l
      /\ reg.i \in 0 .. n - 1 /\ reg.lp \in 0 .. n - 1
      /\ reg.hp \in 0 .. n - 1 /\ reg.j \in 0 .. n - 1
      /\ array[reg.i] \in Int /\ array[reg.lp] \in Int
      /\ array[reg.hp] \in Int /\ array[reg.j] \in Int
      /\ array[reg.hp] = array[reg.lp]
      /\ reg.i # reg.lp => array[reg.i] >= array[reg.lp]
  BY SMTT(30), <1>1, <1>2 DEF Parted, SortInv, Above
<1>4. CASE /\ qscmp(reg.hp, reg.j) = 0
           /\ array' = qsexc(reg.hp + 1, reg.j)
           /\ reg' = extended(reg) /\ UNCHANGED at
  <2>1. reg' = [a |-> reg.a, l |-> reg.l, i |-> reg.i, j |-> reg.j,
                lp |-> reg.lp, hp |-> reg.hp + 1]
    BY <1>2, <1>4 DEF extended
  <2>2. array[reg.hp] = array[reg.j]
    BY <1>3, <1>4 DEF qscmp
  <2>3. Parted(array', reg.a, reg.l, reg.i, reg.j, reg.lp, reg.hp + 1)
    BY <1>2, <1>3, <1>4, <2>2, GrowUp DEF qsexc
  <2>4. reg.i # reg.lp => array'[reg.i] >= array'[reg.lp]
    BY SMTT(30), <1>2, <1>3, <1>4 DEF qsexc
  <2>5. /\ reg' \in Reg /\ reg'.a = reg.a /\ reg'.l = reg.l /\ Partitioned' /\ Above'
    BY <1>2, <2>1, <2>3, <2>4, NewReg
  <2>6. reg.hp + 1 \in reg.a .. reg.l - 1 /\ reg.j \in reg.a .. reg.l - 1
    BY <1>2, <1>3
  <2>7. array' \in [0 .. n - 1 -> Keys] /\ Rearranges(n, array', reg.a, reg.l)
    BY <1>2, <1>4, <2>6, qsexcRearranges
  <2> QED
    BY <1>1, <1>4, <2>5, <2>7, RearrangedInv
<1>5. CASE /\ qscmp(reg.hp, reg.j) > 0 /\ reg.i = reg.lp
           /\ array' = qstexc(reg.i, reg.hp + 1, reg.j)
           /\ reg' = [extended(reg) EXCEPT !.lp = @ + 1, !.i = reg.lp + 1]
           /\ UNCHANGED at
  <2>1. reg' = [a |-> reg.a, l |-> reg.l, i |-> reg.lp + 1, j |-> reg.j,
                lp |-> reg.lp + 1, hp |-> reg.hp + 1]
    <3>1. extended(reg) = [a |-> reg.a, l |-> reg.l, i |-> reg.i, j |-> reg.j,
                           lp |-> reg.lp, hp |-> reg.hp + 1]
      BY <1>2 DEF extended
    <3>2. reg' = [extended(reg) EXCEPT !.lp = reg.lp + 1, !.i = reg.lp + 1]
      BY <1>5, <3>1
    <3>3. reg' = [[a |-> reg.a, l |-> reg.l, i |-> reg.i, j |-> reg.j, lp |-> reg.lp,
                   hp |-> reg.hp + 1] EXCEPT !.lp = reg.lp + 1, !.i = reg.lp + 1]
      BY <3>1, <3>2, Zenon
    <3> QED
      BY <3>3
  <2>2. array[reg.hp] > array[reg.j]
    BY <1>3, <1>5 DEF qscmp
  <2>3. Parted(array', reg.a, reg.l, reg.lp + 1, reg.j, reg.lp + 1, reg.hp + 1)
    <3>1. array' = [array EXCEPT ![reg.lp] = array[reg.j], ![reg.j] = array[reg.hp + 1],
                                 ![reg.hp + 1] = array[reg.lp]]
      BY <1>5 DEF qstexc
    <3> QED
      BY <1>2, <1>3, <1>5, <2>2, <3>1, MoveUp
  <2>4. /\ reg' \in Reg /\ reg'.a = reg.a /\ reg'.l = reg.l /\ Partitioned' /\ Above'
    BY <1>2, <2>1, <2>3, NewReg
  <2>5. /\ reg.i \in reg.a .. reg.l - 1 /\ reg.hp + 1 \in reg.a .. reg.l - 1
        /\ reg.j \in reg.a .. reg.l - 1 /\ reg.i # reg.hp + 1 /\ reg.i # reg.j
    BY <1>2, <1>3
  <2>6. array' \in [0 .. n - 1 -> Keys] /\ Rearranges(n, array', reg.a, reg.l)
    BY <1>2, <1>5, <2>5, qstexcRearranges
  <2> QED
    BY <1>1, <1>5, <2>4, <2>6, RearrangedInv
<1>6. CASE /\ qscmp(reg.hp, reg.j) > 0 /\ reg.i # reg.lp
           /\ array' = qsexc(reg.i, reg.j)
           /\ reg' = [reg EXCEPT !.j = @ - 1, !.i = @ + 1] /\ at' = "for"
  <2>1. reg' = [a |-> reg.a, l |-> reg.l, i |-> reg.i + 1, j |-> reg.j - 1,
                lp |-> reg.lp, hp |-> reg.hp]
    BY <1>2, <1>6
  <2>2. reg.i < reg.lp /\ array[reg.j] <= array[reg.hp]
    BY <1>2, <1>3, <1>6 DEF qscmp
  <2>3. Parted(array', reg.a, reg.l, reg.i + 1, reg.j - 1, reg.lp, reg.hp)
    BY <1>2, <1>3, <1>6, <2>2, Swap DEF qsexc
  <2>4. /\ reg' \in Reg /\ reg'.a = reg.a /\ reg'.l = reg.l /\ Partitioned' /\ Above'
    <3>1. reg.i + 1 \in Int /\ reg.j - 1 \in Int /\ at' = "for"
      BY <1>2, <1>6
    <3> QED
      BY <1>2, <2>1, <2>3, <3>1, NewReg
  <2>5. reg.i \in reg.a .. reg.l - 1 /\ reg.j \in reg.a .. reg.l - 1
    BY <1>2, <1>3
  <2>6. array' \in [0 .. n - 1 -> Keys] /\ Rearranges(n, array', reg.a, reg.l)
    BY <1>2, <1>6, <2>5, qsexcRearranges
  <2> QED
    BY <1>1, <1>6, <2>4, <2>6, RearrangedInv
<1>7. CASE /\ qscmp(reg.hp, reg.j) < 0
           /\ reg' = [reg EXCEPT !.j = @ - 1] /\ UNCHANGED <<array, at>>
  <2>1. reg' = [a |-> reg.a, l |-> reg.l, i |-> reg.i, j |-> reg.j - 1,
                lp |-> reg.lp, hp |-> reg.hp]
    BY <1>2, <1>7
  <2>2. array[reg.j] >= array[reg.lp]
    BY <1>3, <1>7 DEF qscmp
  <2>3. Parted(array, reg.a, reg.l, reg.i, reg.j - 1, reg.lp, reg.hp)
    <3>1. \A x \in (reg.j - 1) + 1 .. reg.l - 1 : x = reg.j \/ x \in reg.j + 1 .. reg.l - 1
      BY <1>2
    <3> QED
      BY <1>2, <1>3, <2>2, <3>1 DEF Parted
  <2>4. /\ reg' \in Reg /\ reg'.a = reg.a /\ reg'.l = reg.l /\ Partitioned' /\ Above'
    <3>1. /\ reg.j - 1 \in Int /\ array' = array
          /\ reg.i # reg.lp => array[reg.i] >= array[reg.lp]
      BY <1>2, <1>3, <1>7
    <3> QED
      BY <1>2, <2>1, <2>3, <3>1, NewReg
  <2> QED
    BY <1>1, <1>7, <2>4, MoveInv
<1> QED
  BY <1>4, <1>5, <1>6, <1>7 DEF Loop

LEMMA ShiftInv ==
    ASSUME NEW n \in Nat, SortInv(n), Shift  PROVE SortInv(n)'
<1>1. /\ at = "loop" /\ at' = "for" /\ UNCHANGED <<input, stack>>
      /\ reg.j <= reg.hp /\ reg.i # reg.lp
  BY DEF Shift
<1>2. /\ reg.a \in Int /\ reg.l \in Int /\ reg.i \in Int
      /\ reg.j \in Int /\ reg.lp \in Int /\ reg.hp \in Int
      /\ reg = [a |-> reg.a, l |-> reg.l, i |-> reg.i, j |-> reg.j,
                lp |-> reg.lp, hp |-> reg.hp]
      /\ 0 <= reg.a /\ reg.l <= n
      /\ array \in [0 .. n - 1 -> Keys] /\ array \in [0 .. n - 1 -> Int]
      /\ Parted(array, reg.a, reg.l, reg.i, reg.j, reg.lp, reg.hp)
      /\ reg.i <= reg.lp /\ reg.lp <= reg.hp /\ reg.hp <= reg.j
  BY <1>1, PartedNow
<1>3. /\ reg.a <= reg.i /\ reg.hp = reg.j /\ reg.j < reg.l /\ reg.i < reg.lp
      /\ array[reg.i] >= array[reg.lp]
  BY <1>1, <1>2 DEF Parted, SortInv, Above
<1>4. reg' = [a |-> reg.a, l |-> reg.l, i |-> reg.i, j |-> reg.hp - 1,
              lp |-> reg.lp - 1, hp |-> reg.hp - 1]
  BY <1>2 DEF Shift
<1>5. Parted(array', reg.a, reg.l, reg.i, reg.hp - 1, reg.lp - 1, reg.hp - 1)
  <2>1. array' = [array EXCEPT ![reg.hp] = array[reg.i], ![reg.i] = array[reg.lp - 1],
                               ![reg.lp - 1] = array[reg.hp]]
    BY <1>3 DEF Shift, qstexc
  <2> QED
    BY <1>2, <1>3, <2>1, MoveDown
<1>6. /\ reg' \in Reg /\ reg'.a = reg.a /\ reg'.l = reg.l /\ Partitioned' /\ Above'
  BY <1>1, <1>2, <1>4, <1>5, NewReg
<1>7. /\ reg.j \in reg.a .. reg.l - 1 /\ reg.lp - 1 \in reg.a .. reg.l - 1
      /\ reg.i \in reg.a .. reg.l - 1 /\ reg.j # reg.lp - 1 /\ reg.j # reg.i
  BY <1>2, <1>3
<1>8. array' \in [0 .. n - 1 -> Keys] /\ Rearranges(n, array', reg.a, reg.l)
  BY <1>2, <1>7, qstexcRearranges DEF Shift
<1> QED
  BY <1>1, <1>6, <1>8, RearrangedInv

LEMMA SplitInv ==
    ASSUME NEW n \in Nat, SortInv(n), Split  PROVE SortInv(n)'
<1>1. /\ at = "loop" /\ at' = "start" /\ UNCHANGED <<input, array>>
      /\ reg.j <= reg.hp /\ reg.i = reg.lp
  BY DEF Split
<1>2. /\ reg.a \in Int /\ reg.l \in Int /\ reg.i \in Int
      /\ reg.j \in Int /\ reg.lp \in Int /\ reg.hp \in Int
      /\ reg = [a |-> reg.a, l |-> reg.l, i |-> reg.i, j |-> reg.j,
                lp |-> reg.lp, hp |-> reg.hp]
      /\ 0 <= reg.a /\ reg.l <= n
      /\ array \in [0 .. n - 1 -> Keys] /\ array \in [0 .. n - 1 -> Int]
      /\ Parted(array, reg.a, reg.l, reg.i, reg.j, reg.lp, reg.hp)
      /\ reg.i <= reg.lp /\ reg.lp <= reg.hp /\ reg.hp <= reg.j
  BY <1>1, PartedNow
<1>3. /\ reg.hp = reg.j /\ reg.a <= reg.lp /\ reg.hp < reg.l
      /\ reg \in Reg /\ stack \in Seq(Part)
      /\ \A k \in DOMAIN stack :
             0 <= stack[k].a /\ stack[k].a <= stack[k].l /\ stack[k].l <= n
      /\ \A x \in reg.a .. reg.lp - 1 : array[x] <= array[reg.lp]
      /\ \A x \in reg.lp .. reg.hp : array[x] = array[reg.lp]
      /\ \A x \in reg.hp + 1 .. reg.l - 1 : array[x] >= array[reg.lp]
  BY <1>1, <1>2 DEF Parted, SortInv, Shape
<1> DEFINE below == [a |-> reg.a, l |-> reg.lp]
           above == [a |-> reg.hp + 1, l |-> reg.l]
<1>4. below \in Part /\ above \in Part
  BY <1>2 DEF Part
<1>5. PICK first \in {below, above}, second \in {below, above} :
        /\ \/ first = below /\ second = above
           \/ first = above /\ second = below
        /\ reg' = [reg EXCEPT !.a = first.a, !.l = first.l]
        /\ stack' = <<second>> \o stack
  <2>1. CASE reg.lp - reg.a >= reg.l - reg.hp
    <3>1. /\ reg' = [reg EXCEPT !.a = above.a, !.l = above.l]
          /\ stack' = <<below>> \o stack
      BY <2>1 DEF Split
    <3> QED
      BY <3>1
  <2>2. CASE ~(reg.lp - reg.a >= reg.l - reg.hp)
    <3>1. /\ reg' = [reg EXCEPT !.a = below.a, !.l = below.l]
          /\ stack' = <<above>> \o stack
      BY <2>2 DEF Split
    <3> QED
      BY <3>1
  <2> QED
    BY <2>1, <2>2
<1>6. /\ first \in Part /\ second \in Part
      /\ reg.a <= first.a /\ first.a <= first.l /\ first.l <= reg.l
      /\ reg.a <= second.a /\ second.a <= second.l /\ second.l <= reg.l
      /\ first.l <= second.a \/ second.l <= first.a
  <2>1. \/ first = below /\ second = above
        \/ first = above /\ second = below
    BY <1>5
  <2>2. below.a = reg.a /\ below.l = reg.lp /\ above.a = reg.hp + 1 /\ above.l = reg.l
    OBVIOUS
  <2> HIDE DEF below, above
  <2> QED
    BY <1>2, <1>3, <1>4, <2>1, <2>2
<1>7. /\ reg' \in Reg /\ reg'.a = first.a /\ reg'.l = first.l
  BY <1>3, <1>5, <1>6 DEF Reg, Part
<1>8. /\ stack' \in Seq(Part) /\ DOMAIN stack' = 1 .. Len(stack) + 1 /\ Len(stack) \in Nat
      /\ stack'[1] = second /\ DOMAIN stack = 1 .. Len(stack)
      /\ \A k \in DOMAIN stack : stack[k] \in Part /\ stack'[k + 1] = stack[k]
  BY <1>3, <1>5, <1>6
<1>9. \A k \in DOMAIN stack' : k = 1 \/ (k - 1 \in DOMAIN stack /\ stack'[k] = stack[k - 1])
  BY <1>8
<1> HIDE DEF below, above
<1>10. Shape(n)'
  <2>1. input' \in [0 .. n - 1 -> Keys] /\ array' \in [0 .. n - 1 -> Keys]
    BY <1>1 DEF SortInv, Shape
  <2>2. 0 <= reg'.a /\ reg'.a <= reg'.l /\ reg'.l <= n
    BY <1>2, <1>6, <1>7 DEF Part
  <2>3. \A k \in DOMAIN stack' :
           0 <= stack'[k].a /\ stack'[k].a <= stack'[k].l /\ stack'[k].l <= n
    <3>1. 0 <= second.a /\ second.a <= second.l /\ second.l <= n
      BY <1>2, <1>6 DEF Part
    <3> QED
      BY <1>3, <1>8, <1>9, <3>1
  <2> QED
    BY <1>1, <1>7, <1>8, <2>1, <2>2, <2>3 DEF Shape
<1>11. Disjoint'
  <2>1. \A k \in DOMAIN stack : stack[k].l <= reg.a \/ reg.l <= stack[k].a
    BY DEF SortInv, Disjoint
  <2>2. \A k, m \in DOMAIN stack :
           k # m => stack[k].l <= stack[m].a \/ stack[m].l <= stack[k].a
    BY DEF SortInv, Disjoint
  <2>3. \A k \in DOMAIN stack : stack[k].a \in Int /\ stack[k].l \in Int
    BY <1>8 DEF Part
  <2>4. ASSUME NEW q \in Part, reg.a <= q.a, q.l <= reg.l, NEW k \in DOMAIN stack
        PROVE  stack[k].l <= q.a \/ q.l <= stack[k].a
    <3>1. q.a \in Int /\ q.l \in Int
      BY DEF Part
    <3> QED
      BY <1>2, <2>1, <2>3, <2>4, <3>1
  <2>5. \A k \in DOMAIN stack' : stack'[k].l <= reg'.a \/ reg'.l <= stack'[k].a
    BY <1>6, <1>7, <1>8, <1>9, <2>4
  <2>6. ASSUME NEW k \in DOMAIN stack', NEW m \in DOMAIN stack', k # m
        PROVE  stack'[k].l <= stack'[m].a \/ stack'[m].l <= stack'[k].a
    <3>1. CASE k = 1
      BY <1>6, <1>8, <1>9, <2>4, <2>6, <3>1
    <3>2. CASE m = 1
      BY <1>6, <1>8, <1>9, <2>4, <2>6, <3>2
    <3>3. CASE k # 1 /\ m # 1
      <4>1. k - 1 # m - 1
        BY <1>8, <2>6
      <4> QED
        BY <1>9, <2>2, <3>3, <4>1
    <3> QED
      BY <3>1, <3>2, <3>3
  <2> QED
    BY <2>5, <2>6 DEF Disjoint
<1>12. ASSUME NEW x \in 0 .. n - 1, NEW y \in 0 .. n - 1, x < y, Together(x, y)
       PROVE  array[x] <= array[y] \/ Together(x, y)'
  <2>1. ASSUME NEW k \in DOMAIN stack, {x, y} \subseteq stack[k].a .. stack[k].l - 1
        PROVE  Together(x, y)'
    <3>1. k + 1 \in DOMAIN stack' /\ stack'[k + 1] = stack[k]
      BY <1>8
    <3> QED
      BY <2>1, <3>1 DEF Together
  <2>2. ASSUME {x, y} \subseteq reg.a .. reg.l - 1
        PROVE  array[x] <= array[y] \/ Together(x, y)'
    <3>1. 1 \in DOMAIN stack' /\ stack'[1] = second
      BY <1>8
    <3>2. ASSUME NEW q \in {below, above}, {x, y} \subseteq q.a .. q.l - 1
          PROVE  Together(x, y)'
      <4>1. q = first \/ q = second
        BY <1>5
      <4>2. CASE q = first
        BY <1>1, <1>7, <3>2, <4>2 DEF Together
      <4>3. CASE q = second
        BY <3>1, <3>2, <4>3 DEF Together
      <4> QED
        BY <4>1, <4>2, <4>3
    <3>3. CASE y < reg.lp
      <4>1. {x, y} \subseteq below.a .. below.l - 1
        BY <1>2, <1>12, <2>2, <3>3 DEF below
      <4> QED
        BY <3>2, <4>1
    <3>4. CASE x > reg.hp
      <4>1. {x, y} \subseteq above.a .. above.l - 1
        BY <1>2, <1>12, <2>2, <3>4 DEF above
      <4> QED
        BY <3>2, <4>1
    <3>5. CASE x <= reg.hp /\ y >= reg.lp
      <4>1. /\ array[x] \in Int /\ array[y] \in Int /\ array[reg.lp] \in Int
            /\ x \in Int /\ y \in Int
        BY <1>2, <1>3
      <4>2. array[x] <= array[reg.lp]
        <5>1. x \in reg.a .. reg.lp - 1 \/ x \in reg.lp .. reg.hp
          BY <1>2, <2>2, <3>5, <4>1
        <5> QED
          BY <1>3, <4>1, <5>1
      <4>3. array[reg.lp] <= array[y]
        <5>1. y \in reg.hp + 1 .. reg.l - 1 \/ y \in reg.lp .. reg.hp
          BY <1>2, <2>2, <3>5, <4>1
        <5> QED
          BY <1>3, <4>1, <5>1
      <4> QED
        BY <4>1, <4>2, <4>3
    <3> QED
      BY <1>2, <3>3, <3>4, <3>5
  <2> QED
    BY <1>12, <2>1, <2>2 DEF Together
<1>13. InOrder(n)'
  BY <1>1, <1>12 DEF SortInv, InOrder
<1>14. Partitioned' /\ Above' /\ SameKeys'
  BY <1>1 DEF SortInv, Partitioned, Above, SameKeys
<1> QED
  BY <1>10, <1>11, <1>13, <1>14 DEF SortInv

-----------------------------------------------------------------------------
LEMMA SortInitInv == SortInit => SortIInv
<1> SUFFICES ASSUME SortInit  PROVE SortIInv
  OBVIOUS
<1>1. PICK n \in 0 .. MaxSize : input \in [0 .. n - 1 -> Keys]
  BY DEF SortInit
<1>2. \A m \in 0 .. MaxSize : DOMAIN input = 0 .. m - 1 => m = n
  <2> SUFFICES ASSUME NEW m \in 0 .. MaxSize, DOMAIN input = 0 .. m - 1  PROVE m = n
    OBVIOUS
  <2>1. 0 .. m - 1 = 0 .. n - 1 /\ m \in Nat /\ n \in Nat
    BY <1>1, SortAssumption
  <2>2. ~(m < n)
    <3>1. m < n => m \in 0 .. n - 1 /\ m \notin 0 .. m - 1
      BY <2>1
    <3> QED
      BY <2>1, <3>1
  <2>3. ~(n < m)
    <3>1. n < m => n \in 0 .. m - 1 /\ n \notin 0 .. n - 1
      BY <2>1
    <3> QED
      BY <2>1, <3>1
  <2> QED
    BY <2>1, <2>2, <2>3
<1>3. n = CHOOSE m \in 0 .. MaxSize : DOMAIN input = 0 .. m - 1
  BY <1>1, <1>2
<1>4. reg = [a |-> 0, l |-> n, i |-> 0, j |-> 0, lp |-> 0, hp |-> 0]
  BY <1>3 DEF SortInit
<1>5. n \in Nat /\ array = input /\ at = "start" /\ stack = <<>>
  BY SortAssumption DEF SortInit
<1>6. Shape(n) /\ Disjoint
  BY <1>1, <1>4, <1>5 DEF Shape, Disjoint, Reg
<1>7. InOrder(n)
  BY <1>4, <1>5 DEF InOrder, Together
<1>8. Partitioned /\ Above /\ SameKeys
  BY <1>5 DEF Partitioned, Above, SameKeys
<1> QED
  BY <1>6, <1>7, <1>8 DEF SortIInv, SortInv

LEMMA SortStepInv == SortIInv /\ [SortNext]_sortVars => SortIInv'
<1> SUFFICES ASSUME SortIInv, [SortNext]_sortVars  PROVE SortIInv'
  OBVIOUS
<1>1. PICK n \in 0 .. MaxSize : SortInv(n)
  BY DEF SortIInv
<1>2. n \in Nat
  BY SortAssumption
<1>3. SortInv(n)'
  <2>1. CASE Start
    BY <1>1, <1>2, <2>1, StartInv
  <2>2. CASE For
    BY <1>1, <1>2, <2>2, ForInv
  <2>3. CASE Loop
    BY <1>1, <1>2, <2>3, LoopInv
  <2>4. CASE Split
    BY <1>1, <1>2, <2>4, SplitInv
  <2>5. CASE Shift
    BY <1>1, <1>2, <2>5, ShiftInv
  <2>6. CASE UNCHANGED sortVars
    BY <1>1, <2>6 DEF sortVars, SortInv, Shape, Partitioned, Above, Disjoint,
                      InOrder, Together, SameKeys
  <2> QED
    BY <2>1, <2>2, <2>3, <2>4, <2>5, <2>6 DEF SortNext
<1> QED
  BY <1>3 DEF SortIInv

LEMMA SortInvSorts == SortIInv => Sorted /\ Partitioned
<1> SUFFICES ASSUME NEW n \in 0 .. MaxSize, SortInv(n)  PROVE Sorted /\ Partitioned
  BY DEF SortIInv
<1>1. ASSUME at = "done", NEW x \in DOMAIN array, NEW y \in DOMAIN array, x < y
      PROVE  array[x] <= array[y]
  <2>1. DOMAIN array = 0 .. n - 1 /\ stack = <<>>
    BY <1>1 DEF SortInv, Shape
  <2>2. ~Together(x, y)
    BY <1>1, <2>1 DEF Together
  <2> QED
    BY <1>1, <2>1, <2>2 DEF SortInv, InOrder
<1> QED
  BY <1>1 DEF SortInv, SameKeys, Sorted

\* What qsort() leaves has the keys that it was given, each as often, and when it
\* returns they are in order (lib/libxc/qsort.c), for any number of any integers.
THEOREM QsortSorts == SortSpec => []Sorted
<1>1. SortInit => SortIInv
  BY SortInitInv
<1>2. SortIInv /\ [SortNext]_sortVars => SortIInv'
  BY SortStepInv
<1>3. SortIInv => Sorted
  BY SortInvSorts
<1> QED
  BY <1>1, <1>2, <1>3, PTL DEF SortSpec

\* While elements are compared, the three parts are what their names promise, and the
\* pointers stay within the part that is being sorted.
THEOREM PartsStay == SortSpec => []Partitioned
<1>1. SortInit => SortIInv
  BY SortInitInv
<1>2. SortIInv /\ [SortNext]_sortVars => SortIInv'
  BY SortStepInv
<1>3. SortIInv => Partitioned
  BY SortInvSorts
<1> QED
  BY <1>1, <1>2, <1>3, PTL DEF SortSpec

-----------------------------------------------------------------------------
(* kmalloc(): module Memory                                                 *)

Begin == Down(freemem + Paragraph)
LowSize == HOLESTART - Begin
HighSize == MemoryEnd - HOLEEND

\* The list has what is left of both parts, from low and from high on, of one, or of
\* none; each has the size that the whole part had.
BothFree(low, high) ==
    /\ head = low
    /\ mem = [x \in {low, high} |-> IF x = low THEN Header(high, 0, LowSize)
                                               ELSE Header(0, low, HighSize)]
LowFree(low) == head = low /\ mem = [x \in {low} |-> Header(0, 0, LowSize)]
HighFree(high) == head = high /\ mem = [x \in {high} |-> Header(0, 0, HighSize)]
NoneFree == head = 0 /\ DOMAIN mem = {}

\* What blocks bs take is below low, or above the hole and below high.
Below(bs, low, high) ==
    /\ low \in Begin .. HOLESTART /\ low % 16 = 0
    /\ high \in HOLEEND .. MemoryEnd /\ high % 16 = 0
    /\ \A i \in DOMAIN bs :
          /\ bs[i].addr \in Nat /\ bs[i].addr % 16 = 0
          /\ \/ Begin <= bs[i].addr /\ bs[i].addr + bs[i].size <= low
             \/ HOLEEND <= bs[i].addr /\ bs[i].addr + bs[i].size <= high
    /\ \A i \in DOMAIN bs : \A j \in 1 .. i - 1 :
          \/ bs[i].addr + bs[i].size <= bs[j].addr
          \/ bs[j].addr + bs[j].size <= bs[i].addr

Divided(low, high) ==
    /\ Below(blocks, low, high)
    /\ BothFree(low, high) \/ LowFree(low) \/ HighFree(high) \/ NoneFree

\* The sums of the sizes of the first blocks.
Totals(bs, t) ==
    /\ t \in [0 .. Len(bs) -> Nat] /\ t[0] = 0
    /\ \A n \in 1 .. Len(bs) : t[n] = t[n - 1] + RoundedUp(bs[n].size)

AllUsable(bs) == \A i \in DOMAIN bs : Bytes(bs[i]) \subseteq Usable

\* The inductive invariant: while blocks lie in memory that can be used, the list is what
\* is left; while no more was asked for than the lower part has, it is all from there.
MemInv ==
    /\ \E S : blocks \in Seq(S)
    /\ \A i \in DOMAIN blocks : blocks[i].size \in Nat \ {0}
    /\ AllUsable(blocks) => \E low, high : Divided(low, high)
    /\ \E t : /\ Totals(blocks, t)
              /\ t[Len(blocks)] <= LowSize =>
                    /\ Below(blocks, Begin + t[Len(blocks)], HOLEEND)
                    /\ t[Len(blocks)] < LowSize => BothFree(Begin + t[Len(blocks)], HOLEEND)

LEMMA DownIs ==
    ASSUME NEW n \in Nat
    PROVE  Down(n) \in Nat /\ Down(n) % 16 = 0 /\ Down(n) <= n /\ n - Down(n) < 16
BY DEF Down, Paragraph

LEMMA RoundedIs ==
    ASSUME NEW n \in Nat \ {0}
    PROVE  /\ RoundedUp(n) \in Nat \ {0} /\ RoundedUp(n) % 16 = 0
           /\ n <= RoundedUp(n) /\ RoundedUp(n) - n < 16
<1>1. Down(n + 16) \in Nat /\ Down(n + 16) % 16 = 0 /\ Down(n + 16) <= n + 16
      /\ n + 16 - Down(n + 16) < 16
  BY DownIs
<1> QED
  BY <1>1 DEF RoundedUp, Paragraph, Down

LEMMA PartsAre ==
    /\ Begin \in Nat \ {0} /\ Begin % 16 = 0 /\ Begin < HOLESTART
    /\ HOLESTART \in Nat /\ HOLEEND \in Nat /\ MemoryEnd \in Nat
    /\ HOLESTART % 16 = 0 /\ HOLEEND % 16 = 0 /\ MemoryEnd % 16 = 0
    /\ HOLESTART < HOLEEND /\ HOLEEND < MemoryEnd
    /\ LowSize \in Nat /\ LowSize % 16 = 0 /\ Begin + LowSize = HOLESTART /\ LowSize > 0
    /\ HighSize \in Nat /\ HighSize % 16 = 0 /\ HOLEEND + HighSize = MemoryEnd
    /\ HeaderSize \in 1 .. 16
<1>1. freemem \in Nat /\ freemem + 16 < HOLESTART /\ HOLESTART \in Nat /\ HOLEEND \in Nat
      /\ MemoryEnd \in Nat /\ HOLESTART < HOLEEND /\ HOLEEND < MemoryEnd
      /\ HOLESTART % 16 = 0 /\ HOLEEND % 16 = 0 /\ MemoryEnd % 16 = 0
      /\ HeaderSize \in 1 .. 16
  BY MemoryAssumption DEF Paragraph
<1>2. Begin \in Nat /\ Begin % 16 = 0 /\ Begin <= freemem + 16 /\ freemem + 16 - Begin < 16
  BY <1>1, DownIs DEF Begin, Paragraph
<1> HIDE DEF Begin
<1> QED
  BY <1>1, <1>2 DEF LowSize, HighSize

LEMMA BelowBounds ==
    ASSUME NEW bs, NEW low, NEW high, Below(bs, low, high)
    PROVE  /\ low \in Nat \ {0} /\ high \in Nat \ {0} /\ low % 16 = 0 /\ high % 16 = 0
           /\ Begin <= low /\ low <= HOLESTART /\ HOLEEND <= high /\ high <= MemoryEnd
           /\ low < high /\ HOLESTART < high
<1>1. low \in Begin .. HOLESTART /\ low % 16 = 0 /\ high \in HOLEEND .. MemoryEnd /\ high % 16 = 0
  BY DEF Below
<1>2. /\ Begin \in Nat \ {0} /\ HOLESTART \in Nat /\ HOLEEND \in Nat /\ MemoryEnd \in Nat
      /\ HOLESTART < HOLEEND
  BY PartsAre
<1> QED
  BY <1>1, <1>2

\* A block that lies in memory that can be used lies below the hole or above it.
LEMMA UsableIs ==
    ASSUME NEW a \in Nat, NEW n \in Nat \ {0}
    PROVE  a .. a + n - 1 \subseteq Usable <=>
              \/ Begin <= a /\ a + n <= HOLESTART
              \/ HOLEEND <= a /\ a + n <= MemoryEnd
<1>1. Usable = (Begin .. HOLESTART - 1) \cup (HOLEEND .. MemoryEnd - 1)
  BY DEF Usable, Begin
<1>2. ASSUME a .. a + n - 1 \subseteq Usable
      PROVE  \/ Begin <= a /\ a + n <= HOLESTART
             \/ HOLEEND <= a /\ a + n <= MemoryEnd
  <2>1. a \in Usable /\ a + n - 1 \in Usable
    BY <1>2
  <2>2. CASE a < HOLESTART
    <3>1. CASE a + n <= HOLESTART
      BY <2>1, <2>2, <3>1, <1>1, PartsAre
    <3>2. CASE a + n > HOLESTART
      <4>1. HOLESTART \in a .. a + n - 1
        BY <2>2, <3>2, PartsAre
      <4>2. HOLESTART \in Usable
        BY <4>1, <1>2
      <4> QED
        BY <4>2, <1>1, PartsAre
    <3> QED
      BY <3>1, <3>2, PartsAre
  <2> QED
    BY <2>1, <2>2, <1>1, PartsAre
<1>3. ASSUME \/ Begin <= a /\ a + n <= HOLESTART
             \/ HOLEEND <= a /\ a + n <= MemoryEnd
      PROVE  a .. a + n - 1 \subseteq Usable
  BY <1>3, <1>1, PartsAre
<1> QED
  BY <1>2, <1>3

\* The search ends at the first part that is large enough.
Search(size, h) ==
    h = [p \in DOMAIN mem \cup {0} |-> IF p = 0 \/ mem[p].size >= size THEN p ELSE h[mem[p].next]]

LEMMA FitFound ==
    ASSUME NEW size, NEW a, Search(size, a)
    PROVE  \E h : Search(size, h) /\ Fit(size) = h[head]
<1> DEFINE from == CHOOSE h : Search(size, h)
<1>1. Search(size, from)
  OBVIOUS
<1>2. Fit(size) = from[head]
  BY DEF Fit, Search
<1> QED
  BY <1>1, <1>2

LEMMA FitBoth ==
    ASSUME NEW size \in Nat, NEW low \in Nat \ {0}, NEW high \in Nat \ {0}, low # high,
           BothFree(low, high)
    PROVE  Fit(size) = IF LowSize >= size THEN low ELSE IF HighSize >= size THEN high ELSE 0
<1> DEFINE last == IF HighSize >= size THEN high ELSE 0
           a == [p \in {low, high, 0} |->
                    IF p = 0 THEN 0 ELSE IF p = low THEN IF LowSize >= size THEN low ELSE last
                                         ELSE last]
<1>1. /\ DOMAIN mem \cup {0} = {low, high, 0} /\ head = low
      /\ mem[low].size = LowSize /\ mem[low].next = high
      /\ mem[high].size = HighSize /\ mem[high].next = 0
  BY DEF BothFree, Header
<1>2. Search(size, a)
  BY <1>1 DEF Search
<1>3. PICK h : Search(size, h) /\ Fit(size) = h[head]
  BY <1>2, FitFound
<1> HIDE DEF a
<1>4. /\ h[0] = 0
      /\ h[high] = IF HighSize >= size THEN high ELSE h[0]
      /\ h[low] = IF LowSize >= size THEN low ELSE h[high]
  BY <1>1, <1>3 DEF Search
<1> QED
  BY <1>1, <1>3, <1>4

LEMMA FitOne ==
    ASSUME NEW size \in Nat, NEW one \in Nat \ {0}, NEW room, head = one,
           mem = [x \in {one} |-> Header(0, 0, room)]
    PROVE  Fit(size) = IF room >= size THEN one ELSE 0
<1> DEFINE a == [p \in {one, 0} |-> IF p = 0 \/ room >= size THEN p ELSE 0]
<1>1. DOMAIN mem \cup {0} = {one, 0} /\ mem[one].size = room /\ mem[one].next = 0
  BY DEF Header
<1>2. Search(size, a)
  BY <1>1 DEF Search
<1>3. PICK h : Search(size, h) /\ Fit(size) = h[head]
  BY <1>2, FitFound
<1> HIDE DEF a
<1>4. h[0] = 0 /\ h[one] = IF room >= size THEN one ELSE h[0]
  BY <1>1, <1>3 DEF Search
<1> QED
  BY <1>3, <1>4

LEMMA FitNone ==
    ASSUME NEW size \in Nat, NoneFree
    PROVE  Fit(size) = 0
<1> DEFINE a == [p \in {0} |-> 0]
<1>1. DOMAIN mem \cup {0} = {0}
  BY DEF NoneFree
<1>2. Search(size, a)
  BY <1>1 DEF Search
<1>3. PICK h : Search(size, h) /\ Fit(size) = h[head]
  BY <1>2, FitFound
<1> QED
  BY <1>1, <1>3 DEF Search, NoneFree

-----------------------------------------------------------------------------
(* A call takes the front of a part                                         *)

\* What kmalloc() does when it has found a part: the rest of it takes its place, or
\* nothing if all is taken.
Taken(bytes, p) ==
    LET size == RoundedUp(bytes)
        exact == mem[p].size - size < HeaderSize
    IN  /\ mem' = Relinked(p, IF exact THEN 0 ELSE p + size, mem[p])
        /\ head' = IF mem[p].prev # 0 THEN head
                   ELSE IF exact THEN mem[p].next ELSE p + size
        /\ blocks' = Append(blocks, [addr |-> p, size |-> bytes])

LEMMA CallIs ==
    ASSUME NEW bytes, kmalloc(bytes)
    PROVE  \/ UNCHANGED memVars
           \/ Fit(RoundedUp(bytes)) # 0 /\ Taken(bytes, Fit(RoundedUp(bytes)))
BY DEF kmalloc, Taken

\* A whole part is taken exactly when its size is asked for: sizes are multiples of 16.
LEMMA ExactIs ==
    ASSUME NEW bytes \in Nat \ {0}, NEW room \in {LowSize, HighSize}, room >= RoundedUp(bytes)
    PROVE  room - RoundedUp(bytes) < HeaderSize <=> room = RoundedUp(bytes)
<1>1. RoundedUp(bytes) \in Nat \ {0} /\ RoundedUp(bytes) % 16 = 0
  BY RoundedIs
<1>2. room \in Nat /\ room % 16 = 0 /\ HeaderSize \in 1 .. 16
  BY PartsAre
<1> QED
  BY <1>1, <1>2

LEMMA TakeLow ==
    ASSUME NEW bytes \in Nat \ {0}, NEW low \in Nat \ {0}, NEW high \in Nat \ {0},
           low + RoundedUp(bytes) < high, BothFree(low, high), LowSize >= RoundedUp(bytes),
           Taken(bytes, low)
    PROVE  IF LowSize = RoundedUp(bytes) THEN HighFree(high)'
           ELSE BothFree(low + RoundedUp(bytes), high)'
<1> DEFINE r == low + RoundedUp(bytes)
<1>1. RoundedUp(bytes) \in Nat \ {0} /\ r \in Nat \ {0, low, high} /\ low # high
  BY RoundedIs
<1>2. /\ DOMAIN mem = {low, high} /\ head = low
      /\ mem[low] = Header(high, 0, LowSize) /\ mem[high] = Header(0, low, HighSize)
  BY <1>1 DEF BothFree
<1>3. /\ mem[low].prev = 0 /\ mem[low].next = high /\ mem[low].size = LowSize
  BY <1>2 DEF Header
<1>4. CASE LowSize = RoundedUp(bytes)
  <2>1. mem' = Relinked(low, 0, mem[low]) /\ head' = high
    BY <1>3, <1>4, ExactIs DEF Taken
  <2>2. Relinked(low, 0, mem[low]) = [x \in {high} |-> Header(0, 0, HighSize)]
    BY <1>1, <1>2, <1>3 DEF Relinked, Header
  <2> QED
    BY <1>4, <2>1, <2>2 DEF HighFree
<1>5. CASE LowSize # RoundedUp(bytes)
  <2>1. mem' = Relinked(low, r, mem[low]) /\ head' = r
    BY <1>3, <1>5, ExactIs DEF Taken
  <2>2. Relinked(low, r, mem[low])
            = [x \in {r, high} |-> IF x = r THEN Header(high, 0, LowSize) ELSE Header(0, r, HighSize)]
    BY <1>1, <1>2, <1>3 DEF Relinked, Header
  <2> QED
    BY <1>5, <2>1, <2>2 DEF BothFree
<1> QED
  BY <1>4, <1>5

LEMMA TakeHigh ==
    ASSUME NEW bytes \in Nat \ {0}, NEW low \in Nat \ {0}, NEW high \in Nat \ {0},
           low < high, BothFree(low, high), HighSize >= RoundedUp(bytes),
           Taken(bytes, high)
    PROVE  IF HighSize = RoundedUp(bytes) THEN LowFree(low)'
           ELSE BothFree(low, high + RoundedUp(bytes))'
<1> DEFINE r == high + RoundedUp(bytes)
<1>1. RoundedUp(bytes) \in Nat \ {0} /\ r \in Nat \ {0, low, high} /\ low # high
  BY RoundedIs
<1>2. /\ DOMAIN mem = {low, high} /\ head = low
      /\ mem[low] = Header(high, 0, LowSize) /\ mem[high] = Header(0, low, HighSize)
  BY <1>1 DEF BothFree
<1>3. /\ mem[high].prev = low /\ mem[high].next = 0 /\ mem[high].size = HighSize
  BY <1>2 DEF Header
<1>4. CASE HighSize = RoundedUp(bytes)
  <2>1. mem' = Relinked(high, 0, mem[high]) /\ head' = low
    BY <1>1, <1>2, <1>3, <1>4, ExactIs DEF Taken
  <2>2. Relinked(high, 0, mem[high]) = [x \in {low} |-> Header(0, 0, LowSize)]
    BY <1>1, <1>2, <1>3 DEF Relinked, Header
  <2> QED
    BY <1>4, <2>1, <2>2 DEF LowFree
<1>5. CASE HighSize # RoundedUp(bytes)
  <2>1. mem' = Relinked(high, r, mem[high]) /\ head' = low
    BY <1>1, <1>2, <1>3, <1>5, ExactIs DEF Taken
  <2>2. Relinked(high, r, mem[high])
            = [x \in {low, r} |-> IF x = low THEN Header(r, 0, LowSize) ELSE Header(0, low, HighSize)]
    BY <1>1, <1>2, <1>3 DEF Relinked, Header
  <2> QED
    BY <1>5, <2>1, <2>2 DEF BothFree
<1> QED
  BY <1>4, <1>5

LEMMA TakeOne ==
    ASSUME NEW bytes \in Nat \ {0}, NEW one \in Nat \ {0}, NEW room \in {LowSize, HighSize},
           head = one, mem = [x \in {one} |-> Header(0, 0, room)], room >= RoundedUp(bytes),
           Taken(bytes, one)
    PROVE  IF room = RoundedUp(bytes) THEN NoneFree'
           ELSE /\ head' = one + RoundedUp(bytes)
                /\ mem' = [x \in {one + RoundedUp(bytes)} |-> Header(0, 0, room)]
<1> DEFINE r == one + RoundedUp(bytes)
<1>1. RoundedUp(bytes) \in Nat \ {0} /\ r \in Nat \ {0, one}
  BY RoundedIs
<1>2. /\ DOMAIN mem = {one} /\ mem[one] = Header(0, 0, room)
      /\ mem[one].prev = 0 /\ mem[one].next = 0 /\ mem[one].size = room
  BY DEF Header
<1>3. CASE room = RoundedUp(bytes)
  <2>1. mem' = Relinked(one, 0, mem[one]) /\ head' = 0
    BY <1>2, <1>3, ExactIs DEF Taken
  <2>2. DOMAIN Relinked(one, 0, mem[one]) = {}
    BY <1>2 DEF Relinked
  <2> QED
    BY <1>3, <2>1, <2>2 DEF NoneFree
<1>4. CASE room # RoundedUp(bytes)
  <2>1. mem' = Relinked(one, r, mem[one]) /\ head' = r
    BY <1>2, <1>4, ExactIs DEF Taken
  <2>2. Relinked(one, r, mem[one]) = [x \in {r} |-> Header(0, 0, room)]
    BY <1>1, <1>2 DEF Relinked
  <2> QED
    BY <1>4, <2>1, <2>2
<1> QED
  BY <1>3, <1>4

-----------------------------------------------------------------------------
(* The invariant                                                            *)

LEMMA FitsUpTo ==
    ASSUME NEW bytes \in Nat \ {0}, NEW a \in Nat, a % 16 = 0, NEW e \in Nat, e % 16 = 0,
           a + bytes <= e
    PROVE  a + RoundedUp(bytes) <= e /\ (a + RoundedUp(bytes)) % 16 = 0
<1>1. /\ RoundedUp(bytes) \in Nat /\ RoundedUp(bytes) % 16 = 0
      /\ bytes <= RoundedUp(bytes) /\ RoundedUp(bytes) - bytes < 16
  BY RoundedIs
<1> QED
  BY <1>1

Sized(bs) == \A i \in DOMAIN bs : bs[i].size \in Nat \ {0}

LEMMA Appended ==
    ASSUME NEW S, NEW bs \in Seq(S), NEW b
    PROVE  LET as == Append(bs, b)
           IN  /\ \E T : as \in Seq(T)
               /\ Len(bs) \in Nat /\ Len(as) = Len(bs) + 1
               /\ DOMAIN bs = 1 .. Len(bs) /\ DOMAIN as = 1 .. Len(bs) + 1
               /\ \A i \in 1 .. Len(bs) : as[i] = bs[i]
               /\ as[Len(bs) + 1] = b
<1>1. bs \in Seq(S \cup {b}) /\ b \in S \cup {b}
  BY LenProperties, ElementOfSeq, SeqDef
<1>2. Append(bs, b) \in Seq(S \cup {b})
  BY <1>1, AppendProperties
<1> QED
  BY <1>1, <1>2, AppendProperties, LenProperties

LEMMA TakenBelow ==
    ASSUME NEW S, NEW bs \in Seq(S), Sized(bs), NEW low, NEW high, Below(bs, low, high),
           NEW bytes \in Nat \ {0}, NEW a, NEW newLow, NEW newHigh,
           \/ a = low /\ low + bytes <= HOLESTART
              /\ newLow = low + RoundedUp(bytes) /\ newHigh = high
           \/ a = high /\ high + bytes <= MemoryEnd
              /\ newLow = low /\ newHigh = high + RoundedUp(bytes)
    PROVE  Below(Append(bs, [addr |-> a, size |-> bytes]), newLow, newHigh)
<1> DEFINE b == [addr |-> a, size |-> bytes]
           as == Append(bs, b)
           n == Len(bs)
<1>1. /\ n \in Nat /\ DOMAIN bs = 1 .. n /\ DOMAIN as = 1 .. n + 1
      /\ \A i \in 1 .. n : as[i] = bs[i]
      /\ as[n + 1] = b /\ b.addr = a /\ b.size = bytes
  BY Appended
<1>2. /\ low \in Nat /\ high \in Nat /\ low % 16 = 0 /\ high % 16 = 0
      /\ Begin <= low /\ low <= HOLESTART /\ HOLEEND <= high /\ high <= MemoryEnd
  BY BelowBounds
<1>3. /\ newLow \in Begin .. HOLESTART /\ newLow % 16 = 0 /\ low <= newLow
      /\ newHigh \in HOLEEND .. MemoryEnd /\ newHigh % 16 = 0 /\ high <= newHigh
      /\ \/ a = low /\ a + bytes <= newLow
         \/ a = high /\ a + bytes <= newHigh
  <2>1. RoundedUp(bytes) \in Nat /\ bytes <= RoundedUp(bytes)
    BY RoundedIs
  <2>2. CASE a = low /\ low + bytes <= HOLESTART /\ newLow = low + RoundedUp(bytes) /\ newHigh = high
    <3>1. HOLESTART \in Nat /\ HOLESTART % 16 = 0 /\ low + bytes <= HOLESTART
      BY <2>2, PartsAre
    <3>2. low + RoundedUp(bytes) <= HOLESTART /\ (low + RoundedUp(bytes)) % 16 = 0
      BY <3>1, <1>2, FitsUpTo
    <3> DEFINE r == RoundedUp(bytes)
    <3> HIDE DEF r
    <3>3. /\ r \in Nat /\ bytes <= r /\ newLow = low + r /\ low + r <= HOLESTART
          /\ newLow % 16 = 0
      BY <2>1, <2>2, <3>2 DEF r
    <3> QED
      BY <3>3, <2>2, <1>2, PartsAre
  <2>3. CASE a = high /\ high + bytes <= MemoryEnd /\ newLow = low /\ newHigh = high + RoundedUp(bytes)
    <3>1. MemoryEnd \in Nat /\ MemoryEnd % 16 = 0 /\ high + bytes <= MemoryEnd
      BY <2>3, PartsAre
    <3>2. high + RoundedUp(bytes) <= MemoryEnd /\ (high + RoundedUp(bytes)) % 16 = 0
      BY <3>1, <1>2, FitsUpTo
    <3> DEFINE r == RoundedUp(bytes)
    <3> HIDE DEF r
    <3>3. /\ r \in Nat /\ bytes <= r /\ newHigh = high + r /\ high + r <= MemoryEnd
          /\ newHigh % 16 = 0
      BY <2>1, <2>3, <3>2 DEF r
    <3> QED
      BY <3>3, <2>3, <1>2, PartsAre
  <2> QED
    BY <2>2, <2>3
<1> HIDE DEF as, n, b
<1>4. \A i \in 1 .. n : /\ bs[i].addr \in Nat /\ bs[i].addr % 16 = 0 /\ bs[i].size \in Nat
                        /\ \/ Begin <= bs[i].addr /\ bs[i].addr + bs[i].size <= low
                           \/ HOLEEND <= bs[i].addr /\ bs[i].addr + bs[i].size <= high
  BY <1>1 DEF Below, Sized
<1>5. \A i \in 1 .. n : \/ Begin <= bs[i].addr /\ bs[i].addr + bs[i].size <= newLow
                        \/ HOLEEND <= bs[i].addr /\ bs[i].addr + bs[i].size <= newHigh
  <2> TAKE i \in 1 .. n
  <2> DEFINE x == bs[i].addr
             y == bs[i].size
  <2>1. /\ x \in Nat /\ y \in Nat
        /\ (Begin <= x /\ x + y <= low) \/ (HOLEEND <= x /\ x + y <= high)
    BY <1>4
  <2> HIDE DEF x, y
  <2>2. (Begin <= x /\ x + y <= newLow) \/ (HOLEEND <= x /\ x + y <= newHigh)
    BY <2>1, <1>2, <1>3, PartsAre
  <2> QED
    BY <2>2 DEF x, y
<1>6. a \in Nat /\ a % 16 = 0 /\ (\/ Begin <= a /\ a + bytes <= newLow
                                  \/ HOLEEND <= a /\ a + bytes <= newHigh)
  BY <1>2, <1>3
<1>7. \A i \in 1 .. n : a + bytes <= bs[i].addr \/ bs[i].addr + bs[i].size <= a
  <2> TAKE i \in 1 .. n
  <2> DEFINE x == bs[i].addr
             y == bs[i].size
  <2>1. /\ x \in Nat /\ y \in Nat
        /\ (Begin <= x /\ x + y <= low) \/ (HOLEEND <= x /\ x + y <= high)
    BY <1>4
  <2> HIDE DEF x, y
  <2>2. a + bytes <= x \/ x + y <= a
    BY <2>1, <1>2, <1>3, PartsAre
  <2> QED
    BY <2>2 DEF x, y
<1>8. \A i \in DOMAIN as :
          /\ as[i].addr \in Nat /\ as[i].addr % 16 = 0
          /\ \/ Begin <= as[i].addr /\ as[i].addr + as[i].size <= newLow
             \/ HOLEEND <= as[i].addr /\ as[i].addr + as[i].size <= newHigh
  <2> TAKE i \in DOMAIN as
  <2>1. CASE i = n + 1
    BY <2>1, <1>1, <1>6
  <2>2. CASE i # n + 1
    <3>1. i \in 1 .. n
      BY <1>1, <2>2
    <3> QED
      BY <3>1, <1>1, <1>4, <1>5
  <2> QED
    BY <2>1, <2>2
<1>9. ASSUME NEW i \in DOMAIN as, NEW j \in 1 .. i - 1
      PROVE  \/ as[i].addr + as[i].size <= as[j].addr
             \/ as[j].addr + as[j].size <= as[i].addr
  <2>1. j \in 1 .. n /\ as[j] = bs[j]
    <3>1. i \in 1 .. n + 1 /\ n \in Nat
      BY <1>1
    <3>2. j \in 1 .. n
      BY <3>1
    <3> QED
      BY <3>2, <1>1
  <2>2. CASE i = n + 1
    BY <2>1, <2>2, <1>1, <1>7
  <2>3. CASE i # n + 1
    <3>1. i \in 1 .. n + 1 /\ n \in Nat
      BY <1>1
    <3>2. i \in 1 .. n
      BY <2>3, <3>1
    <3>3. as[i] = bs[i] /\ i \in DOMAIN bs
      BY <3>2, <1>1
    <3> QED
      BY <2>1, <3>3 DEF Below
  <2> QED
    BY <2>2, <2>3
<1> QED
  BY <1>3, <1>8, <1>9 DEF Below, as, b

\* A set that has 0, and with each number the next, has them all: the least that it
\* would not have has a predecessor (as in DriverProofs).
LEMMA StepInduction ==
    ASSUME NEW S, 0 \in S, \A n \in Nat : n \in S => n + 1 \in S
    PROVE  Nat \subseteq S
<1> DEFINE Out == Nat \ S
           T == {0 .. n : n \in Out}
           R == StrictSubsetOrdering(Nat)
<1> SUFFICES ASSUME Out # {}  PROVE FALSE
  OBVIOUS
<1>1. IsWellFoundedOn(R, FiniteSubsetsOf(Nat))
  BY FS_StrictSubsetOrderingWellFounded
<1>2. T \subseteq FiniteSubsetsOf(Nat) /\ T # {}
  <2>1. Out \subseteq Nat
    OBVIOUS
  <2> HIDE DEF Out
  <2>2. \A n \in Out : 0 .. n \subseteq Nat /\ IsFiniteSet(0 .. n)
    BY <2>1, FS_Interval
  <2> QED
    BY <2>2 DEF FiniteSubsetsOf
<1>3. PICK x \in T : \A y \in T : ~(<<y, x>> \in R)
  <2> HIDE DEF T, R
  <2> QED
    BY <1>1, <1>2, WFMin
<1>4. PICK n \in Out : x = 0 .. n
  OBVIOUS
<1>5. n # 0 /\ n - 1 \in Nat /\ (n - 1) + 1 = n
  BY <1>4
<1>6. n - 1 \in Out
  BY <1>4, <1>5
<1>7. /\ 0 .. n - 1 \in SUBSET Nat /\ 0 .. n \in SUBSET Nat
      /\ 0 .. n - 1 # 0 .. n /\ 0 .. n - 1 \subseteq 0 .. n
  <2>1. n \notin 0 .. n - 1 /\ n \in 0 .. n
    BY <1>4
  <2> QED
    BY <2>1, <1>4, <1>5
<1>8. 0 .. n - 1 \in T
  BY <1>6
<1> HIDE DEF Out, T
<1> QED
  BY <1>3, <1>4, <1>7, <1>8 DEF StrictSubsetOrdering

\* What was asked for in all is the last of the sums.
LEMMA AskedIs ==
    ASSUME NEW S, blocks \in Seq(S), NEW t, Totals(blocks, t)
    PROVE  Asked = t[Len(blocks)]
<1> DEFINE n == Len(blocks)
           Sum(h) == h = [k \in 0 .. n |->
                             IF k = 0 THEN 0 ELSE h[k - 1] + RoundedUp(blocks[k].size)]
           sum == CHOOSE h : Sum(h)
           Same == {k \in Nat : k <= n => sum[k] = t[k]}
<1>1. n \in Nat
  BY LenProperties
<1>2. Asked = sum[n]
  BY DEF Asked
<1>3. /\ t \in [0 .. n -> Nat] /\ t[0] = 0
      /\ \A k \in 1 .. n : t[k] = t[k - 1] + RoundedUp(blocks[k].size)
  BY DEF Totals
<1> HIDE DEF n
<1>4. Sum(t)
  <2>1. \A k \in 0 .. n : t[k] = IF k = 0 THEN 0 ELSE t[k - 1] + RoundedUp(blocks[k].size)
    BY <1>1, <1>3
  <2> QED
    BY <1>3, <2>1
<1>5. Sum(sum)
  BY <1>4
<1>6. \A k \in 0 .. n : sum[k] = IF k = 0 THEN 0 ELSE sum[k - 1] + RoundedUp(blocks[k].size)
  BY <1>5
<1> HIDE DEF sum
<1>7. 0 \in Same
  BY <1>1, <1>3, <1>6
<1>8. ASSUME NEW k \in Nat, k \in Same  PROVE k + 1 \in Same
  <2> SUFFICES ASSUME k + 1 <= n  PROVE sum[k + 1] = t[k + 1]
    OBVIOUS
  <2>1. sum[k] = t[k] /\ k + 1 \in 1 .. n /\ k + 1 \in 0 .. n /\ (k + 1) - 1 = k /\ k + 1 # 0
    BY <1>1, <1>8
  <2>2. t[k + 1] = t[k] + RoundedUp(blocks[k + 1].size)
    BY <1>3, <2>1
  <2>3. sum[k + 1] = sum[k] + RoundedUp(blocks[k + 1].size)
    BY <1>6, <2>1
  <2> QED
    BY <2>1, <2>2, <2>3
<1> HIDE DEF Same
<1>9. n \in Same
  BY <1>1, <1>7, <1>8, StepInduction
<1> QED
  BY <1>1, <1>2, <1>9 DEF n, Same

LEMMA TotalsGrow ==
    ASSUME NEW S, NEW bs \in Seq(S), NEW t, Totals(bs, t), NEW a, NEW bytes \in Nat \ {0}
    PROVE  LET as == Append(bs, [addr |-> a, size |-> bytes])
           IN  \E u : Totals(as, u) /\ u[Len(as)] = t[Len(bs)] + RoundedUp(bytes)
<1> DEFINE n == Len(bs)
           b == [addr |-> a, size |-> bytes]
           as == Append(bs, b)
           u == [k \in 0 .. n + 1 |-> IF k = n + 1 THEN t[n] + RoundedUp(bytes) ELSE t[k]]
<1>1. /\ n \in Nat /\ Len(as) = n + 1
      /\ \A i \in 1 .. n : as[i] = bs[i]
      /\ as[n + 1] = b /\ b.size = bytes
  BY Appended
<1>2. /\ t \in [0 .. n -> Nat] /\ t[0] = 0
      /\ \A k \in 1 .. n : t[k] = t[k - 1] + RoundedUp(bs[k].size)
  BY DEF Totals
<1>3. RoundedUp(bytes) \in Nat
  BY RoundedIs
<1> HIDE DEF n, b, as
<1>4. u \in [0 .. n + 1 -> Nat] /\ u[0] = 0 /\ u[n + 1] = t[n] + RoundedUp(bytes)
  BY <1>1, <1>2, <1>3
<1>5. \A k \in 0 .. n : u[k] = t[k]
  BY <1>1
<1> HIDE DEF u
<1>6. ASSUME NEW k \in 1 .. n + 1  PROVE u[k] = u[k - 1] + RoundedUp(as[k].size)
  <2>1. CASE k = n + 1
    BY <2>1, <1>1, <1>4, <1>5
  <2>2. CASE k # n + 1
    <3>1. k \in 1 .. n /\ k \in 0 .. n /\ k - 1 \in 0 .. n
      BY <1>1, <2>2
    <3> QED
      BY <3>1, <1>1, <1>2, <1>5
  <2> QED
    BY <2>1, <2>2
<1>7. Totals(as, u)
  BY <1>1, <1>4, <1>6 DEF Totals
<1> QED
  BY <1>1, <1>4, <1>7 DEF n, b, as

LEMMA MemInit == kmeminit => MemInv
<1> SUFFICES ASSUME kmeminit  PROVE MemInv
  OBVIOUS
<1> DEFINE t == [n \in 0 .. 0 |-> 0]
<1>1. blocks = <<>> /\ Len(blocks) = 0 /\ DOMAIN blocks = {} /\ blocks \in Seq({})
  BY DEF kmeminit
<1>2. BothFree(Begin, HOLEEND)
  BY DEF kmeminit, BothFree, Begin, LowSize, HighSize
<1>3. Below(blocks, Begin, HOLEEND)
  BY <1>1, PartsAre DEF Below
<1>4. t[0] = 0 /\ Totals(blocks, t)
  BY <1>1 DEF Totals
<1> HIDE DEF t
<1>5. Begin + t[Len(blocks)] = Begin
  BY <1>1, <1>4, PartsAre
<1>6. \E u : /\ Totals(blocks, u)
             /\ u[Len(blocks)] <= LowSize =>
                   /\ Below(blocks, Begin + u[Len(blocks)], HOLEEND)
                   /\ u[Len(blocks)] < LowSize => BothFree(Begin + u[Len(blocks)], HOLEEND)
  BY <1>2, <1>3, <1>4, <1>5
<1>7. \E low, high : Divided(low, high)
  BY <1>2, <1>3 DEF Divided
<1> QED
  BY <1>1, <1>6, <1>7 DEF MemInv

\* The part that kmalloc() finds, and the block in memory that can be used.
LEMMA TakePart ==
    ASSUME NEW S, blocks \in Seq(S), Sized(blocks), NEW low, NEW high, Divided(low, high),
           NEW bytes \in Nat \ {0}, Fit(RoundedUp(bytes)) # 0,
           Taken(bytes, Fit(RoundedUp(bytes))),
           Fit(RoundedUp(bytes)) \in Nat => Bytes([addr |-> Fit(RoundedUp(bytes)), size |-> bytes]) \subseteq Usable
    PROVE  \E l, h : Divided(l, h)'
<1> DEFINE size == RoundedUp(bytes)
           p == Fit(size)
<1>1. /\ low \in Nat \ {0} /\ high \in Nat \ {0} /\ low % 16 = 0 /\ high % 16 = 0
      /\ Begin <= low /\ low <= HOLESTART /\ HOLEEND <= high /\ high <= MemoryEnd
      /\ low < high /\ Below(blocks, low, high)
  BY BelowBounds DEF Divided
<1>2. size \in Nat \ {0} /\ bytes <= size
  BY RoundedIs
<1>3. \/ BothFree(low, high)
            /\ ((p = low /\ LowSize >= size) \/ (p = high /\ HighSize >= size))
      \/ LowFree(low) /\ p = low /\ LowSize >= size
      \/ HighFree(high) /\ p = high /\ HighSize >= size
  <2>1. CASE BothFree(low, high)
    <3>1. p = IF LowSize >= size THEN low ELSE IF HighSize >= size THEN high ELSE 0
      BY <2>1, <1>1, <1>2, FitBoth
    <3>2. p # 0 /\ LowSize \in Nat /\ HighSize \in Nat
      BY PartsAre
    <3> HIDE DEF p, size
    <3> QED
      BY <2>1, <3>1, <3>2, <1>2
  <2>2. CASE LowFree(low)
    BY <2>2, <1>1, <1>2, FitOne DEF LowFree
  <2>3. CASE HighFree(high)
    BY <2>3, <1>1, <1>2, FitOne DEF HighFree
  <2>4. CASE NoneFree
    BY <2>4, <1>2, FitNone
  <2> QED
    BY <2>1, <2>2, <2>3, <2>4 DEF Divided
<1>4. blocks' = Append(blocks, [addr |-> p, size |-> bytes]) /\ Taken(bytes, p)
  BY DEF Taken
<1>5. p \in Nat => \/ Begin <= p /\ p + bytes <= HOLESTART
                   \/ HOLEEND <= p /\ p + bytes <= MemoryEnd
  <2> SUFFICES ASSUME p \in Nat
               PROVE  \/ Begin <= p /\ p + bytes <= HOLESTART
                      \/ HOLEEND <= p /\ p + bytes <= MemoryEnd
    OBVIOUS
  <2>1. p .. p + bytes - 1 \subseteq Usable
    BY DEF Bytes
  <2> HIDE DEF p
  <2> QED
    BY <2>1, UsableIs
<1> HIDE DEF p
<1>6. CASE p = low
  <2>1. low + bytes <= HOLESTART
    BY <1>1, <1>5, <1>6, PartsAre
  <2>2. low + size <= HOLESTART /\ low + size < high
    <3>1. HOLESTART \in Nat /\ HOLESTART % 16 = 0 /\ HOLESTART < HOLEEND
      BY PartsAre
    <3>2. low + size <= HOLESTART
      BY <2>1, <3>1, <1>1, FitsUpTo
    <3> HIDE DEF size
    <3> QED
      BY <3>1, <3>2, <1>1, <1>2, PartsAre
  <2>3. Below(blocks', low + size, high)
    BY <2>1, <1>1, <1>4, <1>6, TakenBelow
  <2>4. CASE BothFree(low, high) /\ LowSize >= size
    <3>1. HighFree(high)' \/ BothFree(low + size, high)'
      BY <2>2, <2>4, <1>1, <1>4, <1>6, TakeLow
    <3>2. Divided(low + size, high)'
      BY <2>3, <3>1 DEF Divided, BothFree, HighFree
    <3> QED
      BY <3>2
  <2>5. CASE LowFree(low) /\ LowSize >= size
    <3>1. NoneFree' \/ LowFree(low + size)'
      BY <2>5, <1>1, <1>4, <1>6, TakeOne DEF LowFree
    <3>2. Divided(low + size, high)'
      BY <2>3, <3>1 DEF Divided, LowFree
    <3> QED
      BY <3>2
  <2> QED
    BY <1>1, <1>3, <1>6, <2>4, <2>5
<1>7. CASE p = high
  <2>1. high + bytes <= MemoryEnd
    BY <1>1, <1>2, <1>5, <1>7, PartsAre
  <2>3. Below(blocks', low, high + size)
    BY <2>1, <1>1, <1>4, <1>7, TakenBelow
  <2>4. CASE BothFree(low, high) /\ HighSize >= size
    <3>1. LowFree(low)' \/ BothFree(low, high + size)'
      BY <2>4, <1>1, <1>4, <1>7, TakeHigh
    <3>2. Divided(low, high + size)'
      BY <2>3, <3>1 DEF Divided, BothFree, LowFree
    <3> QED
      BY <3>2
  <2>5. CASE HighFree(high) /\ HighSize >= size
    <3>1. NoneFree' \/ HighFree(high + size)'
      BY <2>5, <1>1, <1>4, <1>7, TakeOne DEF HighFree
    <3>2. Divided(low, high + size)'
      BY <2>3, <3>1 DEF Divided, HighFree
    <3> QED
      BY <3>2
  <2> QED
    BY <1>1, <1>3, <1>7, <2>4, <2>5
<1> QED
  BY <1>3, <1>6, <1>7

\* As long as no more is asked for than the lower part has, it comes from there.
LEMMA TakeAsked ==
    ASSUME NEW S, blocks \in Seq(S), Sized(blocks), NEW low, NEW high, Below(blocks, low, high),
           BothFree(low, high), NEW bytes \in Nat \ {0}, low + RoundedUp(bytes) <= HOLESTART,
           Taken(bytes, Fit(RoundedUp(bytes)))
    PROVE  /\ Below(blocks, low + RoundedUp(bytes), high)'
           /\ LowSize # RoundedUp(bytes) => BothFree(low + RoundedUp(bytes), high)'
<1> DEFINE size == RoundedUp(bytes)
<1>1. /\ low \in Nat \ {0} /\ high \in Nat \ {0} /\ Begin <= low /\ low < high
      /\ HOLESTART < high
  BY BelowBounds
<1>2. size \in Nat \ {0} /\ bytes <= size
  BY RoundedIs
<1>3. LowSize >= size /\ low + size < high /\ low + bytes <= HOLESTART
  BY <1>1, <1>2, PartsAre
<1>4. Fit(size) = low
  BY <1>1, <1>2, <1>3, FitBoth
<1>5. Taken(bytes, low) /\ blocks' = Append(blocks, [addr |-> low, size |-> bytes])
  BY <1>4 DEF Taken
<1>6. Below(blocks', low + size, high)
  BY <1>3, <1>5, TakenBelow
<1>7. LowSize # size => BothFree(low + size, high)'
  BY <1>1, <1>3, <1>5, TakeLow
<1> QED
  BY <1>6, <1>7 DEF Below

LEMMA MemStays == ASSUME MemInv, UNCHANGED memVars  PROVE MemInv'
<1>1. blocks' = blocks /\ mem' = mem /\ head' = head
  BY DEF memVars
<1>2. /\ \A low, high : Divided(low, high)' = Divided(low, high)
      /\ \A low, high : BothFree(low, high)' = BothFree(low, high)
      /\ AllUsable(blocks)' = AllUsable(blocks)
      /\ \A low, high : Below(blocks, low, high)' = Below(blocks, low, high)
      /\ \A t : Totals(blocks, t)' = Totals(blocks, t)
  BY <1>1 DEF Divided, BothFree, LowFree, HighFree, NoneFree, Below, AllUsable, Totals
<1>3. AllUsable(blocks)' => \E low, high : Divided(low, high)'
  BY <1>2 DEF MemInv
<1>4. PICK t : /\ Totals(blocks, t)
               /\ t[Len(blocks)] <= LowSize =>
                     /\ Below(blocks, Begin + t[Len(blocks)], HOLEEND)
                     /\ t[Len(blocks)] < LowSize => BothFree(Begin + t[Len(blocks)], HOLEEND)
  BY DEF MemInv
<1>5. PICK m : m = t[Len(blocks)]
  OBVIOUS
<1>6. /\ Totals(blocks, t)' /\ m = t[Len(blocks')]
      /\ m <= LowSize => /\ Below(blocks, Begin + m, HOLEEND)'
                         /\ m < LowSize => BothFree(Begin + m, HOLEEND)'
  BY <1>1, <1>2, <1>4, <1>5
<1>7. (\E S : blocks \in Seq(S))' /\ (\A i \in DOMAIN blocks : blocks[i].size \in Nat \ {0})'
  BY <1>1 DEF MemInv
<1> QED
  BY <1>3, <1>6, <1>7 DEF MemInv

LEMMA MemCall ==
    ASSUME MemInv, NEW bytes \in Nat \ {0}, kmalloc(bytes)
    PROVE  MemInv'
<1> DEFINE p == Fit(RoundedUp(bytes))
           b == [addr |-> p, size |-> bytes]
           n == Len(blocks)
<1>1. PICK S : blocks \in Seq(S)
  BY DEF MemInv
<1>2. PICK t : /\ Totals(blocks, t)
               /\ t[n] <= LowSize =>
                     /\ Below(blocks, Begin + t[n], HOLEEND)
                     /\ t[n] < LowSize => BothFree(Begin + t[n], HOLEEND)
  BY DEF MemInv
<1>3. Sized(blocks) /\ (AllUsable(blocks) => \E low, high : Divided(low, high))
  BY DEF MemInv, Sized
<1>4. CASE UNCHANGED memVars
  BY <1>4, MemStays
<1>5. CASE p # 0 /\ Taken(bytes, p)
  <2>1. blocks' = Append(blocks, b)
    BY <1>5 DEF Taken
  <2>2. /\ \E T : blocks' \in Seq(T)
        /\ n \in Nat /\ Len(blocks') = n + 1
        /\ DOMAIN blocks = 1 .. n /\ DOMAIN blocks' = 1 .. n + 1
        /\ \A i \in 1 .. n : blocks'[i] = blocks[i]
        /\ blocks'[n + 1] = b
    <3> DEFINE as == Append(blocks, b)
    <3> HIDE DEF b
    <3>1. /\ \E T : as \in Seq(T)
          /\ n \in Nat /\ Len(as) = n + 1
          /\ DOMAIN blocks = 1 .. n /\ DOMAIN as = 1 .. n + 1
          /\ \A i \in 1 .. n : as[i] = blocks[i]
          /\ as[n + 1] = b
      BY <1>1, Appended
    <3>2. blocks' = as
      BY <2>1
    <3> HIDE DEF as, n
    <3> QED
      BY <3>1, <3>2
  <2>3. Sized(blocks')
    <3>1. b.size = bytes
      OBVIOUS
    <3> HIDE DEF b, n
    <3>2. ASSUME NEW i \in 1 .. n + 1  PROVE blocks'[i].size \in Nat \ {0}
      <4>1. CASE i = n + 1
        BY <4>1, <2>2, <3>1
      <4>2. CASE i # n + 1
        <5>1. i \in 1 .. n
          BY <4>2, <2>2
        <5> QED
          BY <5>1, <2>2, <1>3 DEF Sized
      <4> QED
        BY <4>1, <4>2
    <3> QED
      BY <3>2, <2>2 DEF Sized
  <2>4. ASSUME AllUsable(blocks')  PROVE \E low, high : Divided(low, high)'
    <3>1. AllUsable(blocks) /\ Bytes(b) \subseteq Usable
      <4> HIDE DEF b, n
      <4>1. \A i \in 1 .. n : i \in 1 .. n + 1
        BY <2>2
      <4>2. n + 1 \in 1 .. n + 1
        BY <2>2
      <4> QED
        BY <2>2, <2>4, <4>1, <4>2 DEF AllUsable
    <3>2. PICK low, high : Divided(low, high)
      BY <3>1, <1>3
    <3> QED
      BY <1>1, <1>3, <1>5, <3>1, <3>2, TakePart
  <2>5. PICK u : Totals(blocks', u) /\ u[n + 1] = t[n] + RoundedUp(bytes)
    BY <1>1, <1>2, <2>1, <2>2, TotalsGrow
  <2>6. PICK m, low, size : m = u[n + 1] /\ low = Begin + t[n] /\ size = RoundedUp(bytes)
    OBVIOUS
  <2>7. ASSUME m <= LowSize
        PROVE  /\ Below(blocks, Begin + m, HOLEEND)'
               /\ m < LowSize => BothFree(Begin + m, HOLEEND)'
    <3> DEFINE x == t[n]
    <3>1. x \in Nat /\ size \in Nat \ {0} /\ m = x + size /\ low = Begin + x
      <4>1. t[n] \in Nat
        BY <1>2, <2>2 DEF Totals
      <4> QED
        BY <4>1, <2>5, <2>6, RoundedIs
    <3>2. x <= LowSize => /\ Below(blocks, low, HOLEEND)
                          /\ x < LowSize => BothFree(low, HOLEEND)
      BY <1>2, <2>6
    <3> HIDE DEF x
    <3>3. /\ x < LowSize /\ x <= LowSize /\ low + size = Begin + m /\ low + size <= HOLESTART
          /\ m < LowSize => LowSize # size
      BY <3>1, <2>7, PartsAre
    <3>4. Below(blocks, low, HOLEEND) /\ BothFree(low, HOLEEND)
      BY <3>2, <3>3
    <3>5. /\ Below(blocks, low + size, HOLEEND)'
          /\ LowSize # size => BothFree(low + size, HOLEEND)'
      BY <1>1, <1>3, <1>5, <2>6, <3>3, <3>4, TakeAsked
    <3> QED
      BY <3>3, <3>5
  <2>8. \E v : (/\ Totals(blocks, v)
                /\ v[Len(blocks)] <= LowSize =>
                      /\ Below(blocks, Begin + v[Len(blocks)], HOLEEND)
                      /\ v[Len(blocks)] < LowSize => BothFree(Begin + v[Len(blocks)], HOLEEND))'
    <3>1. u[Len(blocks')] = m
      BY <2>2, <2>6
    <3> WITNESS u
    <3> QED
      BY <2>5, <2>7, <3>1
  <2> QED
    BY <2>2, <2>3, <2>4, <2>8 DEF MemInv, Sized
<1> QED
  BY <1>4, <1>5, CallIs

LEMMA MemStep == MemInv /\ [NextMemory]_memVars => MemInv'
<1> SUFFICES ASSUME MemInv, [NextMemory]_memVars  PROVE MemInv'
  OBVIOUS
<1>1. ASSUME NEW bytes \in AskSizes, kmalloc(bytes)  PROVE MemInv'
  BY <1>1, MemCall, MemoryAssumption
<1>2. CASE UNCHANGED memVars
  BY <1>2, MemStays
<1> QED
  BY <1>1, <1>2 DEF NextMemory

\* No byte belongs to two blocks, nor to a block and the header of a free part.
LEMMA PartsApart ==
    ASSUME NEW S, blocks \in Seq(S), Sized(blocks), NEW low, NEW high, Divided(low, high)
    PROVE  /\ \A i \in DOMAIN blocks :
                 /\ blocks[i].addr % Paragraph = 0
                 /\ \A j \in 1 .. i - 1 : Bytes(blocks[i]) \cap Bytes(blocks[j]) = {}
                 /\ \A h \in DOMAIN mem :
                       Bytes(blocks[i]) \cap h .. h + HeaderSize - 1 = {}
           /\ head = 0 <=> DOMAIN mem = {}
           /\ \A h \in DOMAIN mem :
                 /\ mem[h].prev = 0 <=> h = head
                 /\ mem[h].next # 0 => mem[mem[h].next].prev = h
<1>1. /\ low \in Nat \ {0} /\ high \in Nat \ {0} /\ low <= HOLESTART /\ HOLEEND <= high
      /\ low + HeaderSize <= HOLEEND /\ low < high
      /\ HOLESTART \in Nat /\ HOLEEND \in Nat /\ HeaderSize \in Nat /\ HOLESTART < HOLEEND
  BY PartsAre, BelowBounds DEF Divided
<1>2. DOMAIN mem \subseteq {low, high}
  BY DEF Divided, BothFree, LowFree, HighFree, NoneFree
<1>3. ASSUME NEW i \in DOMAIN blocks, NEW h \in DOMAIN mem
      PROVE  Bytes(blocks[i]) \cap h .. h + HeaderSize - 1 = {}
  <2> DEFINE x == blocks[i].addr
             y == blocks[i].size
  <2>1. /\ x \in Nat /\ y \in Nat
        /\ (x + y <= low) \/ (HOLEEND <= x /\ x + y <= high)
    BY DEF Divided, Below, Sized
  <2>2. Bytes(blocks[i]) = x .. x + y - 1
    BY DEF Bytes
  <2> HIDE DEF x, y
  <2>3. CASE h = low
    BY <2>1, <2>2, <2>3, <1>1
  <2>4. CASE h = high
    BY <2>1, <2>2, <2>4, <1>1
  <2> QED
    BY <1>2, <2>3, <2>4
<1>4. ASSUME NEW i \in DOMAIN blocks, NEW j \in 1 .. i - 1
      PROVE  Bytes(blocks[i]) \cap Bytes(blocks[j]) = {}
  <2> DEFINE x == blocks[i].addr
             y == blocks[i].size
             v == blocks[j].addr
             w == blocks[j].size
  <2>1. x + y <= v \/ v + w <= x
    BY DEF Divided, Below
  <2>2. Bytes(blocks[i]) = x .. x + y - 1 /\ Bytes(blocks[j]) = v .. v + w - 1
    BY DEF Bytes
  <2>3. x \in Nat /\ y \in Nat /\ v \in Nat /\ w \in Nat
    <3>1. DOMAIN blocks = 1 .. Len(blocks) /\ Len(blocks) \in Nat
      BY LenProperties
    <3>2. j \in DOMAIN blocks
      BY <3>1
    <3> QED
      BY <3>2 DEF Divided, Below, Sized
  <2> HIDE DEF x, y, v, w
  <2>4. \A c \in x .. x + y - 1 : c \notin v .. v + w - 1
    BY <2>1, <2>3
  <2> QED
    BY <2>2, <2>4
<1>5. \A i \in DOMAIN blocks : blocks[i].addr % Paragraph = 0
  BY DEF Divided, Below, Paragraph
<1>6. /\ head = 0 <=> DOMAIN mem = {}
      /\ \A h \in DOMAIN mem :
            /\ mem[h].prev = 0 <=> h = head
            /\ mem[h].next # 0 => mem[mem[h].next].prev = h
  <2>1. CASE BothFree(low, high)
    BY <2>1, <1>1 DEF BothFree, Header
  <2>2. CASE LowFree(low)
    BY <2>2, <1>1 DEF LowFree, Header
  <2>3. CASE HighFree(high)
    BY <2>3, <1>1 DEF HighFree, Header
  <2>4. CASE NoneFree
    BY <2>4 DEF NoneFree
  <2> QED
    BY <2>1, <2>2, <2>3, <2>4 DEF Divided
<1> QED
  BY <1>3, <1>4, <1>5, <1>6

\* kmalloc() gives no byte away twice and keeps its list, as long as it stays in memory
\* that can be used; and it does while no more has been asked for than lies below the
\* hole (c/mem.c:60-97).
THEOREM BlocksStayApart == kmeminit /\ [][NextMemory]_memVars => []BlocksApart
<1>1. MemInv => BlocksApart
  <2> SUFFICES ASSUME MemInv  PROVE BlocksApart
    OBVIOUS
  <2>1. PICK S : blocks \in Seq(S)
    BY DEF MemInv
  <2>2. PICK t : /\ Totals(blocks, t)
                 /\ t[Len(blocks)] <= LowSize => Below(blocks, Begin + t[Len(blocks)], HOLEEND)
    BY DEF MemInv
  <2>3. Asked = t[Len(blocks)]
    BY <2>1, <2>2, AskedIs
  <2>4. ASSUME Asked <= HOLESTART - Down(freemem + Paragraph), NEW i \in DOMAIN blocks
        PROVE  Bytes(blocks[i]) \subseteq Usable
    <3>1. Below(blocks, Begin + t[Len(blocks)], HOLEEND)
      BY <2>2, <2>3, <2>4 DEF LowSize, Begin
    <3> DEFINE x == blocks[i].addr
               y == blocks[i].size
               z == Begin + t[Len(blocks)]
    <3>2. /\ x \in Nat /\ z \in Begin .. HOLESTART
          /\ (Begin <= x /\ x + y <= z) \/ (HOLEEND <= x /\ x + y <= HOLEEND)
      <4> HIDE DEF z
      <4> QED
        BY <3>1 DEF Below, z
    <3>3. y \in Nat \ {0} /\ Bytes(blocks[i]) = x .. x + y - 1
      BY DEF MemInv, Bytes
    <3> HIDE DEF x, y, z
    <3>4. Begin <= x /\ x + y <= HOLESTART
      BY <3>2, <3>3, PartsAre
    <3> QED
      BY <3>2, <3>3, <3>4, UsableIs
  <2>5. Sized(blocks)
    BY DEF MemInv, Sized
  <2>6. ASSUME AllUsable(blocks)  PROVE \E low, high : Divided(low, high)
    BY <2>6 DEF MemInv
  <2> QED
    BY <2>1, <2>4, <2>5, <2>6, PartsApart DEF BlocksApart, AllUsable
<1> QED
  BY <1>1, MemInit, MemStep, PTL

-----------------------------------------------------------------------------
(* The display: module Console                                              *)

\* Quotient and remainder of a product and what is less than a factor are unique.
LEMMA ProductGrows ==
    ASSUME NEW n \in Nat \ {0}, NEW k \in Nat, NEW l \in Nat, k < l
    PROVE  k * n + n <= l * n /\ k * n \in Nat /\ l * n \in Nat
<1> DEFINE m == l - k
<1>1. m \in Nat /\ m >= 1 /\ l = k + m
  OBVIOUS
<1> HIDE DEF m
<1>2. (k + m) * n = k * n + m * n /\ k * n \in Nat /\ m * n \in Nat
  BY <1>1
<1>3. m * n >= n
  <2>1. m * n = n + (m - 1) * n /\ m - 1 \in Nat
    BY <1>1
  <2>2. (m - 1) * n \in Nat
    BY <2>1
  <2> QED
    BY <2>1, <2>2
<1> QED
  BY <1>1, <1>2, <1>3

LEMMA Divides ==
    ASSUME NEW n \in Nat \ {0}, NEW a \in Nat
    PROVE  /\ a \div n \in Nat /\ a % n \in 0 .. n - 1
           /\ a = (a \div n) * n + (a % n)
OBVIOUS

LEMMA DivisionIs ==
    ASSUME NEW n \in Nat \ {0}, NEW k \in Nat, NEW j \in 0 .. n - 1
    PROVE  (k * n + j) \div n = k /\ (k * n + j) % n = j /\ k * n + j \in Nat
<1> DEFINE a == k * n + j
           q == a \div n
           r == a % n
<1>1. k * n \in Nat
  OBVIOUS
<1>2. a \in Nat
  BY <1>1
<1>3. q \in Nat /\ r \in 0 .. n - 1 /\ a = q * n + r
  BY <1>2, Divides
<1>4. q * n \in Nat
  BY <1>3
<1>5. k * n + j = q * n + r
  BY <1>3
<1> HIDE DEF a, q, r
<1>6. q = k
  <2>1. ~ q < k
    BY <1>1, <1>3, <1>4, <1>5, ProductGrows
  <2>2. ~ k < q
    BY <1>1, <1>3, <1>4, <1>5, ProductGrows
  <2> QED
    BY <1>3, <2>1, <2>2
<1>7. r = j
  BY <1>1, <1>3, <1>5, <1>6
<1> QED
  BY <1>2, <1>6, <1>7 DEF a, q, r

\* The line and the column of a place in the array, and the lines of the array.
RowOf(a) == a \div COL + 1
ColOf(a) == (a % COL) + 1
Lines(d) == [r \in 1 .. ROW |-> [c \in 1 .. COL |-> d[(r - 1) * COL + c - 1]]]

LEMMA Sizes == COL \in Nat \ {0} /\ ROW \in Nat \ {0} /\ TabStop \in Nat \ {0}
BY ConsoleAssumption

LEMMA PlaceOf ==
    ASSUME NEW r \in 1 .. ROW, NEW c \in 1 .. COL
    PROVE  LET a == (r - 1) * COL + c - 1
           IN  a \in Cell /\ RowOf(a) = r /\ ColOf(a) = c
<1>1. COL \in Nat \ {0} /\ ROW \in Nat \ {0} /\ r - 1 \in Nat /\ c - 1 \in 0 .. COL - 1 /\ r - 1 < ROW
  BY Sizes
<1>2. /\ ((r - 1) * COL + (c - 1)) \div COL = r - 1
      /\ ((r - 1) * COL + (c - 1)) % COL = c - 1
      /\ (r - 1) * COL + (c - 1) \in Nat
  BY <1>1, DivisionIs
<1>3. (r - 1) * COL + COL <= ROW * COL /\ (r - 1) * COL \in Nat /\ ROW * COL \in Nat
  BY <1>1, ProductGrows
<1>4. ROW * COL = COL * ROW
  BY <1>1
<1> DEFINE b == (r - 1) * COL
           size == COL * ROW
<1>5. b \in Nat /\ size \in Nat /\ b + COL <= size
  BY <1>3, <1>4
<1>6. Cell = 0 .. size - 1
  BY DEF Cell
<1>7. b + c - 1 = b + (c - 1) /\ b + c - 1 \in Cell
  <2> HIDE DEF b, size
  <2> QED
    BY <1>1, <1>5, <1>6
<1> QED
  BY <1>1, <1>2, <1>7 DEF RowOf, ColOf

LEMMA RowCol ==
    ASSUME NEW a \in Cell
    PROVE  /\ RowOf(a) \in 1 .. ROW /\ ColOf(a) \in 1 .. COL /\ a \in Nat
           /\ (RowOf(a) - 1) * COL \in Nat
           /\ a = (RowOf(a) - 1) * COL + ColOf(a) - 1
<1> DEFINE q == a \div COL
           x == a % COL
<1>1. COL \in Nat \ {0} /\ ROW \in Nat \ {0}
  BY Sizes
<1>2. a \in Nat /\ a < ROW * COL
  <2>1. COL * ROW \in Nat /\ COL * ROW = ROW * COL
    BY <1>1
  <2> QED
    BY <2>1 DEF Cell
<1>3. q \in Nat /\ x \in 0 .. COL - 1 /\ a = q * COL + x
  BY <1>1, <1>2, Divides
<1> HIDE DEF q, x
<1>4. q * COL \in Nat /\ ROW * COL \in Nat
  BY <1>1, <1>3
<1>5. q < ROW
  <2> SUFFICES ASSUME ROW <= q  PROVE FALSE
    BY <1>1, <1>3
  <2>1. ROW * COL <= q * COL
    <3>1. CASE ROW = q
      BY <3>1, <1>4
    <3>2. CASE ROW < q
      BY <3>2, <1>1, <1>3, <1>4, ProductGrows
    <3> QED
      BY <1>1, <1>3, <3>1, <3>2
  <2> QED
    BY <1>2, <1>3, <1>4, <2>1
<1>6. RowOf(a) = q + 1 /\ ColOf(a) = x + 1
  BY DEF RowOf, ColOf, q, x
<1>7. RowOf(a) - 1 = q /\ ColOf(a) - 1 = x
  BY <1>3, <1>6
<1> QED
  BY <1>1, <1>2, <1>3, <1>4, <1>5, <1>6, <1>7

\* Characters c at a and the places behind it, in the same line.
Write(d, a, m, c) == [i \in Cell |-> IF i \in a .. a + m - 1 THEN c ELSE d[i]]

LEMMA WriteAt ==
    ASSUME NEW a \in Cell, NEW m \in Nat, ColOf(a) + m <= COL + 1,
           NEW r \in 1 .. ROW, NEW x \in 1 .. COL
    PROVE  (r - 1) * COL + x - 1 \in a .. a + m - 1
               <=> r = RowOf(a) /\ x \in ColOf(a) .. ColOf(a) + m - 1
<1> DEFINE row == RowOf(a)
           col == ColOf(a)
           b == (r - 1) * COL
           e == (row - 1) * COL
<1>1. COL \in Nat \ {0} /\ ROW \in Nat \ {0} /\ r - 1 \in Nat
  BY Sizes
<1>2. row \in 1 .. ROW /\ col \in 1 .. COL /\ a \in Nat /\ e \in Nat /\ a = e + col - 1
  BY RowCol
<1>3. col + m <= COL + 1
  OBVIOUS
<1> HIDE DEF row, col
<1>4. row - 1 \in Nat /\ b \in Nat
  BY <1>1, <1>2
<1>5. (r < row => b + COL <= e) /\ (row < r => e + COL <= b) /\ (r = row => b = e)
  <2>1. r < row => r - 1 < row - 1
    BY <1>1, <1>2
  <2>2. row < r => row - 1 < r - 1
    BY <1>1, <1>2
  <2>3. r - 1 < row - 1 => b + COL <= e
    BY <1>1, <1>4, ProductGrows
  <2>4. row - 1 < r - 1 => e + COL <= b
    BY <1>1, <1>4, ProductGrows
  <2> QED
    BY <2>1, <2>2, <2>3, <2>4
<1> HIDE DEF b, e
<1>6. b + x - 1 \in a .. a + m - 1 <=> r = row /\ x \in col .. col + m - 1
  <2>1. CASE r = row
    BY <1>1, <1>2, <1>4, <1>5, <2>1
  <2>2. CASE r < row
    BY <1>1, <1>2, <1>4, <1>5, <2>2
  <2>3. CASE row < r
    BY <1>1, <1>2, <1>3, <1>4, <1>5, <2>3
  <2> QED
    BY <1>1, <1>2, <2>1, <2>2, <2>3
<1> QED
  BY <1>6 DEF b, row, col

\* A run of characters in the text of the terminal.
TypedIn(t, a, m, c) ==
    [t EXCEPT ![RowOf(a)] =
        [x \in 1 .. COL |-> IF x \in ColOf(a) .. ColOf(a) + m - 1 THEN c ELSE @[x]]]

LEMMA WriteIs ==
    ASSUME NEW d, NEW a \in Cell, NEW m \in Nat, ColOf(a) + m <= COL + 1, NEW c
    PROVE  Lines(Write(d, a, m, c)) = TypedIn(Lines(d), a, m, c)
<1> DEFINE w == Write(d, a, m, c)
           t == Lines(d)
<1>1. /\ DOMAIN t = 1 .. ROW
      /\ \A r \in 1 .. ROW : \A x \in 1 .. COL : t[r][x] = d[(r - 1) * COL + x - 1]
  BY DEF Lines
<1>2. ASSUME NEW r \in 1 .. ROW, NEW x \in 1 .. COL
      PROVE  w[(r - 1) * COL + x - 1] =
                 IF r = RowOf(a) /\ x \in ColOf(a) .. ColOf(a) + m - 1 THEN c ELSE t[r][x]
  <2> DEFINE b == (r - 1) * COL + x - 1
  <2>1. b \in Cell
    BY PlaceOf
  <2>2. b \in a .. a + m - 1 <=> r = RowOf(a) /\ x \in ColOf(a) .. ColOf(a) + m - 1
    BY WriteAt
  <2>3. t[r][x] = d[b]
    BY <1>1
  <2> HIDE DEF b, t
  <2> QED
    BY <2>1, <2>2, <2>3 DEF Write, b
<1>3. RowOf(a) \in 1 .. ROW
  BY RowCol
<1>4. \A r \in 1 .. ROW : t[r] = [x \in 1 .. COL |-> t[r][x]]
  BY DEF Lines
<1> HIDE DEF w, t
<1>5. Lines(w) = [r \in 1 .. ROW |-> [x \in 1 .. COL |->
          IF r = RowOf(a) /\ x \in ColOf(a) .. ColOf(a) + m - 1 THEN c ELSE t[r][x]]]
  BY <1>2 DEF Lines
<1>6. TypedIn(t, a, m, c) = [r \in 1 .. ROW |-> [x \in 1 .. COL |->
          IF r = RowOf(a) /\ x \in ColOf(a) .. ColOf(a) + m - 1 THEN c ELSE t[r][x]]]
  <2> DEFINE line == [x \in 1 .. COL |->
                         IF x \in ColOf(a) .. ColOf(a) + m - 1 THEN c ELSE t[RowOf(a)][x]]
             goal == [r \in 1 .. ROW |-> [x \in 1 .. COL |->
                         IF r = RowOf(a) /\ x \in ColOf(a) .. ColOf(a) + m - 1 THEN c
                         ELSE t[r][x]]]
  <2>1. TypedIn(t, a, m, c) = [t EXCEPT ![RowOf(a)] = line]
    BY DEF TypedIn
  <2>2. goal[RowOf(a)] = line
    BY <1>3
  <2>3. \A r \in 1 .. ROW : r # RowOf(a) => goal[r] = t[r]
    BY <1>4
  <2>4. goal = [r \in 1 .. ROW |-> goal[r]]
    OBVIOUS
  <2> HIDE DEF goal, line
  <2>5. [t EXCEPT ![RowOf(a)] = line] = [r \in 1 .. ROW |-> goal[r]]
    BY <1>1, <2>2, <2>3
  <2> QED
    BY <2>1, <2>4, <2>5 DEF goal
<1> QED
  BY <1>5, <1>6 DEF w, t

\* The array moved up by a line.
Up(d) == [i \in Cell |-> IF i + COL \in Cell THEN d[i + COL] ELSE " "]

\* The record o is text d with the cursor at the start of the line behind row.
AtLine(d, row, o) ==
    /\ row < ROW => row * COL \in Cell /\ o.crtat = row * COL /\ o.display = d
    /\ row = ROW => o.crtat = (ROW - 1) * COL /\ o.crtat \in Cell /\ o.display = Up(d)

\* scroll() at the start of the line behind row, which may be off the display.
LEMMA ScrollIs ==
    ASSUME NEW d, NEW row \in 1 .. ROW
    PROVE  AtLine(d, row, scroll([display |-> d, crtat |-> row * COL]))
<1> DEFINE size == COL * ROW
           behind == row * COL
<1>1. COL \in Nat \ {0} /\ ROW \in Nat \ {0} /\ row \in Nat
  BY Sizes
<1>2. size = ROW * COL /\ size \in Nat /\ behind \in Nat
  BY <1>1
<1>3. row < ROW => behind + COL <= size
  BY <1>1, <1>2, ProductGrows
<1>4. row = ROW => behind = size /\ behind - COL = (ROW - 1) * COL /\ (ROW - 1) * COL \in Nat
  BY <1>1, <1>2
<1>5. Cell = 0 .. size - 1
  BY DEF Cell
<1> HIDE DEF size, behind
<1>6. scroll([display |-> d, crtat |-> behind]) =
          IF behind < size THEN [display |-> d, crtat |-> behind]
          ELSE [display |-> Up(d), crtat |-> behind - COL]
  BY DEF scroll, size, Up
<1>7. row < ROW => behind < size /\ behind \in Cell
  BY <1>1, <1>2, <1>3, <1>5
<1>8. row = ROW => ~(behind < size) /\ (ROW - 1) * COL \in Cell
  BY <1>1, <1>2, <1>4, <1>5
<1> DEFINE o == scroll([display |-> d, crtat |-> behind])
<1>9. row < ROW => behind \in Cell /\ o = [display |-> d, crtat |-> behind]
  BY <1>6, <1>7
<1>10. row = ROW => (ROW - 1) * COL \in Cell /\ o = [display |-> Up(d), crtat |-> (ROW - 1) * COL]
  BY <1>4, <1>6, <1>8
<1> HIDE DEF o
<1>11. /\ row < ROW => behind \in Cell /\ o.crtat = behind /\ o.display = d
       /\ row = ROW => o.crtat = (ROW - 1) * COL /\ o.crtat \in Cell /\ o.display = Up(d)
  BY <1>9, <1>10
<1> QED
  BY <1>11 DEF behind, o, AtLine

\* The text of the scrolled array is without its first line, and the last is blank.
LEMMA ScrolledLines ==
    ASSUME NEW d
    PROVE  Lines(Up(d)) = Append(Tail(Lines(d)), [c \in 1 .. COL |-> " "])
<1> DEFINE e == [i \in Cell |-> IF i + COL \in Cell THEN d[i + COL] ELSE " "]
           t == Lines(d)
           blank == [c \in 1 .. COL |-> " "]
           u == Append(Tail(t), blank)
<1>1. COL \in Nat \ {0} /\ ROW \in Nat \ {0}
  BY Sizes
<1>2. ASSUME NEW r \in 1 .. ROW, NEW x \in 1 .. COL
      PROVE  e[(r - 1) * COL + x - 1] = IF r < ROW THEN t[r + 1][x] ELSE " "
  <2> DEFINE b == (r - 1) * COL + x - 1
             size == COL * ROW
  <2>1. b \in Cell
    BY PlaceOf
  <2>2. /\ b + COL = r * COL + x - 1 /\ r * COL \in Nat /\ b \in Nat
        /\ size \in Nat /\ size = ROW * COL /\ Cell = 0 .. size - 1
    <3>1. (r - 1) * COL + COL = r * COL /\ (r - 1) * COL \in Nat /\ r * COL \in Nat
      BY <1>1
    <3>2. size \in Nat /\ size = ROW * COL /\ Cell = 0 .. size - 1
      BY <1>1 DEF Cell
    <3>3. b + COL = r * COL + x - 1
      BY <1>1, <3>1
    <3> QED
      BY <2>1, <3>1, <3>2, <3>3
  <2>3. CASE r < ROW
    <3>1. r + 1 \in 1 .. ROW /\ (r + 1) - 1 = r
      BY <1>1, <2>3
    <3>2. r * COL + x - 1 \in Cell
      BY <3>1, PlaceOf
    <3>3. t[r + 1][x] = d[r * COL + x - 1]
      BY <3>1 DEF Lines
    <3> HIDE DEF b, t
    <3>4. e[b] = d[b + COL]
      BY <2>1, <2>2, <3>2
    <3> QED
      BY <2>2, <2>3, <3>3, <3>4 DEF b
  <2>4. CASE r = ROW
    <3> HIDE DEF b, size, t
    <3>1. b + COL \notin Cell
      BY <1>1, <2>2, <2>4
    <3>2. e[b] = " "
      BY <2>1, <3>1
    <3>3. ~(r < ROW)
      BY <1>1, <2>4
    <3> HIDE DEF e
    <3> QED
      BY <3>2, <3>3 DEF b
  <2>5. r < ROW \/ r = ROW
    BY <1>1
  <2> HIDE DEF e, t
  <2> QED
    BY <2>3, <2>4, <2>5
<1> DEFINE T == {t[r] : r \in 1 .. ROW} \cup {blank}
<1>3. t \in Seq(T) /\ Len(t) = ROW /\ t # <<>> /\ blank \in T
  <2>1. t = [r \in 1 .. ROW |-> t[r]]
    BY DEF Lines
  <2> HIDE DEF t
  <2>2. t \in [1 .. ROW -> T]
    BY <2>1
  <2> HIDE DEF T
  <2>3. t \in Seq(T)
    BY <1>1, <2>2, SeqDef
  <2>4. Len(t) = ROW
    BY <1>1, <2>2, <2>3, LenProperties
  <2> QED
    BY <1>1, <2>3, <2>4, EmptySeq DEF T
<1> HIDE DEF e
<1>4. /\ \A r \in 1 .. ROW : r < ROW => t[r + 1] = [x \in 1 .. COL |-> t[r + 1][x]]
  <2> SUFFICES ASSUME NEW r \in 1 .. ROW, r < ROW
               PROVE  t[r + 1] = [x \in 1 .. COL |-> t[r + 1][x]]
    OBVIOUS
  <2>1. r + 1 \in 1 .. ROW
    BY <1>1
  <2> QED
    BY <2>1 DEF Lines
<1> HIDE DEF t
<1>5. u = [r \in 1 .. ROW |-> IF r < ROW THEN t[r + 1] ELSE blank]
  <2> DEFINE v == Tail(t)
  <2> HIDE DEF T, blank
  <2>2. v \in Seq(T) /\ Len(v) = ROW - 1 /\ \A r \in 1 .. ROW - 1 : v[r] = t[r + 1]
    BY <1>1, <1>3, HeadTailProperties
  <2> HIDE DEF v
  <2>4. /\ Append(v, blank) \in Seq(T) /\ Len(Append(v, blank)) = ROW
        /\ \A r \in 1 .. ROW : Append(v, blank)[r] = IF r < ROW THEN v[r] ELSE blank
    BY <1>1, <1>3, <2>2, AppendProperties
  <2>5. Append(v, blank) = [r \in 1 .. ROW |-> Append(v, blank)[r]]
    BY <2>4, LenProperties
  <2>6. \A r \in 1 .. ROW : Append(v, blank)[r] = IF r < ROW THEN t[r + 1] ELSE blank
    BY <1>1, <2>2, <2>4
  <2> QED
    BY <2>5, <2>6 DEF v
<1>6. Lines(e) = [r \in 1 .. ROW |-> [x \in 1 .. COL |-> IF r < ROW THEN t[r + 1][x] ELSE " "]]
  BY <1>2 DEF Lines
<1>7. \A r \in 1 .. ROW : [x \in 1 .. COL |-> IF r < ROW THEN t[r + 1][x] ELSE " "]
                             = IF r < ROW THEN t[r + 1] ELSE blank
  BY <1>4
<1>8. Lines(e) = u
  <2> HIDE DEF u, blank
  <2> QED
    BY <1>5, <1>6, <1>7
<1> QED
  BY <1>8 DEF e, t, Up

-----------------------------------------------------------------------------
(* The actions of Terminal, under the refinement mapping                    *)

NextLine_(t) ==
    /\ ColOf(crtat') = 1
    /\ IF RowOf(crtat) < ROW
       THEN RowOf(crtat') = RowOf(crtat) + 1 /\ Lines(display') = t
       ELSE /\ RowOf(crtat') = RowOf(crtat)
            /\ Lines(display') = Append(Tail(t), [c \in 1 .. COL |-> " "])

LEMMA NextLineMaps == ASSUME NEW t  PROVE Screen!NextLine(t) <=> NextLine_(t)
BY DEF Screen!NextLine, Screen!BlankLine, NextLine_, Lines, RowOf, ColOf

TypedText(cs) ==
    [Lines(display) EXCEPT ![RowOf(crtat)] =
        [c \in 1 .. COL |-> IF c \in ColOf(crtat) .. ColOf(crtat) + Len(cs) - 1
                            THEN cs[c - ColOf(crtat) + 1] ELSE @[c]]]

Typed_(cs) ==
    IF ColOf(crtat) + Len(cs) > COL THEN NextLine_(TypedText(cs))
    ELSE /\ Lines(display') = TypedText(cs) /\ ColOf(crtat') = ColOf(crtat) + Len(cs)
         /\ RowOf(crtat') = RowOf(crtat)

LEMMA TypedMaps == ASSUME NEW cs  PROVE Screen!Typed(cs) <=> Typed_(cs)
BY DEF Screen!Typed, Screen!NextLine, Screen!BlankLine, Typed_, TypedText, NextLine_,
       Lines, RowOf, ColOf

\* The step goes to s.
Becomes(s) == display' = s.display /\ crtat' = s.crtat

LEMMA NextLineIs ==
    ASSUME NEW d, crtat \in Cell,
           Becomes(scroll([display |-> d, crtat |-> RowOf(crtat) * COL]))
    PROVE  NextLine_(Lines(d)) /\ crtat' \in Cell
<1> DEFINE row == RowOf(crtat)
           o == scroll([display |-> d, crtat |-> row * COL])
           up == Up(d)
<1>1. COL \in Nat \ {0} /\ ROW \in Nat \ {0}
  BY Sizes
<1>2. row \in 1 .. ROW
  BY RowCol
<1>3. display' = o.display /\ crtat' = o.crtat
  BY DEF Becomes
<1>4. /\ row < ROW => row * COL \in Cell /\ o.crtat = row * COL /\ o.display = d
      /\ row = ROW => o.crtat = (ROW - 1) * COL /\ o.crtat \in Cell /\ o.display = up
  <2> HIDE DEF row
  <2> QED
    BY <1>2, ScrollIs DEF AtLine
<1>5. \A r \in 1 .. ROW : RowOf((r - 1) * COL) = r /\ ColOf((r - 1) * COL) = 1
  <2> TAKE r \in 1 .. ROW
  <2>1. 1 \in 1 .. COL
    BY <1>1
  <2>2. (r - 1) * COL + 1 - 1 = (r - 1) * COL
    BY <1>1
  <2>3. RowOf((r - 1) * COL + 1 - 1) = r /\ ColOf((r - 1) * COL + 1 - 1) = 1
    BY <2>1, PlaceOf
  <2> QED
    BY <2>2, <2>3
<1>6. Lines(up) = Append(Tail(Lines(d)), [c \in 1 .. COL |-> " "])
  BY ScrolledLines
<1> HIDE DEF o, up, row
<1> QED
  <2>1. CASE row < ROW
    <3>1. row + 1 \in 1 .. ROW /\ (row + 1) - 1 = row
      BY <1>1, <1>2, <2>1
    <3>2. RowOf(row * COL) = row + 1 /\ ColOf(row * COL) = 1
      BY <1>5, <3>1
    <3> QED
      BY <1>3, <1>4, <2>1, <3>2 DEF NextLine_, row
  <2>2. CASE row = ROW
    <3>1. ROW \in 1 .. ROW /\ ~(row < ROW)
      BY <1>1, <2>2
    <3>2. RowOf((ROW - 1) * COL) = row /\ ColOf((ROW - 1) * COL) = 1
      BY <1>5, <2>2, <3>1
    <3> QED
      BY <1>3, <1>4, <1>6, <2>2, <3>1, <3>2 DEF NextLine_, row
  <2> QED
    BY <1>1, <1>2, <2>1, <2>2

\* m times the character c.
Copies(c, m) == [i \in 1 .. m |-> c]

\* A run of m characters, which ends at the end of the line at most.
LEMMA RunTypes ==
    ASSUME crtat \in Cell, display \in [Cell -> Glyph],
           NEW m \in Nat \ {0}, ColOf(crtat) + m <= COL + 1, NEW c,
           Becomes(scroll([display |-> Write(display, crtat, m, c), crtat |-> crtat + m]))
    PROVE  Typed_(Copies(c, m)) /\ crtat' \in Cell
<1> DEFINE cs == Copies(c, m)
           w == Write(display, crtat, m, c)
           row == RowOf(crtat)
           col == ColOf(crtat)
           t == TypedText(cs)
           o == scroll([display |-> w, crtat |-> crtat + m])
           e == (row - 1) * COL
<1>1. COL \in Nat \ {0} /\ ROW \in Nat \ {0}
  BY Sizes
<1>2. /\ row \in 1 .. ROW /\ col \in 1 .. COL /\ crtat \in Nat /\ e \in Nat
      /\ crtat = e + col - 1
  BY RowCol
<1>3. Len(cs) = m /\ \A i \in 1 .. m : cs[i] = c
  <2>1. cs \in Seq({c})
    BY SeqDef DEF Copies
  <2> QED
    BY <2>1, LenProperties DEF Copies
<1>4. col + m <= COL + 1 /\ display' = o.display /\ crtat' = o.crtat
  BY DEF Becomes
<1>5. Lines(w) = t
  <2>1. Lines(w) = TypedIn(Lines(display), crtat, m, c)
    BY WriteIs
  <2> HIDE DEF w, cs
  <2>2. \A x \in 1 .. COL : x \in col .. col + m - 1 => x - col + 1 \in 1 .. m
    <3> HIDE DEF col
    <3> QED
      BY <1>2
  <2>3. \A x \in 1 .. COL : x \in col .. col + m - 1 => cs[x - col + 1] = c
    BY <1>3, <2>2
  <2>4. [x \in 1 .. COL |-> IF x \in col .. col + Len(cs) - 1
                            THEN cs[x - col + 1] ELSE Lines(display)[row][x]]
            = [x \in 1 .. COL |-> IF x \in col .. col + m - 1
                                  THEN c ELSE Lines(display)[row][x]]
    BY <1>3, <2>3
  <2> QED
    BY <2>1, <2>4 DEF TypedIn, TypedText
<1>6. CASE col + m = COL + 1
  <2>1. crtat + m = row * COL
    <3>1. row * COL = e + COL
      BY <1>1, <1>2
    <3> HIDE DEF row, col, e
    <3> QED
      BY <1>1, <1>2, <1>6, <3>1
  <2>2. NextLine_(Lines(w)) /\ crtat' \in Cell
    <3> HIDE DEF w
    <3>1. Becomes(scroll([display |-> w, crtat |-> row * COL]))
      BY <2>1 DEF w
    <3> QED
      BY <3>1, NextLineIs
  <2>3. col + Len(cs) > COL
    <3> HIDE DEF cs, col
    <3> QED
      BY <1>1, <1>2, <1>3, <1>6
  <2>4. NextLine_(t)
    <3> HIDE DEF t, w
    <3> QED
      BY <1>5, <2>2 DEF NextLine_
  <2>5. Typed_(cs)
    <3> HIDE DEF cs
    <3> QED
      BY <2>3, <2>4 DEF Typed_
  <2> QED
    BY <2>2, <2>5
<1>7. CASE col + m <= COL
  <2>1. col + m \in 1 .. COL /\ crtat + m = e + (col + m) - 1
    <3> HIDE DEF row, col, e
    <3> QED
      BY <1>1, <1>2, <1>7
  <2>2. crtat + m \in Cell /\ RowOf(crtat + m) = row /\ ColOf(crtat + m) = col + m
    <3> DEFINE x == col + m
    <3>1. x \in 1 .. COL /\ crtat + m = (row - 1) * COL + x - 1
      BY <2>1
    <3> HIDE DEF x, row, col
    <3>2. crtat + m \in Cell /\ RowOf(crtat + m) = row /\ ColOf(crtat + m) = x
      BY <1>2, <3>1, PlaceOf
    <3> QED
      BY <3>2 DEF x, col, row
  <2>3. o = [display |-> w, crtat |-> crtat + m]
    <3> HIDE DEF w
    <3>1. crtat + m < COL * ROW
      <4> DEFINE size == COL * ROW
      <4>1. size \in Nat /\ Cell = 0 .. size - 1
        BY <1>1 DEF Cell
      <4> HIDE DEF size
      <4>2. crtat + m < size
        BY <1>2, <2>2, <4>1
      <4> QED
        BY <4>2 DEF size
    <3> QED
      BY <3>1 DEF scroll
  <2>4. display' = w /\ crtat' = crtat + m
    <3> HIDE DEF w, o
    <3> QED
      BY <1>4, <2>3
  <2>5. ~(col + Len(cs) > COL)
    <3> HIDE DEF cs, col
    <3> QED
      BY <1>1, <1>2, <1>3, <1>7
  <2>6. Typed_(cs)
    <3>1. Lines(display') = t
      BY <1>5, <2>4
    <3>2. ColOf(crtat') = col + Len(cs) /\ RowOf(crtat') = row
      BY <1>3, <2>2, <2>4
    <3> HIDE DEF cs
    <3> QED
      BY <2>5, <3>1, <3>2 DEF Typed_
  <2> QED
    BY <2>2, <2>4, <2>6
<1> QED
  <2> HIDE DEF cs, row, col
  <2>1. col + m = COL + 1 \/ col + m <= COL
    BY <1>1, <1>2, <1>4
  <2> QED
    BY <1>6, <1>7, <2>1

-----------------------------------------------------------------------------
(* kbmputc()                                                                *)

ConInv == crtat \in Cell /\ display \in [Cell -> Glyph]

LEMMA ScrollKeeps ==
    ASSUME NEW d \in [Cell -> Glyph], NEW n
    PROVE  scroll([display |-> d, crtat |-> n]).display \in [Cell -> Glyph]
<1> DEFINE s == [display |-> d, crtat |-> n]
           up == Up(d)
<1>1. up \in [Cell -> Glyph]
  BY ConsoleAssumption DEF Up
<1>2. scroll(s) = IF n < COL * ROW THEN s ELSE [display |-> up, crtat |-> n - COL]
  BY DEF scroll, Up
<1> HIDE DEF up
<1>3. scroll(s).display = d \/ scroll(s).display = up
  BY <1>2
<1> QED
  BY <1>1, <1>3

LEMMA WriteKeeps ==
    ASSUME NEW d \in [Cell -> Glyph], NEW a, NEW m, NEW c \in Glyph
    PROVE  Write(d, a, m, c) \in [Cell -> Glyph]
BY DEF Write

\* How far it is to the next tab stop, which is in the line or at its end.
Tab(a) == TabStop - (a % TabStop)

LEMMA TabIs ==
    ASSUME NEW a \in Cell
    PROVE  /\ Tab(a) \in Nat \ {0} /\ ColOf(a) + Tab(a) <= COL + 1
           /\ Tab(a) = TabStop - ((ColOf(a) - 1) % TabStop)
<1> DEFINE row == RowOf(a)
           col == ColOf(a)
           x == col - 1
           q == x \div TabStop
           y == x % TabStop
           n == COL \div TabStop
<1>1. COL \in Nat \ {0} /\ ROW \in Nat \ {0} /\ TabStop \in Nat \ {0}
  BY Sizes
<1>2. /\ row \in 1 .. ROW /\ col \in 1 .. COL /\ a \in Nat
      /\ (row - 1) * COL \in Nat /\ a = (row - 1) * COL + col - 1
  BY RowCol
<1>3. n \in Nat /\ COL = n * TabStop
  <2>1. COL % TabStop = 0
    BY ConsoleAssumption
  <2>2. n \in Nat /\ COL = n * TabStop + (COL % TabStop)
    BY <1>1, Divides
  <2> QED
    BY <1>1, <2>1, <2>2
<1> HIDE DEF row, col, n
<1>4. x \in Nat /\ x < COL
  BY <1>1, <1>2
<1>5. q \in Nat /\ y \in 0 .. TabStop - 1 /\ x = q * TabStop + y
  BY <1>1, <1>4, Divides
<1> HIDE DEF x, q, y
<1>6. q * TabStop \in Nat /\ n * TabStop \in Nat
  BY <1>1, <1>3, <1>5
<1>7. q < n
  <2> SUFFICES ASSUME n <= q  PROVE FALSE
    BY <1>3, <1>5
  <2>1. n * TabStop <= q * TabStop
    <3>1. n < q => n * TabStop + TabStop <= q * TabStop
      BY <1>1, <1>3, <1>5, ProductGrows
    <3> QED
      BY <1>1, <1>3, <1>5, <1>6, <3>1
  <2> QED
    BY <1>3, <1>4, <1>5, <1>6, <2>1
<1>8. q * TabStop + TabStop <= n * TabStop
  BY <1>1, <1>3, <1>5, <1>7, ProductGrows
<1>9. a % TabStop = y
  <2> DEFINE k == (row - 1) * n + q
  <2>1. row - 1 \in Nat
    BY <1>1, <1>2
  <2>2. k \in Nat
    BY <1>3, <1>5, <2>1
  <2>3. (row - 1) * COL = ((row - 1) * n) * TabStop
    BY <1>1, <1>3, <2>1
  <2>4. (row - 1) * n \in Nat
    BY <1>3, <2>1
  <2>5. k * TabStop = ((row - 1) * n) * TabStop + q * TabStop
    BY <1>1, <1>5, <2>4
  <2>6. a = (row - 1) * COL + x
    BY <1>2 DEF x
  <2>7. k * TabStop \in Nat
    BY <1>1, <2>2
  <2> HIDE DEF k
  <2>8. a = k * TabStop + y
    BY <1>2, <1>5, <1>6, <2>3, <2>5, <2>6, <2>7
  <2> QED
    BY <1>1, <1>5, <2>2, <2>8, DivisionIs
<1>10. Tab(a) = TabStop - y
  BY <1>9 DEF Tab
<1>11. /\ TabStop - y \in Nat \ {0} /\ col + (TabStop - y) <= COL + 1
  <2>1. col = x + 1
    BY <1>1, <1>2 DEF x
  <2> QED
    BY <1>1, <1>3, <1>4, <1>5, <1>6, <1>8, <2>1
<1>12. TabStop - y = TabStop - ((ColOf(a) - 1) % TabStop)
  BY DEF x, y, col
<1> QED
  BY <1>10, <1>11, <1>12 DEF col

\* put() is a run of one character.
LEMMA PutIs ==
    ASSUME NEW d \in [Cell -> Glyph], NEW a \in Cell, NEW c
    PROVE  put([display |-> d, crtat |-> a], c)
               = scroll([display |-> Write(d, a, 1, c), crtat |-> a + 1])
<1>1. a \in Nat
  BY RowCol
<1>2. \A i \in Cell : i \in a .. a + 1 - 1 <=> i = a
  <2> TAKE i \in Cell
  <2>1. i \in Nat
    BY RowCol
  <2> QED
    BY <1>1, <2>1
<1>3. [d EXCEPT ![a] = c] = Write(d, a, 1, c)
  BY <1>2 DEF Write
<1> QED
  BY <1>3 DEF put

LEMMA NoScroll ==
    ASSUME NEW d, NEW a \in Cell
    PROVE  scroll([display |-> d, crtat |-> a]) = [display |-> d, crtat |-> a]
<1> DEFINE size == COL * ROW
           s == [display |-> d, crtat |-> a]
<1>1. size \in Nat /\ Cell = 0 .. size - 1
  BY Sizes DEF Cell
<1> HIDE DEF size
<1>2. a < size
  BY <1>1
<1>3. s.crtat < COL * ROW
  BY <1>2 DEF size
<1> HIDE DEF s
<1>4. scroll(s) = s
  BY <1>3 DEF scroll
<1> QED
  BY <1>4 DEF s

\* A tab is a run of blanks: the loop puts one behind the other.
LEMMA BlanksAre ==
    ASSUME NEW d \in [Cell -> Glyph], NEW a \in Cell
    PROVE  kbmputc([display |-> d, crtat |-> a], "\t")
               = scroll([display |-> Write(d, a, Tab(a), " "), crtat |-> a + Tab(a)])
<1> DEFINE s == [display |-> d, crtat |-> a]
           tab == Tab(s.crtat)
           Run(m) == scroll([display |-> Write(d, a, m, " "), crtat |-> a + m])
           g == [m \in 0 .. tab |-> Run(m)]
           Fills(h) == h = [m \in 0 .. tab |-> IF m = 0 THEN s ELSE put(h[m - 1], " ")]
           blanks == CHOOSE h : Fills(h)
           Same == {m \in Nat : m <= tab => blanks[m] = g[m]}
<1>1. tab \in Nat \ {0} /\ ColOf(a) + tab <= COL + 1 /\ a \in Nat /\ tab = Tab(a)
  BY TabIs, RowCol
<1>2. kbmputc(s, "\t") = blanks[tab]
  <2> HIDE DEF s
  <2>1. kbmputc(s, "\t") = putTab(s)
    BY DEF kbmputc, BS
  <2>2. putTab(s) = blanks[tab]
    BY Zenon DEF putTab, Tab
  <2> QED
    BY <2>1, <2>2
<1> HIDE DEF tab
<1>3. \A m \in 1 .. tab : a + (m - 1) \in Cell
  <2> TAKE m \in 1 .. tab
  <2> DEFINE row == RowOf(a)
             col == ColOf(a)
             x == col + m - 1
             e == (row - 1) * COL
  <2>1. COL \in Nat /\ row \in 1 .. ROW /\ col \in 1 .. COL /\ e \in Nat /\ a = e + col - 1
    BY RowCol, Sizes
  <2>2. col + tab <= COL + 1
    BY <1>1
  <2> HIDE DEF row, col
  <2>3. x \in 1 .. COL
    BY <1>1, <2>1, <2>2
  <2> HIDE DEF x
  <2>4. e + x - 1 \in Cell
    BY <2>1, <2>3, PlaceOf
  <2> HIDE DEF e
  <2>5. e + x - 1 = a + (m - 1)
    BY <1>1, <2>1 DEF x
  <2> QED
    BY <2>4, <2>5
<1>4. Run(0) = s
  <2>1. \A i \in Cell : i \notin a .. a + 0 - 1
    BY <1>1
  <2>2. Write(d, a, 0, " ") = [i \in Cell |-> d[i]]
    BY <2>1 DEF Write
  <2>3. d = [i \in Cell |-> d[i]] /\ a + 0 = a
    BY <1>1
  <2> QED
    BY <2>2, <2>3, NoScroll
<1>5. \A m \in 1 .. tab : Run(m) = put(Run(m - 1), " ")
  <2> TAKE m \in 1 .. tab
  <2> DEFINE b == a + (m - 1)
             w == Write(d, a, m - 1, " ")
  <2>1. b \in Cell /\ m - 1 \in Nat
    BY <1>1, <1>3
  <2>2. w \in [Cell -> Glyph]
    BY ConsoleAssumption, WriteKeeps
  <2>3. Write(w, b, 1, " ") = Write(d, a, m, " ")
    <3>1. \A i \in Cell : i \in b .. b + 1 - 1 \/ i \in a .. a + (m - 1) - 1 <=> i \in a .. a + m - 1
      <4> TAKE i \in Cell
      <4>1. i \in Nat
        BY RowCol
      <4> QED
        BY <1>1, <2>1, <4>1
    <3> QED
      BY <3>1 DEF Write
  <2>4. b + 1 = a + m
    BY <1>1
  <2> HIDE DEF b, w
  <2>5. scroll([display |-> w, crtat |-> b]) = [display |-> w, crtat |-> b]
    BY <2>1, NoScroll
  <2>6. put([display |-> w, crtat |-> b], " ")
            = scroll([display |-> Write(w, b, 1, " "), crtat |-> b + 1])
    BY <2>1, <2>2, PutIs
  <2> QED
    BY <2>3, <2>4, <2>5, <2>6 DEF b, w
<1> HIDE DEF Run
<1>6. Fills(g)
  <2>1. \A m \in 0 .. tab : g[m] = IF m = 0 THEN s ELSE put(g[m - 1], " ")
    <3> TAKE m \in 0 .. tab
    <3>1. CASE m = 0
      BY <1>4, <3>1
    <3>2. CASE m # 0
      <4>1. m \in 1 .. tab /\ m - 1 \in 0 .. tab
        BY <1>1, <3>2
      <4> HIDE DEF s
      <4> QED
        BY <1>5, <3>2, <4>1
    <3> QED
      BY <3>1, <3>2
  <2> DEFINE f == [m \in 0 .. tab |-> IF m = 0 THEN s ELSE put(g[m - 1], " ")]
  <2>2. \A m \in 0 .. tab : g[m] = f[m]
    BY <2>1
  <2> QED
    BY <2>2
<1>7. Fills(blanks)
  BY <1>6
<1> HIDE DEF g, blanks
<1>8. \A m \in 0 .. tab : blanks[m] = IF m = 0 THEN s ELSE put(blanks[m - 1], " ")
  BY <1>7
<1>9. \A m \in 0 .. tab : g[m] = IF m = 0 THEN s ELSE put(g[m - 1], " ")
  BY <1>6
<1> HIDE DEF s
<1>10. 0 \in Same
  <2>1. 0 \in 0 .. tab
    BY <1>1
  <2>2. blanks[0] = s /\ g[0] = s
    BY <1>8, <1>9, <2>1
  <2> QED
    BY <2>2
<1>11. ASSUME NEW m \in Nat, m \in Same  PROVE m + 1 \in Same
  <2> SUFFICES ASSUME m + 1 <= tab  PROVE blanks[m + 1] = g[m + 1]
    OBVIOUS
  <2>1. blanks[m] = g[m] /\ m + 1 \in 0 .. tab /\ (m + 1) - 1 = m /\ m + 1 # 0
    BY <1>1, <1>11
  <2> QED
    BY <1>8, <1>9, <2>1
<1> HIDE DEF Same
<1>12. tab \in Same
  BY <1>1, <1>10, <1>11, StepInduction
<1>13. blanks[tab] = g[tab]
  BY <1>1, <1>12 DEF Same
<1>14. g[tab] = Run(tab)
  BY <1>1 DEF g
<1> QED
  BY <1>1, <1>2, <1>13, <1>14 DEF Run, s

\* What a step of the console is to the terminal, and what it leaves.
Shows == Screen!TermNext /\ ConInv'

LEMMA GlyphShows ==
    ASSUME ConInv, NEW c \in Glyph, Becomes(put([display |-> display, crtat |-> crtat], c))
    PROVE  Shows
<1>1. crtat \in Cell /\ display \in [Cell -> Glyph]
  BY DEF ConInv
<1> DEFINE w == Write(display, crtat, 1, c)
<1>2. put([display |-> display, crtat |-> crtat], c) = scroll([display |-> w, crtat |-> crtat + 1])
  BY <1>1, PutIs
<1>3. Becomes(scroll([display |-> w, crtat |-> crtat + 1]))
  BY <1>2
<1>4. ColOf(crtat) + 1 <= COL + 1
  BY <1>1, RowCol, Sizes
<1>5. Typed_(Copies(c, 1)) /\ crtat' \in Cell
  BY <1>1, <1>3, <1>4, RunTypes
<1>6. display' \in [Cell -> Glyph]
  <2>1. w \in [Cell -> Glyph]
    BY <1>1, WriteKeeps
  <2> HIDE DEF w
  <2> QED
    BY <1>3, <2>1, ScrollKeeps DEF Becomes
<1>7. Copies(c, 1) = <<c>>
  BY DEF Copies
<1>8. Screen!Typed(<<c>>)
  BY <1>5, <1>7, TypedMaps
<1> QED
  BY <1>5, <1>6, <1>8 DEF Shows, ConInv, Screen!TermNext, Screen!Show

LEMMA TabToMaps ==
    Screen!TabTo <=> Typed_(Copies(" ", TabStop - ((ColOf(crtat) - 1) % TabStop)))
BY DEF Screen!TabTo, Screen!Typed, Screen!NextLine, Screen!BlankLine, Typed_, TypedText,
       NextLine_, Copies, Lines, RowOf, ColOf

LEMMA TabShows ==
    ASSUME ConInv, Becomes(kbmputc([display |-> display, crtat |-> crtat], "\t"))
    PROVE  Shows
<1>1. crtat \in Cell /\ display \in [Cell -> Glyph]
  BY DEF ConInv
<1>0. PICK m : m = Tab(crtat)
  OBVIOUS
<1> DEFINE w == Write(display, crtat, m, " ")
<1>2. kbmputc([display |-> display, crtat |-> crtat], "\t")
          = scroll([display |-> w, crtat |-> crtat + m])
  BY <1>0, <1>1, BlanksAre
<1>3. Becomes(scroll([display |-> w, crtat |-> crtat + m]))
  BY <1>2
<1>4. m \in Nat \ {0} /\ ColOf(crtat) + m <= COL + 1
      /\ m = TabStop - ((ColOf(crtat) - 1) % TabStop)
  BY <1>0, <1>1, TabIs
<1>5. display' \in [Cell -> Glyph]
  <2>1. w \in [Cell -> Glyph]
    BY <1>1, ConsoleAssumption, WriteKeeps
  <2> HIDE DEF w
  <2> QED
    BY <1>3, <2>1, ScrollKeeps DEF Becomes
<1>6. Typed_(Copies(" ", m)) /\ crtat' \in Cell
  BY <1>1, <1>3, <1>4, RunTypes
<1>7. Typed_(Copies(" ", TabStop - ((ColOf(crtat) - 1) % TabStop)))
  BY <1>4, <1>6 DEF Typed_, TypedText, NextLine_
<1>8. Screen!TabTo
  BY <1>7, TabToMaps
<1> QED
  BY <1>5, <1>6, <1>8 DEF Shows, ConInv, Screen!TermNext

\* The keys that only move the cursor, within the display.
LEMMA MovesIn ==
    ASSUME ConInv, NEW a \in Cell, Becomes(scroll([display |-> display, crtat |-> a]))
    PROVE  display' = display /\ crtat' = a /\ ConInv'
<1>1. scroll([display |-> display, crtat |-> a]) = [display |-> display, crtat |-> a]
  BY NoScroll
<1> QED
  BY <1>1 DEF Becomes, ConInv

LEMMA ReturnShows ==
    ASSUME ConInv, Becomes(scroll([display |-> display, crtat |-> crtat - (crtat % COL)]))
    PROVE  Shows
<1> DEFINE row == RowOf(crtat)
           col == ColOf(crtat)
           e == (row - 1) * COL
           a == crtat - (crtat % COL)
<1>1. COL \in Nat \ {0} /\ crtat \in Cell
  BY Sizes DEF ConInv
<1>2. row \in 1 .. ROW /\ col \in 1 .. COL /\ crtat \in Nat /\ e \in Nat
      /\ crtat = e + col - 1 /\ crtat % COL = col - 1
  <2>1. row \in 1 .. ROW /\ col \in 1 .. COL /\ crtat \in Nat /\ e \in Nat /\ crtat = e + col - 1
    BY <1>1, RowCol
  <2>2. crtat % COL \in Nat /\ col = (crtat % COL) + 1
    BY <1>1, <2>1, Divides DEF ColOf
  <2> QED
    BY <2>1, <2>2
<1> HIDE DEF row, col
<1>3. 1 \in 1 .. COL /\ e + 1 - 1 = e
  BY <1>1, <1>2
<1>4. e + 1 - 1 \in Cell /\ RowOf(e + 1 - 1) = row /\ ColOf(e + 1 - 1) = 1
  BY <1>2, <1>3, PlaceOf
<1> HIDE DEF e
<1>5. a = e
  BY <1>1, <1>2
<1>6. Becomes(scroll([display |-> display, crtat |-> a]))
  OBVIOUS
<1> HIDE DEF a
<1>7. display' = display /\ crtat' = e /\ ConInv'
  BY <1>3, <1>4, <1>5, <1>6, MovesIn
<1>8. ColOf(crtat') = 1 /\ RowOf(crtat') = RowOf(crtat) /\ Lines(display') = Lines(display)
  BY <1>3, <1>4, <1>7 DEF row
<1>9. Screen!CarriageReturn
  BY <1>8 DEF Screen!CarriageReturn, Lines, RowOf, ColOf
<1> QED
  BY <1>7, <1>9 DEF Shows, Screen!TermNext

LEMMA BackShows ==
    ASSUME ConInv, crtat > 0, Becomes(scroll([display |-> display, crtat |-> crtat - 1]))
    PROVE  Shows
<1> DEFINE row == RowOf(crtat)
           col == ColOf(crtat)
           e == (row - 1) * COL
           a == crtat - 1
<1>1. COL \in Nat \ {0} /\ ROW \in Nat \ {0} /\ crtat \in Cell
  BY Sizes DEF ConInv
<1>2. row \in 1 .. ROW /\ col \in 1 .. COL /\ crtat \in Nat /\ e \in Nat
      /\ crtat = e + col - 1
  BY <1>1, RowCol
<1>3. Becomes(scroll([display |-> display, crtat |-> a])) /\ crtat > 0
  OBVIOUS
<1> HIDE DEF row, col
<1>4. CASE col > 1
  <2> DEFINE x == col - 1
  <2>1. x \in 1 .. COL /\ a = e + x - 1
    <3> HIDE DEF e
    <3> QED
      BY <1>1, <1>2, <1>4
  <2> HIDE DEF x
  <2>2. a \in Cell /\ RowOf(a) = row /\ ColOf(a) = x
    <3>1. e + x - 1 \in Cell /\ RowOf(e + x - 1) = row /\ ColOf(e + x - 1) = x
      BY <1>2, <2>1, PlaceOf
    <3> HIDE DEF e, a
    <3> QED
      BY <2>1, <3>1
  <2> HIDE DEF a
  <2>3. display' = display /\ crtat' = a /\ ConInv'
    BY <1>3, <2>2, MovesIn
  <2>4. /\ Lines(display') = Lines(display) /\ ColOf(crtat) > 1
        /\ ColOf(crtat') = ColOf(crtat) - 1 /\ RowOf(crtat') = RowOf(crtat)
    BY <1>4, <2>2, <2>3 DEF x, col, row
  <2>5. Screen!Back
    BY <2>4 DEF Screen!Back, Lines, RowOf, ColOf
  <2> QED
    BY <2>3, <2>5 DEF Shows, Screen!TermNext
<1>5. CASE col = 1
  <2> DEFINE r == row - 1
             b == (r - 1) * COL
  <2>1. crtat = e
    <3> HIDE DEF e
    <3> QED
      BY <1>2, <1>5
  <2>2. row > 1
    <3> SUFFICES ASSUME row = 1  PROVE FALSE
      BY <1>1, <1>2
    <3>1. e = 0
      BY <1>1
    <3> QED
      BY <1>3, <2>1, <3>1
  <2>3. r \in 1 .. ROW /\ COL \in 1 .. COL
    BY <1>1, <1>2, <2>2
  <2>4. b \in Nat /\ e = b + COL
    BY <1>1, <2>3
  <2>5. a = b + COL - 1
    <3> HIDE DEF b, e
    <3> QED
      BY <1>1, <2>1, <2>4
  <2> HIDE DEF r
  <2>6. a \in Cell /\ RowOf(a) = r /\ ColOf(a) = COL
    <3>1. b + COL - 1 \in Cell /\ RowOf(b + COL - 1) = r /\ ColOf(b + COL - 1) = COL
      BY <2>3, PlaceOf
    <3> HIDE DEF b, a
    <3> QED
      BY <2>5, <3>1
  <2> HIDE DEF a
  <2>7. display' = display /\ crtat' = a /\ ConInv'
    BY <1>3, <2>6, MovesIn
  <2>8. /\ Lines(display') = Lines(display) /\ ColOf(crtat) = 1 /\ RowOf(crtat) > 1
        /\ ColOf(crtat') = COL /\ RowOf(crtat') = RowOf(crtat) - 1
    BY <1>5, <2>2, <2>6, <2>7 DEF r, col, row
  <2>9. Screen!Back
    BY <2>8 DEF Screen!Back, Lines, RowOf, ColOf
  <2> QED
    BY <2>7, <2>9 DEF Shows, Screen!TermNext
<1> QED
  BY <1>1, <1>2, <1>4, <1>5

LEMMA NewlineShows ==
    ASSUME ConInv,
           Becomes(scroll([display |-> display, crtat |-> crtat + (COL - (crtat % COL))]))
    PROVE  Shows
<1> DEFINE row == RowOf(crtat)
           a == crtat + (COL - (crtat % COL))
<1>1. COL \in Nat \ {0} /\ crtat \in Cell /\ display \in [Cell -> Glyph]
  BY Sizes DEF ConInv
<1>2. a = row * COL
  <2>1. crtat \in Nat /\ row \in Nat
    BY <1>1, RowCol
  <2> DEFINE q == crtat \div COL
             y == crtat % COL
  <2>2. q \in Nat /\ y \in 0 .. COL - 1 /\ crtat = q * COL + y
    BY <1>1, <2>1, Divides
  <2>3. row = q + 1 /\ a = crtat + (COL - y)
    BY DEF RowOf
  <2> HIDE DEF q, y, row, a
  <2>4. (q + 1) * COL = q * COL + COL /\ q * COL \in Nat
    BY <1>1, <2>2
  <2> QED
    BY <1>1, <2>2, <2>3, <2>4
<1>3. Becomes(scroll([display |-> display, crtat |-> row * COL]))
  BY <1>2
<1>4. NextLine_(Lines(display)) /\ crtat' \in Cell
  BY <1>1, <1>3, NextLineIs
<1>5. Screen!Newline
  BY <1>4 DEF Screen!Newline, Screen!NextLine, Screen!BlankLine, NextLine_, Lines, RowOf, ColOf
<1>6. display' \in [Cell -> Glyph]
  BY <1>1, <1>3, ScrollKeeps DEF Becomes
<1> QED
  BY <1>4, <1>5, <1>6 DEF Shows, ConInv, Screen!TermNext

LEMMA ConsoleShows == ASSUME ConInv, NextConsole  PROVE Shows
<1> DEFINE s == [display |-> display, crtat |-> crtat]
<1>1. PICK c \in Glyph \cup {"\t", "\n", "\r", BS} : Putc(c)
  BY DEF NextConsole
<1>2. Becomes(kbmputc(s, c)) /\ (c = BS => crtat > 0)
  BY <1>1 DEF Putc, Becomes
<1>3. s.crtat = crtat /\ s.display = display
      /\ \A n : [s EXCEPT !.crtat = n] = [display |-> display, crtat |-> n]
  OBVIOUS
<1> HIDE DEF s
<1>4. CASE c = "\t"
  BY <1>2, <1>4, TabShows DEF s
<1>5. CASE c = BS
  <2>1. kbmputc(s, c) = scroll([display |-> display, crtat |-> crtat - 1])
    BY <1>3, <1>5 DEF kbmputc, BS
  <2> QED
    BY <1>2, <1>5, <2>1, BackShows
<1>6. CASE c = "\n"
  <2>1. kbmputc(s, c) = scroll([display |-> display, crtat |-> crtat + (COL - (crtat % COL))])
    BY <1>3, <1>6 DEF kbmputc, BS
  <2> QED
    BY <1>2, <2>1, NewlineShows
<1>7. CASE c = "\r"
  <2>1. kbmputc(s, c) = scroll([display |-> display, crtat |-> crtat - (crtat % COL)])
    BY <1>3, <1>7 DEF kbmputc, BS
  <2> QED
    BY <1>2, <2>1, ReturnShows
<1>8. CASE c \notin {"\t", "\n", "\r", BS}
  <2>1. kbmputc(s, c) = put(s, c)
    BY <1>8 DEF kbmputc, BS
  <2> QED
    BY <1>1, <1>2, <1>8, <2>1, GlyphShows DEF s
<1> QED
  BY <1>4, <1>5, <1>6, <1>7, <1>8

LEMMA ConsoleStart == InitConsole => ConInv /\ Screen!TermInit
<1> SUFFICES ASSUME InitConsole  PROVE ConInv /\ Screen!TermInit
  OBVIOUS
<1>1. ConInv
  BY DEF InitConsole, ConInv
<1>2. crtat \in Cell /\ RowOf(crtat) \in 1 .. ROW /\ ColOf(crtat) \in 1 .. COL
  BY <1>1, RowCol DEF ConInv
<1>3. \A r \in 1 .. ROW : \A x \in 1 .. COL : Lines(display)[r][x] = display[(r - 1) * COL + x - 1]
  BY DEF Lines
<1>4. Lines(display) \in [1 .. ROW -> [1 .. COL -> Glyph]]
  <2>1. \A r \in 1 .. ROW : \A x \in 1 .. COL : display[(r - 1) * COL + x - 1] \in Glyph
    <3> TAKE r \in 1 .. ROW
    <3> TAKE x \in 1 .. COL
    <3>1. (r - 1) * COL + x - 1 \in Cell
      BY PlaceOf
    <3> QED
      BY <1>1, <3>1 DEF ConInv
  <2> QED
    BY <2>1 DEF Lines
<1>5. ASSUME NEW r \in 1 .. ROW, NEW x \in 1 .. COL,
             r > RowOf(crtat) \/ (r = RowOf(crtat) /\ x >= ColOf(crtat))
      PROVE  Lines(display)[r][x] = " "
  <2> DEFINE b == (r - 1) * COL
             row == RowOf(crtat)
             col == ColOf(crtat)
             e == (row - 1) * COL
  <2>1. b + x - 1 \in Cell
    BY PlaceOf
  <2>2. COL \in Nat \ {0} /\ ROW \in Nat \ {0}
    BY Sizes
  <2>3. row \in 1 .. ROW /\ col \in 1 .. COL /\ e \in Nat /\ crtat = e + col - 1
    BY <1>2, RowCol
  <2>4. (r > row) \/ (r = row /\ x >= col)
    BY <1>5
  <2> HIDE DEF row, col
  <2>5. b \in Nat
    BY <2>2
  <2>6. row < r => e + COL <= b
    <3>1. row < r => row - 1 < r - 1
      BY <2>3
    <3>2. row - 1 \in Nat /\ r - 1 \in Nat
      BY <2>3
    <3> QED
      BY <2>2, <3>1, <3>2, ProductGrows
  <2>7. r = row => b = e
    OBVIOUS
  <2> HIDE DEF b, e
  <2>8. b + x - 1 >= crtat
    BY <2>2, <2>3, <2>4, <2>5, <2>6, <2>7
  <2>9. display[b + x - 1] = " "
    BY <2>1, <2>8 DEF InitConsole
  <2> QED
    BY <1>3, <2>9 DEF b
<1>6. Screen!TermInit
  BY <1>2, <1>4, <1>5 DEF Screen!TermInit, Lines, RowOf, ColOf
<1> QED
  BY <1>1, <1>6

\* The display is a terminal, of any size: lines wrap and scroll one at a time, also from
\* a tab or a character in the last cell, and the cursor is never off the display.
THEOREM ConsoleIsTerminal == InitConsole /\ [][NextConsole]_conVars => ImplementsTerminal
<1>1. InitConsole => ConInv /\ Screen!TermInit
  BY ConsoleStart
<1>2. ConInv /\ [NextConsole]_conVars => ConInv' /\ [Screen!TermNext]_(Screen!termVars)
  <2> SUFFICES ASSUME ConInv, [NextConsole]_conVars
               PROVE  ConInv' /\ [Screen!TermNext]_(Screen!termVars)
    OBVIOUS
  <2>1. CASE NextConsole
    BY <2>1, ConsoleShows DEF Shows
  <2>2. CASE UNCHANGED conVars
    <3>1. display' = display /\ crtat' = crtat
      BY <2>2 DEF conVars
    <3> QED
      BY <3>1 DEF ConInv, Screen!termVars
  <2> QED
    BY <2>1, <2>2
<1> QED
  BY <1>1, <1>2, PTL DEF ImplementsTerminal, Screen!TermSpec

-----------------------------------------------------------------------------
(* String functions: modules Strings and Library                            *)

\* A loop that looks at one offset after the other and stops at one of a set T, with a
\* value that is known there.
Looks(f, T, V) == f = [i \in Nat |-> IF i \in T THEN V[i] ELSE f[i + 1]]
FirstFrom(T, i, j) == j \in T /\ i <= j /\ \A m \in i .. j - 1 : m \notin T

\* There is such a function of the offset, whether the loop stops or not.
LEMMA LoopExists ==
    ASSUME NEW T \in SUBSET Nat, NEW V  PROVE \E f : Looks(f, T, V)
<1> DEFINE f == [i \in Nat |-> IF \E j \in Nat : FirstFrom(T, i, j)
                               THEN V[CHOOSE j \in Nat : FirstFrom(T, i, j)] ELSE 0]
<1>1. ASSUME NEW i \in Nat  PROVE f[i] = IF i \in T THEN V[i] ELSE f[i + 1]
  <2>1. CASE i \in T
    <3>1. FirstFrom(T, i, i)
      BY <2>1 DEF FirstFrom
    <3>2. \A j \in Nat : FirstFrom(T, i, j) => j = i
      BY <2>1 DEF FirstFrom
    <3>3. (CHOOSE j \in Nat : FirstFrom(T, i, j)) = i
      BY <3>1, <3>2
    <3> QED
      BY <2>1, <3>1, <3>3
  <2>2. CASE i \notin T
    <3>1. \A j \in Nat : FirstFrom(T, i, j) <=> FirstFrom(T, i + 1, j)
      <4> TAKE j \in Nat
      <4>1. FirstFrom(T, i, j) => FirstFrom(T, i + 1, j)
        BY <2>2 DEF FirstFrom
      <4>2. FirstFrom(T, i + 1, j) => FirstFrom(T, i, j)
        BY <2>2 DEF FirstFrom
      <4> QED
        BY <4>1, <4>2
    <3>2. (CHOOSE j \in Nat : FirstFrom(T, i, j)) = (CHOOSE j \in Nat : FirstFrom(T, i + 1, j))
      BY <3>1
    <3>3. (\E j \in Nat : FirstFrom(T, i, j)) <=> (\E j \in Nat : FirstFrom(T, i + 1, j))
      BY <3>1
    <3>4. i + 1 \in Nat
      OBVIOUS
    <3> HIDE DEF FirstFrom
    <3> QED
      BY <2>2, <3>2, <3>3, <3>4
  <2> QED
    BY <2>1, <2>2
<1>2. Looks(f, T, V)
  <2>1. f = [i \in Nat |-> f[i]]
    OBVIOUS
  <2> HIDE DEF f
  <2> QED
    BY <1>1, <2>1 DEF Looks
<1> QED
  BY <1>2

\* It stops at the first offset of T.
LEMMA LoopStops ==
    ASSUME NEW T \in SUBSET Nat, NEW V, NEW f, Looks(f, T, V),
           NEW e \in Nat, FirstFrom(T, 0, e)
    PROVE  f[0] = V[e]
<1> DEFINE S == {k \in Nat : k <= e => f[k] = f[0]}
<1>1. 0 \in S
  OBVIOUS
<1>2. \A k \in Nat : k \in S => k + 1 \in S
  <2> SUFFICES ASSUME NEW k \in Nat, k \in S, k + 1 <= e  PROVE f[k + 1] = f[0]
    OBVIOUS
  <2>1. k \notin T /\ f[k] = f[0]
    BY DEF FirstFrom
  <2>2. f[k] = f[k + 1]
    BY <2>1 DEF Looks
  <2> QED
    BY <2>1, <2>2
<1>3. e \in S
  <2> HIDE DEF S
  <2> QED
    BY <1>1, <1>2, StepInduction
<1>4. f[e] = V[e]
  BY DEF Looks, FirstFrom
<1> QED
  BY <1>3, <1>4

\* A set of numbers that is not empty has a first.
LEMMA FirstExists ==
    ASSUME NEW T \in SUBSET Nat, NEW x \in T  PROVE \E e \in Nat : FirstFrom(T, 0, e) /\ e <= x
<1> SUFFICES ASSUME \A e \in Nat : ~(FirstFrom(T, 0, e) /\ e <= x)  PROVE FALSE
  OBVIOUS
<1> DEFINE S == {k \in Nat : k <= x => \A m \in 0 .. k : m \notin T}
<1>1. 0 \in S
  <2>1. FirstFrom(T, 0, 0) <=> 0 \in T
    BY DEF FirstFrom
  <2> QED
    BY <2>1
<1>2. \A k \in Nat : k \in S => k + 1 \in S
  <2> SUFFICES ASSUME NEW k \in Nat, k \in S, k + 1 <= x  PROVE \A m \in 0 .. k + 1 : m \notin T
    OBVIOUS
  <2>1. \A m \in 0 .. k : m \notin T
    OBVIOUS
  <2>2. k + 1 \in T => FirstFrom(T, 0, k + 1)
    BY <2>1 DEF FirstFrom
  <2> QED
    BY <2>1, <2>2
<1>3. x \in S
  <2> HIDE DEF S
  <2> QED
    BY <1>1, <1>2, StepInduction
<1> QED
  BY <1>3

\* What the loop returns, when it is the function that C's recursion would define.
LEMMA LoopReturns ==
    ASSUME NEW T \in SUBSET Nat, NEW V, NEW e \in Nat, FirstFrom(T, 0, e)
    PROVE  (CHOOSE f : Looks(f, T, V))[0] = V[e]
<1>1. PICK f : Looks(f, T, V)
  BY LoopExists
<1>2. Looks(CHOOSE g : Looks(g, T, V), T, V)
  <2> HIDE DEF Looks
  <2> QED
    BY <1>1
<1> QED
  BY <1>2, LoopStops

\* The NUL that ends a string is the first in its array.
EndsAt(s, e) == e \in Nat /\ s[e] = 0 /\ \A j \in 0 .. e - 1 : s[j] # 0
HasString(s, last, e) ==
    /\ last \in Nat /\ s \in [0 .. last -> Nat]
    /\ e \in 0 .. last /\ EndsAt(s, e)

LEMMA ArraysHaveStrings ==
    ASSUME NEW s \in Arrays  PROVE \E last \in Nat, e \in Nat : HasString(s, last, e)
<1>1. PICK last \in DOMAIN s : s \in [0 .. last -> Nat]
  BY StringAssumption
<1>2. PICK k \in DOMAIN s : s[k] = 0
  BY StringAssumption
<1>3. last \in Nat /\ k \in 0 .. last /\ DOMAIN s = 0 .. last
  BY <1>1, <1>2
<1> DEFINE T == {i \in 0 .. last : s[i] = 0}
<1>4. T \in SUBSET Nat /\ k \in T
  BY <1>2, <1>3
<1>5. PICK e \in Nat : FirstFrom(T, 0, e)
  <2> HIDE DEF T
  <2> QED
    BY <1>4, FirstExists
<1>6. e \in 0 .. last /\ EndsAt(s, e)
  BY <1>3, <1>5 DEF FirstFrom, EndsAt
<1> QED
  BY <1>1, <1>3, <1>6 DEF HasString

LEMMA strlenIs ==
    ASSUME NEW s, NEW d, EndsAt(s, d)
    PROVE  strlen(s) = d
<1> DEFINE T == {i \in Nat : s[i] = 0}
           V == [i \in Nat |-> i]
           Runs(f) == f = [i \in Nat |-> IF s[i] = 0 THEN i ELSE f[i + 1]]
<1>1. T \in SUBSET Nat /\ FirstFrom(T, 0, d)
  BY DEF FirstFrom, EndsAt
<1>2. \A f : Runs(f) <=> Looks(f, T, V)
  <2> TAKE f
  <2>1. [i \in Nat |-> IF s[i] = 0 THEN i ELSE f[i + 1]]
        = [i \in Nat |-> IF i \in T THEN V[i] ELSE f[i + 1]]
    OBVIOUS
  <2> QED
    BY <2>1 DEF Looks
<1>3. V[d] = d /\ d \in Nat
  BY DEF EndsAt
<1>4. strlen(s) = (CHOOSE f : Runs(f))[0]
  BY DEF strlen
<1> HIDE DEF T, V, Runs
<1>5. (CHOOSE f : Runs(f)) = (CHOOSE f : Looks(f, T, V))
  BY <1>2
<1>6. (CHOOSE f : Looks(f, T, V))[0] = V[d]
  BY <1>1, <1>3, LoopReturns
<1>7. strlen(s) = V[d]
  BY <1>4, <1>5, <1>6, Zenon
<1> QED
  BY <1>3, <1>7

\* Where the loop of strcmp() ends: at a difference or a common NUL.
Differs(s1, s2) == {i \in Nat : s1[i] # s2[i] \/ s1[i] = 0}

LEMMA strcmpIs ==
    ASSUME NEW s1, NEW s2, NEW d \in Nat, FirstFrom(Differs(s1, s2), 0, d)
    PROVE  strcmp(s1, s2) = IF s1[d] = s2[d] THEN 0 ELSE s1[d] - s2[d]
<1> DEFINE T == Differs(s1, s2)
           V == [i \in Nat |-> IF s1[i] = s2[i] THEN 0 ELSE s1[i] - s2[i]]
           Runs(f) == f = [i \in Nat |-> IF s1[i] # s2[i] THEN s1[i] - s2[i]
                                         ELSE IF s1[i] = 0 THEN 0 ELSE f[i + 1]]
<1>1. T \in SUBSET Nat /\ FirstFrom(T, 0, d)
  BY DEF Differs
<1>2. \A f : Runs(f) <=> Looks(f, T, V)
  <2> TAKE f
  <2>1. [i \in Nat |-> IF s1[i] # s2[i] THEN s1[i] - s2[i]
                                         ELSE IF s1[i] = 0 THEN 0 ELSE f[i + 1]]
        = [i \in Nat |-> IF i \in T THEN V[i] ELSE f[i + 1]]
    BY DEF Differs
  <2> QED
    BY <2>1 DEF Looks
<1>3. V[d] = IF s1[d] = s2[d] THEN 0 ELSE s1[d] - s2[d]
  OBVIOUS
<1>4. strcmp(s1, s2) = (CHOOSE f : Runs(f))[0]
  BY DEF strcmp
<1> HIDE DEF T, V, Runs
<1>5. (CHOOSE f : Runs(f)) = (CHOOSE f : Looks(f, T, V))
  BY <1>2
<1>6. (CHOOSE f : Looks(f, T, V))[0] = V[d]
  BY <1>1, LoopReturns
<1>7. strcmp(s1, s2) = V[d]
  BY <1>4, <1>5, <1>6, Zenon
<1> QED
  BY <1>3, <1>7

\* strncmp() ends after n characters as well.
LEMMA strncmpIs ==
    ASSUME NEW s1, NEW s2, NEW n \in Nat, NEW d \in Nat,
           FirstFrom(Differs(s1, s2) \cup {n}, 0, d)
    PROVE  strncmp(s1, s2, n) = IF d = n \/ s1[d] = s2[d] THEN 0 ELSE s1[d] - s2[d]
<1> DEFINE T == Differs(s1, s2) \cup {n}
           V == [i \in Nat |-> IF i = n \/ s1[i] = s2[i] THEN 0 ELSE s1[i] - s2[i]]
           Runs(f) == f = [i \in Nat |-> IF i = n THEN 0
                                         ELSE IF s1[i] # s2[i] THEN s1[i] - s2[i]
                                         ELSE IF s1[i] = 0 THEN 0 ELSE f[i + 1]]
<1>1. T \in SUBSET Nat /\ FirstFrom(T, 0, d)
  BY DEF Differs
<1>2. \A f : Runs(f) <=> Looks(f, T, V)
  <2> TAKE f
  <2>1. [i \in Nat |-> IF i = n THEN 0
                                         ELSE IF s1[i] # s2[i] THEN s1[i] - s2[i]
                                         ELSE IF s1[i] = 0 THEN 0 ELSE f[i + 1]]
        = [i \in Nat |-> IF i \in T THEN V[i] ELSE f[i + 1]]
    BY DEF Differs
  <2> QED
    BY <2>1 DEF Looks
<1>3. V[d] = IF d = n \/ s1[d] = s2[d] THEN 0 ELSE s1[d] - s2[d]
  OBVIOUS
<1>4. strncmp(s1, s2, n) = (CHOOSE f : Runs(f))[0]
  BY DEF strncmp
<1> HIDE DEF T, V, Runs
<1>5. (CHOOSE f : Runs(f)) = (CHOOSE f : Looks(f, T, V))
  BY <1>2
<1>6. (CHOOSE f : Looks(f, T, V))[0] = V[d]
  BY <1>1, LoopReturns
<1>7. strncmp(s1, s2, n) = V[d]
  BY <1>4, <1>5, <1>6, Zenon
<1> QED
  BY <1>3, <1>7

LEMMA indexIs ==
    ASSUME NEW s, NEW c, NEW d \in Nat, FirstFrom({i \in Nat : s[i] = c \/ s[i] = 0}, 0, d)
    PROVE  index(s, c) = IF s[d] = c THEN d ELSE NULL
<1> DEFINE T == {i \in Nat : s[i] = c \/ s[i] = 0}
           V == [i \in Nat |-> IF s[i] = c THEN i ELSE NULL]
           Runs(f) == f = [i \in Nat |-> IF s[i] = c THEN i ELSE IF s[i] = 0 THEN NULL ELSE f[i + 1]]
<1>1. T \in SUBSET Nat /\ FirstFrom(T, 0, d)
  OBVIOUS
<1>2. \A f : Runs(f) <=> Looks(f, T, V)
  <2> TAKE f
  <2>1. [i \in Nat |-> IF s[i] = c THEN i ELSE IF s[i] = 0 THEN NULL ELSE f[i + 1]]
        = [i \in Nat |-> IF i \in T THEN V[i] ELSE f[i + 1]]
    OBVIOUS
  <2> QED
    BY <2>1 DEF Looks
<1>3. V[d] = IF s[d] = c THEN d ELSE NULL
  OBVIOUS
<1>4. index(s, c) = (CHOOSE f : Runs(f))[0]
  BY DEF index
<1> HIDE DEF T, V, Runs
<1>5. (CHOOSE f : Runs(f)) = (CHOOSE f : Looks(f, T, V))
  BY <1>2
<1>6. (CHOOSE f : Looks(f, T, V))[0] = V[d]
  BY <1>1, LoopReturns
<1>7. index(s, c) = V[d]
  BY <1>4, <1>5, <1>6, Zenon
<1> QED
  BY <1>3, <1>7

\* The last place of c up to an offset.
LastUpTo(s, c, i, j) == j \in 0 .. i /\ s[j] = c /\ \A m \in j + 1 .. i : s[m] # c

LEMMA rindexIs ==
    ASSUME NEW s, NEW c, NEW e, EndsAt(s, e)
    PROVE  /\ \A j : LastUpTo(s, c, e, j) => rindex(s, c) = j
           /\ (\A j \in 0 .. e : s[j] # c) => rindex(s, c) = NULL
<1> DEFINE Runs(f) == f = [i \in -1 .. strlen(s) |->
                              IF i = -1 THEN NULL ELSE IF s[i] = c THEN i ELSE f[i - 1]]
           g == [i \in -1 .. e |-> IF \E j : LastUpTo(s, c, i, j)
                                   THEN CHOOSE j : LastUpTo(s, c, i, j) ELSE NULL]
           r == CHOOSE f : Runs(f)
<1>1. e \in Nat /\ strlen(s) = e
  BY strlenIs DEF EndsAt
<1>2. ASSUME NEW i \in -1 .. e
      PROVE  g[i] = IF i = -1 THEN NULL ELSE IF s[i] = c THEN i ELSE g[i - 1]
  <2>1. CASE i = -1
    <3>1. \A j : ~LastUpTo(s, c, -1, j)
      BY DEF LastUpTo
    <3> QED
      BY <2>1, <3>1, <1>1
  <2>2. CASE i # -1 /\ s[i] = c
    <3>1. i \in Nat
      BY <1>1, <2>2
    <3>2. LastUpTo(s, c, i, i)
      BY <2>2, <3>1 DEF LastUpTo
    <3>3. \A j : LastUpTo(s, c, i, j) => j = i
      BY <2>2, <3>1 DEF LastUpTo
    <3>4. (CHOOSE j : LastUpTo(s, c, i, j)) = i
      BY <3>2, <3>3
    <3> QED
      BY <2>2, <3>2, <3>4
  <2>3. CASE i # -1 /\ s[i] # c
    <3>1. i \in Nat /\ i - 1 \in -1 .. e
      BY <1>1, <2>3
    <3>2. \A j : LastUpTo(s, c, i, j) <=> LastUpTo(s, c, i - 1, j)
      <4> TAKE j
      <4>1. LastUpTo(s, c, i, j) => LastUpTo(s, c, i - 1, j)
        BY <2>3, <3>1 DEF LastUpTo
      <4>2. LastUpTo(s, c, i - 1, j) => LastUpTo(s, c, i, j)
        BY <2>3, <3>1 DEF LastUpTo
      <4> QED
        BY <4>1, <4>2
    <3>3. (CHOOSE j : LastUpTo(s, c, i, j)) = (CHOOSE j : LastUpTo(s, c, i - 1, j))
      BY <3>2
    <3>4. (\E j : LastUpTo(s, c, i, j)) <=> (\E j : LastUpTo(s, c, i - 1, j))
      BY <3>2
    <3> HIDE DEF LastUpTo
    <3> QED
      BY <2>3, <3>1, <3>3, <3>4
  <2> QED
    BY <2>1, <2>2, <2>3
<1>3. Runs(g)
  <2>1. g = [i \in -1 .. e |-> g[i]]
    OBVIOUS
  <2> HIDE DEF g
  <2> QED
    BY <1>1, <1>2, <2>1
<1>4. Runs(r)
  <2> HIDE DEF Runs, g
  <2> QED
    BY <1>3
<1>5. rindex(s, c) = r[e]
  BY <1>1 DEF rindex
<1>6. \A i \in 0 .. e : r[i] = IF s[i] = c THEN i ELSE r[i - 1]
  <2> HIDE DEF r
  <2> QED
    BY <1>1, <1>4
<1>7. r[-1] = NULL
  <2> HIDE DEF r
  <2> QED
    BY <1>1, <1>4
<1> HIDE DEF r, g, Runs
<1>8. \A i \in 0 .. e : s[i] # c => r[i] = r[i - 1]
  BY <1>6
<1>9. ASSUME NEW j, LastUpTo(s, c, e, j)  PROVE r[e] = j
  <2> DEFINE S == {k \in Nat : j + k <= e => r[j + k] = j}
  <2>1. j \in Nat /\ j <= e /\ r[j] = j
    BY <1>1, <1>6, <1>9 DEF LastUpTo
  <2>2. 0 \in S
    BY <2>1
  <2>3. \A k \in Nat : k \in S => k + 1 \in S
    <3> SUFFICES ASSUME NEW k \in Nat, k \in S, j + (k + 1) <= e  PROVE r[j + (k + 1)] = j
      OBVIOUS
    <3>1. j + (k + 1) \in j + 1 .. e /\ j + (k + 1) \in 0 .. e /\ j + (k + 1) - 1 = j + k
      BY <1>1, <2>1
    <3>2. s[j + (k + 1)] # c
      BY <1>9, <3>1 DEF LastUpTo
    <3>3. r[j + k] = j
      BY <1>1, <2>1
    <3> HIDE DEF S
    <3>4. r[j + (k + 1)] = r[j + (k + 1) - 1]
      BY <1>1, <1>8, <2>1, <3>1, <3>2
    <3> QED
      BY <3>1, <3>3, <3>4
  <2>4. e - j \in S
    <3> HIDE DEF S
    <3> QED
      BY <1>1, <2>1, <2>2, <2>3, StepInduction
  <2> QED
    BY <1>1, <2>1, <2>4
<1>10. ASSUME \A j \in 0 .. e : s[j] # c  PROVE r[e] = NULL
  <2> DEFINE S == {k \in Nat : k <= e => r[k] = NULL}
  <2>1. 0 \in S
    BY <1>1, <1>6, <1>7, <1>10
  <2>2. \A k \in Nat : k \in S => k + 1 \in S
    <3> SUFFICES ASSUME NEW k \in Nat, k \in S, k + 1 <= e  PROVE r[k + 1] = NULL
      OBVIOUS
    <3> QED
      BY <1>1, <1>6, <1>10
  <2>3. e \in S
    <3> HIDE DEF S
    <3> QED
      BY <1>1, <2>1, <2>2, StepInduction
  <2> QED
    BY <1>1, <2>3
<1> QED
  BY <1>5, <1>9, <1>10

\* Copying characters 0 .. m of s2 behind the first characters of s1.
Over(s1, at_, s2, m) ==
    [j \in DOMAIN s1 |-> IF at_ <= j /\ j <= at_ + m THEN s2[j - at_] ELSE s1[j]]

\* The loop that copies, as a function of the characters copied.
Moves(f, s1, at_, s2) ==
    f = [i \in Nat |-> [(IF i = 0 THEN s1 ELSE f[i - 1]) EXCEPT ![at_ + i] = s2[i]]]

LEMMA MovesOver ==
    ASSUME NEW last \in Nat, NEW s1 \in [0 .. last -> Nat], NEW a \in Nat, NEW s2, NEW m \in Nat
    PROVE  (CHOOSE f : Moves(f, s1, a, s2))[m] = Over(s1, a, s2, m)
<1> DEFINE g == [i \in Nat |-> Over(s1, a, s2, i)]
           f == CHOOSE f : Moves(f, s1, a, s2)
<1>1. Over(s1, a, s2, 0) = [s1 EXCEPT ![a + 0] = s2[0]]
  <2>1. \A j \in 0 .. last : a <= j /\ j <= a + 0 <=> j = a
    OBVIOUS
  <2>2. a - a = 0 /\ a + 0 = a
    OBVIOUS
  <2> QED
    BY <2>1, <2>2 DEF Over
<1>2. ASSUME NEW i \in Nat \ {0}
      PROVE  Over(s1, a, s2, i) = [Over(s1, a, s2, i - 1) EXCEPT ![a + i] = s2[i]]
  <2>1. \A j \in 0 .. last : /\ j <= a + i <=> j = a + i \/ j <= a + (i - 1)
                             /\ ~(j = a + i /\ j <= a + (i - 1))
    OBVIOUS
  <2>2. a <= a + i /\ (a + i) - a = i
    OBVIOUS
  <2>3. DOMAIN s1 = 0 .. last
    OBVIOUS
  <2>4. [Over(s1, a, s2, i - 1) EXCEPT ![a + i] = s2[i]]
        = [j \in 0 .. last |-> IF j = a + i THEN s2[i] ELSE Over(s1, a, s2, i - 1)[j]]
    BY <2>3 DEF Over
  <2>5. \A j \in 0 .. last : Over(s1, a, s2, i)[j]
                             = IF j = a + i THEN s2[i] ELSE Over(s1, a, s2, i - 1)[j]
    BY <2>1, <2>2, <2>3 DEF Over
  <2>6. Over(s1, a, s2, i) = [j \in 0 .. last |-> Over(s1, a, s2, i)[j]]
    BY <2>3 DEF Over
  <2> QED
    BY <2>4, <2>5, <2>6
<1>3. Moves(g, s1, a, s2)
  <2>1. \A i \in Nat : g[i] = [(IF i = 0 THEN s1 ELSE g[i - 1]) EXCEPT ![a + i] = s2[i]]
    <3> TAKE i \in Nat
    <3>1. CASE i = 0
      BY <1>1, <3>1
    <3>2. CASE i # 0
      <4>1. i - 1 \in Nat /\ i \in Nat \ {0}
        BY <3>2
      <4>2. g[i - 1] = Over(s1, a, s2, i - 1) /\ g[i] = Over(s1, a, s2, i)
        BY <4>1
      <4> HIDE DEF g
      <4> QED
        BY <1>2, <3>2, <4>1, <4>2
    <3> QED
      BY <3>1, <3>2
  <2>2. g = [i \in Nat |-> g[i]]
    OBVIOUS
  <2> HIDE DEF g
  <2> QED
    BY <2>1, <2>2 DEF Moves
<1>4. Moves(f, s1, a, s2)
  <2> HIDE DEF Moves, g
  <2> QED
    BY <1>3
<1> HIDE DEF f
<1> DEFINE S == {k \in Nat : f[k] = Over(s1, a, s2, k)}
<1>5. 0 \in S
  BY <1>1, <1>4 DEF Moves
<1>6. \A k \in Nat : k \in S => k + 1 \in S
  <2> SUFFICES ASSUME NEW k \in Nat, k \in S  PROVE f[k + 1] = Over(s1, a, s2, k + 1)
    OBVIOUS
  <2>1. k + 1 \in Nat \ {0} /\ (k + 1) - 1 = k /\ k + 1 # 0
    OBVIOUS
  <2>2. f[k + 1] = [f[k] EXCEPT ![a + (k + 1)] = s2[k + 1]]
    BY <1>4, <2>1 DEF Moves
  <2>3. Over(s1, a, s2, k + 1) = [Over(s1, a, s2, k) EXCEPT ![a + (k + 1)] = s2[k + 1]]
    BY <1>2, <2>1
  <2> QED
    BY <2>2, <2>3
<1>7. m \in S
  <2> HIDE DEF S
  <2> QED
    BY <1>5, <1>6, StepInduction
<1> QED
  BY <1>7 DEF f

\* The first characters of an array, as a sequence.
Chars(s, k) == [i \in 1 .. k |-> s[i - 1]]

LEMMA StrIs ==
    ASSUME NEW s, NEW e, EndsAt(s, e), e \in DOMAIN s, DOMAIN s \subseteq Nat
    PROVE  Str(s) = Chars(s, e)
<1> DEFINE P(k) == s[k] = 0 /\ \A j \in 0 .. k - 1 : s[j] # 0
           n == CHOOSE k \in DOMAIN s : P(k)
<1>1. e \in Nat /\ P(e)
  BY DEF EndsAt
<1>2. \A k \in DOMAIN s : P(k) => k = e
  <2> SUFFICES ASSUME NEW k \in DOMAIN s, P(k), k # e  PROVE FALSE
    OBVIOUS
  <2>1. k \in Nat
    OBVIOUS
  <2>2. CASE k < e
    BY <1>1, <2>1, <2>2
  <2>3. CASE e < k
    BY <1>1, <2>1, <2>3
  <2> QED
    BY <1>1, <2>1, <2>2, <2>3
<1>3. n = e
  <2> HIDE DEF P
  <2> QED
    BY <1>1, <1>2
<1>4. Str(s) = [i \in 1 .. n |-> s[i - 1]]
  BY DEF Str
<1> HIDE DEF n
<1> QED
  BY <1>3, <1>4 DEF Chars

LEMMA CharsAre ==
    ASSUME NEW k \in Nat, NEW s, \A i \in 0 .. k - 1 : s[i] \in Nat
    PROVE  /\ Chars(s, k) \in Seq(Nat) /\ Len(Chars(s, k)) = k
           /\ \A i \in 1 .. k : Chars(s, k)[i] = s[i - 1]
<1>1. \A i \in 1 .. k : i - 1 \in 0 .. k - 1
  OBVIOUS
<1>2. Chars(s, k) \in [1 .. k -> Nat]
  BY <1>1 DEF Chars
<1>3. Len(Chars(s, k)) = k
  BY <1>2 DEF Chars
<1>4. Chars(s, k) \in Seq(Nat)
  BY <1>2
<1> QED
  BY <1>3, <1>4 DEF Chars

\* Cutting a string off and putting two together are what they are of their arrays.
LEMMA CutIs ==
    ASSUME NEW k \in Nat, NEW s, \A i \in 0 .. k - 1 : s[i] \in Nat, NEW n \in Nat
    PROVE  Cut(Chars(s, k), n) = Chars(s, Lesser(n, k)) /\ Lesser(n, k) \in 0 .. k
<1> DEFINE m == Lesser(n, k)
<1>1. /\ m \in 0 .. k /\ m \in Nat
      /\ Chars(s, k) \in Seq(Nat) /\ Len(Chars(s, k)) = k
      /\ \A i \in 1 .. k : Chars(s, k)[i] = s[i - 1]
  BY CharsAre DEF Lesser
<1>2. Cut(Chars(s, k), n) = SubSeq(Chars(s, k), 1, m)
  BY <1>1 DEF Cut, Lesser
<1> HIDE DEF m
<1>3. \A i \in 0 .. m - 1 : s[i] \in Nat
  BY <1>1
<1>4. /\ Chars(s, m) \in Seq(Nat) /\ Len(Chars(s, m)) = m
      /\ \A i \in 1 .. m : Chars(s, m)[i] = s[i - 1]
  BY <1>1, <1>3, CharsAre
<1>5. \A i \in 1 .. m : Chars(s, k)[i] \in Nat
  BY <1>1, <1>3
<1>6. /\ SubSeq(Chars(s, k), 1, m) \in Seq(Nat)
      /\ Len(SubSeq(Chars(s, k), 1, m)) = m
      /\ \A i \in 1 .. m : SubSeq(Chars(s, k), 1, m)[i] = Chars(s, k)[i]
  BY <1>1, <1>5
<1>7. \A i \in 1 .. m : SubSeq(Chars(s, k), 1, m)[i] = Chars(s, m)[i]
  <2> SUFFICES ASSUME NEW i \in 1 .. m
               PROVE  SubSeq(Chars(s, k), 1, m)[i] = Chars(s, m)[i]
    OBVIOUS
  <2>1. i \in 1 .. k
    BY <1>1
  <2>2. Chars(s, k)[i] = s[i - 1]
    BY <1>1, <2>1
  <2>3. Chars(s, m)[i] = s[i - 1]
    BY <1>4
  <2> QED
    BY <1>6, <2>2, <2>3
<1>8. SubSeq(Chars(s, k), 1, m) = Chars(s, m)
  BY <1>4, <1>6, <1>7, SeqEqual
<1> QED
  BY <1>1, <1>2, <1>8 DEF m

Follow(r, s1, a, s2, m) ==
    /\ \A i \in 0 .. a - 1 : s1[i] \in Nat /\ r[i] = s1[i]
    /\ \A i \in 0 .. m - 1 : s2[i] \in Nat /\ r[a + i] = s2[i]

LEMMA CharsJoin ==
    ASSUME NEW a \in Nat, NEW m \in Nat, NEW s1, NEW s2, NEW r, Follow(r, s1, a, s2, m)
    PROVE  /\ Chars(r, a + m) = Chars(s1, a) \o Chars(s2, m)
           /\ Len(Chars(s1, a) \o Chars(s2, m)) = a + m
<1> DEFINE x == Chars(s1, a)
           y == Chars(s2, m)
           z == Chars(r, a + m)
<1>1. x \in Seq(Nat) /\ Len(x) = a /\ \A i \in 1 .. a : x[i] = s1[i - 1]
  BY CharsAre DEF Follow
<1>2. y \in Seq(Nat) /\ Len(y) = m /\ \A i \in 1 .. m : y[i] = s2[i - 1]
  BY CharsAre DEF Follow
<1>3. \A i \in 0 .. (a + m) - 1 : r[i] \in Nat /\ r[i] = IF i < a THEN s1[i] ELSE s2[i - a]
  <2> SUFFICES ASSUME NEW i \in 0 .. (a + m) - 1
               PROVE  r[i] \in Nat /\ r[i] = IF i < a THEN s1[i] ELSE s2[i - a]
    OBVIOUS
  <2>1. CASE i < a
    <3>1. i \in 0 .. a - 1
      BY <2>1
    <3> QED
      BY <2>1, <3>1 DEF Follow
  <2>2. CASE i >= a
    <3>1. i - a \in 0 .. m - 1 /\ a + (i - a) = i /\ ~(i < a)
      BY <2>2
    <3>2. s2[i - a] \in Nat /\ r[a + (i - a)] = s2[i - a]
      BY <3>1 DEF Follow
    <3> QED
      BY <3>1, <3>2
  <2> QED
    BY <2>1, <2>2
<1>4. z \in Seq(Nat) /\ Len(z) = a + m /\ \A i \in 1 .. a + m : z[i] = r[i - 1]
  BY <1>3, CharsAre
<1> HIDE DEF x, y, z
<1>5. /\ x \o y \in Seq(Nat) /\ Len(x \o y) = a + m
      /\ \A i \in 1 .. a + m : (x \o y)[i] = IF i <= a THEN x[i] ELSE y[i - a]
  <2>1. /\ x \o y \in Seq(Nat) /\ Len(x \o y) = Len(x) + Len(y)
        /\ \A i \in 1 .. Len(x) + Len(y) : (x \o y)[i]
                   = IF i <= Len(x) THEN x[i] ELSE y[i - Len(x)]
    <3>1. x \in Seq(Nat) /\ y \in Seq(Nat)
      BY <1>1, <1>2
    <3> QED
      BY <3>1, ConcatProperties
  <2> QED
    BY <1>1, <1>2, <2>1
<1>6. \A i \in 1 .. a + m : z[i] = (x \o y)[i]
  <2> SUFFICES ASSUME NEW i \in 1 .. a + m  PROVE z[i] = IF i <= a THEN x[i] ELSE y[i - a]
    BY <1>5
  <2>1. i - 1 \in 0 .. (a + m) - 1 /\ z[i] = r[i - 1]
    BY <1>4
  <2>2. CASE i <= a
    <3>1. i \in 1 .. a /\ i - 1 < a
      BY <2>2
    <3> QED
      BY <1>1, <1>3, <2>1, <2>2, <3>1
  <2>3. CASE i > a
    <3>1. i - a \in 1 .. m /\ ~(i - 1 < a) /\ (i - a) - 1 = (i - 1) - a /\ ~(i <= a)
      BY <2>3
    <3>2. y[i - a] = s2[(i - a) - 1] /\ r[i - 1] = s2[(i - 1) - a]
      BY <1>2, <1>3, <2>1, <3>1
    <3> QED
      BY <2>1, <3>1, <3>2
  <2> QED
    BY <2>2, <2>3
<1>7. z = x \o y
  BY <1>4, <1>5, <1>6, SeqEqual
<1> QED
  BY <1>5, <1>7 DEF x, y, z

\* What strcpy(), strcat() and strncat() leave: the first characters of s1, m characters of
\* s2, a NUL, and behind it what was there.
Joined(s1, a, s2, m) ==
    [j \in DOMAIN s1 |-> IF j < a \/ j > a + m THEN s1[j]
                         ELSE IF j = a + m THEN 0 ELSE s2[j - a]]

LEMMA OverEnds ==
    ASSUME NEW last \in Nat, NEW s1 \in [0 .. last -> Nat], NEW a \in Nat,
           NEW s2, NEW e, EndsAt(s2, e)
    PROVE  Over(s1, a, s2, e) = Joined(s1, a, s2, e)
<1>1. e \in Nat /\ s2[e] = 0 /\ (a + e) - a = e /\ DOMAIN s1 = 0 .. last
  BY DEF EndsAt
<1>2. ASSUME NEW j \in 0 .. last
      PROVE  (IF a <= j /\ j <= a + e THEN s2[j - a] ELSE s1[j])
             = (IF j < a \/ j > a + e THEN s1[j] ELSE IF j = a + e THEN 0 ELSE s2[j - a])
  <2>1. CASE j = a + e
    BY <1>1, <2>1
  <2>2. CASE j # a + e
    BY <1>1, <2>2
  <2> QED
    BY <2>1, <2>2
<1> QED
  BY <1>1, <1>2 DEF Over, Joined

LEMMA strcpyIs ==
    ASSUME NEW last \in Nat, NEW s1 \in [0 .. last -> Nat], NEW s2, NEW e, EndsAt(s2, e)
    PROVE  strcpy(s1, s2) = Joined(s1, 0, s2, e)
<1>1. e \in Nat /\ strlen(s2) = e
  BY strlenIs DEF EndsAt
<1>2. strcpy(s1, s2) = (CHOOSE f : Moves(f, s1, 0, s2))[e]
  BY <1>1 DEF strcpy, copy, Moves
<1>3. strcpy(s1, s2) = Over(s1, 0, s2, e)
  <2>1. e \in Nat /\ 0 \in Nat
    BY <1>1
  <2>2. (CHOOSE f : Moves(f, s1, 0, s2))[e] = Over(s1, 0, s2, e)
    BY <2>1, MovesOver, Zenon
  <2> QED
    BY <1>2, <2>2, Zenon
<1> QED
  BY <1>3, OverEnds

LEMMA strcatIs ==
    ASSUME NEW last \in Nat, NEW s1 \in [0 .. last -> Nat], NEW a, EndsAt(s1, a),
           NEW s2, NEW e, EndsAt(s2, e)
    PROVE  strcat(s1, s2) = Joined(s1, a, s2, e)
<1>1. e \in Nat /\ strlen(s2) = e /\ a \in Nat /\ strlen(s1) = a
  BY strlenIs DEF EndsAt
<1>2. strcat(s1, s2) = (CHOOSE f : Moves(f, s1, a, s2))[e]
  BY <1>1 DEF strcat, copy, Moves
<1>3. strcat(s1, s2) = Over(s1, a, s2, e)
  BY <1>1, <1>2, MovesOver
<1> QED
  BY <1>1, <1>3, OverEnds

LEMMA strncatIs ==
    ASSUME NEW last \in Nat, NEW s1 \in [0 .. last -> Nat], NEW a, EndsAt(s1, a),
           NEW s2, NEW e, EndsAt(s2, e), NEW n \in Nat
    PROVE  strncat(s1, s2, n) = Joined(s1, a, s2, Lesser(n, e))
<1>1. e \in Nat /\ strlen(s2) = e /\ a \in Nat /\ strlen(s1) = a
  BY strlenIs DEF EndsAt
<1> DEFINE to == CHOOSE f : Moves(f, s1, a, s2)
<1>2. strncat(s1, s2, n) = IF n >= e THEN to[e] ELSE [to[n] EXCEPT ![a + n] = 0]
  BY <1>1 DEF strncat, Moves
<1>3. to[e] = Over(s1, a, s2, e) /\ to[n] = Over(s1, a, s2, n)
  <2>1. e \in Nat /\ a \in Nat
    BY <1>1
  <2>2. (CHOOSE f : Moves(f, s1, a, s2))[e] = Over(s1, a, s2, e)
    BY <2>1, MovesOver, Zenon
  <2>3. (CHOOSE f : Moves(f, s1, a, s2))[n] = Over(s1, a, s2, n)
    BY <2>1, MovesOver, Zenon
  <2> QED
    BY <2>2, <2>3
<1> HIDE DEF to
<1>4. CASE n >= e
  <2>1. Lesser(n, e) = e
    BY <1>1, <1>4 DEF Lesser
  <2> QED
    BY <1>1, <1>2, <1>3, <1>4, <2>1, OverEnds
<1>5. CASE n < e
  <2>1. Lesser(n, e) = n /\ ~(n >= e) /\ DOMAIN s1 = 0 .. last
    BY <1>1, <1>5 DEF Lesser
  <2>2. [Over(s1, a, s2, n) EXCEPT ![a + n] = 0]
        = [j \in 0 .. last |-> IF j = a + n THEN 0 ELSE Over(s1, a, s2, n)[j]]
    BY <2>1 DEF Over
  <2>3. \A j \in 0 .. last : Over(s1, a, s2, n)[j]
                = IF a <= j /\ j <= a + n THEN s2[j - a] ELSE s1[j]
    BY <2>1 DEF Over
  <2>4. ASSUME NEW j \in 0 .. last
        PROVE  (IF j = a + n THEN 0 ELSE Over(s1, a, s2, n)[j])
               = (IF j < a \/ j > a + n THEN s1[j] ELSE IF j = a + n THEN 0 ELSE s2[j - a])
    BY <1>1, <2>3
  <2>5. [Over(s1, a, s2, n) EXCEPT ![a + n] = 0] = Joined(s1, a, s2, n)
    BY <2>1, <2>2, <2>4 DEF Joined
  <2> QED
    BY <1>2, <1>3, <2>1, <2>5
<1> QED
  BY <1>1, <1>4, <1>5

KeepsBehind(r, s1, k) == \A i \in DOMAIN r : i >= k => r[i] = s1[i]

\* There is room for both, and the first of them is a string up to a.
Joinable(s1, last, a, s2, m) ==
    /\ last \in Nat /\ s1 \in [0 .. last -> Nat]
    /\ a \in Nat /\ \A j \in 0 .. a - 1 : s1[j] # 0
    /\ m \in Nat /\ \A j \in 0 .. m - 1 : s2[j] \in Nat /\ s2[j] # 0
    /\ a + m <= last

\* They leave the string that the two make together, and nothing else is changed.
LEMMA JoinedIs ==
    ASSUME NEW s1, NEW last, NEW a, NEW s2, NEW m, Joinable(s1, last, a, s2, m)
    PROVE  /\ Str(Joined(s1, a, s2, m)) = Chars(s1, a) \o Chars(s2, m)
           /\ KeepsBehind(Joined(s1, a, s2, m), s1, Len(Chars(s1, a) \o Chars(s2, m)) + 1)
<1> SUFFICES ASSUME last \in Nat, s1 \in [0 .. last -> Nat],
                    a \in Nat, \A j \in 0 .. a - 1 : s1[j] # 0,
                    m \in Nat, \A j \in 0 .. m - 1 : s2[j] \in Nat /\ s2[j] # 0,
                    a + m <= last
             PROVE  /\ Str(Joined(s1, a, s2, m)) = Chars(s1, a) \o Chars(s2, m)
                    /\ KeepsBehind(Joined(s1, a, s2, m), s1,
                                   Len(Chars(s1, a) \o Chars(s2, m)) + 1)
  BY DEF Joinable
<1> DEFINE r == Joined(s1, a, s2, m)
           tu == Chars(s1, a) \o Chars(s2, m)
<1>1. DOMAIN r = 0 .. last
  BY DEF Joined
<1>2. \A j \in 0 .. last : r[j] = IF j < a \/ j > a + m THEN s1[j]
                                  ELSE IF j = a + m THEN 0 ELSE s2[j - a]
  BY DEF Joined
<1> HIDE DEF r
<1>3. \A i \in 0 .. a - 1 : s1[i] \in Nat /\ r[i] = s1[i]
  BY <1>2
<1>4. \A i \in 0 .. m - 1 : s2[i] \in Nat /\ r[a + i] = s2[i]
  <2> SUFFICES ASSUME NEW i \in 0 .. m - 1  PROVE s2[i] \in Nat /\ r[a + i] = s2[i]
    OBVIOUS
  <2>1. a + i \in 0 .. last /\ ~(a + i < a \/ a + i > a + m) /\ a + i # a + m /\ (a + i) - a = i
    OBVIOUS
  <2>2. r[a + i] = s2[(a + i) - a]
    BY <1>2, <2>1
  <2> QED
    BY <2>1, <2>2
<1>5. Chars(r, a + m) = tu /\ Len(tu) = a + m
  <2>1. Follow(r, s1, a, s2, m)
    BY <1>3, <1>4 DEF Follow
  <2> QED
    BY <2>1, CharsJoin
<1>6. EndsAt(r, a + m)
  <2>1. r[a + m] = 0
    BY <1>2
  <2>2. ASSUME NEW j \in 0 .. (a + m) - 1  PROVE r[j] # 0
    <3>1. CASE j < a
      <4>1. j \in 0 .. a - 1
        BY <3>1
      <4> QED
        BY <1>3, <4>1
    <3>2. CASE j >= a
      <4>1. j - a \in 0 .. m - 1 /\ a + (j - a) = j
        BY <3>2
      <4>2. r[a + (j - a)] = s2[j - a] /\ s2[j - a] # 0
        BY <1>4, <4>1
      <4> QED
        BY <4>1, <4>2
    <3> QED
      BY <3>1, <3>2
  <2> QED
    BY <2>1, <2>2 DEF EndsAt
<1>7. Str(r) = tu
  <2>1. a + m \in DOMAIN r /\ DOMAIN r \subseteq Nat
    BY <1>1
  <2>2. Str(r) = Chars(r, a + m)
    BY <1>6, <2>1, StrIs
  <2> QED
    BY <1>5, <2>2
<1>8. KeepsBehind(r, s1, Len(tu) + 1)
  BY <1>1, <1>2, <1>5 DEF KeepsBehind
<1> QED
  BY <1>7, <1>8 DEF r

\* Character i of the first k of an array, of which none is NUL: 0 is behind the last.
Proper(s, k) == k \in Nat /\ \A i \in 0 .. k - 1 : s[i] \in Nat /\ s[i] # 0
CharAt(s, k, i) == IF i < k THEN s[i] ELSE 0
SameUpTo(s1, k1, s2, k2, d) ==
    /\ d \in Nat /\ d <= k1 /\ d <= k2
    /\ \A i \in 0 .. d - 1 : s1[i] = s2[i]
    /\ CharAt(s1, k1, d) # CharAt(s2, k2, d) \/ CharAt(s1, k1, d) = 0

\* The order of two strings is that of the characters at the first difference.
LEMMA LessIs ==
    ASSUME NEW s1, NEW k1, Proper(s1, k1), NEW s2, NEW k2, Proper(s2, k2),
           NEW d, SameUpTo(s1, k1, s2, k2, d)
    PROVE  Less(Chars(s1, k1), Chars(s2, k2)) <=> CharAt(s1, k1, d) < CharAt(s2, k2, d)
<1> DEFINE t == Chars(s1, k1)
           u == Chars(s2, k2)
<1>1. k1 \in Nat /\ t \in Seq(Nat) /\ Len(t) = k1 /\ \A i \in 1 .. k1 : t[i] = s1[i - 1]
  BY CharsAre DEF Proper
<1>2. k2 \in Nat /\ u \in Seq(Nat) /\ Len(u) = k2 /\ \A i \in 1 .. k2 : u[i] = s2[i - 1]
  BY CharsAre DEF Proper
<1>3. /\ d \in Nat /\ d <= k1 /\ d <= k2
      /\ \A i \in 0 .. d - 1 : s1[i] = s2[i]
      /\ d < k1 /\ d < k2 => s1[d] # s2[d]
      /\ d < k1 => s1[d] \in Nat /\ s1[d] # 0
      /\ d < k2 => s2[d] \in Nat /\ s2[d] # 0
  BY <1>1, <1>2 DEF Proper, SameUpTo, CharAt
<1> HIDE DEF t, u
<1>4. k1 <= k2 => /\ SubSeq(t, 1, k1) \in Seq(Nat) /\ SubSeq(u, 1, k1) \in Seq(Nat)
                  /\ Len(SubSeq(t, 1, k1)) = k1 /\ Len(SubSeq(u, 1, k1)) = k1
                  /\ \A i \in 1 .. k1 : /\ SubSeq(t, 1, k1)[i] = t[i]
                                        /\ SubSeq(u, 1, k1)[i] = u[i]
  <2> SUFFICES ASSUME k1 <= k2
               PROVE  /\ SubSeq(t, 1, k1) \in Seq(Nat) /\ SubSeq(u, 1, k1) \in Seq(Nat)
                      /\ Len(SubSeq(t, 1, k1)) = k1 /\ Len(SubSeq(u, 1, k1)) = k1
                      /\ \A i \in 1 .. k1 : /\ SubSeq(t, 1, k1)[i] = t[i]
                                            /\ SubSeq(u, 1, k1)[i] = u[i]
    OBVIOUS
  <2>1. \A i \in 1 .. k1 : t[i] \in Nat
    BY <1>1
  <2>2. \A i \in 1 .. k1 : u[i] \in Nat
    BY <1>1, <1>2
  <2>3. /\ SubSeq(t, 1, k1) \in Seq(Nat) /\ Len(SubSeq(t, 1, k1)) = k1
        /\ \A i \in 1 .. k1 : SubSeq(t, 1, k1)[i] = t[i]
    BY <1>1, <2>1
  <2>4. /\ SubSeq(u, 1, k1) \in Seq(Nat) /\ Len(SubSeq(u, 1, k1)) = k1
        /\ \A i \in 1 .. k1 : SubSeq(u, 1, k1)[i] = u[i]
    BY <1>1, <1>2, <2>2
  <2> QED
    BY <2>3, <2>4
<1>5. IsStrictPrefix(t, u) => d = k1 /\ k1 < k2
  <2> SUFFICES ASSUME IsStrictPrefix(t, u)  PROVE d = k1 /\ k1 < k2
    OBVIOUS
  <2>1. k1 <= k2 /\ SubSeq(t, 1, k1) = SubSeq(u, 1, k1) /\ t # u
    BY <1>1, <1>2 DEF IsStrictPrefix, IsPrefix
  <2>2. \A i \in 1 .. k1 : t[i] = u[i]
    BY <1>4, <2>1
  <2>3. k1 # k2
    BY <1>1, <1>2, <2>1, <2>2, SeqEqual
  <2>4. ASSUME d < k1  PROVE FALSE
    <3>1. d + 1 \in 1 .. k1 /\ d + 1 \in 1 .. k2 /\ (d + 1) - 1 = d /\ d < k2
      BY <1>1, <1>2, <1>3, <2>1, <2>4
    <3>2. t[d + 1] = s1[d] /\ u[d + 1] = s2[d] /\ t[d + 1] = u[d + 1]
      BY <1>1, <1>2, <2>2, <3>1
    <3> QED
      BY <1>3, <2>4, <3>1, <3>2
  <2> QED
    BY <1>1, <1>2, <1>3, <2>1, <2>3, <2>4
<1>6. d = k1 /\ k1 < k2 => IsStrictPrefix(t, u)
  <2> SUFFICES ASSUME d = k1, k1 < k2  PROVE IsStrictPrefix(t, u)
    OBVIOUS
  <2>1. t # u
    BY <1>1, <1>2
  <2>2. ASSUME NEW i \in 1 .. k1  PROVE SubSeq(t, 1, k1)[i] = SubSeq(u, 1, k1)[i]
    <3>1. i - 1 \in 0 .. d - 1 /\ i \in 1 .. k2
      BY <1>1, <1>2
    <3>2. t[i] = u[i]
      BY <1>1, <1>2, <1>3, <3>1
    <3> QED
      BY <1>1, <1>2, <1>4, <3>2
  <2>3. SubSeq(t, 1, k1) = SubSeq(u, 1, k1)
    <3>1. /\ SubSeq(t, 1, k1) \in Seq(Nat) /\ SubSeq(u, 1, k1) \in Seq(Nat)
          /\ Len(SubSeq(t, 1, k1)) = Len(SubSeq(u, 1, k1))
      BY <1>1, <1>2, <1>4
    <3>2. \A i \in 1 .. Len(SubSeq(t, 1, k1)) : SubSeq(t, 1, k1)[i] = SubSeq(u, 1, k1)[i]
      BY <1>1, <1>2, <1>4, <2>2
    <3> QED
      BY <3>1, <3>2, SeqEqual
  <2> QED
    BY <1>1, <1>2, <2>1, <2>3 DEF IsStrictPrefix, IsPrefix
<1> DEFINE Below_(i) == i <= Len(u) /\ t[i] < u[i] /\ \A j \in 1 .. i - 1 : t[j] = u[j]
<1>7. ASSUME NEW i \in 1 .. Len(t), Below_(i)  PROVE d < k1 /\ d < k2 /\ s1[d] < s2[d]
  <2>1. /\ i \in 1 .. k1 /\ i \in 1 .. k2 /\ i - 1 \in Nat
        /\ t[i] = s1[i - 1] /\ u[i] = s2[i - 1] /\ t[i] < u[i]
    BY <1>1, <1>2, <1>7
  <2>2. t[i] \in Nat /\ u[i] \in Nat
    BY <1>1, <1>2, <2>1
  <2>3. ~(i - 1 < d)
    BY <1>3, <2>1, <2>2
  <2>4. ASSUME d < i - 1  PROVE FALSE
    <3>1. d + 1 \in 1 .. i - 1 /\ d + 1 \in 1 .. k1 /\ d + 1 \in 1 .. k2 /\ (d + 1) - 1 = d
      BY <1>1, <1>2, <1>3, <2>1, <2>4
    <3>2. t[d + 1] = s1[d] /\ u[d + 1] = s2[d] /\ t[d + 1] = u[d + 1]
      BY <1>1, <1>2, <1>7, <3>1
    <3>3. d < k1 /\ d < k2
      BY <1>1, <1>2, <1>3, <3>1
    <3> QED
      BY <1>3, <3>2, <3>3
  <2>5. i - 1 = d
    BY <1>3, <2>1, <2>3, <2>4
  <2> QED
    BY <1>1, <1>2, <2>1, <2>5
<1>8. ASSUME d < k1, d < k2, s1[d] < s2[d]  PROVE d + 1 \in 1 .. Len(t) /\ Below_(d + 1)
  <2>1. d + 1 \in 1 .. k1 /\ d + 1 \in 1 .. k2 /\ (d + 1) - 1 = d
    BY <1>1, <1>2, <1>3, <1>8
  <2>2. t[d + 1] = s1[d] /\ u[d + 1] = s2[d]
    BY <1>1, <1>2, <2>1
  <2>3. \A j \in 1 .. (d + 1) - 1 : t[j] = u[j]
    <3> SUFFICES ASSUME NEW j \in 1 .. d  PROVE t[j] = u[j]
      BY <2>1
    <3>1. j \in 1 .. k1 /\ j \in 1 .. k2 /\ j - 1 \in 0 .. d - 1
      BY <1>1, <1>2, <1>3
    <3> QED
      BY <1>1, <1>2, <1>3, <3>1
  <2> QED
    BY <1>1, <1>2, <1>8, <2>1, <2>2, <2>3
<1>9. Less(t, u) <=> IsStrictPrefix(t, u) \/ \E i \in 1 .. Len(t) : Below_(i)
  BY DEF Less
<1>10. Less(t, u) <=> (d = k1 /\ k1 < k2) \/ (d < k1 /\ d < k2 /\ s1[d] < s2[d])
  <2> HIDE DEF Below_
  <2> QED
    BY <1>5, <1>6, <1>7, <1>8, <1>9
<1>11. CharAt(s1, k1, d) < CharAt(s2, k2, d)
       <=> (d = k1 /\ k1 < k2) \/ (d < k1 /\ d < k2 /\ s1[d] < s2[d])
  <2>1. CASE d < k1 /\ d < k2
    BY <1>1, <1>2, <1>3, <2>1 DEF CharAt
  <2>2. CASE d = k1 /\ d < k2
    BY <1>1, <1>2, <1>3, <2>2 DEF CharAt
  <2>3. CASE d < k1 /\ d = k2
    BY <1>1, <1>2, <1>3, <2>3 DEF CharAt
  <2>4. CASE d = k1 /\ d = k2
    BY <1>1, <1>2, <1>3, <2>4 DEF CharAt
  <2> QED
    BY <1>1, <1>2, <1>3, <2>1, <2>2, <2>3, <2>4
<1> QED
  BY <1>10, <1>11 DEF t, u

\* A result of which the sign is that of the first difference compares the two strings.
LEMMA ComparesIs ==
    ASSUME NEW s1, NEW k1, Proper(s1, k1), NEW s2, NEW k2, Proper(s2, k2),
           NEW d, SameUpTo(s1, k1, s2, k2, d), NEW v,
           v < 0 <=> CharAt(s1, k1, d) < CharAt(s2, k2, d),
           v > 0 <=> CharAt(s2, k2, d) < CharAt(s1, k1, d)
    PROVE  Compares(v, Chars(s1, k1), Chars(s2, k2))
<1>1. SameUpTo(s2, k2, s1, k1, d)
  BY DEF SameUpTo
<1>2. Less(Chars(s1, k1), Chars(s2, k2)) <=> CharAt(s1, k1, d) < CharAt(s2, k2, d)
  BY LessIs
<1>3. Less(Chars(s2, k2), Chars(s1, k1)) <=> CharAt(s2, k2, d) < CharAt(s1, k1, d)
  BY <1>1, LessIs
<1> QED
  BY <1>2, <1>3 DEF Compares

LEMMA StringFacts ==
    ASSUME NEW s, NEW last, NEW e, HasString(s, last, e)
    PROVE  /\ last \in Nat /\ s \in [0 .. last -> Nat] /\ e \in 0 .. last
           /\ EndsAt(s, e) /\ Proper(s, e) /\ s[e] = 0
           /\ strlen(s) = e
           /\ Str(s) = Chars(s, e) /\ Len(Str(s)) = e
<1>1. last \in Nat /\ s \in [0 .. last -> Nat] /\ e \in 0 .. last /\ EndsAt(s, e)
  BY DEF HasString
<1>2. e \in Nat /\ s[e] = 0 /\ Proper(s, e) /\ e \in DOMAIN s /\ DOMAIN s \subseteq Nat
  BY <1>1 DEF EndsAt, Proper
<1>3. Str(s) = Chars(s, e)
  BY <1>1, <1>2, StrIs
<1>4. Len(Chars(s, e)) = e
  BY <1>2, CharsAre DEF Proper
<1> QED
  BY <1>1, <1>2, <1>3, <1>4, strlenIs

LEMMA CompareStrings ==
    ASSUME NEW s1, NEW l1, NEW e1, HasString(s1, l1, e1),
           NEW s2, NEW l2, NEW e2, HasString(s2, l2, e2)
    PROVE  Compares(strcmp(s1, s2), Str(s1), Str(s2))
<1>1. /\ l1 \in Nat /\ s1 \in [0 .. l1 -> Nat] /\ e1 \in 0 .. l1
      /\ Proper(s1, e1) /\ s1[e1] = 0 /\ Str(s1) = Chars(s1, e1)
  BY StringFacts
<1>2. /\ l2 \in Nat /\ s2 \in [0 .. l2 -> Nat] /\ e2 \in 0 .. l2
      /\ Proper(s2, e2) /\ s2[e2] = 0 /\ Str(s2) = Chars(s2, e2)
  BY StringFacts
<1>3. e1 \in Differs(s1, s2) /\ e2 \in Differs(s1, s2) /\ Differs(s1, s2) \in SUBSET Nat
  BY <1>1, <1>2 DEF Differs
<1>4. PICK d \in Nat : FirstFrom(Differs(s1, s2), 0, d) /\ d <= e1
  BY <1>3, FirstExists
<1>5. d <= e2
  BY <1>1, <1>2, <1>3, <1>4 DEF FirstFrom
<1>6. \A i \in 0 .. d - 1 : s1[i] = s2[i]
  BY <1>4 DEF FirstFrom, Differs
<1>7. s1[d] # s2[d] \/ s1[d] = 0
  BY <1>4 DEF FirstFrom, Differs
<1>8. CharAt(s1, e1, d) = s1[d] /\ CharAt(s2, e2, d) = s2[d]
  BY <1>1, <1>2, <1>4, <1>5 DEF CharAt
<1>9. SameUpTo(s1, e1, s2, e2, d)
  BY <1>4, <1>5, <1>6, <1>7, <1>8 DEF SameUpTo
<1>10. s1[d] \in Nat /\ s2[d] \in Nat
  BY <1>1, <1>2, <1>4, <1>5
<1>11. strcmp(s1, s2) = IF s1[d] = s2[d] THEN 0 ELSE s1[d] - s2[d]
  BY <1>4, strcmpIs
<1>12. /\ strcmp(s1, s2) < 0 <=> CharAt(s1, e1, d) < CharAt(s2, e2, d)
       /\ strcmp(s1, s2) > 0 <=> CharAt(s2, e2, d) < CharAt(s1, e1, d)
  BY <1>8, <1>10, <1>11
<1> QED
  BY <1>1, <1>2, <1>9, <1>12, ComparesIs

LEMMA CompareCut ==
    ASSUME NEW s1, NEW l1, NEW e1, HasString(s1, l1, e1),
           NEW s2, NEW l2, NEW e2, HasString(s2, l2, e2), NEW n \in Nat
    PROVE  Compares(strncmp(s1, s2, n), Cut(Str(s1), n), Cut(Str(s2), n))
<1> DEFINE k1 == Lesser(n, e1)
           k2 == Lesser(n, e2)
           T == Differs(s1, s2) \cup {n}
<1>1. /\ l1 \in Nat /\ s1 \in [0 .. l1 -> Nat] /\ e1 \in 0 .. l1
      /\ Proper(s1, e1) /\ s1[e1] = 0 /\ Str(s1) = Chars(s1, e1)
  BY StringFacts
<1>2. /\ l2 \in Nat /\ s2 \in [0 .. l2 -> Nat] /\ e2 \in 0 .. l2
      /\ Proper(s2, e2) /\ s2[e2] = 0 /\ Str(s2) = Chars(s2, e2)
  BY StringFacts
<1>3. Cut(Str(s1), n) = Chars(s1, k1) /\ k1 \in 0 .. e1
  BY <1>1, CutIs DEF Proper
<1>4. Cut(Str(s2), n) = Chars(s2, k2) /\ k2 \in 0 .. e2
  BY <1>2, CutIs DEF Proper
<1>5. Proper(s1, k1) /\ Proper(s2, k2)
  <2>1. \A k \in 0 .. e1 : Proper(s1, k)
    BY <1>1 DEF Proper
  <2>2. \A k \in 0 .. e2 : Proper(s2, k)
    BY <1>2 DEF Proper
  <2> HIDE DEF k1, k2
  <2> QED
    BY <1>3, <1>4, <2>1, <2>2
<1>6. e1 \in T /\ e2 \in T /\ n \in T /\ T \in SUBSET Nat
  BY <1>1, <1>2 DEF Differs
<1>7. PICK d \in Nat : FirstFrom(T, 0, d) /\ d <= e1
  <2> HIDE DEF T
  <2> QED
    BY <1>6, FirstExists
<1>8. d <= e2 /\ d <= n
  <2> HIDE DEF T
  <2> QED
    BY <1>1, <1>2, <1>6, <1>7 DEF FirstFrom
<1>9. \A i \in 0 .. d - 1 : s1[i] = s2[i]
  BY <1>7 DEF FirstFrom, Differs
<1>10. d = n \/ s1[d] # s2[d] \/ s1[d] = 0
  BY <1>7 DEF FirstFrom, Differs
<1>11. d <= k1 /\ d <= k2
  BY <1>1, <1>2, <1>7, <1>8 DEF Lesser
<1>12. d = n => CharAt(s1, k1, d) = 0 /\ CharAt(s2, k2, d) = 0
  BY <1>1, <1>2, <1>7, <1>8 DEF CharAt, Lesser
<1>13. d # n => CharAt(s1, k1, d) = s1[d] /\ CharAt(s2, k2, d) = s2[d]
  BY <1>1, <1>2, <1>7, <1>8 DEF CharAt, Lesser
<1> HIDE DEF k1, k2
<1>14. SameUpTo(s1, k1, s2, k2, d)
  BY <1>7, <1>9, <1>10, <1>11, <1>12, <1>13 DEF SameUpTo
<1>15. s1[d] \in Nat /\ s2[d] \in Nat
  BY <1>1, <1>2, <1>7, <1>8
<1>16. strncmp(s1, s2, n) = IF d = n \/ s1[d] = s2[d] THEN 0 ELSE s1[d] - s2[d]
  BY <1>7, strncmpIs
<1>17. /\ strncmp(s1, s2, n) < 0 <=> CharAt(s1, k1, d) < CharAt(s2, k2, d)
       /\ strncmp(s1, s2, n) > 0 <=> CharAt(s2, k2, d) < CharAt(s1, k1, d)
  BY <1>12, <1>13, <1>15, <1>16
<1>18. Compares(strncmp(s1, s2, n), Chars(s1, k1), Chars(s2, k2))
  BY <1>5, <1>14, <1>17, ComparesIs
<1> QED
  BY <1>3, <1>4, <1>18

\* The places of a character, the NUL included.
LEMMA PlacesFound ==
    ASSUME NEW s, NEW last, NEW e, HasString(s, last, e), NEW c
    PROVE  /\ index(s, c) = (IF Places_(s, c) = {} THEN NULL ELSE Min(Places_(s, c)))
           /\ rindex(s, c) = (IF Places_(s, c) = {} THEN NULL ELSE Max(Places_(s, c)))
<1> DEFINE P == {i \in 0 .. e : s[i] = c}
           T == {i \in Nat : s[i] = c \/ s[i] = 0}
<1>1. /\ e \in Nat /\ EndsAt(s, e) /\ s[e] = 0 /\ Places_(s, c) = P
      /\ \A j \in 0 .. e - 1 : s[j] # 0
  BY StringFacts DEF Places_, Proper, EndsAt
<1>2. T \in SUBSET Nat /\ e \in T
  BY <1>1
<1>3. PICK d \in Nat : FirstFrom(T, 0, d) /\ d <= e
  <2> HIDE DEF T
  <2> QED
    BY <1>2, FirstExists
<1>4. index(s, c) = IF s[d] = c THEN d ELSE NULL
  BY <1>3, indexIs
<1>5. CASE P = {}
  <2>1. \A j \in 0 .. e : s[j] # c
    BY <1>5
  <2>2. rindex(s, c) = NULL
    BY <1>1, <2>1, rindexIs
  <2>3. s[d] # c
    BY <1>1, <1>3, <2>1
  <2> QED
    BY <1>1, <1>4, <1>5, <2>2, <2>3
<1>6. CASE P # {}
  <2>1. PICK x \in P : TRUE
    BY <1>6
  <2>2. x \in 0 .. e /\ s[x] = c /\ x \in T
    BY <1>1, <2>1
  <2>3. d <= x
    BY <1>3, <2>2 DEF FirstFrom
  <2>4. s[d] = c
    <3>1. CASE s[d] # 0
      BY <1>3, <3>1 DEF FirstFrom
    <3>2. CASE s[d] = 0
      <4>1. d = e
        BY <1>1, <1>3, <3>2
      <4> QED
        BY <1>1, <2>2, <2>3, <4>1
    <3> QED
      BY <3>1, <3>2
  <2>5. d \in P /\ \A y \in P : d <= y
    <3>1. \A y \in P : y \in T /\ y \in Nat
      BY <1>1
    <3>2. \A y \in P : d <= y
      BY <1>3, <3>1 DEF FirstFrom
    <3> QED
      BY <1>1, <1>3, <2>4, <3>2
  <2>6. Min(P) = d
    <3>1. \A x1 \in P : (\A y \in P : x1 <= y) => x1 = d
      BY <1>1, <1>3, <2>5
    <3> HIDE DEF P
    <3> QED
      BY <2>5, <3>1 DEF Min
  <2>7. PICK z \in P : \A y \in P : z >= y
    <3> DEFINE Q == {e - y : y \in P}
    <3>1. Q \in SUBSET Nat /\ e - x \in Q
      BY <1>1, <2>1
    <3>2. PICK q \in Nat : FirstFrom(Q, 0, q)
      <4> HIDE DEF Q
      <4> QED
        BY <3>1, FirstExists
    <3>3. q \in Q /\ \A y \in Q : y >= q
      <4> HIDE DEF Q
      <4> QED
        BY <3>1, <3>2 DEF FirstFrom
    <3>4. PICK z \in P : q = e - z
      BY <3>3
    <3>5. ASSUME NEW y \in P  PROVE z >= y
      <4>1. e - y \in Q /\ e - y >= q
        BY <3>3
      <4> QED
        BY <1>1, <3>4, <4>1
    <3> QED
      BY <3>4, <3>5
  <2>8. Max(P) = z
    <3>1. \A x1 \in P : (\A y \in P : x1 >= y) => x1 = z
      BY <1>1, <2>7
    <3> HIDE DEF P
    <3> QED
      BY <2>7, <3>1 DEF Max
  <2>9. LastUpTo(s, c, e, z)
    <3>1. \A m \in z + 1 .. e : m \notin P
      BY <1>1, <2>7
    <3> QED
      BY <1>1, <2>7, <3>1 DEF LastUpTo
  <2>10. rindex(s, c) = z
    BY <1>1, <2>9, rindexIs
  <2> QED
    BY <1>1, <1>4, <1>6, <2>4, <2>6, <2>8, <2>10
<1> QED
  BY <1>5, <1>6

\* strncpy() and memset() write n places and no other.
LEMMA Filled ==
    ASSUME NEW last \in Nat, NEW s1 \in [0 .. last -> Nat], NEW n \in Nat,
           n - 1 \in DOMAIN s1 \cup {-1}, NEW c
    PROVE  /\ \A i \in 0 .. n - 1 : memset(s1, c, n)[i] = c
           /\ KeepsBehind(memset(s1, c, n), s1, n)
<1>1. DOMAIN s1 = 0 .. last /\ n - 1 <= last
  OBVIOUS
<1> QED
  BY <1>1 DEF memset, KeepsBehind

FilledUp(r, u, n) == \A i \in 0 .. n - 1 : r[i] = IF i < Len(u) THEN u[i + 1] ELSE 0

LEMMA Copied ==
    ASSUME NEW last \in Nat, NEW s1 \in [0 .. last -> Nat], NEW n \in Nat,
           n - 1 \in DOMAIN s1 \cup {-1},
           NEW s2, NEW l2, NEW e2, HasString(s2, l2, e2)
    PROVE  /\ FilledUp(strncpy(s1, s2, n), Str(s2), n)
           /\ KeepsBehind(strncpy(s1, s2, n), s1, n)
<1> DEFINE r == strncpy(s1, s2, n)
           u == Str(s2)
<1>1. e2 \in Nat /\ strlen(s2) = e2 /\ Len(u) = e2 /\ u = Chars(s2, e2)
  BY StringFacts DEF Proper
<1>2. DOMAIN s1 = 0 .. last /\ n - 1 <= last
  OBVIOUS
<1>3. r = [i \in 0 .. last |-> IF i >= n THEN s1[i] ELSE IF i < e2 THEN s2[i] ELSE 0]
  BY <1>1, <1>2 DEF strncpy
<1>4. \A i \in 0 .. n - 1 : i < e2 => u[i + 1] = s2[i]
  BY <1>1 DEF Chars
<1> HIDE DEF r, u
<1>5. FilledUp(r, u, n)
  BY <1>1, <1>2, <1>3, <1>4 DEF FilledUp
<1>6. KeepsBehind(r, s1, n)
  BY <1>3 DEF KeepsBehind
<1> QED
  BY <1>5, <1>6 DEF r, u

\* What is promised of a call, of its result.
Agree(r, s1, s2, n, c) ==
    LET t == Str(s1)  u == Str(s2)
        Kept(s, k) == KeepsBehind(s, s1, k)
    IN  /\ r.len = Len(t)
        /\ Compares(r.cmp, t, u)
        /\ Compares(r.ncmp, Cut(t, n), Cut(u, n))
        /\ Str(r.cpy) = u /\ Kept(r.cpy, Len(u) + 1)
        /\ Str(r.cat) = t \o u /\ Kept(r.cat, Len(t \o u) + 1)
        /\ Str(r.ncat) = t \o Cut(u, n) /\ Kept(r.ncat, Len(t \o Cut(u, n)) + 1)
        /\ FilledUp(r.ncpy, u, n)
        /\ Kept(r.ncpy, n) /\ Kept(r.set, n)
        /\ \A i \in 0 .. n - 1 : r.set[i] = c
        /\ r.first = (IF Places_(s1, c) = {} THEN NULL ELSE Min(Places_(s1, c)))
        /\ r.last = (IF Places_(s1, c) = {} THEN NULL ELSE Max(Places_(s1, c)))

LEMMA StringReturns ==
    ASSUME NEW s1 \in Arrays, NEW s2 \in Arrays, NEW n \in Counts, NEW c, NEW r,
           r = [returned |-> TRUE,
                len |-> strlen(s1), cmp |-> strcmp(s1, s2),
                ncmp |-> strncmp(s1, s2, n), cpy |-> strcpy(s1, s2),
                cat |-> strcat(s1, s2), ncpy |-> strncpy(s1, s2, n),
                ncat |-> strncat(s1, s2, n), set |-> memset(s1, c, n),
                first |-> index(s1, c), last |-> rindex(s1, c)]
    PROVE  Agree(r, s1, s2, n, c)
<1> DEFINE t == Str(s1)
           u == Str(s2)
           Kept(s, k) == KeepsBehind(s, s1, k)
<1>1. PICK l1 \in Nat, e1 \in Nat : HasString(s1, l1, e1)
  BY ArraysHaveStrings
<1>2. PICK l2 \in Nat, e2 \in Nat : HasString(s2, l2, e2)
  BY ArraysHaveStrings
<1>3. /\ s1 \in [0 .. l1 -> Nat] /\ DOMAIN s1 = 0 .. l1 /\ EndsAt(s1, e1) /\ Proper(s1, e1)
      /\ strlen(s1) = e1 /\ t = Chars(s1, e1) /\ Len(t) = e1
  BY <1>1, StringFacts
<1>4. /\ EndsAt(s2, e2) /\ Proper(s2, e2)
      /\ strlen(s2) = e2 /\ u = Chars(s2, e2) /\ Len(u) = e2
  BY <1>2, StringFacts
<1>5. n \in Nat /\ n - 1 \in DOMAIN s1 \cup {-1}
  BY StringAssumption, LibraryAssumption
<1>6. e1 + e2 <= l1
  <2>1. strlen(s1) + strlen(s2) \in DOMAIN s1
    BY StringAssumption
  <2> QED
    BY <1>3, <1>4, <2>1
<1>7. \A m \in 0 .. e2 : Joinable(s1, l1, e1, s2, m)
  BY <1>3, <1>4, <1>6 DEF Proper, Joinable
<1>8. Joinable(s1, l1, 0, s2, e2)
  BY <1>3, <1>4, <1>6 DEF Proper, Joinable
<1> HIDE DEF t, u
<1>9. r.len = Len(t) /\ r.cmp = strcmp(s1, s2) /\ r.ncmp = strncmp(s1, s2, n)
  BY <1>3
<1>10. Compares(r.cmp, t, u)
  BY <1>1, <1>2, <1>9, CompareStrings DEF t, u
<1>11. Compares(r.ncmp, Cut(t, n), Cut(u, n))
  BY <1>1, <1>2, <1>5, <1>9, CompareCut DEF t, u
<1>12. Str(r.cpy) = u /\ Kept(r.cpy, Len(u) + 1)
  <2>1. r.cpy = Joined(s1, 0, s2, e2)
    BY <1>3, <1>4, strcpyIs
  <2>2. Chars(s1, 0) \o u = u
    <3>1. Chars(s1, 0) = <<>>
      BY DEF Chars
    <3>2. u \in Seq(Nat)
      BY <1>4, CharsAre DEF Proper
    <3> QED
      BY <3>1, <3>2, ConcatEmptySeq
  <2> QED
    BY <1>4, <1>8, <2>1, <2>2, JoinedIs
<1>13. Str(r.cat) = t \o u /\ Kept(r.cat, Len(t \o u) + 1)
  <2>1. r.cat = Joined(s1, e1, s2, e2)
    BY <1>3, <1>4, strcatIs
  <2>2. Joinable(s1, l1, e1, s2, e2)
    BY <1>7
  <2>3. /\ Str(Joined(s1, e1, s2, e2)) = Chars(s1, e1) \o Chars(s2, e2)
        /\ KeepsBehind(Joined(s1, e1, s2, e2), s1, Len(Chars(s1, e1) \o Chars(s2, e2)) + 1)
    BY <2>2, JoinedIs, Zenon
  <2>4. t = Chars(s1, e1) /\ u = Chars(s2, e2)
    BY <1>3, <1>4
  <2> QED
    BY <2>1, <2>3, <2>4, Zenon
<1>14. Str(r.ncat) = t \o Cut(u, n) /\ Kept(r.ncat, Len(t \o Cut(u, n)) + 1)
  <2> DEFINE m == Lesser(n, e2)
  <2>1. r.ncat = Joined(s1, e1, s2, m)
    BY <1>3, <1>4, <1>5, strncatIs
  <2>2. Cut(u, n) = Chars(s2, m) /\ m \in 0 .. e2
    BY <1>4, <1>5, CutIs DEF Proper
  <2> HIDE DEF m
  <2>3. Joinable(s1, l1, e1, s2, m)
    BY <1>7, <2>2
  <2>4. /\ Str(Joined(s1, e1, s2, m)) = Chars(s1, e1) \o Chars(s2, m)
        /\ KeepsBehind(Joined(s1, e1, s2, m), s1, Len(Chars(s1, e1) \o Chars(s2, m)) + 1)
    BY <2>3, JoinedIs, Zenon
  <2>5. t = Chars(s1, e1) /\ Cut(u, n) = Chars(s2, m)
    BY <1>3, <2>2
  <2> QED
    BY <2>1, <2>4, <2>5, Zenon
<1>15. FilledUp(r.ncpy, u, n) /\ Kept(r.ncpy, n)
  BY <1>2, <1>3, <1>5, Copied DEF u
<1>16. Kept(r.set, n) /\ \A i \in 0 .. n - 1 : r.set[i] = c
  <2>1. r.set = memset(s1, c, n)
    OBVIOUS
  <2>2. /\ \A i \in 0 .. n - 1 : memset(s1, c, n)[i] = c
        /\ KeepsBehind(memset(s1, c, n), s1, n)
    BY <1>3, <1>5, Filled, Zenon
  <2> QED
    BY <2>1, <2>2
<1>17. /\ r.first = (IF Places_(s1, c) = {} THEN NULL ELSE Min(Places_(s1, c)))
       /\ r.last = (IF Places_(s1, c) = {} THEN NULL ELSE Max(Places_(s1, c)))
  BY <1>1, PlacesFound
<1> QED
  BY <1>9, <1>10, <1>11, <1>12, <1>13, <1>14, <1>15, <1>16, <1>17 DEF Agree, t, u

\* Only a call that is still to come returns, and returns what the functions do.
StringInv ==
    call.fn = "str" =>
        /\ call \in [fn : {"str"}, s1 : Arrays, s2 : Arrays, n : Counts, c : 0 .. 2]
        /\ result.returned => Agree(result, call.s1, call.s2, call.n, call.c)

LEMMA StringInvHolds == LibInit /\ [][LibNext]_<<libVars, sortVars>> => []StringInv
<1>1. LibInit => StringInv
  <2> SUFFICES ASSUME LibInit, call.fn = "str"
               PROVE  /\ ~result.returned
                      /\ call \in [fn : {"str"}, s1 : Arrays, s2 : Arrays, n : Counts, c : 0 .. 2]
    BY DEF StringInv
  <2>1. ~result.returned
    BY DEF LibInit, Pending
  <2>2. call \in [fn : {"str"}, s1 : Arrays, s2 : Arrays, n : Counts, c : 0 .. 2]
    BY DEF LibInit
  <2> QED
    BY <2>1, <2>2
<1>2. StringInv /\ [LibNext]_<<libVars, sortVars>> => StringInv'
  <2> SUFFICES ASSUME StringInv, [LibNext]_<<libVars, sortVars>>, call'.fn = "str"
               PROVE  /\ call' \in [fn : {"str"}, s1 : Arrays, s2 : Arrays, n : Counts, c : 0 .. 2]
                      /\ result'.returned => Agree(result', call'.s1, call'.s2, call'.n, call'.c)
    BY DEF StringInv
  <2>1. call' = call
    BY DEF LibNext, libVars, Printf, Scanf, String
  <2>2. call.fn = "str"
    BY <2>1
  <2>3. call \in [fn : {"str"}, s1 : Arrays, s2 : Arrays, n : Counts, c : 0 .. 2]
    BY <2>2 DEF StringInv
  <2>4. CASE UNCHANGED libVars
    BY <2>1, <2>2, <2>4 DEF StringInv, libVars
  <2>5. CASE String
    <3>1. call.s1 \in Arrays /\ call.s2 \in Arrays /\ call.n \in Counts
      BY <2>3
    <3>2. result' = [returned |-> TRUE,
                     len |-> strlen(call.s1), cmp |-> strcmp(call.s1, call.s2),
                     ncmp |-> strncmp(call.s1, call.s2, call.n),
                     cpy |-> strcpy(call.s1, call.s2),
                     cat |-> strcat(call.s1, call.s2),
                     ncpy |-> strncpy(call.s1, call.s2, call.n),
                     ncat |-> strncat(call.s1, call.s2, call.n),
                     set |-> memset(call.s1, call.c, call.n),
                     first |-> index(call.s1, call.c), last |-> rindex(call.s1, call.c)]
      BY <2>5 DEF String
    <3>3. Agree(result', call.s1, call.s2, call.n, call.c)
      BY <3>1, <3>2, StringReturns
    <3> QED
      BY <2>1, <2>3, <3>3
  <2>6. UNCHANGED libVars \/ String
    <3>1. CASE LibNext
      BY <2>2, <3>1 DEF LibNext, Printf, Scanf
    <3>2. CASE UNCHANGED <<libVars, sortVars>>
      BY <3>2
    <3> QED
      BY <3>1, <3>2
  <2> QED
    BY <2>4, <2>5, <2>6
<1> QED
  BY <1>1, <1>2, PTL

\* The string functions do what their names promise for arrays of any length and any
\* characters that are not negative: comparing, copying, joining and searching are exact
\* about where a string ends, whatever the array holds behind its end.
THEOREM StringFunctionsAgree == LibInit /\ [][LibNext]_<<libVars, sortVars>> => []StringsAgree
<1>1. StringInv => StringsAgree
  <2> SUFFICES ASSUME StringInv, call.fn = "str", result.returned  PROVE StringsAgree
    BY DEF StringsAgree
  <2>1. Agree(result, call.s1, call.s2, call.n, call.c)
    BY DEF StringInv
  <2> QED
    BY <2>1 DEF Agree, StringsAgree, KeepsBehind, FilledUp
<1> QED
  BY <1>1, StringInvHolds, PTL
=============================================================================
