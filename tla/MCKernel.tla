------------------------------ MODULE MCKernel ------------------------------
(***************************************************************************)
(* Values for the constants of Kernel.                                     *)
(***************************************************************************)
EXTENDS Kernel

\* The requests that do not involve signals.
CoreCalls == {"create", "query", "yield", "stop", "sleep", "timer", "wait"}

\* The requests that send and handle signals, with one that blocks.
SignalCalls == {"create", "yield", "stop", "sleep", "timer", "kill", "sighandler",
                "sigreturn"}

AnyState == States

-----------------------------------------------------------------------------
\* The abstraction: linked lists are the sequences of their elements, and the time
\* of a sleeper is the sum of the differences up to it.
S == INSTANCE Sched WITH
    readyQ <- List(head),
    sleepQ <- List(sleepQ),
    left   <- [i \in Slot |-> IF state[i] = "SLEEP" THEN TicksLeft(i) ELSE 0],
    waitQ  <- [i \in Slot |-> List(waiting[i])]

\* The kernel's queues, kept in pcb fields by ready(), next(), addToWaiting(),
\* removeWaiting(), sleep() and tick(), behave as the sequences of Sched.
ImplementsSched == S!Spec
=============================================================================
