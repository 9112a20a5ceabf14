------------------------------ MODULE Machine -------------------------------
(***************************************************************************)
(* What lies under the kernel and beside it: entry and exit, memory,       *)
(* display, scan codes and the C library.  They share no state, so that a  *)
(* behaviour follows one of them while the others stay as at the start.    *)
(***************************************************************************)
EXTENDS Context, Memory, Console, ScanCodes, Library

VARIABLE part    \* the one that is followed

InitMachine ==
    /\ part \in {"context", "memory", "console", "scan", "library"}
    /\ InitContext /\ kmeminit /\ InitScan
    /\ IF part = "console" THEN InitConsole
       ELSE crtat = 0 /\ display = [i \in Cell |-> " "]
    /\ IF part = "library" THEN LibInit
       ELSE call = [fn |-> "none"] /\ result = Pending /\ sortIdle

NextMachine ==
    /\ UNCHANGED part
    /\ \/ /\ part = "context" /\ NextContext
          /\ UNCHANGED <<memVars, conVars, scanVars, libVars, sortVars>>
       \/ /\ part = "memory" /\ NextMemory
          /\ UNCHANGED <<ctxVars, conVars, scanVars, libVars, sortVars>>
       \/ /\ part = "console" /\ NextConsole
          /\ UNCHANGED <<ctxVars, memVars, scanVars, libVars, sortVars>>
       \/ /\ part = "scan" /\ NextScan
          /\ UNCHANGED <<ctxVars, memVars, conVars, libVars, sortVars>>
       \/ /\ part = "library" /\ LibNext
          /\ UNCHANGED <<ctxVars, memVars, conVars, scanVars>>

machineVars == <<part, ctxVars, memVars, conVars, scanVars, libVars, sortVars>>

\* A call of qsort() goes on until it returns: nothing in it waits.
MachineSpec == InitMachine /\ [][NextMachine]_machineVars /\ WF_sortVars(SortNext)
=============================================================================
