------------------------------- MODULE Shell --------------------------------
(***************************************************************************)
(* The programs of c/user.c over the keyboard driver: root(), which reads  *)
(* a name and a password and then starts shell(); the commands of that;    *)
(* a_func() and t_func(), the processes that it creates.  All of it runs   *)
(* in user mode, so that between any two statements keys may come in and   *)
(* the others may run.  Both programs write the driver's variables.        *)
(*                                                                         *)
(* A command's name is one character: e stands for ex, p for ps.  What a   *)
(* signal does to the lists of the dispatcher is left to Kernel.           *)
(***************************************************************************)
EXTENDS KbdDriver

CONSTANTS
    Children,          \* bound: the slots for the processes that the shell creates
    CommandLen,        \* the length of the shell's reads, 128
    NameLen, PassLen,  \* the lengths of root's reads, 6 and 16
    Watched            \* the character whose way the property NoOldCharacters follows

Root == 1
Sh == 2

ASSUME ShellAssumption ==
    /\ Readers = {Root, Sh} /\ {CommandLen, NameLen, PassLen} \subseteq ReadLens
    /\ CommandLen > 1 /\ Watched \in Char \ {ENTER}

VARIABLES
    kbd,        \* the static variables of the driver
    pc,         \* where root (Root) and the shell (Sh) are
    at,         \* the variable i of the loop that clears the ring
    result,     \* what the last read returned, or Wild; 0 once it has been used
    child,      \* each slot: "none", "asleep", "awake", "done" or "killed"
    program,    \* and what runs there: "a_func" or "t_func"
    waited,     \* the children in whose lists of waiting processes the shell is
    armed,      \* is signal 15 handled: the bit in the shell's handledSignals
    pending,    \* the bit in its incomingSignals
    typed       \* was Watched typed since the shell last began to clear the ring

signalVars == <<armed, pending>>
childVars == <<child, program, waited>>
shVars == <<kbd, pc, at, result, childVars, signalVars, typed>>

\* -99, or after the handler has run what syssigreturn takes for the result: it is
\* no number of characters, and an index computed from it is outside of the buffer.
Wild == -99

InitShell ==
    /\ kbd = kbd_reset_state
    /\ pc = [i \in {Root, Sh} |-> IF i = Root THEN "open" ELSE "none"]
    /\ at = 0 /\ result = 0
    /\ child = [c \in Children |-> "none"] /\ program = [c \in Children |-> "t_func"]
    /\ waited = {}
    /\ armed = FALSE /\ pending = FALSE
    /\ typed = FALSE

\* Process i goes from one statement to another.  A pending signal goes first.
Goes(i, from, to) ==
    /\ pc[i] = from /\ (i = Sh => ~pending)
    /\ pc' = [pc EXCEPT ![i] = to]

\* A statement that changes only the driver's variables.
Sets(k) == kbd' = k /\ UNCHANGED <<at, result, childVars, signalVars, typed>>

\* sysread() of n characters, which returns at once or blocks.
Reads(i, from, n) ==
    \E o \in {kbd_read(kbd, TRUE, n)} :
        /\ Goes(i, from, IF o.result = "BLOCK" THEN "reading" ELSE "returned")
        /\ kbd' = o.kbd
        /\ result' = o.ret
        /\ UNCHANGED <<at, childVars, signalVars, typed>>

Blocked == \E i \in {Root, Sh} : pc[i] = "reading" /\ kbd.proc = i

\* The interrupt, at any time, also before root opens the keyboard, but masked when the
\* shell has closed it: it sets the result of kbd_proc even when that read is over.
\* Bound: not while eof_flag is set (the run reader_hang of Devices).
Interrupt(c) ==
    /\ ~kbd.eof_flag /\ pc[Sh] # "stopped"
    /\ \E o \in {kbd_int_read(kbd, c, Blocked)} :
          /\ kbd' = o.kbd
          /\ pc' = IF o.wakes THEN [pc EXCEPT ![kbd.proc] = "returned"] ELSE pc
          /\ result' = IF /\ kbd.proc # NoPcb
                          /\ pc[kbd.proc] \in {"reading", "returned"} THEN o.ret ELSE result
    /\ typed' = (typed \/ c = Watched)
    /\ UNCHANGED <<at, childVars, signalVars>>

-----------------------------------------------------------------------------
(* root(), t_func() and a_func()                                            *)

RootOpens == Goes(Root, "open", "name") /\ Sets(kbd_open(kbd, Root, TRUE).kbd)
RootReads == Reads(Root, "name", NameLen) \/ Reads(Root, "password", PassLen)

\* After the name: no echo, and the flags of the finished read one by one.
RootResets ==
    \/ /\ Goes(Root, "returned", "eof_flag") /\ kbd.echo
       /\ Sets(kbd_ioctl(kbd, "echo_off", NUL).kbd)
    \/ Goes(Root, "eof_flag", "p_read")    /\ Sets([kbd EXCEPT !.eof_flag = FALSE])
    \/ Goes(Root, "p_read", "p_len")       /\ Sets([kbd EXCEPT !.got = <<>>])
    \/ Goes(Root, "p_len", "p_buf")        /\ Sets([kbd EXCEPT !.p_len = 0])
    \/ Goes(Root, "p_buf", "password")     /\ Sets([kbd EXCEPT !.p_buf = FALSE])

\* Name and password may match or not.  Then root spins: it never waits.
RootCloses ==
    /\ ~kbd.echo
    /\ \E match \in BOOLEAN :
          IF match THEN /\ pc[Root] = "returned"
                        /\ pc' = [pc EXCEPT ![Root] = "spins", ![Sh] = "start"]
                   ELSE Goes(Root, "returned", "open")
    /\ Sets(kbd_close(kbd).kbd)

\* A sleep ends; t_func begins the next one.
Wakes(c) ==
    /\ child[c] = "asleep" /\ program[c] = "a_func"
    /\ child' = [child EXCEPT ![c] = "awake"]
    /\ UNCHANGED <<kbd, pc, at, result, program, waited, signalVars, typed>>

\* Mutant of Alarm: a signal to a shell that is not blocked is not kept.
AlarmIfBlocked(c) ==
    /\ child[c] = "awake"
    /\ child' = [child EXCEPT ![c] = "done"]
    /\ pending' = (pending \/ (armed /\ pc[Sh] \in {"reading", "waiting"}))
    /\ pc' = [pc EXCEPT ![Sh] = CASE @ = "reading" -> "returned"
                                  [] @ = "waiting" -> "ring" [] OTHER -> @]
    /\ UNCHANGED <<kbd, at, result, program, waited, armed, typed>>

\* signal(shellPID, 15), of a shell that has had a handler.  It ends the system call
\* that the shell is blocked in; a result not yet seen by the shell is lost.
Alarm(c) ==
    /\ child[c] = "awake"
    /\ child' = [child EXCEPT ![c] = "done"]
    /\ pending' = (pending \/ (armed /\ pc[Sh] # "stopped"))
    /\ pc' = [pc EXCEPT ![Sh] = CASE @ = "reading" -> "returned"
                                  [] @ = "waiting" -> "ring" [] OTHER -> @]
    /\ result' = IF pc[Sh] \in {"reading", "returned"} THEN Wild ELSE result
    /\ UNCHANGED <<kbd, at, program, waited, armed, typed>>

\* The end of a child readies a shell that waits, if it is on that child's list.  The
\* slot is as at the start again.
Ends(c) ==
    /\ child[c] \in {"done", "killed"}
    /\ child' = [child EXCEPT ![c] = "none"]
    /\ program' = [program EXCEPT ![c] = "t_func"]
    /\ waited' = waited \ {c}
    /\ pc' = IF c \in waited /\ pc[Sh] = "waiting" THEN [pc EXCEPT ![Sh] = "ring"] ELSE pc
    /\ UNCHANGED <<kbd, at, result, signalVars, typed>>

-----------------------------------------------------------------------------
(* shell()                                                                  *)

\* alarmHandler() runs before the shell goes on; signal 15 is handled once.
AlarmHandler ==
    /\ pending /\ pc[Sh] \notin {"reading", "waiting", "stopped"}
    /\ pending' = FALSE /\ armed' = FALSE
    /\ result' = IF pc[Sh] = "returned" THEN Wild ELSE result
    /\ UNCHANGED <<kbd, pc, at, childVars, typed>>

ShellOpens == Goes(Sh, "start", "ring") /\ Sets(kbd_open(kbd, Sh, TRUE).kbd)

\* Mutant of ClearsRing: the first character is not cleared.
ClearsRingFromOne ==
    /\ Goes(Sh, "ring", IF at = BufSize - 1 THEN "kbd_len" ELSE "ring")
    /\ kbd' = [kbd EXCEPT !.buf[at] = IF at = 0 THEN @ ELSE NUL]
    /\ at' = (at + 1) % BufSize
    /\ typed' = (at # 0 /\ typed)
    /\ result' = 0 /\ UNCHANGED <<childVars, signalVars>>

\* The top of the shell's loop: the ring, a character at a time.  From here on nothing
\* looks at what the last read returned.
ClearsRing ==
    /\ Goes(Sh, "ring", IF at = BufSize - 1 THEN "kbd_len" ELSE "ring")
    /\ kbd' = [kbd EXCEPT !.buf[at] = NUL]
    /\ at' = (at + 1) % BufSize
    /\ typed' = (at # 0 /\ typed)
    /\ result' = 0 /\ UNCHANGED <<childVars, signalVars>>

\* The other variables, one statement each, and then command_buf and the prompt.
ShellResets ==
    \/ Goes(Sh, "kbd_len", "kbd_index")  /\ Sets([kbd EXCEPT !.len = 0])
    \/ Goes(Sh, "kbd_index", "eof_flag") /\ Sets([kbd EXCEPT !.index = 0])
    \/ Goes(Sh, "eof_flag", "p_read")    /\ Sets([kbd EXCEPT !.eof_flag = FALSE])
    \/ Goes(Sh, "p_read", "p_buf")       /\ Sets([kbd EXCEPT !.got = <<>>])
    \/ Goes(Sh, "p_buf", "p_len")        /\ Sets([kbd EXCEPT !.p_buf = FALSE])
    \/ Goes(Sh, "p_len", "read")         /\ Sets([kbd EXCEPT !.p_len = 0])

ShellReads == Reads(Sh, "read", CommandLen)

\* strlen(command_buf), the text before the first NUL, and its first character.
Text == {n \in DOMAIN kbd.got : \A m \in 1 .. n : kbd.got[m] # NUL}
Command == IF 1 \in Text THEN kbd.got[1] ELSE NUL

\* command_buf[result - 2] == '&'; outside of the text it is anything.
Backgrounds ==
    IF result - 1 \in DOMAIN kbd.got THEN {kbd.got[result - 1] = "&"} ELSE BOOLEAN

\* t and t& only by themselves, a with anything behind it.
Starts(cmd) ==
    \/ cmd = "a" /\ Command = "a"
    \/ cmd = "t" /\ Command = "t"
       /\ \A n \in Text \ {1} : n = 2 /\ kbd.got[2] = "&"

\* syswait() may fail on a process that has not ended (the stale word of Kernel).
WaitsFor(c) ==
    \/ pc' = [pc EXCEPT ![Sh] = "ring"] /\ waited' = waited
    \/ pc' = [pc EXCEPT ![Sh] = "waiting"] /\ waited' = waited \cup {c}

\* syscreate() in the lowest free slot, and syswait() unless the command ends in &.
Creates(c, prog) ==
    /\ child[c] = "none" /\ \A d \in Children : d < c => child[d] # "none"
    /\ child' = [child EXCEPT ![c] = "asleep"] /\ program' = [program EXCEPT ![c] = prog]
    /\ \E background \in Backgrounds :
          IF background THEN pc' = [pc EXCEPT ![Sh] = "ring"] /\ waited' = waited
                        ELSE WaitsFor(c)

\* syscreate() fails when the table is full, and so does the wait for -1.
CreatesNone ==
    /\ \A c \in Children : child[c] # "none"
    /\ pc' = [pc EXCEPT ![Sh] = "ring"] /\ UNCHANGED childVars

Runs(cmd) == pc[Sh] = "returned" /\ ~pending /\ Starts(cmd)

RunsT ==
    /\ Runs("t")
    /\ CreatesNone \/ \E c \in Children : Creates(c, "t_func")
    /\ UNCHANGED <<kbd, at, result, signalVars, typed>>

\* syssighandler() comes first and is a step of its own.
RunsA ==
    \/ /\ Runs("a") /\ pc' = [pc EXCEPT ![Sh] = "handler"] /\ armed' = TRUE
       /\ UNCHANGED <<kbd, at, result, childVars, pending, typed>>
    \/ /\ pc[Sh] = "handler" /\ ~pending
       /\ CreatesNone \/ \E c \in Children : Creates(c, "a_func")
       /\ UNCHANGED <<kbd, at, result, signalVars, typed>>

\* syskill(pid, 31), or no such process.  Bound: only the shell's children.
RunsK ==
    /\ Goes(Sh, "returned", "ring") /\ Command = "k"
    /\ \/ child' = child
       \/ \E c \in Children : child[c] # "none" /\ child' = [child EXCEPT ![c] = "killed"]
    /\ UNCHANGED <<kbd, at, result, program, waited, signalVars, typed>>

\* ex, or a command that begins with the end-of-file character, which can be typed as
\* 0xfe but ends the read in transfer() and is not copied.
Leaves == Command = kbd.eof \/ (Text = {1} /\ Command = "e")

\* ps, and what is no command.
RunsOther ==
    /\ Goes(Sh, "returned", "ring")
    /\ ~Starts("a") /\ ~Starts("t") /\ Command # "k"
    /\ ~Leaves /\ Sets(kbd)

RunsEx == Goes(Sh, "returned", "stopped") /\ Leaves /\ Sets(kbd_close(kbd).kbd)

-----------------------------------------------------------------------------
ShellNext == ShellOpens \/ ClearsRing \/ ShellResets \/ ShellReads
             \/ RunsT \/ RunsA \/ RunsK \/ RunsOther \/ RunsEx

Next ==
    \/ RootOpens \/ RootReads \/ RootResets \/ RootCloses
    \/ ShellNext \/ AlarmHandler
    \/ \E c \in Children : Wakes(c) \/ Alarm(c) \/ Ends(c)
    \/ \E c \in Char : Interrupt(c)

ShellSpec == InitShell /\ [][Next]_shVars

\* Sleeps end and ready processes run (core); no program does anything by itself.
FairShellSpec ==
    /\ ShellSpec /\ WF_shVars(AlarmHandler)
    /\ \A c \in Children : WF_shVars(Wakes(c)) /\ WF_shVars(Alarm(c))

-----------------------------------------------------------------------------
(* Properties                                                               *)

\* However keys fall between the statements that reset the driver, a command never
\* contains a character that was typed before they began (c/user.c:919-931).
NoOldCharacters ==
    pc[Sh] \in {"reading", "returned"} /\ Watched \in {kbd.got[n] : n \in DOMAIN kbd.got}
        => typed

\* An alarm that the shell has set rings whatever the shell is doing then: the signal
\* of a_func reaches alarmHandler, if 15 is handled ("handler is disabled [...] after
\* it has been delivered", c/user.c:1036) and nobody kills a_func.
HandledAlarmRings ==
    \A c \in Children :
        armed /\ child[c] = "asleep" /\ program[c] = "a_func"
            ~> ~armed \/ pc[Sh] = "stopped" \/ child[c] = "killed"

\* "assuming that command is sent as 'a #\n'" (c/user.c:1020): what is executed was
\* ended by Enter, unless it fills the buffer.
CommandsAreWhole ==
    pc[Sh] = "handler" /\ Len(kbd.got) < CommandLen
        => NUL \in {kbd.got[n] : n \in DOMAIN kbd.got}
=============================================================================
