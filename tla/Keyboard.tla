------------------------------ MODULE Keyboard ------------------------------
(***************************************************************************)
(* The keyboard driver by itself, with any number of processes that call   *)
(* it: all the rest of the system shows in is whether the process that     *)
(* holds the keyboard is blocked in a read, and a signal may end that at   *)
(* any time.  Devices implements this machine with the dispatcher.         *)
(***************************************************************************)
EXTENDS KbdDriver

VARIABLES
    kbd,        \* the static variables of the driver
    blocked     \* the state of kbd_proc is STATE_BLOCKED_READING

kbdVars == <<kbd, blocked>>

Init_ == kbd = kbd_reset_state /\ blocked = FALSE

\* The driver returns o; process i called it, and blocks if it is told to.
Calls_(outcome, i) ==
    \E o \in {outcome} :
        /\ kbd' = o.kbd
        /\ blocked' = (o.kbd.proc # NoPcb /\ ~o.wakes
                       /\ (blocked \/ (o.result = "BLOCK" /\ i = o.kbd.proc)))

\* A blocked process makes no call.
Runs(i) == ~(blocked /\ i = kbd.proc)

Open_(i)    == Runs(i) /\ \E echo \in BOOLEAN : Calls_(kbd_open(kbd, i, echo), i)
Close_(i)   == Runs(i) /\ Calls_(kbd_close(kbd), i)
Read_(i, n) == Runs(i) /\ Calls_(kbd_read(kbd, TRUE, n), i)
BadRead_(i) == Runs(i) /\ Calls_(kbd_read(kbd, FALSE, 0), i)
Ioctl_(i, command, c) == Runs(i) /\ Calls_(kbd_ioctl(kbd, command, c), i)

\* IRQ 1 comes while the keyboard is closed, too, before its first open: kbd_open()
\* discards what was typed.
Interrupt_(c) == Calls_(kbd_int_read(kbd, c, blocked), NoPcb)

\* A signal readies the blocked process.
Woken_ == blocked /\ blocked' = FALSE /\ UNCHANGED kbd

Next_ ==
    \/ \E i \in Readers :
          \/ Open_(i) \/ Close_(i) \/ BadRead_(i)
          \/ \E n \in ReadLens : Read_(i, n)
          \/ \E c \in Char : Ioctl_(i, "eof", c)
          \/ \E command \in {"echo_off", "echo_on", "unknown"} : Ioctl_(i, command, NUL)
    \/ \E c \in Char \cup {NoKey} : Interrupt_(c)
    \/ Woken_

KbdSpec == Init_ /\ [][Next_]_kbdVars

\* Whoever sits at the keyboard goes on pressing Enter.
KbdFairSpec == KbdSpec /\ WF_kbdVars(Interrupt_(ENTER))

-----------------------------------------------------------------------------
(* Properties                                                               *)

\* The driver's variables have their types: the ring never holds more than its
\* size, and a read never stores more than the buffer it was given can hold.
KbdTypeOK ==
    /\ kbd.buf \in [0 .. BufSize - 1 -> Char \cup {NUL}]
    /\ kbd.len \in 0 .. BufSize /\ kbd.index \in 0 .. BufSize - 1
    /\ kbd.proc \in Readers \cup {NoPcb} /\ kbd.open = (kbd.proc # NoPcb)
    /\ kbd.p_len \in ReadLens \cup {0} /\ Len(kbd.got) <= kbd.p_len
    /\ kbd.eof \in Char \cup {EOF}
    /\ {kbd.open, kbd.echo, kbd.eof_flag, kbd.p_buf, blocked} \subseteq BOOLEAN

\* The characters in the ring, first typed first.
Ring == [n \in 1 .. kbd.len |-> kbd.buf[(kbd.index + n - 1) % BufSize]]

\* No wake-up is missed: while the holder of the keyboard is blocked in a read that
\* has room, nothing it could have been given waits in the ring (c/kbd.c:200, 280).
ReaderNotForgotten ==
    blocked /\ Len(kbd.got) < kbd.p_len => kbd.len = 0

\* A read returns at the end of a line and not in the middle of the next: the mark of
\* a line's end is the last character stored, and the reader is not blocked any more.
LinesEndReads ==
    \A n \in DOMAIN kbd.got : kbd.got[n] = NUL => n = Len(kbd.got) /\ ~blocked


Line == INSTANCE LineInput WITH
    Capacity <- BufSize, Lens <- ReadLens \cup {0}, queue <- Ring,
    line <- kbd.got, want <- kbd.p_len, eof <- kbd.eof

\* Whoever opens, reads, signals or types when: what reads store is what was typed, in
\* order, each character once, none lost but those typed into a full ring.
ImplementsLineInput == Line!Spec
=============================================================================
