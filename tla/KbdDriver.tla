----------------------------- MODULE KbdDriver -----------------------------
(***************************************************************************)
(* The keyboard driver, c/kbd.c: a ring of characters filled by the        *)
(* interrupt and emptied into the buffer of the process that reads.        *)
(*                                                                         *)
(* A function of the driver is an operator on the record of its static     *)
(* variables and returns an Outcome, which the modules that extend this    *)
(* one compose with the rest of the system.                                *)
(***************************************************************************)
EXTENDS Integers, Sequences

CONSTANTS
    BufSize,     \* KBD_BUF_SIZE, the size of the ring
    Char,        \* bound: the characters that keys stand for
    ReadLens,    \* bound: the lengths that reads ask for
    Readers      \* bound: the processes that use the keyboard

\* The three characters that the driver treats specially.  EOF is -2.
ENTER == "ENTER"
NUL == "NUL"
EOF == "EOF"

ASSUME KeyboardAssumption ==
    /\ BufSize \in Nat \ {0}
    /\ Char \subseteq STRING /\ NUL \notin Char
    /\ ReadLens \subseteq Nat /\ Readers \subseteq Nat

NoPcb == -1     \* kbd_proc = NULL
NoKey == "none" \* an interrupt that brings no character: 0, NOCHAR, no data

\* Both devinit() and kbd_reset_state().  p_buf says whether the pointer is set;
\* got is what has been stored there, so that p_read is Len(got).
kbd_reset_state ==
    [open |-> FALSE, echo |-> FALSE, eof_flag |-> FALSE, eof |-> EOF,
     proc |-> NoPcb, buf |-> [i \in 0 .. BufSize - 1 |-> NUL], len |-> 0,
     index |-> 0, p_buf |-> FALSE, p_len |-> 0, got |-> <<>>]

\* What a function of the driver leaves and returns, whether it calls
\* ready(kbd_proc), and what it assigns to kbd_proc->ret.
NoRet == -1
Outcome(k, result, wakes, ret) ==
    [kbd |-> k, result |-> result, wakes |-> wakes, ret |-> ret]
Failed(k) == Outcome(k, "ERROR", FALSE, NoRet)

kbd_open(k, process, echo) ==
    IF k.open THEN Failed(k)
    ELSE Outcome([kbd_reset_state EXCEPT !.proc = process, !.open = TRUE,
                                         !.echo = echo],
                 "DONE", FALSE, NoRet)

kbd_close(k) ==
    IF ~k.open THEN Failed(k) ELSE Outcome(kbd_reset_state, "DONE", FALSE, NoRet)

\* Mutant of TakeOne: the end of a line does not end the read.
TakeOneNoLines(s) ==
    LET k == s.kbd
    IN  [kbd |-> [k EXCEPT !.len = @ - 1, !.index = (@ + 1) % BufSize,
                           !.got = Append(@, IF k.buf[k.index] = ENTER
                                             THEN NUL ELSE k.buf[k.index])],
         over |-> k.buf[k.index] = k.eof]

\* One iteration of transfer()'s loop, on the driver's variables and on whether
\* the loop was left by a return.
TakeOne(s) ==
    LET k == s.kbd
        c == k.buf[k.index]
        taken == [k EXCEPT !.len = @ - 1, !.index = (@ + 1) % BufSize]
    IN  IF c = k.eof THEN [kbd |-> [taken EXCEPT !.eof_flag = TRUE], over |-> TRUE]
        ELSE IF c = ENTER
        THEN [kbd |-> [taken EXCEPT !.got = Append(@, NUL)], over |-> TRUE]
        ELSE [kbd |-> [taken EXCEPT !.got = Append(@, c)], over |-> FALSE]

\* transfer()'s loop goes on until a return, or nothing is left or nothing more is wanted.
GoesOn(s) == ~s.over /\ s.kbd.len > 0 /\ Len(s.kbd.got) < s.kbd.p_len

\* What it has done after n iterations, and when it is left.
Transferring(k) ==
    LET after[n \in 0 .. BufSize] ==
            IF n = 0 THEN [kbd |-> k, over |-> FALSE]
            ELSE IF GoesOn(after[n - 1]) THEN TakeOne(after[n - 1]) ELSE after[n - 1]
    IN  after

takeAll(k) == Transferring(k)[BufSize]


transfer(k) ==
    LET s   == takeAll(k)
        ret == Len(s.kbd.got)
    IN  IF s.over THEN Outcome(s.kbd, "DONE", TRUE, ret)
        ELSE IF s.kbd.p_len # ret THEN Outcome(s.kbd, "BLOCK", FALSE, ret)
        ELSE Outcome([s.kbd EXCEPT !.eof_flag = TRUE], "DONE", TRUE, ret)

\* Any process may read an open keyboard; a buffer in the hole of memory or of
\* negative length is one with ok = FALSE.
kbd_read(k, ok, buflen) ==
    LET fresh == [k EXCEPT !.p_buf = TRUE, !.p_len = buflen, !.got = <<>>]
    IN  IF ~k.open \/ ~ok THEN Failed(k)
        ELSE IF k.eof_flag THEN Outcome([k EXCEPT !.got = <<>>], "DONE", FALSE, 0)
        ELSE IF k.buf[k.index] # NUL /\ k.len > 0 /\ buflen # 0 THEN transfer(fresh)
        ELSE Outcome(fresh, "BLOCK", FALSE, 0)

\* The commands 53, 55 and 56, and any other.
kbd_ioctl(k, command, c) ==
    CASE command = "eof"      -> Outcome([k EXCEPT !.eof = c], "DONE", FALSE, NoRet)
      [] command = "echo_off" -> Outcome([k EXCEPT !.echo = FALSE], "DONE", FALSE, NoRet)
      [] command = "echo_on"  -> Outcome([k EXCEPT !.echo = TRUE], "DONE", FALSE, NoRet)
      [] OTHER                -> Failed(k)

\* Mutants of store: a full ring is not noticed; the place is counted from 0.
storeAlways(k, c) ==
    IF c = NoKey THEN k
    ELSE [k EXCEPT !.buf[(k.index + k.len) % BufSize] = c, !.len = @ + 1]

storeFromZero(k, c) ==
    IF c = NoKey \/ k.len = BufSize THEN k
    ELSE [k EXCEPT !.buf[k.len] = c, !.len = @ + 1]

\* A character goes behind those in the ring, unless that is full.
store(k, c) ==
    IF c = NoKey \/ k.len = BufSize THEN k
    ELSE [k EXCEPT !.buf[(k.index + k.len) % BufSize] = c, !.len = @ + 1]

\* Mutant of kbd_int_read: a blocked reader is served when the ring is full.
intReadWhenFull(k, c, isBlocked) ==
    IF k.eof_flag THEN Outcome([k EXCEPT !.got = <<>>], "DONE", TRUE, 0)
    ELSE IF store(k, c).len = BufSize /\ isBlocked /\ k.p_buf THEN transfer(store(k, c))
    ELSE Outcome(store(k, c), "BLOCK", FALSE, Len(k.got))

\* The keyboard interrupt: with eof_flag set the port is not even read.
kbd_int_read(k, c, isBlocked) ==
    LET stored == store(k, c)
    IN  IF k.eof_flag THEN Outcome([k EXCEPT !.got = <<>>], "DONE", TRUE, 0)
        ELSE IF stored # k /\ k.proc # NoPcb /\ isBlocked /\ k.p_buf
        THEN transfer(stored)
        ELSE Outcome(stored, "BLOCK", FALSE, Len(k.got))
=============================================================================
