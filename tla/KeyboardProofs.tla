---------------------------- MODULE KeyboardProofs ---------------------------
(***************************************************************************)
(* The keyboard driver, with a ring of any size and any readers, loses no  *)
(* wake-up and no character, and implements the queue of LineInput.        *)
(***************************************************************************)
EXTENDS Keyboard, DriverProofs

\* The inductive invariant.
KbdInv == Inv(kbd, blocked)

LEMMA CallsKeep ==
    ASSUME NEW o, NEW i, Calls_(o, i), KbdInv,
           Good(blocked, o) \/ (i = NoPcb /\ Keeps(blocked, o))
    PROVE  KbdInv' /\ kbd' = o.kbd
BY CallKeeps DEF Calls_, KbdInv

\* A step of the driver and the step of LineInput that it is.
Step_ == Line!Next \/ UNCHANGED <<Ring, kbd.got, kbd.p_len, kbd.eof>>

LEMMA RingIsQueue == Ring = Queue(kbd) /\ Ring' = Queue(kbd')
BY DEF Ring, Queue

LEMMA StaysStep == Stays(kbd', kbd) => Step_
BY RingIsQueue DEF Stays, Becomes, Step_

LEMMA ResetStep == Becomes(kbd', <<>>, <<>>, 0, EOF) => Step_
BY RingIsQueue DEF Becomes, Step_, Line!Next, Line!Reset

LEMMA NothingStep == Becomes(kbd', Queue(kbd), <<>>, kbd.p_len, kbd.eof) => Step_
BY RingIsQueue DEF Becomes, Step_, Line!Next, Line!ReadNothing

LEMMA EofStep ==
    ASSUME NEW c \in Char, Becomes(kbd', Queue(kbd), kbd.got, kbd.p_len, c)
    PROVE  Step_
<1>1. Line!SetEof(c)
  BY RingIsQueue DEF Becomes, Line!SetEof
<1> QED
  BY <1>1 DEF Step_, Line!Next

\* The instance's Deliver is Delivers on the state and the next.
LEMMA DeliverStep ==
    ASSUME NEW q, NEW got, NEW room,
           Delivers(q, got, room, kbd.eof, Queue(kbd'), kbd'.got)
    PROVE  Line!Deliver(q, got, room)
BY RingIsQueue DEF Delivers, Least, Line!Deliver, Line!Min

LEMMA ReadStep ==
    ASSUME NEW n \in ReadLens,
           \/ Becomes(kbd', Queue(kbd), <<>>, n, kbd.eof)
           \/ /\ kbd'.p_len = n /\ kbd'.eof = kbd.eof
              /\ Delivers(Queue(kbd), <<>>, n, kbd.eof, Queue(kbd'), kbd'.got)
    PROVE  Step_
<1>1. CASE Becomes(kbd', Queue(kbd), <<>>, n, kbd.eof)
  <2>1. Line!Read(n)
    BY <1>1, RingIsQueue DEF Becomes, Line!Read
  <2> QED
    BY <2>1 DEF Step_, Line!Next
<1>2. CASE /\ kbd'.p_len = n /\ kbd'.eof = kbd.eof
           /\ Delivers(Queue(kbd), <<>>, n, kbd.eof, Queue(kbd'), kbd'.got)
  <2>1. Line!Deliver(Ring, <<>>, n)
    BY <1>2, RingIsQueue, DeliverStep
  <2>2. Line!Read(n)
    BY <1>2, <2>1 DEF Line!Read
  <2> QED
    BY <2>2 DEF Step_, Line!Next
<1> QED
  BY <1>1, <1>2

LEMMA TypeStep ==
    ASSUME VarsOK(kbd), NEW c \in Char,
           \/ Becomes(kbd', Queued(kbd, c), kbd.got, kbd.p_len, kbd.eof)
           \/ /\ kbd'.p_len = kbd.p_len /\ kbd'.eof = kbd.eof
              /\ Delivers(Queued(kbd, c), kbd.got, kbd.p_len, kbd.eof, Queue(kbd'), kbd'.got)
    PROVE  Step_
<1> DEFINE q == IF Len(Ring) < BufSize THEN Append(Ring, c) ELSE Ring
<1>1. q = Queued(kbd, c)
  BY RingIsQueue, QueueIs DEF Queued
<1>2. /\ Line!Deliver(q, kbd.got, kbd.p_len) \/ (Ring' = q /\ kbd'.got = kbd.got)
      /\ kbd'.p_len = kbd.p_len /\ kbd'.eof = kbd.eof
  BY <1>1, RingIsQueue, DeliverStep DEF Becomes
<1>3. Line!Type(c)
  BY <1>2 DEF Line!Type
<1> QED
  BY <1>3 DEF Step_, Line!Next

LEMMA KbdInit == Init_ => KbdInv /\ Line!Init
<1> SUFFICES ASSUME Init_  PROVE KbdInv /\ Line!Init
  OBVIOUS
<1>1. kbd = kbd_reset_state /\ blocked = FALSE
  BY DEF Init_
<1>2. KbdInv
  BY <1>1, ResetGood DEF KbdInv, Inv
<1>3. Line!Init
  BY <1>1, ResetGood, RingIsQueue DEF Becomes, Line!Init
<1> QED
  BY <1>2, <1>3

LEMMA KbdStep == KbdInv /\ [Next_]_kbdVars => KbdInv' /\ Step_
<1> SUFFICES ASSUME KbdInv, [Next_]_kbdVars  PROVE KbdInv' /\ Step_
  OBVIOUS
<1>0. Inv(kbd, blocked)
  BY DEF KbdInv
<1>1. CASE \E i \in Readers : Open_(i)
  <2>1. PICK i \in Readers, e \in BOOLEAN : Calls_(kbd_open(kbd, i, e), i)
    BY <1>1 DEF Open_
  <2>2. /\ Good(blocked, kbd_open(kbd, i, e))
        /\ \/ Stays(kbd_open(kbd, i, e).kbd, kbd)
           \/ Becomes(kbd_open(kbd, i, e).kbd, <<>>, <<>>, 0, EOF)
    BY <1>0, OpenGood
  <2> QED
    BY <2>1, <2>2, CallsKeep, StaysStep, ResetStep
<1>2. CASE \E i \in Readers : Close_(i)
  <2>1. PICK i \in Readers : Calls_(kbd_close(kbd), i)
    BY <1>2 DEF Close_
  <2>2. /\ Good(blocked, kbd_close(kbd))
        /\ \/ Stays(kbd_close(kbd).kbd, kbd)
           \/ Becomes(kbd_close(kbd).kbd, <<>>, <<>>, 0, EOF)
    BY <1>0, CloseGood
  <2> QED
    BY <2>1, <2>2, CallsKeep, StaysStep, ResetStep
<1>3. CASE \E i \in Readers : BadRead_(i)
  <2>1. PICK i \in Readers : Calls_(kbd_read(kbd, FALSE, 0), i)
    BY <1>3 DEF BadRead_
  <2>2. Good(blocked, kbd_read(kbd, FALSE, 0)) /\ Stays(kbd_read(kbd, FALSE, 0).kbd, kbd)
    BY <1>0, BadReadGood
  <2> QED
    BY <2>1, <2>2, CallsKeep, StaysStep
<1>4. CASE \E i \in Readers, n \in ReadLens : Read_(i, n)
  <2>1. PICK i \in Readers, n \in ReadLens : Calls_(kbd_read(kbd, TRUE, n), i)
    BY <1>4 DEF Read_
  <2> DEFINE o == kbd_read(kbd, TRUE, n)
  <2>2. /\ Good(blocked, o)
        /\ \/ Stays(o.kbd, kbd)
           \/ Becomes(o.kbd, Queue(kbd), <<>>, kbd.p_len, kbd.eof)
           \/ Becomes(o.kbd, Queue(kbd), <<>>, n, kbd.eof)
           \/ /\ o.kbd.p_len = n /\ o.kbd.eof = kbd.eof
              /\ Delivers(Queue(kbd), <<>>, n, kbd.eof, Queue(o.kbd), o.kbd.got)
    BY <1>0, ReadGood
  <2> HIDE DEF o
  <2>3. KbdInv' /\ kbd' = o.kbd
    BY <2>1, <2>2, CallsKeep DEF o
  <2> QED
    BY <2>2, <2>3, StaysStep, NothingStep, ReadStep
<1>5. CASE \E i \in Readers, c \in Char : Ioctl_(i, "eof", c)
  <2>1. PICK i \in Readers, c \in Char : Calls_(kbd_ioctl(kbd, "eof", c), i)
    BY <1>5 DEF Ioctl_
  <2>2. /\ Good(blocked, kbd_ioctl(kbd, "eof", c))
        /\ Becomes(kbd_ioctl(kbd, "eof", c).kbd, Queue(kbd), kbd.got, kbd.p_len, c)
    BY <1>0, EofGood
  <2> QED
    BY <2>1, <2>2, CallsKeep, EofStep
<1>6. CASE \E i \in Readers, command \in {"echo_off", "echo_on", "unknown"} :
               Ioctl_(i, command, NUL)
  <2>1. PICK i \in Readers, command \in {"echo_off", "echo_on", "unknown"} :
            Calls_(kbd_ioctl(kbd, command, NUL), i)
    BY <1>6 DEF Ioctl_
  <2>2. /\ Good(blocked, kbd_ioctl(kbd, command, NUL))
        /\ Stays(kbd_ioctl(kbd, command, NUL).kbd, kbd)
    BY <1>0, EchoGood
  <2> QED
    BY <2>1, <2>2, CallsKeep, StaysStep
<1>7. CASE \E c \in Char \cup {NoKey} : Interrupt_(c)
  <2>1. PICK c \in Char \cup {NoKey} : Calls_(kbd_int_read(kbd, c, blocked), NoPcb)
    BY <1>7 DEF Interrupt_
  <2> DEFINE o == kbd_int_read(kbd, c, blocked)
  <2>2. /\ Keeps(blocked, o)
        /\ \/ Stays(o.kbd, kbd)
           \/ Becomes(o.kbd, Queue(kbd), <<>>, kbd.p_len, kbd.eof)
           \/ c \in Char /\ Becomes(o.kbd, Queued(kbd, c), kbd.got, kbd.p_len, kbd.eof)
           \/ /\ c \in Char /\ o.kbd.p_len = kbd.p_len /\ o.kbd.eof = kbd.eof
              /\ Delivers(Queued(kbd, c), kbd.got, kbd.p_len, kbd.eof, Queue(o.kbd), o.kbd.got)
    BY <1>0, InterruptGood
  <2> HIDE DEF o
  <2>3. KbdInv' /\ kbd' = o.kbd
    BY <2>1, <2>2, CallsKeep DEF o
  <2>4. VarsOK(kbd)
    BY <1>0 DEF Inv
  <2> QED
    BY <2>2, <2>3, <2>4, StaysStep, NothingStep, TypeStep
<1>8. CASE Woken_
  <2>1. kbd' = kbd /\ blocked' = FALSE
    BY <1>8 DEF Woken_
  <2>2. Stays(kbd', kbd)
    BY <2>1 DEF Stays, Becomes
  <2> QED
    BY <1>0, <2>1, <2>2, StaysStep DEF KbdInv, Inv
<1>9. CASE UNCHANGED kbdVars
  <2>1. kbd' = kbd /\ blocked' = blocked
    BY <1>9 DEF kbdVars
  <2>2. Stays(kbd', kbd)
    BY <2>1 DEF Stays, Becomes
  <2> QED
    BY <1>0, <2>1, <2>2, StaysStep DEF KbdInv, Inv
<1> QED
  BY <1>1, <1>2, <1>3, <1>4, <1>5, <1>6, <1>7, <1>8, <1>9 DEF Next_

LEMMA KbdAlways == KbdSpec => []KbdInv
BY KbdInit, KbdStep, PTL DEF KbdSpec

-----------------------------------------------------------------------------
\* The ring of the driver never holds more than its size, and a read never stores more
\* than the buffer it was given can hold, whatever is typed and whoever reads.
THEOREM RingAndReadsFit == KbdSpec => []KbdTypeOK
<1>1. KbdInv => KbdTypeOK
  <2> SUFFICES ASSUME KbdInv  PROVE KbdTypeOK
    OBVIOUS
  <2>1. VarsOK(kbd) /\ kbd \in Vars /\ blocked \in BOOLEAN
    BY DEF KbdInv, Inv, VarsOK
  <2> QED
    BY <2>1, Fields DEF VarsOK, KbdTypeOK, Stored
<1> QED
  BY <1>1, KbdAlways, PTL

\* transfer() and kbd_int_read() miss no wake-up: the holder of the keyboard is not blocked
\* in a read that has room while characters wait.
THEOREM NoReaderForgotten == KbdSpec => []ReaderNotForgotten
<1>1. KbdInv => ReaderNotForgotten
  <2> SUFFICES ASSUME KbdInv, blocked, Len(kbd.got) < kbd.p_len  PROVE kbd.len = 0
    BY DEF ReaderNotForgotten
  <2>1. kbd \in Vars /\ (kbd.p_len = 0 \/ kbd.len = 0)
    BY DEF KbdInv, Inv, VarsOK, Waits
  <2> QED
    BY <2>1, Fields
<1> QED
  BY <1>1, KbdAlways, PTL

\* transfer() ends a read with the end of a line, which is the last thing it stores.
THEOREM ReadsEndWithLines == KbdSpec => []LinesEndReads
<1>1. KbdInv => LinesEndReads
  <2> SUFFICES ASSUME KbdInv, NEW n \in DOMAIN kbd.got, kbd.got[n] = NUL
               PROVE  n = Len(kbd.got) /\ ~blocked
    BY DEF LinesEndReads
  <2>1. kbd \in Vars
    BY DEF KbdInv, Inv, VarsOK
  <2>2. n \in 1 .. Len(kbd.got)
    BY <2>1, Fields, LenProperties
  <2> QED
    BY <2>2 DEF KbdInv, Inv, LinesOK, Waits
<1> QED
  BY <1>1, KbdAlways, PTL

\* The driver implements the queue that programs may rely on: what reads store is what was
\* typed, in order, each character once, none lost but those typed into a full ring.
THEOREM DriverIsLineInput == KbdSpec => ImplementsLineInput
<1>1. Init_ => Line!Init
  BY KbdInit
<1>2. KbdInv /\ [Next_]_kbdVars => [Line!Next]_<<Ring, kbd.got, kbd.p_len, kbd.eof>>
  BY KbdStep DEF Step_
<1>3. KbdSpec => Line!Spec
  BY <1>1, <1>2, KbdAlways, PTL DEF KbdSpec, Line!Spec
<1> QED
  BY <1>3 DEF ImplementsLineInput
=============================================================================
