----------------------------- MODULE ScanCodes ------------------------------
(***************************************************************************)
(* kbtoa() of c/kbd.c: the scan codes that a keyboard sends as keys go     *)
(* down and up, and the state the driver keeps of the modifiers.  The      *)
(* keyboard is modelled from the codes: the control key to the right sends *)
(* the code of that to the left behind EXTESC.                             *)
(***************************************************************************)
EXTENDS Integers, Sequences

Modifier == {"LSHIFT", "RSHIFT", "LCTL", "LMETA", "CAPSL"}
Key == Modifier \cup {"a", "RCTL"}

VARIABLES
    held,     \* the keys that are down
    port,     \* the bytes sent and not yet read: EXTESC or a key's code
    bits,     \* the static variable state: the set of its bits that are on
    char      \* what kbtoa() returned last

scanVars == <<held, port, bits, char>>

NOCHAR == "NOCHAR"

\* 0xe0, which has the bit KEY_UP.
EXTESC == [code |-> "EXTESC", up |-> TRUE]

\* The tables kbcode, kbshift and kbctl, at a letter.
kbcode == [a |-> "a"]
kbshift == [a |-> "A"]
kbctl == [a |-> "^A"]

BitOf == [LSHIFT |-> "INSHIFT", RSHIFT |-> "INSHIFT", CAPSL |-> "CAPSLOCK",
          LCTL |-> "INCTL", LMETA |-> "INMETA"]

Result(b, c) == [bits |-> b, char |-> c]

\* The state is returned as a character: 0, or with a modifier a control character.
\* It is never called: EXTESC is taken for a key that goes up, and EXTENDED never set.
extchar(b) ==
    LET state == b \ {"EXTENDED"}
    IN  Result(state, IF state = {} THEN "NUL" ELSE "control")

\* A mutant of KeyUp: the code is compared with KEY_UP in it, and no key is found.
KeyUpUnmasked(b, code) == Result(b, NOCHAR)

KeyUp(b, code) ==
    Result(IF code \in Modifier THEN b \ {BitOf[code]} ELSE b, NOCHAR)

KeyDown(b, code) ==
    LET shifted == ("INSHIFT" \in b) # ("CAPSLOCK" \in b)
        ch == IF "INCTL" \in b THEN kbctl[code]
              ELSE IF shifted THEN kbshift[code] ELSE kbcode[code]
    IN  IF code \in Modifier THEN Result(b \cup {BitOf[code]}, NOCHAR)
        ELSE IF code = "EXTESC" THEN Result(b \cup {"EXTENDED"}, NOCHAR)
        ELSE Result(b, IF "INMETA" \in b THEN "meta " \o ch ELSE ch)

kbtoa(b, byte) ==
    IF "EXTENDED" \in b THEN extchar(b)
    ELSE IF byte.up THEN KeyUp(b, byte.code)
    ELSE KeyDown(b, byte.code)

Sent(k, up) ==
    IF k = "RCTL" THEN <<EXTESC, [code |-> "LCTL", up |-> up]>>
                  ELSE <<[code |-> k, up |-> up]>>

InitScan == held = {} /\ port = <<>> /\ bits = {} /\ char = NOCHAR

\* Bound: a key goes down or up when what the one before it sent has been read but
\* for its last byte.  A key that is held down is sent again.
Press(k) ==
    /\ Len(port) <= 1
    /\ held' = held \cup {k}
    /\ port' = port \o Sent(k, FALSE)
    /\ UNCHANGED <<bits, char>>

Release(k) ==
    /\ k \in held /\ Len(port) <= 1
    /\ held' = held \ {k}
    /\ port' = port \o Sent(k, TRUE)
    /\ UNCHANGED <<bits, char>>

\* Bound: the keyboard is open, and no end of file leaves a byte in the port.
ReadPort ==
    /\ port # <<>>
    /\ LET r == kbtoa(bits, Head(port)) IN bits' = r.bits /\ char' = r.char
    /\ port' = Tail(port)
    /\ UNCHANGED held

NextScan == (\E k \in Key : Press(k) \/ Release(k)) \/ ReadPort

-----------------------------------------------------------------------------
(* Properties                                                               *)

\* The keys that have a bit: two of them have INSHIFT, and two INCTL, since EXTESC
\* changes nothing.
KeysOf(bit) ==
    {k \in Modifier : BitOf[k] = bit} \cup (IF bit = "INCTL" THEN {"RCTL"} ELSE {})

\* When all bytes have been read, the bit of a modifier is on if all its keys are down
\* and off if all are up, whatever keys are held together and let go in which order.
\* When one of two is down nothing is promised: to let the other go clears the bit
\* (c/kbd.c:322, 330), although "shift key is down" (h/kbd.h:25).
ModifiersAreHeld ==
    port = <<>> =>
        \A bit \in {BitOf[k] : k \in Modifier} :
            /\ KeysOf(bit) \subseteq held => bit \in bits
            /\ KeysOf(bit) \cap held = {} => bit \notin bits
=============================================================================
