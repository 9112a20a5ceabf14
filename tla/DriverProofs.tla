----------------------------- MODULE DriverProofs ----------------------------
(***************************************************************************)
(* What the functions of the keyboard driver do to a ring of any size:     *)
(* transfer() takes the first that wait, in order, up to the end of a line *)
(* or of the buffer; and each function keeps Inv, in which no reader is    *)
(* left blocked while characters wait that it has room for.                *)
(***************************************************************************)
EXTENDS KbdDriver, SequenceTheorems, FiniteSetTheorems, WellFoundedInduction, TLAPS

Stored == Char \cup {NUL}

\* The driver's static variables.
Vars == [open : BOOLEAN, echo : BOOLEAN, eof_flag : BOOLEAN, eof : Char \cup {EOF},
         proc : Readers \cup {NoPcb}, buf : [0 .. BufSize - 1 -> Stored],
         len : 0 .. BufSize, index : 0 .. BufSize - 1, p_buf : BOOLEAN,
         p_len : ReadLens \cup {0}, got : Seq(Stored)]

\* The n-th character that waits in the ring, counted from 0.
At(k, n) == k.buf[(k.index + n) % BufSize]

\* What waits are characters, and a read has stored no more than fits its buffer.
VarsOK(k) ==
    /\ k \in Vars
    /\ k.open = (k.proc # NoPcb)
    /\ Len(k.got) <= k.p_len
    /\ \A n \in 0 .. k.len - 1 : At(k, n) \in Char

\* The inductive invariant: a reader that is blocked has set the pointer and got no end
\* of a line, and if it asked for anything, nothing waits.
Waits(k) == k.p_buf /\ (k.p_len = 0 \/ k.len = 0) /\ \A n \in 1 .. Len(k.got) : k.got[n] # NUL
LinesOK(k) == \A n \in 1 .. Len(k.got) : k.got[n] = NUL => n = Len(k.got)

Inv(k, b) ==
    /\ VarsOK(k) /\ b \in BOOLEAN /\ LinesOK(k)
    /\ b => k.open /\ Waits(k)

-----------------------------------------------------------------------------
(* The ring                                                                 *)

LEMMA Wrap ==
    ASSUME NEW a \in 0 .. 2 * BufSize - 1
    PROVE  a % BufSize = IF a < BufSize THEN a ELSE a - BufSize
BY KeyboardAssumption

LEMMA WrapPlace ==
    ASSUME NEW i \in 0 .. BufSize - 1, NEW n \in 0 .. BufSize
    PROVE  /\ (i + n) % BufSize = IF i + n < BufSize THEN i + n ELSE i + n - BufSize
           /\ (i + n) % BufSize \in 0 .. BufSize - 1
BY KeyboardAssumption, Wrap

\* The places of a ring differ.
LEMMA PlacesDiffer ==
    ASSUME NEW i \in 0 .. BufSize - 1, NEW n \in 0 .. BufSize - 1, NEW m \in 0 .. BufSize - 1,
           n # m
    PROVE  (i + n) % BufSize # (i + m) % BufSize
<1>1. n \in 0 .. BufSize /\ m \in 0 .. BufSize
  BY KeyboardAssumption
<1>2. /\ (i + n) % BufSize = IF i + n < BufSize THEN i + n ELSE i + n - BufSize
      /\ (i + m) % BufSize = IF i + m < BufSize THEN i + m ELSE i + m - BufSize
  BY <1>1, WrapPlace
<1> QED
  BY <1>2, KeyboardAssumption

\* To go on by one and then by n is to go on by n + 1.
LEMMA NextPlace ==
    ASSUME NEW i \in 0 .. BufSize - 1, NEW n \in 0 .. BufSize - 1
    PROVE  (((i + 1) % BufSize) + n) % BufSize = (i + (n + 1)) % BufSize
<1>1. 1 \in 0 .. BufSize /\ n + 1 \in 0 .. BufSize /\ n \in 0 .. BufSize
  BY KeyboardAssumption
<1>2. /\ (i + 1) % BufSize \in 0 .. BufSize - 1
      /\ (i + 1) % BufSize = IF i + 1 < BufSize THEN i + 1 ELSE i + 1 - BufSize
  BY <1>1, WrapPlace
<1>3. (i + (n + 1)) % BufSize = IF i + (n + 1) < BufSize THEN i + (n + 1)
                                ELSE i + (n + 1) - BufSize
  BY <1>1, WrapPlace
<1> DEFINE j == (i + 1) % BufSize
<1>4. (j + n) % BufSize = IF j + n < BufSize THEN j + n ELSE j + n - BufSize
  BY <1>1, <1>2, WrapPlace
<1> HIDE DEF j
<1>5. j = IF i + 1 < BufSize THEN i + 1 ELSE i + 1 - BufSize
  BY <1>2 DEF j
<1>6. (j + n) % BufSize = (i + (n + 1)) % BufSize
  BY <1>3, <1>4, <1>5, KeyboardAssumption
<1> QED
  BY <1>6 DEF j

LEMMA NextAt ==
    ASSUME NEW k, NEW t, k.index \in 0 .. BufSize - 1, t.index = (k.index + 1) % BufSize,
           t.buf = k.buf, NEW n \in 0 .. BufSize - 1
    PROVE  At(t, n) = At(k, n + 1)
<1>1. (t.index + n) % BufSize = (k.index + (n + 1)) % BufSize
  BY NextPlace
<1>2. At(t, n) = t.buf[(t.index + n) % BufSize]
      /\ At(k, n + 1) = k.buf[(k.index + (n + 1)) % BufSize]
  BY DEF At
<1> QED
  BY <1>1, <1>2

\* What a change of some of the driver's variables leaves.
Same(t, k) ==
    /\ t.open = k.open /\ t.echo = k.echo /\ t.eof = k.eof /\ t.proc = k.proc
    /\ t.buf = k.buf /\ t.p_buf = k.p_buf /\ t.p_len = k.p_len

Move(k, l, x) == [k EXCEPT !.len = l, !.index = x]
Flag(k) == [k EXCEPT !.eof_flag = TRUE]
Store(k, g) == [k EXCEPT !.got = g]

LEMMA MoveFields ==
    ASSUME NEW k \in Vars, NEW l \in 0 .. BufSize, NEW x \in 0 .. BufSize - 1
    PROVE  LET t == Move(k, l, x)
           IN  /\ t \in Vars /\ Same(t, k)
               /\ t.len = l /\ t.index = x /\ t.got = k.got /\ t.eof_flag = k.eof_flag
BY DEF Vars, Same, Move

LEMMA FlagFields ==
    ASSUME NEW k \in Vars
    PROVE  LET t == Flag(k)
           IN  /\ t \in Vars /\ Same(t, k) /\ t.eof_flag
               /\ t.len = k.len /\ t.index = k.index /\ t.got = k.got
BY DEF Vars, Same, Flag

LEMMA StoreFields ==
    ASSUME NEW k \in Vars, NEW g \in Seq(Stored)
    PROVE  LET t == Store(k, g)
           IN  /\ t \in Vars /\ Same(t, k) /\ t.got = g
               /\ t.len = k.len /\ t.index = k.index /\ t.eof_flag = k.eof_flag
BY DEF Vars, Same, Store

LEMMA Fields ==
    ASSUME NEW k \in Vars
    PROVE  /\ k.open \in BOOLEAN /\ k.echo \in BOOLEAN /\ k.eof_flag \in BOOLEAN
           /\ k.eof \in Char \cup {EOF} /\ k.proc \in Readers \cup {NoPcb}
           /\ k.buf \in [0 .. BufSize - 1 -> Stored] /\ k.len \in 0 .. BufSize
           /\ k.index \in 0 .. BufSize - 1 /\ k.p_buf \in BOOLEAN
           /\ k.p_len \in ReadLens \cup {0} /\ k.p_len \in Nat
           /\ k.got \in Seq(Stored) /\ Len(k.got) \in Nat
<1>1. /\ k.open \in BOOLEAN /\ k.echo \in BOOLEAN /\ k.eof_flag \in BOOLEAN
      /\ k.eof \in Char \cup {EOF} /\ k.proc \in Readers \cup {NoPcb}
      /\ k.buf \in [0 .. BufSize - 1 -> Stored] /\ k.len \in 0 .. BufSize
      /\ k.index \in 0 .. BufSize - 1 /\ k.p_buf \in BOOLEAN
      /\ k.p_len \in ReadLens \cup {0} /\ k.got \in Seq(Stored)
  BY DEF Vars
<1>2. k.p_len \in Nat
  <2>1. ReadLens \cup {0} \subseteq Nat
    BY KeyboardAssumption
  <2> QED
    BY <1>1, <2>1
<1>3. Len(k.got) \in Nat
  BY <1>1, LenProperties
<1> QED
  BY <1>1, <1>2, <1>3

\* One iteration of transfer()'s loop takes the first character that waits.
LEMMA TakesFirst ==
    ASSUME NEW k, VarsOK(k), NEW s, s = [kbd |-> k, over |-> FALSE], GoesOn(s)
    PROVE  LET t == TakeOne(s)
           IN  /\ t = [kbd |-> t.kbd, over |-> t.over]
               /\ VarsOK(t.kbd) /\ Same(t.kbd, k)
               /\ t.kbd.len = k.len - 1
               /\ t.kbd.index = (k.index + 1) % BufSize
               /\ t.over \in BOOLEAN /\ (t.over <=> At(k, 0) \in {ENTER, k.eof})
               /\ t.kbd.got = IF At(k, 0) = k.eof THEN k.got
                              ELSE Append(k.got, IF At(k, 0) = ENTER THEN NUL ELSE At(k, 0))
<1> DEFINE c == At(k, 0)
           idx == (k.index + 1) % BufSize
           l == k.len - 1
           taken == Move(k, l, idx)
           t == TakeOne(s)
<1>1. /\ k \in Vars /\ k.len \in 1 .. BufSize /\ Len(k.got) < k.p_len
      /\ k.buf[k.index] = c /\ c \in Char
  <2>1. k \in Vars /\ k.len > 0 /\ Len(k.got) < k.p_len
    BY DEF VarsOK, GoesOn
  <2>2. k.index \in 0 .. BufSize - 1 /\ k.len \in 1 .. BufSize
    BY <2>1, Fields
  <2>3. 0 \in 0 .. BufSize /\ 0 \in 0 .. k.len - 1
    BY <2>2, KeyboardAssumption
  <2>4. (k.index + 0) % BufSize = k.index
    <3>1. (k.index + 0) % BufSize = IF k.index + 0 < BufSize THEN k.index + 0
                                    ELSE k.index + 0 - BufSize
      BY <2>2, <2>3, WrapPlace
    <3>2. k.index \in Int /\ k.index < BufSize /\ k.index + 0 = k.index
      BY <2>2, KeyboardAssumption
    <3> QED
      BY <3>1, <3>2
  <2> QED
    BY <2>1, <2>2, <2>3, <2>4 DEF VarsOK, At
<1>2. idx \in 0 .. BufSize - 1 /\ l \in 0 .. BufSize
  <2>1. k.index \in 0 .. BufSize - 1 /\ 1 \in 0 .. BufSize
    BY <1>1, Fields, KeyboardAssumption
  <2>2. idx \in 0 .. BufSize - 1
    BY <2>1, WrapPlace
  <2>3. l \in 0 .. BufSize
    BY <1>1, KeyboardAssumption
  <2> QED
    BY <2>2, <2>3
<1>3. /\ c = k.eof => t = [kbd |-> Flag(taken), over |-> TRUE]
      /\ c # k.eof /\ c = ENTER =>
            t = [kbd |-> Store(taken, Append(taken.got, NUL)), over |-> TRUE]
      /\ c # k.eof /\ c # ENTER =>
            t = [kbd |-> Store(taken, Append(taken.got, c)), over |-> FALSE]
  BY <1>1 DEF TakeOne, Move, Flag, Store
<1> HIDE DEF idx, l
<1>4. /\ taken \in Vars /\ Same(taken, k)
      /\ taken.len = l /\ taken.index = idx /\ taken.got = k.got
  BY <1>1, <1>2, MoveFields
<1> HIDE DEF taken, c, t
<1>5. /\ t = [kbd |-> t.kbd, over |-> t.over]
      /\ t.kbd \in Vars /\ Same(t.kbd, k) /\ t.kbd.len = l /\ t.kbd.index = idx
      /\ t.over \in BOOLEAN /\ (t.over <=> c \in {ENTER, k.eof})
      /\ t.kbd.got = IF c = k.eof THEN k.got ELSE Append(k.got, IF c = ENTER THEN NUL ELSE c)
  <2>1. CASE c = k.eof
    <3>1. t = [kbd |-> Flag(taken), over |-> TRUE]
      BY <1>3, <2>1
    <3>2. t.kbd = Flag(taken) /\ t.over = TRUE
      BY <3>1
    <3>3. /\ t.kbd \in Vars /\ Same(t.kbd, taken) /\ t.kbd.got = taken.got
          /\ t.kbd.len = taken.len /\ t.kbd.index = taken.index
      BY <1>4, <3>2, FlagFields
    <3> QED
      BY <1>4, <2>1, <3>1, <3>2, <3>3 DEF Same
  <2>2. CASE c # k.eof
    <3> DEFINE g == Append(k.got, IF c = ENTER THEN NUL ELSE c)
    <3>1. t = [kbd |-> Store(taken, g), over |-> c = ENTER]
      BY <1>3, <1>4, <2>2
    <3>2. g \in Seq(Stored)
      BY <1>1, Fields DEF Stored
    <3> HIDE DEF g
    <3>3. t.kbd = Store(taken, g) /\ t.over \in BOOLEAN /\ (t.over <=> c = ENTER)
      BY <3>1
    <3>4. /\ t.kbd \in Vars /\ Same(t.kbd, taken) /\ t.kbd.got = g
          /\ t.kbd.len = taken.len /\ t.kbd.index = taken.index
      BY <1>4, <3>2, <3>3, StoreFields
    <3> QED
      BY <1>4, <2>2, <3>1, <3>3, <3>4 DEF Same, g
  <2> QED
    BY <2>1, <2>2
<1>6. VarsOK(t.kbd)
  <2>1. t.kbd.open = (t.kbd.proc # NoPcb)
    BY <1>5 DEF VarsOK, Same
  <2>2. Len(t.kbd.got) <= t.kbd.p_len
    BY <1>1, <1>5, Fields DEF Same, Stored
  <2>3. ASSUME NEW n \in 0 .. t.kbd.len - 1  PROVE At(t.kbd, n) \in Char
    <3>1. n \in 0 .. BufSize - 1 /\ n + 1 \in 0 .. k.len - 1
      BY SMTT(30), <1>1, <1>5, Fields, KeyboardAssumption DEF l
    <3>2. At(t.kbd, n) = At(k, n + 1)
      <4>1. k.index \in 0 .. BufSize - 1
        BY <1>1, Fields
      <4>2. t.kbd.index = (k.index + 1) % BufSize /\ t.kbd.buf = k.buf
        BY <1>5 DEF Same, idx
      <4> QED
        BY <3>1, <4>1, <4>2, NextAt
    <3> QED
      BY <3>1, <3>2 DEF VarsOK
  <2> QED
    BY <1>5, <2>1, <2>2, <2>3 DEF VarsOK
<1> QED
  BY <1>5, <1>6 DEF t, c, l, idx

-----------------------------------------------------------------------------
(* transfer()'s loop                                                        *)

\* A set that has 0, and with each number the next, has them all: the least that it
\* would not have has a predecessor.
LEMMA StepInduction ==
    ASSUME NEW S, 0 \in S, \A n \in Nat : n \in S => n + 1 \in S
    PROVE  Nat \subseteq S
<1> DEFINE Out == Nat \ S
           T == {0 .. n : n \in Out}
           R == StrictSubsetOrdering(Nat)
<1> SUFFICES ASSUME Out # {}  PROVE FALSE
  OBVIOUS
<1>1. IsWellFoundedOn(R, FiniteSubsetsOf(Nat))
  BY FS_StrictSubsetOrderingWellFounded
<1>2. T \subseteq FiniteSubsetsOf(Nat) /\ T # {}
  <2>1. Out \subseteq Nat
    OBVIOUS
  <2> HIDE DEF Out
  <2>2. \A n \in Out : 0 .. n \subseteq Nat /\ IsFiniteSet(0 .. n)
    BY <2>1, FS_Interval
  <2> QED
    BY <2>2 DEF FiniteSubsetsOf
<1>3. PICK x \in T : \A y \in T : ~(<<y, x>> \in R)
  <2> HIDE DEF T, R
  <2> QED
    BY <1>1, <1>2, WFMin
<1>4. PICK n \in Out : x = 0 .. n
  OBVIOUS
<1>5. n # 0 /\ n - 1 \in Nat /\ (n - 1) + 1 = n
  BY <1>4
<1>6. n - 1 \in Out
  BY <1>4, <1>5
<1>7. /\ 0 .. n - 1 \in SUBSET Nat /\ 0 .. n \in SUBSET Nat
      /\ 0 .. n - 1 # 0 .. n /\ 0 .. n - 1 \subseteq 0 .. n
  <2>1. n \notin 0 .. n - 1 /\ n \in 0 .. n
    BY <1>4
  <2> QED
    BY <2>1, <1>4, <1>5
<1>8. 0 .. n - 1 \in T
  BY <1>6
<1> HIDE DEF Out, T
<1> QED
  BY <1>3, <1>4, <1>7, <1>8 DEF StrictSubsetOrdering

Begun(k) == [kbd |-> k, over |-> FALSE]
Iterate(s) == IF GoesOn(s) THEN TakeOne(s) ELSE s
Turns(k, m, g) == g = [n \in 0 .. m |-> IF n = 0 THEN Begun(k) ELSE Iterate(g[n - 1])]

LEMMA TurnsExist == ASSUME NEW k, NEW m \in Nat  PROVE \E g : Turns(k, m, g)
<1> DEFINE S == {i \in Nat : \E g : Turns(k, i, g)}
<1>1. 0 \in S
  <2>1. Turns(k, 0, [n \in 0 .. 0 |-> Begun(k)])
    BY DEF Turns
  <2> QED
    BY <2>1
<1>2. ASSUME NEW i \in Nat, i \in S  PROVE i + 1 \in S
  <2>1. PICK g : Turns(k, i, g)
    BY <1>2
  <2> DEFINE h == [n \in 0 .. i + 1 |-> IF n <= i THEN g[n] ELSE Iterate(g[i])]
             e(n) == IF n = 0 THEN Begun(k) ELSE Iterate(h[n - 1])
  <2>2. ASSUME NEW n \in 0 .. i + 1  PROVE h[n] = e(n)
    <3>1. CASE n = 0
      BY <2>1, <3>1 DEF Turns
    <3>2. CASE n \in 1 .. i
      <4>1. h[n] = g[n] /\ h[n - 1] = g[n - 1] /\ n \in 0 .. i /\ n # 0
        BY <3>2
      <4>2. g[n] = Iterate(g[n - 1])
        BY <2>1, <4>1 DEF Turns
      <4> QED
        BY <4>1, <4>2
    <3>3. CASE n = i + 1
      BY <3>3
    <3> QED
      BY <3>1, <3>2, <3>3
  <2>3. h = [n \in 0 .. i + 1 |-> e(n)]
    BY <2>2
  <2>4. Turns(k, i + 1, h)
    BY <2>3 DEF Turns
  <2> QED
    BY <2>4
<1> HIDE DEF S
<1>3. Nat \subseteq S
  BY <1>1, <1>2, StepInduction
<1> QED
  BY <1>3 DEF S

\* The recursive definition has the values that it states.
LEMMA TransferringSteps ==
    ASSUME NEW k
    PROVE  /\ Transferring(k)[0] = Begun(k)
           /\ \A n \in 1 .. BufSize : Transferring(k)[n] = Iterate(Transferring(k)[n - 1])
<1>1. \E g : Turns(k, BufSize, g)
  BY TurnsExist, KeyboardAssumption
<1>2. Transferring(k) = CHOOSE g : Turns(k, BufSize, g)
  BY DEF Transferring, Turns, Begun, Iterate
<1>3. Turns(k, BufSize, Transferring(k))
  BY <1>1, <1>2
<1> DEFINE t == Transferring(k)
<1>4. t = [n \in 0 .. BufSize |-> IF n = 0 THEN Begun(k) ELSE Iterate(t[n - 1])]
  BY <1>3 DEF Turns
<1> HIDE DEF t
<1>5. t[0] = Begun(k)
  <2>1. 0 \in 0 .. BufSize
    BY KeyboardAssumption
  <2> QED
    BY <1>4, <2>1
<1>6. ASSUME NEW n \in 1 .. BufSize  PROVE t[n] = Iterate(t[n - 1])
  <2>1. n \in 0 .. BufSize /\ n # 0
    BY KeyboardAssumption
  <2> QED
    BY <1>4, <2>1
<1> QED
  BY <1>5, <1>6 DEF t

\* What the loop has done when it has taken m characters: none but the last of them
\* ends a read, and they are in the buffer, but for an end-of-file character.
LineEnds(k) == {ENTER, k.eof}
AsStored(c) == IF c = ENTER THEN NUL ELSE c
Taken(k, s) == k.len - s.kbd.len
Stores(k, s) == IF s.over /\ At(k, Taken(k, s) - 1) = k.eof THEN Taken(k, s) - 1 ELSE Taken(k, s)

TakenOK(k, s) ==
    /\ s = [kbd |-> s.kbd, over |-> s.over] /\ s.over \in BOOLEAN
    /\ VarsOK(s.kbd) /\ Same(s.kbd, k)
    /\ Taken(k, s) \in 0 .. k.len
    /\ \A i \in 0 .. s.kbd.len - 1 : At(s.kbd, i) = At(k, Taken(k, s) + i)
    /\ \A i \in 0 .. Taken(k, s) - 2 : At(k, i) \notin LineEnds(k)
    /\ s.over => Taken(k, s) > 0 /\ At(k, Taken(k, s) - 1) \in LineEnds(k)
    /\ ~s.over => \A i \in 0 .. Taken(k, s) - 1 : At(k, i) \notin LineEnds(k)

GotOK(k, s) ==
    /\ Len(s.kbd.got) = Len(k.got) + Stores(k, s)
    /\ \A i \in 1 .. Len(k.got) : s.kbd.got[i] = k.got[i]
    /\ \A i \in 1 .. Stores(k, s) : s.kbd.got[Len(k.got) + i] = AsStored(At(k, i - 1))
    /\ Len(k.got) + Taken(k, s) <= k.p_len

LoopInv(k, n, s) ==
    /\ TakenOK(k, s) /\ GotOK(k, s)
    /\ GoesOn(s) => Taken(k, s) = n

LEMMA LoopBegins == ASSUME NEW k, VarsOK(k)  PROVE LoopInv(k, 0, Begun(k))
<1> DEFINE s == Begun(k)
<1>1. s = [kbd |-> s.kbd, over |-> s.over] /\ s.kbd = k /\ s.over = FALSE
  BY DEF Begun
<1> HIDE DEF s
<1>2. /\ k.len \in Nat /\ k.p_len \in Nat /\ Len(k.got) \in Nat /\ Len(k.got) <= k.p_len
  <2>1. k \in Vars /\ Len(k.got) <= k.p_len
    BY DEF VarsOK
  <2> QED
    BY <2>1, Fields, KeyboardAssumption
<1>3. Taken(k, s) = 0 /\ Stores(k, s) = 0
  BY <1>1, <1>2 DEF Taken, Stores
<1>4. TakenOK(k, s)
  <2>1. \A i \in 0 .. k.len - 1 : 0 + i = i
    BY <1>2
  <2>2. \A i \in 0 .. s.kbd.len - 1 : At(s.kbd, i) = At(k, Taken(k, s) + i)
    BY <1>1, <1>3, <2>1
  <2>3. 0 .. 0 - 2 = {} /\ 0 .. 0 - 1 = {} /\ 0 \in 0 .. k.len
    BY <1>2
  <2> QED
    BY <1>1, <1>3, <2>2, <2>3 DEF TakenOK, Same
<1>5. GotOK(k, s)
  BY <1>1, <1>2, <1>3 DEF GotOK
<1>6. LoopInv(k, 0, s)
  BY <1>3, <1>4, <1>5 DEF LoopInv
<1> QED
  BY <1>6 DEF s

LEMMA LoopGoesOn ==
    ASSUME NEW k, VarsOK(k), NEW n \in Nat, NEW s, LoopInv(k, n, s), GoesOn(s)
    PROVE  LoopInv(k, n + 1, TakeOne(s))
<1> DEFINE m == Taken(k, s)
           j == s.kbd
           t == TakeOne(s)
           c == At(k, m)
<1>1. /\ TakenOK(k, s) /\ GotOK(k, s) /\ m = n /\ VarsOK(j) /\ s.over = FALSE
      /\ s = [kbd |-> j, over |-> FALSE]
  BY DEF LoopInv, TakenOK, GoesOn
<1>2. /\ t = [kbd |-> t.kbd, over |-> t.over]
      /\ VarsOK(t.kbd) /\ Same(t.kbd, j)
      /\ t.kbd.len = j.len - 1
      /\ t.kbd.index = (j.index + 1) % BufSize
      /\ t.over \in BOOLEAN /\ (t.over <=> At(j, 0) \in {ENTER, j.eof})
      /\ t.kbd.got = IF At(j, 0) = j.eof THEN j.got ELSE Append(j.got, AsStored(At(j, 0)))
  <2> HIDE DEF j
  <2> QED
    BY <1>1, TakesFirst DEF AsStored
<1>3. /\ k \in Vars /\ j \in Vars /\ t.kbd \in Vars /\ k.len \in Nat /\ j.len \in 1 .. BufSize
      /\ k.p_len \in Nat /\ Len(k.got) \in Nat /\ j.got \in Seq(Stored)
      /\ Len(j.got) < k.p_len
  <2>1. k \in Vars /\ j \in Vars /\ t.kbd \in Vars
    BY <1>1, <1>2 DEF VarsOK
  <2>2. j.len > 0 /\ Len(j.got) < j.p_len /\ j.p_len = k.p_len
    BY <1>1 DEF GoesOn, TakenOK, Same
  <2> HIDE DEF j, t
  <2>3. j.len \in 0 .. BufSize /\ k.len \in 0 .. BufSize /\ j.got \in Seq(Stored)
        /\ k.p_len \in Nat /\ Len(k.got) \in Nat
    BY <2>1, Fields
  <2> QED
    BY <2>1, <2>2, <2>3, KeyboardAssumption
<1>4. /\ m = k.len - j.len /\ m \in 0 .. k.len - 1
      /\ Same(j, k) /\ j.eof = k.eof
      /\ At(j, 0) = c /\ c \in Char
      /\ \A i \in 0 .. j.len - 1 : At(j, i) = At(k, m + i)
      /\ \A i \in 0 .. m - 1 : At(k, i) \notin LineEnds(k)
      /\ Stores(k, s) = m
  <2>1. /\ m = k.len - j.len /\ Same(j, k) /\ j.eof = k.eof
        /\ \A i \in 0 .. j.len - 1 : At(j, i) = At(k, m + i)
        /\ \A i \in 0 .. m - 1 : At(k, i) \notin LineEnds(k)
        /\ Stores(k, s) = m /\ m \in 0 .. k.len
    BY <1>1 DEF Taken, TakenOK, Same, Stores
  <2>2. m \in 0 .. k.len - 1 /\ m + 0 = m /\ 0 \in 0 .. j.len - 1
    BY <1>3, <2>1
  <2>3. At(j, 0) = c
    BY <2>1, <2>2
  <2>4. c \in Char
    BY <2>2 DEF VarsOK
  <2> QED
    BY <2>1, <2>2, <2>3, <2>4
<1> HIDE DEF m, j, t, c
<1>5. /\ Taken(k, t) = m + 1
      /\ t.kbd.eof = k.eof /\ Same(t.kbd, k)
      /\ t.over <=> c \in LineEnds(k)
      /\ Stores(k, t) = IF c = k.eof THEN m ELSE m + 1
  <2>1. Taken(k, t) = m + 1
    BY <1>2, <1>3, <1>4 DEF Taken
  <2>2. t.kbd.eof = k.eof /\ Same(t.kbd, k) /\ (t.over <=> c \in LineEnds(k))
    BY <1>2, <1>4 DEF Same, LineEnds
  <2>3. (m + 1) - 1 = m
    BY <1>4
  <2>4. At(k, Taken(k, t) - 1) = c
    BY <2>1, <2>3 DEF c
  <2> QED
    BY <2>1, <2>2, <2>3, <2>4 DEF Stores, LineEnds
<1>6. TakenOK(k, t)
  <2>1. Taken(k, t) \in 0 .. k.len /\ Taken(k, t) > 0 /\ Taken(k, t) - 1 = m
        /\ Taken(k, t) - 2 = m - 1
    BY SMTT(30), <1>3, <1>4, <1>5
  <2>2. ASSUME NEW i \in 0 .. t.kbd.len - 1  PROVE At(t.kbd, i) = At(k, Taken(k, t) + i)
    <3>1. /\ i \in 0 .. BufSize - 1 /\ i + 1 \in 0 .. j.len - 1
          /\ m + (i + 1) = Taken(k, t) + i
      <4>1. /\ t.kbd.len = j.len - 1 /\ j.len \in 1 .. BufSize /\ Taken(k, t) = m + 1
            /\ m \in Int
        BY <1>2, <1>3, <1>4, <1>5
      <4> QED
        BY <4>1, KeyboardAssumption
    <3>2. At(t.kbd, i) = At(j, i + 1)
      <4>1. j.index \in 0 .. BufSize - 1
        BY <1>3, Fields
      <4>2. t.kbd.index = (j.index + 1) % BufSize /\ t.kbd.buf = j.buf
        BY <1>2 DEF Same
      <4> QED
        BY <3>1, <4>1, <4>2, NextAt
    <3> QED
      BY <1>4, <3>1, <3>2
  <2>3. t.over => At(k, Taken(k, t) - 1) \in LineEnds(k)
    BY <1>5, <2>1 DEF c
  <2>4. ASSUME ~t.over, NEW i \in 0 .. Taken(k, t) - 1  PROVE At(k, i) \notin LineEnds(k)
    <3>1. i = m \/ i \in 0 .. m - 1
      BY <1>4, <2>1
    <3> QED
      BY <1>4, <1>5, <2>4, <3>1 DEF c
  <2> QED
    BY <1>2, <1>4, <1>5, <2>1, <2>2, <2>3, <2>4 DEF TakenOK
<1>7. GotOK(k, t)
  <2>1. /\ Len(j.got) = Len(k.got) + m
        /\ \A i \in 1 .. Len(k.got) : j.got[i] = k.got[i]
        /\ \A i \in 1 .. m : j.got[Len(k.got) + i] = AsStored(At(k, i - 1))
    BY <1>1, <1>4 DEF GotOK, j, m
  <2>2. Len(k.got) + Taken(k, t) <= k.p_len
    BY SMTT(30), <1>3, <1>4, <1>5, <2>1
  <2>3. CASE c = k.eof
    <3>1. t.kbd.got = j.got
      BY <1>2, <1>4, <2>3
    <3> QED
      BY <1>5, <2>1, <2>2, <2>3, <3>1 DEF GotOK
  <2>4. CASE c # k.eof
    <3>1. t.kbd.got = Append(j.got, AsStored(c)) /\ AsStored(c) \in Stored
      BY <1>2, <1>4, <2>4 DEF Stored, AsStored
    <3>2. /\ Len(t.kbd.got) = Len(k.got) + (m + 1)
          /\ \A i \in 1 .. Len(j.got) : t.kbd.got[i] = j.got[i]
          /\ t.kbd.got[Len(j.got) + 1] = AsStored(c)
      <4>1. /\ Len(Append(j.got, AsStored(c))) = Len(j.got) + 1
            /\ \A i \in 1 .. Len(j.got) : Append(j.got, AsStored(c))[i] = j.got[i]
            /\ Append(j.got, AsStored(c))[Len(j.got) + 1] = AsStored(c)
        BY <1>3, <3>1, AppendProperties
      <4> QED
        BY <1>3, <1>4, <2>1, <3>1, <4>1
    <3>3. ASSUME NEW i \in 1 .. m + 1
          PROVE  t.kbd.got[Len(k.got) + i] = AsStored(At(k, i - 1))
      <4>1. CASE i = m + 1
        <5>1. i - 1 = m /\ Len(k.got) + i = Len(j.got) + 1
          <6>1. Len(k.got) \in Nat /\ m \in Nat /\ Len(j.got) = Len(k.got) + m
            BY <1>3, <1>4, <2>1
          <6> DEFINE g == Len(k.got)
                     h == Len(j.got)
          <6>2. g \in Nat /\ m \in Nat /\ h = g + m /\ i = m + 1
            BY <4>1, <6>1
          <6> HIDE DEF g, h
          <6>3. i - 1 = m /\ g + i = h + 1
            BY <6>2
          <6> QED
            BY <6>3 DEF g, h
        <5> QED
          BY <3>2, <5>1 DEF c
      <4>2. CASE i \in 1 .. m
        <5>1. Len(k.got) + i \in 1 .. Len(j.got)
          <6>1. Len(k.got) \in Nat /\ m \in Nat /\ Len(j.got) = Len(k.got) + m
            BY <1>3, <1>4, <2>1
          <6> QED
            BY <4>2, <6>1
        <5> QED
          BY <2>1, <3>2, <4>2, <5>1
      <4> QED
        BY <1>4, <4>1, <4>2
    <3>4. ASSUME NEW i \in 1 .. Len(k.got)
          PROVE  t.kbd.got[i] = k.got[i]
      <4>1. i \in 1 .. Len(j.got)
        <5>1. Len(k.got) \in Nat /\ m \in Nat /\ Len(j.got) = Len(k.got) + m
          BY <1>3, <1>4, <2>1
        <5> DEFINE g == Len(k.got)
                   h == Len(j.got)
        <5>2. g \in Nat /\ m \in Nat /\ h = g + m /\ i \in 1 .. g
          BY <5>1
        <5> HIDE DEF g, h
        <5>3. i \in 1 .. h
          BY <5>2
        <5> QED
          BY <5>3 DEF h
      <4>2. j.got[i] = k.got[i]
        BY <2>1
      <4> QED
        BY <3>2, <4>1, <4>2
    <3> QED
      BY <1>5, <2>2, <2>4, <3>2, <3>3, <3>4 DEF GotOK
  <2> QED
    BY <2>3, <2>4
<1>8. LoopInv(k, n + 1, t)
  BY <1>1, <1>5, <1>6, <1>7 DEF LoopInv, m
<1> QED
  BY <1>8 DEF t

\* takeAll() ends when the loop does: each iteration that goes on takes a character.
LEMMA TakesAll ==
    ASSUME NEW k, VarsOK(k)
    PROVE  TakenOK(k, takeAll(k)) /\ GotOK(k, takeAll(k)) /\ ~GoesOn(takeAll(k))
<1> DEFINE t == Transferring(k)
           S == {n \in Nat : n <= BufSize => LoopInv(k, n, t[n])}
<1>1. t[0] = Begun(k) /\ \A n \in 1 .. BufSize : t[n] = Iterate(t[n - 1])
  BY TransferringSteps
<1>2. BufSize \in Nat
  BY KeyboardAssumption
<1> HIDE DEF t
<1>3. 0 \in S
  BY <1>1, LoopBegins
<1>4. ASSUME NEW n \in Nat, n \in S  PROVE n + 1 \in S
  <2> SUFFICES ASSUME n + 1 <= BufSize  PROVE LoopInv(k, n + 1, t[n + 1])
    OBVIOUS
  <2>1. LoopInv(k, n, t[n])
    BY <1>2, <1>4
  <2>2. n + 1 \in 1 .. BufSize /\ (n + 1) - 1 = n
    BY <1>2
  <2>3. t[n + 1] = Iterate(t[n])
    BY <1>1, <2>2
  <2>4. CASE GoesOn(t[n])
    BY <2>1, <2>3, <2>4, LoopGoesOn DEF Iterate
  <2>5. CASE ~GoesOn(t[n])
    BY <2>1, <2>3, <2>5 DEF Iterate, LoopInv
  <2> QED
    BY <2>4, <2>5
<1> HIDE DEF S
<1>5. Nat \subseteq S
  BY <1>3, <1>4, StepInduction
<1>6. LoopInv(k, BufSize, t[BufSize])
  BY <1>2, <1>5 DEF S
<1>7. takeAll(k) = t[BufSize]
  BY DEF takeAll, t
<1>8. ASSUME GoesOn(takeAll(k))  PROVE FALSE
  <2> DEFINE s == takeAll(k)
  <2>1. k.len - s.kbd.len = BufSize /\ s.kbd.len > 0 /\ s.kbd \in Vars /\ k \in Vars
    BY <1>6, <1>7, <1>8 DEF LoopInv, Taken, GoesOn, TakenOK, VarsOK
  <2> HIDE DEF s
  <2>2. k.len \in 0 .. BufSize /\ s.kbd.len \in 0 .. BufSize
    BY <2>1, Fields
  <2> QED
    BY <1>2, <2>1, <2>2
<1> QED
  BY <1>6, <1>7, <1>8 DEF LoopInv

-----------------------------------------------------------------------------
(* What the loop delivers is what LineInput says                            *)

Queue(k) == [n \in 1 .. k.len |-> k.buf[(k.index + n - 1) % BufSize]]

LEMMA QueueIs ==
    ASSUME NEW k, VarsOK(k)
    PROVE  /\ Queue(k) \in Seq(Char) /\ Len(Queue(k)) = k.len /\ k.len \in Nat
           /\ \A n \in 1 .. k.len : Queue(k)[n] = At(k, n - 1)
<1>1. k.len \in Nat /\ k.index \in Int
  <2>1. k \in Vars
    BY DEF VarsOK
  <2>2. k.len \in 0 .. BufSize /\ k.index \in 0 .. BufSize - 1
    BY <2>1, Fields
  <2> QED
    BY <2>2, KeyboardAssumption
<1>2. \A n \in 1 .. k.len : k.index + n - 1 = k.index + (n - 1) /\ n - 1 \in 0 .. k.len - 1
  BY <1>1
<1>3. \A n \in 1 .. k.len : Queue(k)[n] = At(k, n - 1) /\ Queue(k)[n] \in Char
  BY <1>2 DEF Queue, At, VarsOK
<1>4. Queue(k) \in [1 .. k.len -> Char]
  BY <1>3 DEF Queue
<1>5. Queue(k) \in Seq(Char) /\ Len(Queue(k)) = k.len
  BY <1>1, <1>4
<1> QED
  BY <1>1, <1>3, <1>5

Least(S) == CHOOSE x \in S : \A y \in S : x <= y

LEMMA LeastOf ==
    ASSUME NEW S \in SUBSET Int, NEW m \in S, \A x \in S : m <= x
    PROVE  Least(S) = m
<1>1. \E x \in S : \A y \in S : x <= y
  OBVIOUS
<1>2. Least(S) \in S /\ \A y \in S : Least(S) <= y
  BY <1>1 DEF Least
<1>3. Least(S) \in Int /\ m \in Int /\ Least(S) <= m /\ m <= Least(S)
  BY <1>2
<1> QED
  BY <1>3

\* The operator Deliver of LineInput, on the values before and after.
Delivers(q, got, room, eof, q2, got2) ==
    LET ends  == {n \in DOMAIN q : q[n] \in {ENTER, eof}}
        count == Least({Len(q), room - Len(got)} \cup ends)
        taken == [n \in 1 .. count |-> IF q[n] = ENTER THEN NUL ELSE q[n]]
        isEof == count > 0 /\ q[count] = eof
    IN  /\ q2 = SubSeq(q, count + 1, Len(q))
        /\ got2 = got \o SubSeq(taken, 1, IF isEof THEN count - 1 ELSE count)

LEMMA TakeDelivers ==
    ASSUME NEW k, VarsOK(k), NEW s, TakenOK(k, s), GotOK(k, s), ~GoesOn(s)
    PROVE  Delivers(Queue(k), k.got, k.p_len, k.eof, Queue(s.kbd), s.kbd.got)
<1> DEFINE q == Queue(k)
           m == Taken(k, s)
           g == k.got
           h == s.kbd.got
           room == k.p_len
           ends == {n \in DOMAIN q : q[n] \in {ENTER, k.eof}}
           all == {Len(q), room - Len(g)} \cup ends
<1>1. /\ q \in Seq(Char) /\ Len(q) = k.len /\ k.len \in Nat /\ DOMAIN q = 1 .. k.len
      /\ \A n \in 1 .. k.len : q[n] = At(k, n - 1)
  BY QueueIs
<1>2. /\ VarsOK(s.kbd) /\ m \in 0 .. k.len /\ m = k.len - s.kbd.len /\ s.kbd.len \in Nat
      /\ room \in Nat /\ Len(g) \in Nat /\ g \in Seq(Stored) /\ h \in Seq(Stored)
      /\ s.kbd.p_len = room
  <2>1. k \in Vars /\ s.kbd \in Vars
    BY DEF VarsOK, TakenOK
  <2>2. k.p_len \in Nat /\ Len(k.got) \in Nat /\ k.got \in Seq(Stored)
        /\ s.kbd.got \in Seq(Stored) /\ s.kbd.len \in 0 .. BufSize
    BY <2>1, Fields
  <2> QED
    BY <2>2, KeyboardAssumption DEF TakenOK, Taken, Same
<1>3. /\ \A i \in 0 .. s.kbd.len - 1 : At(s.kbd, i) = At(k, m + i)
      /\ \A i \in 0 .. m - 2 : At(k, i) \notin LineEnds(k)
      /\ s.over => m > 0 /\ At(k, m - 1) \in LineEnds(k)
      /\ ~s.over => \A i \in 0 .. m - 1 : At(k, i) \notin LineEnds(k)
      /\ Stores(k, s) = IF s.over /\ At(k, m - 1) = k.eof THEN m - 1 ELSE m
  BY DEF TakenOK, Stores
<1>4. /\ Len(h) = Len(g) + Stores(k, s)
      /\ \A i \in 1 .. Len(g) : h[i] = g[i]
      /\ \A i \in 1 .. Stores(k, s) : h[Len(g) + i] = AsStored(At(k, i - 1))
      /\ Len(g) + m <= room
  BY DEF GotOK
<1>5. s.over \/ s.kbd.len <= 0 \/ Len(h) >= room
  BY <1>2, <1>4 DEF GoesOn, TakenOK
<1> HIDE DEF q, m, g, h, room
<1>6. \A n \in 1 .. k.len : n \in ends <=> At(k, n - 1) \in LineEnds(k)
  BY <1>1 DEF LineEnds
<1>7. Least(all) = m
  <2>1. all \in SUBSET Int
    BY <1>1, <1>2
  <2>2. m \in all
    <3>1. CASE s.over
      <4>1. m \in 1 .. k.len /\ At(k, m - 1) \in LineEnds(k)
        BY <1>1, <1>2, <1>3, <3>1
      <4> QED
        BY <1>6, <4>1
    <3>2. CASE ~s.over /\ s.kbd.len <= 0
      BY <1>1, <1>2, <3>2
    <3>3. CASE ~s.over /\ Len(h) >= room
      <4>1. Stores(k, s) = m
        BY <1>3, <3>3
      <4> QED
        BY <1>2, <1>4, <3>3, <4>1
    <3> QED
      BY <1>5, <3>1, <3>2, <3>3
  <2>3. ASSUME NEW x \in all  PROVE m <= x
    <3>1. CASE x \in ends
      <4>1. x \in 1 .. k.len /\ At(k, x - 1) \in LineEnds(k)
        BY <1>1, <1>6, <3>1
      <4>2. ASSUME x < m  PROVE FALSE
        <5>1. x - 1 \in 0 .. m - 2
          BY <1>2, <4>1, <4>2
        <5> QED
          BY <1>3, <4>1, <5>1
      <4> QED
        BY <1>2, <4>1, <4>2
    <3>2. CASE x \in {Len(q), room - Len(g)}
      BY <1>1, <1>2, <1>4, <3>2
    <3> QED
      BY <3>1, <3>2
  <2> HIDE DEF all
  <2> QED
    BY <2>1, <2>2, <2>3, LeastOf
<1>8. Queue(s.kbd) = SubSeq(q, m + 1, Len(q))
  <2> DEFINE u == Queue(s.kbd)
             v == SubSeq(q, m + 1, Len(q))
  <2>1. u \in Seq(Char) /\ Len(u) = s.kbd.len
        /\ \A n \in 1 .. s.kbd.len : u[n] = At(s.kbd, n - 1)
    BY <1>2, QueueIs
  <2>2. /\ v \in Seq(Char)
        /\ Len(v) = IF m + 1 <= Len(q) THEN Len(q) - (m + 1) + 1 ELSE 0
        /\ \A i \in 1 .. Len(q) - (m + 1) + 1 : v[i] = q[(m + 1) + i - 1]
    <3>1. m + 1 \in Int /\ Len(q) \in Int /\ \A i \in m + 1 .. Len(q) : q[i] \in Char
      <4>1. \A i \in m + 1 .. Len(q) : i \in 1 .. Len(q)
        BY <1>1, <1>2
      <4> QED
        BY <1>1, <1>2, <4>1, ElementOfSeq
    <3> QED
      BY <3>1, SubSeqProperties
  <2> HIDE DEF u, v
  <2>3. Len(u) = Len(v)
    BY SMTT(30), <1>1, <1>2, <2>1, <2>2
  <2>4. ASSUME NEW n \in 1 .. Len(u)  PROVE u[n] = v[n]
    <3>1. /\ n - 1 \in 0 .. s.kbd.len - 1 /\ m + n \in 1 .. k.len
          /\ n \in 1 .. Len(q) - (m + 1) + 1
          /\ (m + 1) + n - 1 = m + n /\ (m + n) - 1 = m + (n - 1)
      <4>1. /\ n \in 1 .. s.kbd.len /\ s.kbd.len \in Nat /\ m \in Nat /\ k.len \in Nat
            /\ m = k.len - s.kbd.len /\ Len(q) = k.len
        BY <1>1, <1>2, <2>1
      <4> DEFINE a == s.kbd.len
                 b == k.len
                 l == Len(q)
      <4>2. a \in Nat /\ b \in Nat /\ m \in Nat /\ a = b - m /\ l = b /\ n \in 1 .. a
        BY <4>1
      <4> HIDE DEF a, b, l, m
      <4>3. /\ n - 1 \in 0 .. a - 1 /\ m + n \in 1 .. b /\ n \in 1 .. l - (m + 1) + 1
            /\ (m + 1) + n - 1 = m + n /\ (m + n) - 1 = m + (n - 1)
        BY <4>2
      <4> QED
        BY <4>3 DEF a, b, l
    <3>2. u[n] = At(k, m + (n - 1))
      BY <1>3, <2>1, <3>1
    <3>3. v[n] = q[m + n]
      BY <2>2, <3>1
    <3> QED
      BY <1>1, <3>1, <3>2, <3>3
  <2>5. u = v
    BY <2>1, <2>2, <2>3, <2>4, SeqEqual
  <2> QED
    BY <2>5 DEF u, v
<1> DEFINE taken == [n \in 1 .. m |-> IF q[n] = ENTER THEN NUL ELSE q[n]]
           isEof == m > 0 /\ q[m] = k.eof
           put == IF isEof THEN m - 1 ELSE m
<1>9. put = Stores(k, s) /\ put \in 0 .. m
  <2>1. CASE m = 0
    BY <1>2, <1>3, <2>1
  <2>2. CASE m # 0
    <3>1. m \in 1 .. k.len /\ q[m] = At(k, m - 1) /\ m - 1 \in 0 .. m - 1
      BY <1>1, <1>2, <2>2
    <3> QED
      BY <1>3, <3>1 DEF LineEnds
  <2> QED
    BY <2>1, <2>2
<1>10. h = g \o SubSeq(taken, 1, put)
  <2> DEFINE u == SubSeq(taken, 1, put)
             v == g \o u
  <2>1. taken \in [1 .. m -> Stored] /\ \A i \in 1 .. m : taken[i] = AsStored(At(k, i - 1))
    <3>1. \A i \in 1 .. m : i \in 1 .. k.len
      BY <1>2, <1>1
    <3>2. \A i \in 1 .. m : q[i] \in Char
      BY <1>1, <3>1, ElementOfSeq
    <3> QED
      BY <1>1, <3>1, <3>2 DEF Stored, AsStored
  <2> HIDE DEF taken, put
  <2>2. /\ u \in Seq(Stored) /\ Len(u) = put
        /\ \A i \in 1 .. put : u[i] = taken[i]
    <3>1. /\ 1 \in Int /\ put \in Int /\ \A i \in 1 .. put : i \in 1 .. m /\ taken[i] \in Stored
      <4>1. m \in Nat /\ put \in 0 .. m
        BY <1>2, <1>9
      <4>2. \A i \in 1 .. put : i \in 1 .. m
        BY <4>1
      <4> QED
        BY <2>1, <4>1, <4>2
    <3>2. /\ u \in Seq(Stored) /\ Len(u) = IF 1 <= put THEN put - 1 + 1 ELSE 0
          /\ \A i \in 1 .. put - 1 + 1 : u[i] = taken[1 + i - 1]
      BY <3>1, SubSeqProperties
    <3>3. put - 1 + 1 = put /\ \A i \in 1 .. put : 1 + i - 1 = i
      BY <3>1
    <3>4. put \in Nat
      BY <1>2, <1>9
    <3> QED
      BY <3>2, <3>3, <3>4
  <2> HIDE DEF u
  <2>3. /\ v \in Seq(Stored) /\ Len(v) = Len(g) + put
        /\ \A i \in 1 .. Len(g) + put : v[i] = IF i <= Len(g) THEN g[i] ELSE u[i - Len(g)]
    BY <1>2, <2>2, ConcatProperties
  <2> HIDE DEF v
  <2>4. Len(h) = Len(v)
    BY <1>4, <1>9, <2>3
  <2>5. ASSUME NEW n \in 1 .. Len(h)  PROVE h[n] = v[n]
    <3>1. n \in 1 .. Len(g) + put /\ put \in Nat /\ Len(g) \in Nat
      BY <1>2, <1>9, <2>3, <2>4
    <3>2. CASE n <= Len(g)
      <4>1. n \in 1 .. Len(g)
        BY <3>1, <3>2
      <4> QED
        BY <1>4, <2>3, <3>1, <3>2, <4>1
    <3>3. CASE n > Len(g)
      <4>1. /\ n - Len(g) \in 1 .. put /\ n - Len(g) \in 1 .. m
            /\ Len(g) + (n - Len(g)) = n
        BY <1>2, <1>9, <3>1, <3>3
      <4>2. h[n] = AsStored(At(k, (n - Len(g)) - 1))
        BY <1>4, <1>9, <4>1
      <4>3. v[n] = u[n - Len(g)]
        BY <2>3, <3>1, <3>3
      <4> QED
        BY <2>1, <2>2, <4>1, <4>2, <4>3
    <3> QED
      BY <3>1, <3>2, <3>3
  <2>6. h = v
    BY <1>2, <2>3, <2>4, <2>5, SeqEqual
  <2> QED
    BY <2>6 DEF v, u
<1>11. Delivers(q, g, room, k.eof, Queue(s.kbd), h)
  BY <1>7, <1>8, <1>10 DEF Delivers
<1> QED
  BY <1>11 DEF q, g, h, room

-----------------------------------------------------------------------------
(* The functions of the driver                                              *)

\* What an interrupt must leave for the invariant to hold, when b says whether the
\* holder of the keyboard was blocked, and what a call must leave, which may block it.
Keeps(b, o) ==
    /\ VarsOK(o.kbd) /\ o.wakes \in BOOLEAN /\ LinesOK(o.kbd)
    /\ ~o.wakes /\ b /\ o.kbd.open => Waits(o.kbd)
Good(b, o) == Keeps(b \/ o.result = "BLOCK", o)

\* What the queue, the line, its length and the end-of-file character become.
Becomes(t, q, got, room, eof) ==
    Queue(t) = q /\ t.got = got /\ t.p_len = room /\ t.eof = eof
Stays(t, k) == Becomes(t, Queue(k), k.got, k.p_len, k.eof)

LEMMA SameRing ==
    ASSUME NEW k, VarsOK(k), NEW t, t \in Vars, t.buf = k.buf, t.len = k.len,
           t.index = k.index, t.open = k.open, t.proc = k.proc, Len(t.got) <= t.p_len
    PROVE  VarsOK(t) /\ Queue(t) = Queue(k)
<1>1. \A n \in 0 .. k.len - 1 : At(t, n) = At(k, n)
  BY DEF At
<1> QED
  BY <1>1 DEF VarsOK, Queue

LEMMA FailedGood ==
    ASSUME NEW k, NEW b, Inv(k, b)
    PROVE  Good(b, Failed(k)) /\ Stays(Failed(k).kbd, k)
<1>1. /\ Failed(k).kbd = k /\ Failed(k).wakes = FALSE /\ Failed(k).result = "ERROR"
  BY DEF Failed, Outcome
<1> QED
  BY <1>1 DEF Good, Keeps, Stays, Becomes, Inv

\* transfer() leaves a reader blocked only when nothing waits.
LEMMA TransferGood ==
    ASSUME NEW k, VarsOK(k), k.p_buf, \A n \in 1 .. Len(k.got) : k.got[n] # NUL, NEW b
    PROVE  LET o == transfer(k)
           IN  /\ Good(b, o) /\ o.kbd.p_len = k.p_len /\ o.kbd.eof = k.eof
               /\ Delivers(Queue(k), k.got, k.p_len, k.eof, Queue(o.kbd), o.kbd.got)
<1> DEFINE s == takeAll(k)
           j == s.kbd
           o == transfer(k)
<1>1. /\ TakenOK(k, s) /\ GotOK(k, s) /\ ~GoesOn(s)
      /\ Delivers(Queue(k), k.got, k.p_len, k.eof, Queue(j), j.got)
  BY TakesAll, TakeDelivers
<1>2. o = IF s.over THEN Outcome(j, "DONE", TRUE, Len(j.got))
          ELSE IF j.p_len # Len(j.got) THEN Outcome(j, "BLOCK", FALSE, Len(j.got))
          ELSE Outcome(Flag(j), "DONE", TRUE, Len(j.got))
  BY DEF transfer, Flag
<1>3. /\ VarsOK(j) /\ Same(j, k) /\ s.over \in BOOLEAN /\ j \in Vars
      /\ \A i \in 0 .. Taken(k, s) - 2 : At(k, i) \notin LineEnds(k)
      /\ ~s.over => \A i \in 0 .. Taken(k, s) - 1 : At(k, i) \notin LineEnds(k)
      /\ Taken(k, s) \in 0 .. k.len
  BY <1>1 DEF TakenOK, VarsOK
<1>4. /\ Len(j.got) = Len(k.got) + Stores(k, s)
      /\ \A i \in 1 .. Len(k.got) : j.got[i] = k.got[i]
      /\ \A i \in 1 .. Stores(k, s) : j.got[Len(k.got) + i] = AsStored(At(k, i - 1))
  BY <1>1 DEF GotOK
<1>5. ~s.over /\ j.p_len # Len(j.got) => j.len = 0
  BY <1>1, <1>3, Fields DEF GoesOn, VarsOK
<1> HIDE DEF s, j, o
<1>6. /\ k.len \in Nat /\ Len(k.got) \in Nat /\ Taken(k, s) \in Nat
      /\ Stores(k, s) \in {Taken(k, s), Taken(k, s) - 1}
  <2>1. k \in Vars
    BY DEF VarsOK
  <2>2. k.len \in 0 .. BufSize /\ Len(k.got) \in Nat
    BY <2>1, Fields
  <2>3. Taken(k, s) \in 0 .. k.len /\ k.len \in Nat
    BY <1>3, <2>2, KeyboardAssumption
  <2> QED
    BY <2>2, <2>3 DEF Stores
<1>7. ASSUME NEW n \in 1 .. Len(j.got), j.got[n] = NUL  PROVE n = Len(j.got) /\ s.over
  <2> DEFINE i == n - Len(k.got)
  <2>1. n \notin 1 .. Len(k.got)
    BY <1>4, <1>7
  <2>2. i \in 1 .. Stores(k, s) /\ n = Len(k.got) + i
    BY <1>4, <1>6, <2>1
  <2>3. AsStored(At(k, i - 1)) = NUL
    BY <1>4, <1>7, <2>2
  <2>4. i - 1 \in 0 .. k.len - 1 /\ i \in 1 .. Taken(k, s)
    BY <1>3, <1>6, <2>2
  <2>5. At(k, i - 1) \in LineEnds(k)
    <3>1. At(k, i - 1) \in Char
      BY <2>4 DEF VarsOK
    <3> QED
      BY <2>3, <3>1, KeyboardAssumption DEF AsStored, LineEnds
  <2>6. i - 1 \notin 0 .. Taken(k, s) - 2 /\ (~s.over => i - 1 \notin 0 .. Taken(k, s) - 1)
    BY <1>3, <2>5
  <2>7. i = Taken(k, s) /\ s.over
    BY SMTT(30), <1>6, <2>2, <2>4, <2>6
  <2> QED
    BY <1>4, <1>6, <2>2, <2>7
<1>8. LinesOK(j) /\ (~s.over => \A n \in 1 .. Len(j.got) : j.got[n] # NUL)
  BY <1>7 DEF LinesOK
<1>9. CASE s.over
  <2>1. o.kbd = j /\ o.wakes = TRUE
    BY <1>2, <1>9 DEF Outcome
  <2> QED
    BY <1>1, <1>3, <1>8, <2>1 DEF Good, Keeps, Same, o, j
<1>10. CASE ~s.over /\ j.p_len # Len(j.got)
  <2>1. o.kbd = j /\ o.wakes = FALSE /\ o.result = "BLOCK"
    BY <1>2, <1>10 DEF Outcome
  <2>2. Waits(j)
    BY <1>3, <1>5, <1>8, <1>10 DEF Waits, Same
  <2> QED
    BY <1>1, <1>3, <1>8, <2>1, <2>2 DEF Good, Keeps, Same, o, j
<1>11. CASE ~s.over /\ j.p_len = Len(j.got)
  <2>1. o.kbd = Flag(j) /\ o.wakes = TRUE
    BY <1>2, <1>11 DEF Outcome
  <2>2. /\ Flag(j) \in Vars /\ Same(Flag(j), j) /\ Flag(j).len = j.len
        /\ Flag(j).index = j.index /\ Flag(j).got = j.got
    BY <1>3, FlagFields
  <2>3. VarsOK(Flag(j)) /\ Queue(Flag(j)) = Queue(j)
    <3>1. Len(Flag(j).got) <= Flag(j).p_len
      BY <1>3, <2>2 DEF VarsOK, Same
    <3> QED
      BY <1>3, <2>2, <3>1, SameRing DEF Same
  <2>4. LinesOK(Flag(j))
    BY <1>8, <2>2 DEF LinesOK
  <2> QED
    BY <1>1, <1>3, <2>1, <2>2, <2>3, <2>4 DEF Good, Keeps, Same, o, j
<1> QED
  BY <1>9, <1>10, <1>11, <1>3

\* A character that is stored is the last that waits.
Add(k, x, l, c) == [k EXCEPT !.buf[x] = c, !.len = l]

LEMMA AddFields ==
    ASSUME NEW k \in Vars, NEW x \in 0 .. BufSize - 1, NEW l \in 0 .. BufSize, NEW c \in Stored
    PROVE  LET t == Add(k, x, l, c)
           IN  /\ t \in Vars /\ t.buf = [k.buf EXCEPT ![x] = c] /\ t.len = l
               /\ t.index = k.index /\ t.open = k.open /\ t.proc = k.proc
               /\ t.p_buf = k.p_buf /\ t.p_len = k.p_len /\ t.got = k.got /\ t.eof = k.eof
               /\ t.eof_flag = k.eof_flag
BY DEF Vars, Add

LEMMA StoreGood ==
    ASSUME NEW k, VarsOK(k), NEW c \in Char \cup {NoKey}
    PROVE  LET t == store(k, c)
           IN  /\ VarsOK(t)
               /\ t.open = k.open /\ t.proc = k.proc /\ t.p_buf = k.p_buf
               /\ t.p_len = k.p_len /\ t.got = k.got /\ t.eof = k.eof
               /\ t = k \/ (c \in Char /\ k.len < BufSize /\ Queue(t) = Append(Queue(k), c))
               /\ t = k => c = NoKey \/ k.len = BufSize
<1> DEFINE t == store(k, c)
           x == (k.index + k.len) % BufSize
           l == k.len + 1
<1>1. CASE c = NoKey \/ k.len = BufSize
  BY <1>1 DEF store
<1>2. CASE c # NoKey /\ k.len # BufSize
  <2>1. k \in Vars /\ c \in Char /\ c \in Stored
    BY <1>2 DEF VarsOK, Stored
  <2>2. k.len \in 0 .. BufSize - 1 /\ k.index \in 0 .. BufSize - 1 /\ l \in 1 .. BufSize
        /\ k.len \in 0 .. BufSize /\ l \in 0 .. BufSize
    <3>1. k.len \in 0 .. BufSize /\ k.index \in 0 .. BufSize - 1
      BY <2>1, Fields
    <3> QED
      BY <1>2, <3>1, KeyboardAssumption
  <2>3. x \in 0 .. BufSize - 1
    BY <2>2, WrapPlace
  <2>4. t = Add(k, x, l, c)
    BY <1>2 DEF store, Add
  <2>5. k.buf \in [0 .. BufSize - 1 -> Stored]
    BY <2>1, Fields
  <2> HIDE DEF t, l
  <2>6. /\ t \in Vars /\ t.buf = [k.buf EXCEPT ![x] = c] /\ t.len = l
        /\ t.index = k.index /\ t.open = k.open /\ t.proc = k.proc
        /\ t.p_buf = k.p_buf /\ t.p_len = k.p_len /\ t.got = k.got /\ t.eof = k.eof
    BY <2>1, <2>2, <2>3, <2>4, AddFields
  <2>7. /\ At(t, k.len) = c
        /\ \A n \in 0 .. k.len - 1 : At(t, n) = At(k, n)
    <3>1. At(t, k.len) = c
      BY <2>3, <2>5, <2>6 DEF At
    <3>2. ASSUME NEW n \in 0 .. k.len - 1  PROVE At(t, n) = At(k, n)
      <4>1. n \in 0 .. BufSize - 1 /\ n # k.len /\ n \in 0 .. BufSize
        BY <2>2, KeyboardAssumption
      <4>2. (k.index + n) % BufSize # x
        BY <2>2, <4>1, PlacesDiffer
      <4>3. (k.index + n) % BufSize \in 0 .. BufSize - 1
        BY <2>2, <4>1, WrapPlace
      <4> HIDE DEF x
      <4> QED
        BY <2>5, <2>6, <4>2, <4>3 DEF At
    <3> QED
      BY <3>1, <3>2
  <2>8. VarsOK(t)
    <3>1. ASSUME NEW n \in 0 .. t.len - 1  PROVE At(t, n) \in Char
      <4>1. n = k.len \/ n \in 0 .. k.len - 1
        BY <2>2, <2>6 DEF l
      <4> QED
        BY <2>1, <2>7, <4>1 DEF VarsOK
    <3> QED
      BY <2>6, <3>1 DEF VarsOK
  <2>9. Queue(t) = Append(Queue(k), c)
    <3> DEFINE u == Queue(t)
               v == Append(Queue(k), c)
    <3>1. /\ u \in Seq(Char) /\ Len(u) = l
          /\ \A n \in 1 .. l : u[n] = At(t, n - 1)
      BY <2>6, <2>8, QueueIs
    <3>2. /\ Queue(k) \in Seq(Char) /\ Len(Queue(k)) = k.len
          /\ \A n \in 1 .. k.len : Queue(k)[n] = At(k, n - 1)
      BY QueueIs
    <3>3. /\ v \in Seq(Char) /\ Len(v) = k.len + 1
          /\ \A n \in 1 .. k.len : v[n] = At(k, n - 1)
          /\ v[k.len + 1] = c
      BY <2>1, <3>2, AppendProperties
    <3> HIDE DEF u, v
    <3>4. ASSUME NEW n \in 1 .. Len(u)  PROVE u[n] = v[n]
      <4>1. CASE n = k.len + 1
        <5>1. n - 1 = k.len /\ n \in 1 .. l
          BY <2>2, <3>1, <4>1
        <5> QED
          BY <2>7, <3>1, <3>3, <4>1, <5>1
      <4>2. CASE n # k.len + 1
        <5>1. n \in 1 .. k.len /\ n - 1 \in 0 .. k.len - 1 /\ n \in 1 .. l
          BY <2>2, <3>1, <4>2 DEF l
        <5> QED
          BY <2>7, <3>1, <3>3, <5>1
      <4> QED
        BY <4>1, <4>2
    <3>5. Len(u) = Len(v)
      BY <3>1, <3>3 DEF l
    <3>6. u = v
      BY <3>1, <3>3, <3>4, <3>5, SeqEqual
    <3> QED
      BY <3>6 DEF u, v
  <2>10. t # k /\ k.len < BufSize
    BY <2>2, <2>6, KeyboardAssumption DEF l
  <2>11. /\ VarsOK(t)
         /\ t.open = k.open /\ t.proc = k.proc /\ t.p_buf = k.p_buf
         /\ t.p_len = k.p_len /\ t.got = k.got /\ t.eof = k.eof
         /\ t = k \/ (c \in Char /\ k.len < BufSize /\ Queue(t) = Append(Queue(k), c))
         /\ t = k => c = NoKey \/ k.len = BufSize
    BY <2>1, <2>6, <2>8, <2>9, <2>10
  <2> QED
    BY <2>11 DEF t
<1> QED
  BY <1>1, <1>2

\* A closed keyboard, and one that was just opened.
LEMMA FreshGood ==
    ASSUME NEW k \in Vars, k.open = (k.proc # NoPcb), k.len = 0, k.got = <<>>, k.p_len = 0
    PROVE  VarsOK(k) /\ LinesOK(k) /\ Queue(k) = <<>>
<1>1. 0 .. 0 - 1 = {} /\ 1 .. 0 = {} /\ Len(<<>>) = 0
  OBVIOUS
<1>2. VarsOK(k) /\ LinesOK(k)
  BY <1>1 DEF VarsOK, LinesOK
<1>3. Queue(k) \in Seq(Char) /\ Len(Queue(k)) = 0
  BY <1>2, QueueIs
<1> QED
  BY <1>2, <1>3, EmptySeq

LEMMA ResetGood ==
    /\ kbd_reset_state \in Vars /\ VarsOK(kbd_reset_state) /\ LinesOK(kbd_reset_state)
    /\ Becomes(kbd_reset_state, <<>>, <<>>, 0, EOF)
    /\ ~kbd_reset_state.open
<1> DEFINE k == kbd_reset_state
<1>1. k \in Vars
  <2>1. /\ [i \in 0 .. BufSize - 1 |-> NUL] \in [0 .. BufSize - 1 -> Stored]
        /\ 0 \in 0 .. BufSize /\ 0 \in 0 .. BufSize - 1
        /\ <<>> \in Seq(Stored)
    BY KeyboardAssumption DEF Stored
  <2> QED
    BY <2>1 DEF Vars, kbd_reset_state
<1>2. /\ k.open = FALSE /\ k.proc = NoPcb /\ k.len = 0 /\ k.got = <<>> /\ k.p_len = 0
      /\ k.eof = EOF
  BY DEF kbd_reset_state
<1> HIDE DEF k
<1>3. VarsOK(k) /\ LinesOK(k) /\ Queue(k) = <<>>
  BY <1>1, <1>2, FreshGood
<1>4. Becomes(k, <<>>, <<>>, 0, EOF) /\ ~k.open
  BY <1>2, <1>3 DEF Becomes
<1> QED
  BY <1>1, <1>3, <1>4 DEF k

Opened(k, i, e) == [k EXCEPT !.proc = i, !.open = TRUE, !.echo = e]

LEMMA OpenedFields ==
    ASSUME NEW k \in Vars, NEW i \in Readers, NEW e \in BOOLEAN
    PROVE  /\ Opened(k, i, e) \in Vars /\ Opened(k, i, e).open = TRUE
           /\ Opened(k, i, e).proc = i /\ Opened(k, i, e).len = k.len
           /\ Opened(k, i, e).got = k.got /\ Opened(k, i, e).p_len = k.p_len
           /\ Opened(k, i, e).eof = k.eof
BY DEF Vars, Opened

LEMMA OpenGood ==
    ASSUME NEW k, NEW b, Inv(k, b), NEW i \in Readers, NEW e \in BOOLEAN
    PROVE  LET o == kbd_open(k, i, e)
           IN  /\ Good(b, o)
               /\ Stays(o.kbd, k) \/ Becomes(o.kbd, <<>>, <<>>, 0, EOF)
<1> DEFINE o == kbd_open(k, i, e)
<1>1. CASE k.open
  <2>1. o = Failed(k)
    BY <1>1 DEF kbd_open
  <2> QED
    BY <2>1, FailedGood
<1>2. CASE ~k.open
  <2> DEFINE t == Opened(kbd_reset_state, i, e)
  <2>1. o.kbd = t /\ o.wakes = FALSE /\ o.result = "DONE"
    BY <1>2 DEF kbd_open, Outcome, Opened
  <2>2. i # NoPcb
    BY KeyboardAssumption DEF NoPcb
  <2>3. kbd_reset_state \in Vars
    BY ResetGood
  <2>4. /\ kbd_reset_state.len = 0 /\ kbd_reset_state.got = <<>>
        /\ kbd_reset_state.p_len = 0 /\ kbd_reset_state.eof = EOF
    BY DEF kbd_reset_state
  <2> HIDE DEF t
  <2>5. /\ t \in Vars /\ t.open = TRUE /\ t.proc = i /\ t.len = 0 /\ t.got = <<>>
        /\ t.p_len = 0 /\ t.eof = EOF
    <3> DEFINE r == kbd_reset_state
    <3>1. r \in Vars /\ r.len = 0 /\ r.got = <<>> /\ r.p_len = 0 /\ r.eof = EOF
      BY <2>3, <2>4
    <3> HIDE DEF r
    <3>2. /\ Opened(r, i, e) \in Vars /\ Opened(r, i, e).open = TRUE
          /\ Opened(r, i, e).proc = i /\ Opened(r, i, e).len = r.len
          /\ Opened(r, i, e).got = r.got /\ Opened(r, i, e).p_len = r.p_len
          /\ Opened(r, i, e).eof = r.eof
      BY <3>1, OpenedFields
    <3>3. t = Opened(r, i, e)
      BY DEF t, r
    <3> QED
      BY <3>1, <3>2, <3>3
  <2>6. VarsOK(t) /\ LinesOK(t) /\ Queue(t) = <<>>
    BY <2>2, <2>5, FreshGood
  <2>7. ~b
    BY <1>2 DEF Inv
  <2>8. Good(b, o)
    BY <2>1, <2>6, <2>7 DEF Good, Keeps
  <2>9. Becomes(o.kbd, <<>>, <<>>, 0, EOF)
    BY <2>1, <2>5, <2>6 DEF Becomes
  <2> QED
    BY <2>8, <2>9
<1> QED
  BY <1>1, <1>2

LEMMA CloseGood ==
    ASSUME NEW k, NEW b, Inv(k, b)
    PROVE  LET o == kbd_close(k)
           IN  /\ Good(b, o)
               /\ Stays(o.kbd, k) \/ Becomes(o.kbd, <<>>, <<>>, 0, EOF)
<1> DEFINE o == kbd_close(k)
<1>1. CASE ~k.open
  <2>1. o = Failed(k)
    BY <1>1 DEF kbd_close
  <2> QED
    BY <2>1, FailedGood
<1>2. CASE k.open
  <2>1. o.kbd = kbd_reset_state /\ o.wakes = FALSE
    BY <1>2 DEF kbd_close, Outcome
  <2> QED
    BY <2>1, ResetGood DEF Good, Keeps
<1> QED
  BY <1>1, <1>2

\* What a call of kbd_read() does to the buffer of the process.
Fresh(k, n) == [k EXCEPT !.p_buf = TRUE, !.p_len = n, !.got = <<>>]

LEMMA FreshFields ==
    ASSUME NEW k \in Vars, NEW n \in ReadLens
    PROVE  LET t == Fresh(k, n)
           IN  /\ t \in Vars /\ t.p_buf /\ t.p_len = n /\ t.got = <<>>
               /\ t.buf = k.buf /\ t.len = k.len /\ t.index = k.index /\ t.eof = k.eof
               /\ t.open = k.open /\ t.proc = k.proc /\ t.eof_flag = k.eof_flag
<1>1. <<>> \in Seq(Stored)
  OBVIOUS
<1> QED
  BY <1>1 DEF Vars, Fresh

LEMMA FreshOK ==
    ASSUME NEW k, VarsOK(k), NEW n \in ReadLens
    PROVE  VarsOK(Fresh(k, n)) /\ Fresh(k, n).proc = k.proc
<1> DEFINE t == Fresh(k, n)
<1>1. k \in Vars /\ n \in Nat /\ Len(<<>>) = 0
  BY KeyboardAssumption DEF VarsOK
<1>2. /\ t \in Vars /\ t.p_len = n /\ t.got = <<>> /\ t.buf = k.buf /\ t.len = k.len
      /\ t.index = k.index /\ t.open = k.open /\ t.proc = k.proc
  BY <1>1, FreshFields
<1> HIDE DEF t
<1>3. Len(t.got) <= t.p_len
  BY <1>1, <1>2
<1>4. VarsOK(t)
  BY <1>2, <1>3, SameRing
<1> QED
  BY <1>2, <1>4 DEF t

LEMMA ClearedOK ==
    ASSUME NEW k, VarsOK(k)  PROVE VarsOK(Store(k, <<>>))
<1> DEFINE t == Store(k, <<>>)
<1>1. k \in Vars /\ <<>> \in Seq(Stored) /\ Len(<<>>) = 0
  BY DEF VarsOK
<1>2. k.p_len \in Nat
  BY <1>1, Fields
<1>3. t \in Vars /\ Same(t, k) /\ t.got = <<>> /\ t.len = k.len /\ t.index = k.index
  BY <1>1, StoreFields
<1> HIDE DEF t
<1>4. Len(t.got) <= t.p_len
  BY <1>1, <1>2, <1>3 DEF Same
<1>5. VarsOK(t)
  BY <1>3, <1>4, SameRing DEF Same
<1> QED
  BY <1>5 DEF t

LEMMA ReadGood ==
    ASSUME NEW k, NEW b, Inv(k, b), NEW n \in ReadLens
    PROVE  LET o == kbd_read(k, TRUE, n)
           IN  /\ Good(b, o)
               /\ \/ Stays(o.kbd, k)
                  \/ Becomes(o.kbd, Queue(k), <<>>, k.p_len, k.eof)
                  \/ Becomes(o.kbd, Queue(k), <<>>, n, k.eof)
                  \/ /\ o.kbd.p_len = n /\ o.kbd.eof = k.eof
                     /\ Delivers(Queue(k), <<>>, n, k.eof, Queue(o.kbd), o.kbd.got)
<1> DEFINE o == kbd_read(k, TRUE, n)
           f == Fresh(k, n)
           g == Store(k, <<>>)
<1>1. k \in Vars /\ VarsOK(k) /\ n \in Nat
  BY KeyboardAssumption DEF Inv, VarsOK
<1>2. o = IF ~k.open THEN Failed(k)
          ELSE IF k.eof_flag THEN Outcome(g, "DONE", FALSE, 0)
          ELSE IF k.buf[k.index] # NUL /\ k.len > 0 /\ n # 0 THEN transfer(f)
          ELSE Outcome(f, "BLOCK", FALSE, 0)
  BY DEF kbd_read, Fresh, Store
<1>3. /\ f \in Vars /\ f.p_buf /\ f.p_len = n /\ f.got = <<>>
      /\ f.buf = k.buf /\ f.len = k.len /\ f.index = k.index /\ f.eof = k.eof
      /\ f.open = k.open /\ f.proc = k.proc
  BY <1>1, FreshFields
<1>4. /\ g \in Vars /\ Same(g, k) /\ g.got = <<>> /\ g.len = k.len /\ g.index = k.index
  <2>1. <<>> \in Seq(Stored)
    OBVIOUS
  <2> QED
    BY <1>1, <2>1, StoreFields
<1>5. Len(<<>>) = 0 /\ 1 .. 0 = {} /\ k.p_len \in Nat
  BY <1>1, Fields
<1> HIDE DEF o, f, g
<1>6. VarsOK(f) /\ Queue(f) = Queue(k) /\ LinesOK(f)
  <2>1. Len(f.got) <= f.p_len
    BY <1>1, <1>3, <1>5
  <2>2. LinesOK(f)
    BY <1>3, <1>5 DEF LinesOK
  <2> QED
    BY <1>1, <1>3, <2>1, <2>2, SameRing
<1>7. VarsOK(g) /\ Queue(g) = Queue(k) /\ LinesOK(g)
  <2>1. Len(g.got) <= g.p_len
    BY <1>4, <1>5 DEF Same
  <2>2. LinesOK(g)
    BY <1>4, <1>5 DEF LinesOK
  <2> QED
    BY <1>1, <1>4, <2>1, <2>2, SameRing DEF Same
<1>8. CASE ~k.open
  BY <1>2, <1>8, FailedGood DEF o
<1>9. CASE k.open /\ k.eof_flag
  <2>1. o.kbd = g /\ o.wakes = FALSE /\ o.result = "DONE"
    BY <1>2, <1>9 DEF Outcome
  <2>2. b => Waits(g)
    BY <1>4, <1>5 DEF Inv, Waits, Same
  <2>3. Good(b, o)
    BY <1>7, <2>1, <2>2 DEF Good, Keeps
  <2>4. Becomes(o.kbd, Queue(k), <<>>, k.p_len, k.eof)
    BY <1>4, <1>7, <2>1 DEF Becomes, Same
  <2> QED
    BY <2>3, <2>4 DEF o
<1>10. CASE k.open /\ ~k.eof_flag /\ k.buf[k.index] # NUL /\ k.len > 0 /\ n # 0
  <2>1. o = transfer(f)
    BY <1>2, <1>10
  <2>2. /\ Good(b, o) /\ o.kbd.p_len = n /\ o.kbd.eof = k.eof
        /\ Delivers(Queue(k), <<>>, n, k.eof, Queue(o.kbd), o.kbd.got)
    BY <1>3, <1>5, <1>6, <2>1, TransferGood
  <2> QED
    BY <2>2 DEF o
<1>11. CASE k.open /\ ~k.eof_flag /\ ~(k.buf[k.index] # NUL /\ k.len > 0 /\ n # 0)
  <2>1. o.kbd = f /\ o.wakes = FALSE /\ o.result = "BLOCK"
    BY <1>2, <1>11 DEF Outcome
  <2>2. k.len = 0 \/ n = 0
    <3>1. k.index \in 0 .. BufSize - 1 /\ k.len \in 0 .. BufSize
      BY <1>1, Fields
    <3>2. (k.index + 0) % BufSize = k.index
      <4>1. 0 \in 0 .. BufSize /\ k.index \in Int /\ k.index < BufSize /\ k.index + 0 = k.index
        BY <3>1, KeyboardAssumption
      <4>2. (k.index + 0) % BufSize = IF k.index + 0 < BufSize THEN k.index + 0
                                      ELSE k.index + 0 - BufSize
        BY <3>1, <4>1, WrapPlace
      <4> QED
        BY <4>1, <4>2
    <3>3. ASSUME k.len > 0  PROVE k.buf[k.index] # NUL
      <4>1. 0 \in 0 .. k.len - 1
        BY <3>1, <3>3, KeyboardAssumption
      <4> QED
        BY <1>1, <3>2, <4>1, KeyboardAssumption DEF VarsOK, At
    <3> QED
      BY <1>11, <3>1, <3>3, KeyboardAssumption
  <2>3. Waits(f)
    BY <1>3, <1>5, <2>2 DEF Waits
  <2>4. Good(b, o)
    BY <1>6, <2>1, <2>3 DEF Good, Keeps
  <2>5. Becomes(o.kbd, Queue(k), <<>>, n, k.eof)
    BY <1>3, <1>6, <2>1 DEF Becomes
  <2> QED
    BY <2>4, <2>5 DEF o
<1> QED
  BY <1>1, <1>8, <1>9, <1>10, <1>11, Fields

LEMMA BadReadGood ==
    ASSUME NEW k, NEW b, Inv(k, b)
    PROVE  LET o == kbd_read(k, FALSE, 0)  IN  Good(b, o) /\ Stays(o.kbd, k)
<1>1. kbd_read(k, FALSE, 0) = Failed(k)
  BY DEF kbd_read
<1> QED
  BY <1>1, FailedGood

SetEof_(k, c) == [k EXCEPT !.eof = c]
SetEcho(k, e) == [k EXCEPT !.echo = e]

LEMMA SetEofFields ==
    ASSUME NEW k \in Vars, NEW c \in Char
    PROVE  LET t == SetEof_(k, c)
           IN  /\ t \in Vars /\ t.eof = c
               /\ t.buf = k.buf /\ t.len = k.len /\ t.index = k.index /\ t.open = k.open
               /\ t.proc = k.proc /\ t.p_buf = k.p_buf /\ t.p_len = k.p_len
               /\ t.got = k.got
BY DEF Vars, SetEof_

LEMMA SetEchoFields ==
    ASSUME NEW k \in Vars, NEW e \in BOOLEAN
    PROVE  LET t == SetEcho(k, e)
           IN  /\ t \in Vars /\ t.eof = k.eof
               /\ t.buf = k.buf /\ t.len = k.len /\ t.index = k.index /\ t.open = k.open
               /\ t.proc = k.proc /\ t.p_buf = k.p_buf /\ t.p_len = k.p_len
               /\ t.got = k.got
BY DEF Vars, SetEcho

\* A command of kbd_ioctl() changes nothing that a blocked reader depends on.
LEMMA ChangeGood ==
    ASSUME NEW k, NEW b, Inv(k, b), NEW t \in Vars, t.buf = k.buf, t.len = k.len,
           t.index = k.index, t.open = k.open, t.proc = k.proc, t.p_buf = k.p_buf,
           t.p_len = k.p_len, t.got = k.got,
           NEW o, o.kbd = t, o.wakes = FALSE, o.result = "DONE"
    PROVE  Good(b, o) /\ Becomes(o.kbd, Queue(k), k.got, k.p_len, t.eof)
<1>1. VarsOK(t) /\ Queue(t) = Queue(k)
  BY SameRing DEF Inv, VarsOK
<1>2. LinesOK(t) /\ (b => Waits(t))
  BY DEF Inv, LinesOK, Waits
<1> QED
  BY <1>1, <1>2 DEF Good, Keeps, Becomes

LEMMA EofGood ==
    ASSUME NEW k, NEW b, Inv(k, b), NEW c \in Char
    PROVE  LET o == kbd_ioctl(k, "eof", c)
           IN  Good(b, o) /\ Becomes(o.kbd, Queue(k), k.got, k.p_len, c)
<1> DEFINE o == kbd_ioctl(k, "eof", c)
           t == SetEof_(k, c)
<1>1. o.kbd = t /\ o.wakes = FALSE /\ o.result = "DONE"
  BY DEF kbd_ioctl, Outcome, SetEof_
<1>2. k \in Vars
  BY DEF Inv, VarsOK
<1> HIDE DEF o, t
<1>3. /\ t \in Vars /\ t.buf = k.buf /\ t.len = k.len /\ t.index = k.index /\ t.open = k.open
      /\ t.proc = k.proc /\ t.p_buf = k.p_buf /\ t.p_len = k.p_len
      /\ t.got = k.got /\ t.eof = c
  BY <1>2, SetEofFields DEF t
<1>4. Good(b, o) /\ Becomes(o.kbd, Queue(k), k.got, k.p_len, c)
  BY <1>1, <1>3, ChangeGood
<1> QED
  BY <1>4 DEF o

LEMMA EchoGood ==
    ASSUME NEW k, NEW b, Inv(k, b), NEW command \in {"echo_off", "echo_on", "unknown"}
    PROVE  LET o == kbd_ioctl(k, command, NUL)  IN  Good(b, o) /\ Stays(o.kbd, k)
<1>1. ASSUME NEW e \in BOOLEAN, NEW o, o = Outcome(SetEcho(k, e), "DONE", FALSE, NoRet)
      PROVE  Good(b, o) /\ Stays(o.kbd, k)
  <2> DEFINE t == SetEcho(k, e)
  <2>1. o.kbd = t /\ o.wakes = FALSE /\ o.result = "DONE"
    BY <1>1 DEF Outcome
  <2>2. k \in Vars
    BY DEF Inv, VarsOK
  <2> HIDE DEF t
  <2>3. /\ t \in Vars /\ t.buf = k.buf /\ t.len = k.len /\ t.index = k.index /\ t.open = k.open
        /\ t.proc = k.proc /\ t.p_buf = k.p_buf /\ t.p_len = k.p_len
        /\ t.got = k.got /\ t.eof = k.eof
    BY <2>2, SetEchoFields DEF t
  <2> QED
    BY <2>1, <2>3, ChangeGood DEF Stays
<1>2. /\ kbd_ioctl(k, "echo_off", NUL) = Outcome(SetEcho(k, FALSE), "DONE", FALSE, NoRet)
      /\ kbd_ioctl(k, "echo_on", NUL) = Outcome(SetEcho(k, TRUE), "DONE", FALSE, NoRet)
      /\ kbd_ioctl(k, "unknown", NUL) = Failed(k)
  BY DEF kbd_ioctl, SetEcho
<1> QED
  BY <1>1, <1>2, FailedGood

\* The interrupt: the key is queued, if there is room, and a reader that is blocked is
\* served at once.
Queued(k, c) ==
    IF k.len < BufSize THEN Append(Queue(k), c) ELSE Queue(k)

LEMMA InterruptGood ==
    ASSUME NEW k, NEW b, Inv(k, b), NEW c \in Char \cup {NoKey}
    PROVE  LET o == kbd_int_read(k, c, b)
           IN  /\ Keeps(b, o)
               /\ \/ Stays(o.kbd, k)
                  \/ Becomes(o.kbd, Queue(k), <<>>, k.p_len, k.eof)
                  \/ c \in Char /\ Becomes(o.kbd, Queued(k, c), k.got, k.p_len, k.eof)
                  \/ /\ c \in Char /\ o.kbd.p_len = k.p_len /\ o.kbd.eof = k.eof
                     /\ Delivers(Queued(k, c), k.got, k.p_len, k.eof, Queue(o.kbd), o.kbd.got)
<1> DEFINE o == kbd_int_read(k, c, b)
           t == store(k, c)
           g == Store(k, <<>>)
<1>1. k \in Vars /\ VarsOK(k) /\ LinesOK(k) /\ b \in BOOLEAN /\ (b => k.open /\ Waits(k))
  BY DEF Inv, VarsOK
<1>2. o = IF k.eof_flag THEN Outcome(g, "DONE", TRUE, 0)
          ELSE IF t # k /\ k.proc # NoPcb /\ b /\ k.p_buf THEN transfer(t)
          ELSE Outcome(t, "BLOCK", FALSE, Len(k.got))
  BY DEF kbd_int_read, Store
<1>3. /\ VarsOK(t)
      /\ t.open = k.open /\ t.proc = k.proc /\ t.p_buf = k.p_buf
      /\ t.p_len = k.p_len /\ t.got = k.got /\ t.eof = k.eof
      /\ t = k \/ (c \in Char /\ k.len < BufSize /\ Queue(t) = Append(Queue(k), c))
  BY <1>1, StoreGood
<1>4. /\ g \in Vars /\ Same(g, k) /\ g.got = <<>> /\ g.len = k.len /\ g.index = k.index
  <2>1. <<>> \in Seq(Stored)
    OBVIOUS
  <2> QED
    BY <1>1, <2>1, StoreFields
<1>5. Len(<<>>) = 0 /\ 1 .. 0 = {} /\ k.p_len \in Nat
  BY <1>1, Fields
<1> HIDE DEF o, t, g
<1>6. CASE k.eof_flag
  <2>1. o.kbd = g /\ o.wakes = TRUE
    BY <1>2, <1>6 DEF Outcome
  <2>2. Len(g.got) <= g.p_len /\ LinesOK(g)
    BY <1>4, <1>5 DEF Same, LinesOK
  <2>3. VarsOK(g) /\ Queue(g) = Queue(k)
    BY <1>1, <1>4, <2>2, SameRing DEF Same
  <2>4. Keeps(b, o) /\ Becomes(o.kbd, Queue(k), <<>>, k.p_len, k.eof)
    BY <1>4, <2>1, <2>2, <2>3 DEF Keeps, Becomes, Same
  <2> QED
    BY <2>4 DEF o
<1>7. CASE ~k.eof_flag /\ t # k /\ b
  <2>1. k.proc # NoPcb /\ k.p_buf /\ \A n \in 1 .. Len(k.got) : k.got[n] # NUL
    BY <1>1, <1>7 DEF VarsOK, Waits
  <2>2. o = transfer(t)
    BY <1>2, <1>7, <2>1
  <2>3. Queue(t) = Queued(k, c) /\ c \in Char
    BY <1>3, <1>7 DEF Queued
  <2>4. /\ Keeps(b, o) /\ o.kbd.p_len = k.p_len /\ o.kbd.eof = k.eof
        /\ Delivers(Queue(t), k.got, k.p_len, k.eof, Queue(o.kbd), o.kbd.got)
    BY <1>3, <2>1, <2>2, TransferGood DEF Good, Keeps
  <2> QED
    BY <2>3, <2>4 DEF o
<1>8. CASE ~k.eof_flag /\ ~(t # k /\ b)
  <2>1. o.kbd = t /\ o.wakes = FALSE
    BY <1>2, <1>8 DEF Outcome
  <2>2. o.result = "BLOCK"
    BY <1>2, <1>8 DEF Outcome
  <2>3. CASE t = k
    <3>1. o.kbd = k
      BY <2>1, <2>3
    <3>2. b => Waits(o.kbd)
      BY <1>1, <3>1
    <3>3. Keeps(b, o) /\ Stays(o.kbd, k)
      BY <1>1, <2>1, <3>1, <3>2 DEF Keeps, Stays, Becomes
    <3> QED
      BY <3>3 DEF o
  <2>4. CASE t # k /\ ~b
    <3>1. Queue(t) = Queued(k, c) /\ c \in Char
      BY <1>3, <2>4 DEF Queued
    <3>2. Keeps(b, o) /\ Becomes(o.kbd, Queued(k, c), k.got, k.p_len, k.eof)
      BY <1>1, <1>3, <2>1, <2>4, <3>1 DEF Keeps, Becomes, LinesOK
    <3> QED
      BY <3>1, <3>2 DEF o
  <2> QED
    BY <1>1, <1>8, <2>3, <2>4
<1> QED
  BY <1>6, <1>7, <1>8

\* A call or an interrupt keeps the invariant, if the process that called blocks when it is
\* told to, and the holder of the keyboard stays blocked until it is readied.
LEMMA CallKeeps ==
    ASSUME NEW k, NEW b, Inv(k, b), NEW o, NEW i, NEW after,
           Good(b, o) \/ (i = NoPcb /\ Keeps(b, o)),
           after = (o.kbd.proc # NoPcb /\ ~o.wakes
                    /\ (b \/ (o.result = "BLOCK" /\ i = o.kbd.proc)))
    PROVE  Inv(o.kbd, after)
<1>1. /\ VarsOK(o.kbd) /\ LinesOK(o.kbd)
      /\ o.kbd.open = (o.kbd.proc # NoPcb)
  BY DEF Good, Keeps, VarsOK
<1>2. after => o.kbd.open /\ Waits(o.kbd)
  BY <1>1 DEF Good, Keeps
<1>3. after \in BOOLEAN
  OBVIOUS
<1> QED
  BY <1>1, <1>2, <1>3 DEF Inv

\* What the dispatcher sees of a call: transfer() readies the process for which the
\* keyboard was opened.
LEMMA TransferKeepsProc ==
    ASSUME NEW k, VarsOK(k)
    PROVE  LET o == transfer(k)
           IN  /\ o.kbd.proc = k.proc /\ o.result = IF o.wakes THEN "DONE" ELSE "BLOCK"
               /\ o.wakes \in BOOLEAN
<1> DEFINE s == takeAll(k)
           j == s.kbd
           o == transfer(k)
<1>1. VarsOK(j) /\ Same(j, k)
  BY TakesAll DEF TakenOK
<1>2. o = IF s.over THEN Outcome(j, "DONE", TRUE, Len(j.got))
          ELSE IF j.p_len # Len(j.got) THEN Outcome(j, "BLOCK", FALSE, Len(j.got))
          ELSE Outcome(Flag(j), "DONE", TRUE, Len(j.got))
  BY DEF transfer, Flag
<1>3. Same(Flag(j), j)
  BY <1>1, FlagFields DEF VarsOK
<1> HIDE DEF s, j, o
<1>4. CASE s.over
  BY <1>1, <1>2, <1>4 DEF Same, Outcome, o
<1>5. CASE ~s.over /\ j.p_len # Len(j.got)
  BY <1>1, <1>2, <1>5 DEF Same, Outcome, o
<1>6. CASE ~s.over /\ j.p_len = Len(j.got)
  BY <1>1, <1>2, <1>3, <1>6 DEF Same, Outcome, o
<1> QED
  BY <1>4, <1>5, <1>6

LEMMA InterruptKeepsProc ==
    ASSUME NEW k, k \in Vars, VarsOK(k), NEW b \in BOOLEAN, NEW c \in Char \cup {NoKey}
    PROVE  LET o == kbd_int_read(k, c, b)
           IN  /\ o.kbd.proc = k.proc /\ o.result = IF o.wakes THEN "DONE" ELSE "BLOCK"
               /\ o.wakes \in BOOLEAN
<1> DEFINE t == store(k, c)
           g == Store(k, <<>>)
           o == kbd_int_read(k, c, b)
<1>1. o = IF k.eof_flag THEN Outcome(g, "DONE", TRUE, 0)
          ELSE IF t # k /\ k.proc # NoPcb /\ b /\ k.p_buf THEN transfer(t)
          ELSE Outcome(t, "BLOCK", FALSE, Len(k.got))
  BY DEF kbd_int_read, Store
<1>2. VarsOK(t) /\ t.proc = k.proc
  BY StoreGood
<1>3. g.proc = k.proc
  BY DEF Store, Vars
<1> HIDE DEF t, g, o
<1>4. CASE k.eof_flag
  <2>1. o.kbd = g /\ o.wakes = TRUE /\ o.result = "DONE"
    BY <1>1, <1>4 DEF Outcome
  <2> QED
    BY <1>3, <2>1 DEF o
<1>5. CASE ~k.eof_flag /\ t # k /\ k.proc # NoPcb /\ b /\ k.p_buf
  <2>1. o = transfer(t)
    BY <1>1, <1>5
  <2> QED
    BY <1>2, <2>1, TransferKeepsProc DEF o
<1>6. CASE ~k.eof_flag /\ ~(t # k /\ k.proc # NoPcb /\ b /\ k.p_buf)
  <2>1. o.kbd = t /\ o.wakes = FALSE /\ o.result = "BLOCK"
    BY <1>1, <1>6 DEF Outcome
  <2> QED
    BY <1>2, <2>1 DEF o
<1> QED
  BY <1>4, <1>5, <1>6

\* A read: only one that is done readies the holder of the keyboard.
LEMMA ReadKeepsProc ==
    ASSUME NEW k, VarsOK(k), NEW ok \in BOOLEAN, NEW n, n \in ReadLens \/ ~ok
    PROVE  LET o == kbd_read(k, ok, n)
           IN  /\ o.kbd.proc = k.proc /\ o.wakes \in BOOLEAN
               /\ o.result \in {"ERROR", "DONE", "BLOCK"}
               /\ o.wakes => o.result = "DONE"
               /\ o.result # "ERROR" => k.open
               /\ o.result = "ERROR" => o.ret = NoRet
<1> DEFINE f == Fresh(k, n)
           g == Store(k, <<>>)
           o == kbd_read(k, ok, n)
<1>1. o = IF ~k.open \/ ~ok THEN Failed(k)
          ELSE IF k.eof_flag THEN Outcome(g, "DONE", FALSE, 0)
          ELSE IF k.buf[k.index] # NUL /\ k.len > 0 /\ n # 0 THEN transfer(f)
          ELSE Outcome(f, "BLOCK", FALSE, 0)
  BY DEF kbd_read, Fresh, Store
<1>2. k \in Vars /\ g.proc = k.proc
  BY DEF VarsOK, Store, Vars
<1>3. ok => VarsOK(f) /\ f.proc = k.proc
  BY <1>2, FreshOK
<1> HIDE DEF f, g, o
<1>4. CASE ~k.open \/ ~ok
  <2>1. o.kbd = k /\ o.wakes = FALSE /\ o.result = "ERROR" /\ o.ret = NoRet
    BY <1>1, <1>4 DEF Failed, Outcome
  <2> QED
    BY <2>1 DEF o
<1>5. CASE k.open /\ ok /\ k.eof_flag
  <2>1. o.kbd = g /\ o.wakes = FALSE /\ o.result = "DONE"
    BY <1>1, <1>5 DEF Outcome
  <2> QED
    BY <1>2, <1>5, <2>1 DEF o
<1>6. CASE k.open /\ ok /\ ~k.eof_flag /\ k.buf[k.index] # NUL /\ k.len > 0 /\ n # 0
  <2>1. o = transfer(f)
    BY <1>1, <1>6
  <2>2. /\ o.kbd.proc = f.proc /\ o.result = IF o.wakes THEN "DONE" ELSE "BLOCK"
        /\ o.wakes \in BOOLEAN
    BY <1>3, <1>6, <2>1, TransferKeepsProc
  <2> QED
    BY <1>3, <1>6, <2>2 DEF o
<1>7. CASE k.open /\ ok /\ ~k.eof_flag /\ ~(k.buf[k.index] # NUL /\ k.len > 0 /\ n # 0)
  <2>1. o.kbd = f /\ o.wakes = FALSE /\ o.result = "BLOCK"
    BY <1>1, <1>7 DEF Outcome
  <2> QED
    BY <1>3, <1>7, <2>1 DEF o
<1> QED
  BY <1>4, <1>5, <1>6, <1>7

-----------------------------------------------------------------------------
(* The types, whatever is blocked                                           *)

LEMMA OpenTypes ==
    ASSUME NEW k, VarsOK(k), NEW i \in Readers, NEW e \in BOOLEAN
    PROVE  VarsOK(kbd_open(k, i, e).kbd)
<1>1. CASE k.open
  BY <1>1 DEF kbd_open, Failed, Outcome
<1>2. CASE ~k.open
  <2> DEFINE r == kbd_reset_state
  <2>1. r \in Vars /\ VarsOK(r) /\ LinesOK(r) /\ ~r.open
    BY ResetGood
  <2>2. Inv(r, FALSE)
    BY <2>1 DEF Inv
  <2>3. kbd_open(k, i, e) = kbd_open(r, i, e)
    BY <1>2, <2>1 DEF kbd_open
  <2> QED
    BY <2>2, <2>3, OpenGood DEF Good, Keeps
<1> QED
  BY <1>1, <1>2

LEMMA CloseTypes ==
    ASSUME NEW k, VarsOK(k)  PROVE VarsOK(kbd_close(k).kbd)
  BY ResetGood DEF kbd_close, Failed, Outcome

LEMMA TransferTypes ==
    ASSUME NEW k, VarsOK(k)  PROVE VarsOK(transfer(k).kbd)
<1> DEFINE s == takeAll(k)
           j == s.kbd
           o == transfer(k)
<1>1. VarsOK(j) /\ j \in Vars
  BY TakesAll DEF TakenOK, VarsOK
<1>2. o = IF s.over THEN Outcome(j, "DONE", TRUE, Len(j.got))
          ELSE IF j.p_len # Len(j.got) THEN Outcome(j, "BLOCK", FALSE, Len(j.got))
          ELSE Outcome(Flag(j), "DONE", TRUE, Len(j.got))
  BY DEF transfer, Flag
<1> HIDE DEF s, j, o
<1>3. VarsOK(Flag(j))
  <2>1. /\ Flag(j) \in Vars /\ Same(Flag(j), j) /\ Flag(j).len = j.len
        /\ Flag(j).index = j.index /\ Flag(j).got = j.got
    BY <1>1, FlagFields
  <2> QED
    BY <1>1, <2>1, SameRing DEF Same, VarsOK
<1>4. o.kbd = j \/ o.kbd = Flag(j)
  BY <1>2 DEF Outcome
<1> QED
  BY <1>1, <1>3, <1>4 DEF o

LEMMA ReadTypes ==
    ASSUME NEW k, VarsOK(k), NEW ok \in BOOLEAN, NEW n, n \in ReadLens \/ ~ok
    PROVE  VarsOK(kbd_read(k, ok, n).kbd)
<1> DEFINE f == Fresh(k, n)
           g == Store(k, <<>>)
           o == kbd_read(k, ok, n)
<1>1. o = IF ~k.open \/ ~ok THEN Failed(k)
          ELSE IF k.eof_flag THEN Outcome(g, "DONE", FALSE, 0)
          ELSE IF k.buf[k.index] # NUL /\ k.len > 0 /\ n # 0 THEN transfer(f)
          ELSE Outcome(f, "BLOCK", FALSE, 0)
  BY DEF kbd_read, Fresh, Store
<1>2. VarsOK(g) /\ (ok => VarsOK(f))
  BY FreshOK, ClearedOK
<1> HIDE DEF f, g, o
<1>3. \/ o.kbd = k \/ o.kbd = g \/ (ok /\ o.kbd = f) \/ (ok /\ o = transfer(f))
  BY <1>1 DEF Failed, Outcome
<1> QED
  BY <1>2, <1>3, TransferTypes DEF o

LEMMA IoctlTypes ==
    ASSUME NEW k, VarsOK(k), NEW command, NEW c \in Char
    PROVE  VarsOK(kbd_ioctl(k, command, c).kbd)
<1>1. k \in Vars
  BY DEF VarsOK
<1>2. ASSUME NEW t \in Vars, t.buf = k.buf, t.len = k.len, t.index = k.index, t.open = k.open,
             t.proc = k.proc, t.p_len = k.p_len, t.got = k.got
      PROVE  VarsOK(t)
  BY <1>2, SameRing DEF VarsOK
<1>3. VarsOK(SetEof_(k, c)) /\ \A e \in BOOLEAN : VarsOK(SetEcho(k, e))
  BY <1>1, <1>2, SetEofFields, SetEchoFields
<1>4. \/ kbd_ioctl(k, command, c).kbd = k
      \/ kbd_ioctl(k, command, c).kbd = SetEof_(k, c)
      \/ \E e \in BOOLEAN : kbd_ioctl(k, command, c).kbd = SetEcho(k, e)
  BY DEF kbd_ioctl, Failed, Outcome, SetEof_, SetEcho
<1> QED
  BY <1>3, <1>4

LEMMA InterruptTypes ==
    ASSUME NEW k, VarsOK(k), NEW b \in BOOLEAN, NEW c \in Char \cup {NoKey}
    PROVE  VarsOK(kbd_int_read(k, c, b).kbd)
<1> DEFINE t == store(k, c)
           g == Store(k, <<>>)
           o == kbd_int_read(k, c, b)
<1>1. o = IF k.eof_flag THEN Outcome(g, "DONE", TRUE, 0)
          ELSE IF t # k /\ k.proc # NoPcb /\ b /\ k.p_buf THEN transfer(t)
          ELSE Outcome(t, "BLOCK", FALSE, Len(k.got))
  BY DEF kbd_int_read, Store
<1>2. VarsOK(t) /\ VarsOK(g)
  BY StoreGood, ClearedOK
<1> HIDE DEF t, g, o
<1>3. o.kbd = g \/ o.kbd = t \/ o = transfer(t)
  BY <1>1 DEF Outcome
<1> QED
  BY <1>2, <1>3, TransferTypes DEF o
=============================================================================
