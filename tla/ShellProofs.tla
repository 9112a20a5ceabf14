----------------------------- MODULE ShellProofs -----------------------------
(***************************************************************************)
(* What is typed before the shell's reset does not get into a command, for *)
(* a ring and commands of any length and any number of children.           *)
(***************************************************************************)
EXTENDS Shell, DriverProofs

-----------------------------------------------------------------------------
(* The driver's functions and the character Watched                         *)

\* These hold while the shell resets the driver, variable by variable, when the driver's
\* own invariant does not.
RingClean(k) == \A n \in 0 .. BufSize - 1 : k.buf[n] # Watched
GotClean(k) == \A n \in 1 .. Len(k.got) : k.got[n] # Watched

\* From k the driver's variables become j, and Watched gets nowhere.
Keeping(k, j) ==
    /\ j \in Vars
    /\ \A n \in 0 .. BufSize - 1 : k.buf[n] # Watched => j.buf[n] # Watched
    /\ RingClean(k) /\ GotClean(k) => GotClean(j)

LEMMA WatchedIs == Watched \in Char /\ Watched # ENTER /\ Watched # NUL
BY ShellAssumption, KeyboardAssumption

LEMMA SameKeeps == ASSUME NEW k \in Vars  PROVE Keeping(k, k)
BY DEF Keeping

LEMMA EmptyClean == ASSUME NEW k, k.got = <<>>  PROVE GotClean(k)
BY DEF GotClean

\* A turn of transfer()'s loop.
Sweeps(k, j) == j \in Vars /\ j.buf = k.buf /\ (RingClean(k) /\ GotClean(k) => GotClean(j))

LEMMA TurnSweeps ==
    ASSUME NEW k, NEW s, Sweeps(k, s.kbd), s.kbd.len > 0
    PROVE  Sweeps(k, TakeOne(s).kbd)
<1> DEFINE j == s.kbd
           c == j.buf[j.index]
           rest == [j EXCEPT !.len = @ - 1, !.index = (@ + 1) % BufSize]
<1>1. /\ j \in Vars /\ j.buf = k.buf /\ j.len \in 1 .. BufSize
      /\ RingClean(k) /\ GotClean(k) => GotClean(j)
  <2>1. j \in Vars /\ j.len > 0
    BY DEF Sweeps
  <2> HIDE DEF j
  <2>2. j.len \in 0 .. BufSize
    BY <2>1, Fields
  <2>3. j.len \in 1 .. BufSize
    BY <2>1, <2>2, KeyboardAssumption
  <2> QED
    BY <2>1, <2>3 DEF Sweeps, j
<1>2. TakeOne(s).kbd = IF c = j.eof THEN [rest EXCEPT !.eof_flag = TRUE]
                       ELSE [rest EXCEPT !.got = Append(@, IF c = ENTER THEN NUL ELSE c)]
  BY DEF TakeOne
<1> HIDE DEF j
<1>3. /\ j.index \in 0 .. BufSize - 1 /\ j.got \in Seq(Stored) /\ c \in Stored
      /\ j.buf \in [0 .. BufSize - 1 -> Stored]
  BY <1>1, Fields
<1>4. RingClean(k) => c # Watched
  BY <1>1, <1>3 DEF RingClean
<1>5. j.len - 1 \in 0 .. BufSize /\ (j.index + 1) % BufSize \in 0 .. BufSize - 1
  <2>1. 1 \in 0 .. BufSize
    BY KeyboardAssumption
  <2>2. (j.index + 1) % BufSize \in 0 .. BufSize - 1
    BY <1>3, <2>1, WrapPlace
  <2>3. j.len - 1 \in 0 .. BufSize
    BY <1>1, KeyboardAssumption
  <2> QED
    BY <2>2, <2>3
<1> DEFINE x == IF c = ENTER THEN NUL ELSE c
           g == Append(j.got, x)
<1>6. x \in Stored /\ (RingClean(k) => x # Watched)
  BY <1>3, <1>4, WatchedIs DEF Stored
<1> HIDE DEF x, c
<1>7. /\ g \in Seq(Stored) /\ Len(g) = Len(j.got) + 1 /\ Len(j.got) \in Nat
      /\ \A n \in 1 .. Len(j.got) : g[n] = j.got[n]
      /\ g[Len(j.got) + 1] = x
  BY <1>3, <1>6, AppendProperties, LenProperties
<1>8. rest \in Vars /\ rest.buf = k.buf /\ rest.got = j.got
  BY <1>1, <1>5 DEF Vars
<1>9. CASE c = j.eof
  <2> DEFINE t == [rest EXCEPT !.eof_flag = TRUE]
  <2>1. t \in Vars /\ t.buf = k.buf /\ t.got = j.got
    BY <1>8 DEF Vars
  <2>2. TakeOne(s).kbd = t
    BY <1>2, <1>9
  <2> HIDE DEF t, rest
  <2> QED
    BY <1>1, <2>1, <2>2 DEF Sweeps, GotClean
<1>10. CASE c # j.eof
  <2> DEFINE t == [rest EXCEPT !.got = g]
  <2>1. t \in Vars /\ t.buf = k.buf /\ t.got = g
    <3> HIDE DEF g
    <3> QED
      BY <1>7, <1>8 DEF Vars
  <2>2. TakeOne(s).kbd = t
    BY <1>2, <1>8, <1>10 DEF x
  <2> HIDE DEF t, rest, g
  <2>3. RingClean(k) /\ GotClean(k) => GotClean(t)
    <3> SUFFICES ASSUME RingClean(k), GotClean(k), NEW n \in 1 .. Len(g)  PROVE g[n] # Watched
      BY <2>1 DEF GotClean
    <3>1. CASE n = Len(j.got) + 1
      BY <3>1, <1>6, <1>7
    <3>2. CASE n # Len(j.got) + 1
      <4>1. n \in 1 .. Len(j.got)
        BY <3>2, <1>7
      <4> QED
        BY <4>1, <1>1, <1>7 DEF GotClean
    <3> QED
      BY <3>1, <3>2
  <2> QED
    BY <2>1, <2>2, <2>3 DEF Sweeps
<1> QED
  BY <1>9, <1>10

LEMMA LoopSweeps == ASSUME NEW k \in Vars  PROVE Sweeps(k, takeAll(k).kbd)
<1> DEFINE t == Transferring(k)
           S == {n \in Nat : n <= BufSize => Sweeps(k, t[n].kbd)}
<1>1. t[0] = Begun(k) /\ \A n \in 1 .. BufSize : t[n] = Iterate(t[n - 1])
  BY TransferringSteps
<1>2. BufSize \in Nat
  BY KeyboardAssumption
<1> HIDE DEF t
<1>3. 0 \in S
  BY <1>1 DEF Begun, Sweeps
<1>4. ASSUME NEW n \in Nat, n \in S  PROVE n + 1 \in S
  <2> SUFFICES ASSUME n + 1 <= BufSize  PROVE Sweeps(k, t[n + 1].kbd)
    OBVIOUS
  <2>1. Sweeps(k, t[n].kbd)
    BY <1>2, <1>4
  <2>2. n + 1 \in 1 .. BufSize /\ (n + 1) - 1 = n
    BY <1>2
  <2>3. t[n + 1] = Iterate(t[n])
    BY <1>1, <2>2
  <2>4. CASE GoesOn(t[n])
    <3>1. t[n].kbd.len > 0
      BY <2>4 DEF GoesOn
    <3> QED
      BY <2>1, <2>3, <2>4, <3>1, TurnSweeps DEF Iterate
  <2>5. CASE ~GoesOn(t[n])
    BY <2>1, <2>3, <2>5 DEF Iterate
  <2> QED
    BY <2>4, <2>5
<1> HIDE DEF S
<1>5. Nat \subseteq S
  BY <1>3, <1>4, StepInduction
<1>6. Sweeps(k, t[BufSize].kbd)
  BY <1>2, <1>5 DEF S
<1> QED
  BY <1>6 DEF takeAll, t

LEMMA TransferKeeps ==
    ASSUME NEW k \in Vars
    PROVE  Keeping(k, transfer(k).kbd) /\ (transfer(k).result = "BLOCK" <=> ~transfer(k).wakes)
<1> DEFINE j == takeAll(k).kbd
           o == transfer(k)
<1>1. Sweeps(k, j)
  BY LoopSweeps
<1>2. o.kbd = j \/ o.kbd = [j EXCEPT !.eof_flag = TRUE]
  BY DEF transfer, Outcome
<1>3. o.result = "BLOCK" <=> ~o.wakes
  BY DEF transfer, Outcome
<1> HIDE DEF j, o
<1>4. o.kbd \in Vars /\ o.kbd.buf = k.buf /\ o.kbd.got = j.got
  BY <1>1, <1>2 DEF Sweeps, Vars
<1> QED
  BY <1>1, <1>3, <1>4 DEF Keeping, Sweeps, RingClean, GotClean, o

LEMMA ReadKeeps ==
    ASSUME NEW k \in Vars, NEW ok \in BOOLEAN, NEW n \in ReadLens
    PROVE  Keeping(k, kbd_read(k, ok, n).kbd)
<1> DEFINE fresh == [k EXCEPT !.p_buf = TRUE, !.p_len = n, !.got = <<>>]
           none == [k EXCEPT !.got = <<>>]
<1>1. <<>> \in Seq(Stored)
  BY EmptySeq
<1>2. /\ fresh \in Vars /\ fresh.buf = k.buf /\ fresh.got = <<>>
      /\ none \in Vars /\ none.buf = k.buf /\ none.got = <<>>
  BY <1>1 DEF Vars
<1>3. kbd_read(k, ok, n).kbd \in {k, none, fresh, transfer(fresh).kbd}
  BY DEF kbd_read, Failed, Outcome
<1> HIDE DEF fresh, none
<1>4. Keeping(k, fresh) /\ Keeping(k, none)
  BY <1>2, EmptyClean DEF Keeping, RingClean
<1>5. Keeping(fresh, transfer(fresh).kbd)
  BY <1>2, TransferKeeps
<1>6. Keeping(k, transfer(fresh).kbd)
  <2> DEFINE j == transfer(fresh).kbd
  <2>1. Keeping(fresh, j)
    BY <1>5
  <2> HIDE DEF j
  <2>2. Keeping(k, j)
    BY <1>4, <2>1, <1>2, EmptyClean DEF Keeping, RingClean
  <2> QED
    BY <2>2 DEF j
<1> QED
  BY <1>3, <1>4, <1>6, SameKeeps

\* A character that is stored is no Watched one, or it is typed now.
LEMMA InterruptKeeps ==
    ASSUME NEW k \in Vars, ~k.eof_flag, NEW c \in Char, NEW b \in BOOLEAN
    PROVE  LET o == kbd_int_read(k, c, b)
           IN  /\ o.kbd \in Vars /\ (o.wakes => b)
               /\ c # Watched => Keeping(k, o.kbd)
<1> DEFINE j == store(k, c)
           o == kbd_int_read(k, c, b)
           place == (k.index + k.len) % BufSize
<1>1. /\ k.buf \in [0 .. BufSize - 1 -> Stored] /\ k.len \in 0 .. BufSize
      /\ k.index \in 0 .. BufSize - 1 /\ c \in Stored
  BY Fields DEF Stored
<1>2. place \in 0 .. BufSize - 1
  BY <1>1, WrapPlace
<1>3. j = k \/ (k.len < BufSize /\ j = [k EXCEPT !.buf[place] = c, !.len = @ + 1])
  BY <1>1, KeyboardAssumption DEF store
<1>5. (o.kbd = j /\ o.wakes = FALSE) \/ (o = transfer(j) /\ b)
  BY DEF kbd_int_read, Outcome
<1> HIDE DEF o, j, place
<1>6. j \in Vars /\ j.got = k.got
      /\ \A n \in 0 .. BufSize - 1 : j.buf[n] = k.buf[n] \/ j.buf[n] = c
  <2>1. CASE j = k
    BY <2>1
  <2>2. CASE k.len < BufSize /\ j = [k EXCEPT !.buf[place] = c, !.len = @ + 1]
    <3>1. k.len + 1 \in 0 .. BufSize
      BY <1>1, <2>2, KeyboardAssumption
    <3>2. [k.buf EXCEPT ![place] = c] \in [0 .. BufSize - 1 -> Stored]
      BY <1>1, <1>2
    <3>3. j.buf = [k.buf EXCEPT ![place] = c] /\ j.got = k.got
      BY <2>2 DEF Vars
    <3>4. j \in Vars
      BY <2>2, <3>1, <3>2 DEF Vars
    <3> QED
      BY <1>1, <3>3, <3>4
  <2> QED
    BY <1>3, <2>1, <2>2
<1>7. c # Watched => Keeping(k, j)
  BY <1>6 DEF Keeping, RingClean, GotClean
<1>8. Keeping(j, transfer(j).kbd)
  BY <1>6, TransferKeeps
<1>9. /\ o.kbd \in Vars /\ (o.wakes => b)
      /\ c # Watched => Keeping(k, o.kbd)
  BY <1>5, <1>6, <1>7, <1>8 DEF Keeping, RingClean
<1> QED
  BY <1>9 DEF o

LEMMA ResetIs == kbd_reset_state \in Vars
<1>1. <<>> \in Seq(Stored) /\ 0 \in 0 .. BufSize /\ 0 \in 0 .. BufSize - 1
  BY EmptySeq, KeyboardAssumption
<1>2. [i \in 0 .. BufSize - 1 |-> NUL] \in [0 .. BufSize - 1 -> Stored]
  BY DEF Stored
<1> QED
  BY <1>1, <1>2 DEF kbd_reset_state, Vars

LEMMA OpenIs ==
    ASSUME NEW k \in Vars, NEW i \in Readers, NEW echo \in BOOLEAN
    PROVE  kbd_open(k, i, echo).kbd \in Vars
<1>1. [kbd_reset_state EXCEPT !.proc = i, !.open = TRUE, !.echo = echo] \in Vars
  <2> DEFINE r == kbd_reset_state
  <2>1. r \in Vars
    BY ResetIs
  <2> HIDE DEF r
  <2>2. [r EXCEPT !.proc = i, !.open = TRUE, !.echo = echo] \in Vars
    BY <2>1 DEF Vars
  <2> QED
    BY <2>2 DEF r
<1> QED
  BY <1>1 DEF kbd_open, Failed, Outcome

LEMMA CloseIs == ASSUME NEW k \in Vars  PROVE kbd_close(k).kbd \in Vars
BY ResetIs DEF kbd_close, Failed, Outcome

-----------------------------------------------------------------------------
(* The invariant                                                            *)

ShellTypes ==
    /\ kbd \in Vars /\ at \in 0 .. BufSize - 1
    /\ pc = [i \in {Root, Sh} |-> pc[i]]
    /\ pc[Sh] # "ring" => at = 0
    /\ pc[Sh] # "none" => pc[Root] = "spins"

\* As long as Watched is not typed, it is not where the shell has cleared the ring, and
\* not in the buffer of the read once that is empty.
Cleared ==
    /\ pc[Sh] = "ring" => \A n \in 0 .. at - 1 : kbd.buf[n] # Watched
    /\ pc[Sh] \in {"kbd_len", "kbd_index", "eof_flag", "p_read", "p_buf", "p_len", "read",
                   "reading", "returned"} => RingClean(kbd)
    /\ pc[Sh] \in {"p_buf", "p_len", "read", "reading", "returned"} => GotClean(kbd)

\* The inductive invariant.
ShellInv == ShellTypes /\ (~typed => Cleared)

LEMMA ShellStart == InitShell => ShellInv
<1> SUFFICES ASSUME InitShell  PROVE ShellInv
  OBVIOUS
<1>1. kbd \in Vars /\ at \in 0 .. BufSize - 1
  BY ResetIs, KeyboardAssumption DEF InitShell
<1>2. pc = [i \in {Root, Sh} |-> pc[i]] /\ pc[Sh] = "none"
  BY DEF InitShell, Root, Sh
<1> QED
  BY <1>1, <1>2 DEF InitShell, ShellInv, ShellTypes, Cleared

\* What is done when the shell does not run yet.
LEMMA Before ==
    ASSUME ShellInv, pc[Sh] = "none", kbd' \in Vars, at' = at,
           pc' = [i \in {Root, Sh} |-> pc'[i]],
           \/ pc'[Sh] = "none"
           \/ pc'[Sh] = "start" /\ pc'[Root] = "spins"
    PROVE  ShellInv'
BY DEF ShellInv, ShellTypes, Cleared

\* Root has its last statement behind it when the shell starts.
LEMMA RootGoes ==
    ASSUME ShellInv, NEW from, NEW to, Goes(Root, from, to), from # "spins"
    PROVE  /\ pc[Sh] = "none" /\ pc'[Sh] = "none"
           /\ pc' = [i \in {Root, Sh} |-> pc'[i]]
<1>1. pc[Root] = from /\ pc' = [pc EXCEPT ![Root] = to]
  BY DEF Goes
<1>2. pc[Sh] = "none" /\ pc = [i \in {Root, Sh} |-> pc[i]]
  BY <1>1 DEF ShellInv, ShellTypes
<1>3. DOMAIN pc = {Root, Sh} /\ Root # Sh
  BY <1>2 DEF Root, Sh
<1>4. pc'[Sh] = "none"
  BY <1>1, <1>2, <1>3
<1>5. pc' = [i \in {Root, Sh} |-> pc'[i]]
  BY <1>1, <1>3
<1> QED
  BY <1>2, <1>4, <1>5

LEMMA RootSteps ==
    ASSUME ShellInv, RootOpens \/ RootReads \/ RootResets \/ RootCloses
    PROVE  ShellInv'
<1>1. kbd \in Vars /\ Root \in Readers /\ Sh \in Readers
      /\ NameLen \in ReadLens /\ PassLen \in ReadLens
  BY ShellAssumption DEF ShellInv, ShellTypes
<1>2. CASE RootOpens
  <2>1. kbd' \in Vars /\ at' = at
    BY <1>1, <1>2, OpenIs DEF RootOpens, Sets
  <2>2. Goes(Root, "open", "name")
    BY <1>2 DEF RootOpens
  <2> QED
    BY <2>1, <2>2, RootGoes, Before
<1>3. ASSUME NEW from, NEW n \in ReadLens, from # "spins", Reads(Root, from, n)
      PROVE  ShellInv'
  <2>1. kbd' = kbd_read(kbd, TRUE, n).kbd /\ at' = at
    BY <1>3 DEF Reads
  <2>2. PICK to : Goes(Root, from, to)
    BY <1>3 DEF Reads
  <2>3. kbd' \in Vars
    BY <1>1, <2>1, ReadKeeps DEF Keeping
  <2> QED
    BY <1>3, <2>1, <2>2, <2>3, RootGoes, Before
<1>4. CASE RootReads
  BY <1>1, <1>3, <1>4 DEF RootReads
<1>5. ASSUME NEW from, NEW to, NEW k, from # "spins", Goes(Root, from, to), Sets(k), k \in Vars
      PROVE  ShellInv'
  BY <1>5, RootGoes, Before DEF Sets
<1>6. CASE RootResets
  <2>1. kbd_ioctl(kbd, "echo_off", NUL).kbd \in Vars
    BY <1>1 DEF kbd_ioctl, Outcome, Vars
  <2>2. <<>> \in Seq(Stored)
    BY EmptySeq
  <2>3. /\ [kbd EXCEPT !.eof_flag = FALSE] \in Vars /\ [kbd EXCEPT !.p_buf = FALSE] \in Vars
        /\ [kbd EXCEPT !.got = <<>>] \in Vars /\ [kbd EXCEPT !.p_len = 0] \in Vars
    BY <1>1, <2>2 DEF Vars
  <2> QED
    BY <1>5, <1>6, <2>1, <2>3 DEF RootResets
<1>7. CASE RootCloses
  <2>1. kbd' \in Vars /\ at' = at
    BY <1>1, <1>7, CloseIs DEF RootCloses, Sets
  <2>2. CASE Goes(Root, "returned", "open")
    BY <2>1, <2>2, RootGoes, Before
  <2>3. CASE /\ pc[Root] = "returned"
             /\ pc' = [pc EXCEPT ![Root] = "spins", ![Sh] = "start"]
    <3>1. /\ pc[Sh] = "none" /\ pc'[Sh] = "start" /\ pc'[Root] = "spins"
          /\ pc' = [i \in {Root, Sh} |-> pc'[i]]
      BY <2>3 DEF ShellInv, ShellTypes, Root, Sh
    <3> QED
      BY <2>1, <3>1, Before
  <2> QED
    BY <1>7, <2>2, <2>3 DEF RootCloses
<1> QED
  BY <1>2, <1>4, <1>6, <1>7

\* Statements of the shell.
LEMMA ShellGoes ==
    ASSUME ShellInv, NEW from, NEW to, Goes(Sh, from, to), from # "none"
    PROVE  /\ pc[Sh] = from /\ pc'[Sh] = to /\ pc[Root] = "spins" /\ pc'[Root] = "spins"
           /\ pc' = [i \in {Root, Sh} |-> pc'[i]]
<1>1. pc[Sh] = from /\ pc' = [pc EXCEPT ![Sh] = to]
  BY DEF Goes
<1>2. pc[Root] = "spins" /\ pc = [i \in {Root, Sh} |-> pc[i]]
  BY <1>1 DEF ShellInv, ShellTypes
<1>3. DOMAIN pc = {Root, Sh} /\ Root # Sh
  BY <1>2 DEF Root, Sh
<1>4. pc'[Sh] = to /\ pc'[Root] = "spins"
  BY <1>1, <1>2, <1>3
<1>5. pc' = [i \in {Root, Sh} |-> pc'[i]]
  BY <1>1, <1>3
<1> QED
  BY <1>1, <1>2, <1>4, <1>5

\* A statement behind which no character is kept, or which keeps them clean.
LEMMA NewPlace ==
    ASSUME ShellInv, pc[Root] = "spins" => pc'[Root] = "spins", pc' = [i \in {Root, Sh} |-> pc'[i]],
           kbd' \in Vars, at' = at, pc[Sh] \notin {"none", "ring"},
           pc'[Sh] \in {"ring", "waiting", "handler", "stopped"}
    PROVE  ShellInv'
<1>1. ShellTypes'
  BY DEF ShellInv, ShellTypes
<1>2. at = 0
  BY DEF ShellInv, ShellTypes
<1>3. 0 .. 0 - 1 = {}
  OBVIOUS
<1>4. Cleared'
  BY <1>2, <1>3 DEF Cleared
<1> QED
  BY <1>1, <1>4 DEF ShellInv

LEMMA ShellOpensKeeps == ASSUME ShellInv, ShellOpens  PROVE ShellInv'
<1>1. kbd \in Vars /\ Sh \in Readers
  BY ShellAssumption DEF ShellInv, ShellTypes
<1>2. kbd' \in Vars /\ at' = at
  BY <1>1, OpenIs DEF ShellOpens, Sets
<1>3. Goes(Sh, "start", "ring")
  BY DEF ShellOpens
<1> QED
  BY <1>2, <1>3, ShellGoes, NewPlace

LEMMA RingKeeps == ASSUME ShellInv, ClearsRing  PROVE ShellInv'
<1> DEFINE to == IF at = BufSize - 1 THEN "kbd_len" ELSE "ring"
           j == [kbd EXCEPT !.buf[at] = NUL]
<1>1. /\ Goes(Sh, "ring", to) /\ kbd' = j /\ at' = (at + 1) % BufSize
      /\ typed' = (at # 0 /\ typed)
  BY DEF ClearsRing
<1>2. /\ pc[Sh] = "ring" /\ pc'[Sh] = to /\ pc'[Root] = "spins"
      /\ pc' = [i \in {Root, Sh} |-> pc'[i]]
  BY <1>1, ShellGoes
<1>3. kbd \in Vars /\ at \in 0 .. BufSize - 1 /\ kbd.buf \in [0 .. BufSize - 1 -> Stored]
  BY Fields DEF ShellInv, ShellTypes
<1>4. j \in Vars /\ j.buf = [kbd.buf EXCEPT ![at] = NUL]
  <2>1. [kbd.buf EXCEPT ![at] = NUL] \in [0 .. BufSize - 1 -> Stored]
    BY <1>3 DEF Stored
  <2> QED
    BY <1>3, <2>1 DEF Vars
<1>5. at' = (IF at = BufSize - 1 THEN 0 ELSE at + 1) /\ at' \in 0 .. BufSize - 1
  <2>1. 1 \in 0 .. BufSize
    BY KeyboardAssumption
  <2>2. (at + 1) % BufSize = IF at + 1 < BufSize THEN at + 1 ELSE at + 1 - BufSize
    BY <1>3, <2>1, WrapPlace
  <2> QED
    BY <1>1, <1>3, <2>2, KeyboardAssumption
<1> HIDE DEF j, to
<1>6. ShellTypes'
  BY <1>1, <1>2, <1>4, <1>5 DEF ShellTypes, to
<1>7. ASSUME ~typed'  PROVE \A n \in 0 .. at : kbd'.buf[n] # Watched
  <2>1. at = 0 \/ ~typed
    BY <1>1, <1>7
  <2>2. \A n \in 0 .. at - 1 : kbd.buf[n] # Watched
    <3>1. CASE at = 0
      BY <3>1
    <3>2. CASE ~typed
      BY <3>2, <1>2 DEF ShellInv, Cleared
    <3> QED
      BY <2>1, <3>1, <3>2
  <2> TAKE n \in 0 .. at
  <2>3. CASE n = at
    BY <2>3, <1>1, <1>3, <1>4, WatchedIs
  <2>4. CASE n # at
    <3>1. n \in 0 .. at - 1 /\ n \in 0 .. BufSize - 1
      BY <2>4, <1>3, KeyboardAssumption
    <3> QED
      BY <2>2, <2>4, <3>1, <1>1, <1>3, <1>4
  <2> QED
    BY <2>3, <2>4
<1>8. ASSUME ~typed'  PROVE Cleared'
  <2>1. CASE at = BufSize - 1
    <3>1. RingClean(kbd')
      BY <1>7, <1>8, <2>1 DEF RingClean
    <3>2. pc'[Sh] = "kbd_len"
      BY <1>2, <2>1 DEF to
    <3> QED
      BY <3>1, <3>2 DEF Cleared, RingClean
  <2>2. CASE at # BufSize - 1
    <3>1. at' - 1 = at /\ pc'[Sh] = "ring"
      BY <1>2, <1>3, <1>5, <2>2 DEF to
    <3> QED
      BY <1>7, <1>8, <3>1 DEF Cleared
  <2> QED
    BY <2>1, <2>2
<1> QED
  BY <1>6, <1>8 DEF ShellInv

\* The assignments of the reset: nothing goes into the ring or the buffer.
LEMMA ResetsKeep == ASSUME ShellInv, ShellResets  PROVE ShellInv'
<1>1. kbd \in Vars
  BY DEF ShellInv, ShellTypes
<1>2. ASSUME NEW from, NEW to, NEW k, Goes(Sh, from, to), Sets(k), k \in Vars, k.buf = kbd.buf,
             from \in {"kbd_len", "kbd_index", "eof_flag", "p_read", "p_buf", "p_len"},
             to \in {"kbd_index", "eof_flag", "p_read", "p_buf", "p_len", "read"},
             \/ k.got = <<>>
             \/ from \in {"p_buf", "p_len"} /\ k.got = kbd.got
             \/ to \in {"kbd_index", "eof_flag", "p_read"}
      PROVE  ShellInv'
  <2>1. kbd' = k /\ at' = at /\ typed' = typed
    BY <1>2 DEF Sets
  <2>2. /\ pc[Sh] = from /\ pc'[Sh] = to /\ pc'[Root] = "spins"
        /\ pc' = [i \in {Root, Sh} |-> pc'[i]]
    BY <1>2, ShellGoes
  <2>3. ShellTypes'
    BY <1>2, <2>1, <2>2 DEF ShellInv, ShellTypes
  <2>4. ASSUME ~typed  PROVE Cleared'
    <3>1. RingClean(k)
      BY <1>2, <2>2, <2>4 DEF ShellInv, Cleared, RingClean
    <3>2. GotClean(k) \/ to \in {"kbd_index", "eof_flag", "p_read"}
      BY <1>2, <2>2, <2>4, EmptyClean DEF ShellInv, Cleared, GotClean
    <3> QED
      BY <1>2, <2>1, <2>2, <3>1, <3>2 DEF Cleared, RingClean, GotClean
  <2> QED
    BY <2>1, <2>3, <2>4 DEF ShellInv
<1>3. /\ [kbd EXCEPT !.len = 0] \in Vars /\ [kbd EXCEPT !.index = 0] \in Vars
      /\ [kbd EXCEPT !.eof_flag = FALSE] \in Vars /\ [kbd EXCEPT !.got = <<>>] \in Vars
      /\ [kbd EXCEPT !.p_buf = FALSE] \in Vars /\ [kbd EXCEPT !.p_len = 0] \in Vars
  <2>1. <<>> \in Seq(Stored) /\ 0 \in 0 .. BufSize /\ 0 \in 0 .. BufSize - 1
    BY EmptySeq, KeyboardAssumption
  <2> QED
    BY <1>1, <2>1 DEF Vars
<1>4. /\ [kbd EXCEPT !.len = 0].buf = kbd.buf /\ [kbd EXCEPT !.index = 0].buf = kbd.buf
      /\ [kbd EXCEPT !.eof_flag = FALSE].buf = kbd.buf /\ [kbd EXCEPT !.got = <<>>].buf = kbd.buf
      /\ [kbd EXCEPT !.got = <<>>].got = <<>>
      /\ [kbd EXCEPT !.p_buf = FALSE].buf = kbd.buf /\ [kbd EXCEPT !.p_buf = FALSE].got = kbd.got
      /\ [kbd EXCEPT !.p_len = 0].buf = kbd.buf /\ [kbd EXCEPT !.p_len = 0].got = kbd.got
  BY <1>1 DEF Vars
<1>5. CASE Goes(Sh, "kbd_len", "kbd_index") /\ Sets([kbd EXCEPT !.len = 0])
  BY <1>2, <1>3, <1>4, <1>5
<1>6. CASE Goes(Sh, "kbd_index", "eof_flag") /\ Sets([kbd EXCEPT !.index = 0])
  BY <1>2, <1>3, <1>4, <1>6
<1>7. CASE Goes(Sh, "eof_flag", "p_read") /\ Sets([kbd EXCEPT !.eof_flag = FALSE])
  BY <1>2, <1>3, <1>4, <1>7
<1>8. CASE Goes(Sh, "p_read", "p_buf") /\ Sets([kbd EXCEPT !.got = <<>>])
  BY <1>2, <1>3, <1>4, <1>8
<1>9. CASE Goes(Sh, "p_buf", "p_len") /\ Sets([kbd EXCEPT !.p_buf = FALSE])
  BY <1>2, <1>3, <1>4, <1>9
<1>10. CASE Goes(Sh, "p_len", "read") /\ Sets([kbd EXCEPT !.p_len = 0])
  BY <1>2, <1>3, <1>4, <1>10
<1> QED
  BY <1>5, <1>6, <1>7, <1>8, <1>9, <1>10 DEF ShellResets

LEMMA ReadsKeep == ASSUME ShellInv, ShellReads  PROVE ShellInv'
<1> DEFINE k == kbd_read(kbd, TRUE, CommandLen).kbd
<1>1. kbd \in Vars /\ CommandLen \in ReadLens
  BY ShellAssumption DEF ShellInv, ShellTypes
<1>2. kbd' = k /\ at' = at /\ typed' = typed
  BY DEF ShellReads, Reads
<1>3. PICK to \in {"reading", "returned"} : Goes(Sh, "read", to)
  BY DEF ShellReads, Reads
<1>4. /\ pc[Sh] = "read" /\ pc'[Sh] = to /\ pc'[Root] = "spins"
      /\ pc' = [i \in {Root, Sh} |-> pc'[i]]
  BY <1>3, ShellGoes
<1>5. Keeping(kbd, k)
  BY <1>1, ReadKeeps
<1> HIDE DEF k
<1>6. ShellTypes'
  BY <1>2, <1>4, <1>5 DEF ShellInv, ShellTypes, Keeping
<1>7. ASSUME ~typed  PROVE Cleared'
  <2>1. RingClean(k) /\ GotClean(k)
    BY <1>4, <1>5, <1>7 DEF ShellInv, Cleared, Keeping, RingClean
  <2> QED
    BY <1>2, <1>4, <2>1 DEF Cleared, RingClean, GotClean
<1> QED
  BY <1>2, <1>6, <1>7 DEF ShellInv

LEMMA CommandsKeep ==
    ASSUME ShellInv, RunsT \/ RunsA \/ RunsK \/ RunsOther \/ RunsEx
    PROVE  ShellInv'
<1>1. kbd \in Vars
  BY DEF ShellInv, ShellTypes
<1>2. ASSUME NEW from \in {"returned", "handler"},
             NEW to \in {"ring", "waiting", "handler", "stopped"}, Goes(Sh, from, to),
             kbd' \in Vars, at' = at
      PROVE  ShellInv'
  BY <1>2, ShellGoes, NewPlace
<1>3. ASSUME NEW from \in {"returned", "handler"}, pc[Sh] = from, ~pending,
             NEW prog, CreatesNone \/ (\E c \in Children : Creates(c, prog)),
             kbd' = kbd, at' = at
      PROVE  ShellInv'
  <2>1. \E to \in {"ring", "waiting"} : pc' = [pc EXCEPT ![Sh] = to]
    BY <1>3 DEF CreatesNone, Creates, WaitsFor
  <2>2. \E to \in {"ring", "waiting"} : Goes(Sh, from, to)
    BY <1>3, <2>1 DEF Goes
  <2> QED
    BY <1>1, <1>2, <1>3, <2>2
<1>4. CASE RunsT
  BY <1>3, <1>4 DEF RunsT, Runs
<1>5. CASE RunsA
  <2>1. CASE /\ Runs("a") /\ pc' = [pc EXCEPT ![Sh] = "handler"] /\ kbd' = kbd /\ at' = at
    <3>1. Goes(Sh, "returned", "handler")
      BY <2>1 DEF Goes, Runs
    <3> QED
      BY <1>1, <1>2, <2>1, <3>1
  <2>2. CASE /\ pc[Sh] = "handler" /\ ~pending /\ kbd' = kbd /\ at' = at
             /\ CreatesNone \/ \E c \in Children : Creates(c, "a_func")
    BY <1>3, <2>2
  <2> QED
    BY <1>5, <2>1, <2>2 DEF RunsA
<1>6. CASE RunsK
  <2>1. Goes(Sh, "returned", "ring") /\ kbd' = kbd /\ at' = at
    BY <1>6 DEF RunsK
  <2> QED
    BY <1>1, <1>2, <2>1
<1>7. CASE RunsOther
  <2>1. Goes(Sh, "returned", "ring") /\ kbd' = kbd /\ at' = at
    BY <1>7 DEF RunsOther, Sets
  <2> QED
    BY <1>1, <1>2, <2>1
<1>8. CASE RunsEx
  <2>1. Goes(Sh, "returned", "stopped") /\ kbd' = kbd_close(kbd).kbd /\ at' = at
    BY <1>8 DEF RunsEx, Sets
  <2>2. kbd' \in Vars
    BY <1>1, <2>1, CloseIs
  <2> QED
    BY <1>2, <2>1, <2>2
<1> QED
  BY <1>4, <1>5, <1>6, <1>7, <1>8

\* What the children do: the shell goes on from where it is, or from a call that a
\* signal ends, or from its wait to the top of the loop.
LEMMA WokenKeeps ==
    ASSUME ShellInv, kbd' = kbd, at' = at, typed' = typed,
           pc' = [pc EXCEPT ![Sh] = CASE @ = "reading" -> "returned"
                                      [] @ = "waiting" -> "ring" [] OTHER -> @]
    PROVE  ShellInv'
<1>1. kbd \in Vars /\ at \in 0 .. BufSize - 1 /\ pc = [i \in {Root, Sh} |-> pc[i]]
  BY DEF ShellInv, ShellTypes
<1>2. /\ pc' = [i \in {Root, Sh} |-> pc'[i]] /\ pc'[Root] = pc[Root]
      /\ pc'[Sh] = CASE pc[Sh] = "reading" -> "returned"
                     [] pc[Sh] = "waiting" -> "ring" [] OTHER -> pc[Sh]
  <2> DEFINE to == CASE pc[Sh] = "reading" -> "returned"
                     [] pc[Sh] = "waiting" -> "ring" [] OTHER -> pc[Sh]
  <2>1. DOMAIN pc = {Root, Sh} /\ Root # Sh
    BY <1>1 DEF Root, Sh
  <2>2. pc' = [pc EXCEPT ![Sh] = to]
    OBVIOUS
  <2> HIDE DEF to
  <2>3. pc' = [i \in {Root, Sh} |-> pc'[i]] /\ pc'[Root] = pc[Root] /\ pc'[Sh] = to
    BY <2>1, <2>2
  <2> QED
    BY <2>3 DEF to
<1>3. CASE pc[Sh] = "waiting"
  BY <1>1, <1>2, <1>3, NewPlace
<1>4. CASE pc[Sh] = "reading"
  <2>1. pc'[Sh] = "returned"
    BY <1>2, <1>4
  <2>2. ShellTypes'
    BY <1>2, <1>4, <2>1 DEF ShellInv, ShellTypes
  <2>3. ~typed => Cleared'
    BY <1>4, <2>1 DEF ShellInv, Cleared, RingClean, GotClean
  <2> QED
    BY <2>2, <2>3 DEF ShellInv
<1>5. CASE pc[Sh] \notin {"reading", "waiting"}
  <2>1. pc'[Sh] = pc[Sh]
    BY <1>2, <1>5
  <2>2. pc' = pc
    BY <1>1, <1>2, <2>1
  <2> QED
    BY <2>2 DEF ShellInv, ShellTypes, Cleared, RingClean, GotClean
<1> QED
  BY <1>3, <1>4, <1>5

LEMMA SamePlaceKeeps ==
    ASSUME ShellInv, kbd' = kbd, at' = at, typed' = typed, pc' = pc
    PROVE  ShellInv'
BY DEF ShellInv, ShellTypes, Cleared, RingClean, GotClean

LEMMA ChildrenKeep ==
    ASSUME ShellInv, NEW c \in Children, Wakes(c) \/ Alarm(c) \/ Ends(c)
    PROVE  ShellInv'
<1>1. kbd \in Vars /\ pc = [i \in {Root, Sh} |-> pc[i]]
  BY DEF ShellInv, ShellTypes
<1>2. CASE Wakes(c)
  BY <1>2, SamePlaceKeeps DEF Wakes
<1>3. CASE Alarm(c)
  BY <1>3, WokenKeeps DEF Alarm
<1>4. CASE Ends(c)
  <2>1. kbd' = kbd /\ at' = at /\ typed' = typed
    BY <1>4 DEF Ends
  <2>2. CASE pc' = pc
    BY <2>1, <2>2, SamePlaceKeeps
  <2>3. CASE pc[Sh] = "waiting" /\ pc' = [pc EXCEPT ![Sh] = "ring"]
    <3>1. /\ pc' = [i \in {Root, Sh} |-> pc'[i]] /\ pc'[Root] = pc[Root]
          /\ pc'[Sh] = "ring"
      <4>1. DOMAIN pc = {Root, Sh} /\ Root # Sh
        BY <1>1 DEF Root, Sh
      <4> QED
        BY <2>3, <4>1
    <3> QED
      BY <1>1, <2>1, <2>3, <3>1, NewPlace
  <2> QED
    BY <1>4, <2>2, <2>3 DEF Ends
<1> QED
  BY <1>2, <1>3, <1>4

\* A key, wherever the programs are.
LEMMA KeyKeeps == ASSUME ShellInv, NEW c \in Char, Interrupt(c)  PROVE ShellInv'
<1> DEFINE o == kbd_int_read(kbd, c, Blocked)
<1>1. kbd \in Vars /\ pc = [i \in {Root, Sh} |-> pc[i]] /\ Blocked \in BOOLEAN
  BY DEF ShellInv, ShellTypes, Blocked
<1>2. /\ o.kbd \in Vars /\ (o.wakes => Blocked)
      /\ c # Watched => Keeping(kbd, o.kbd)
  BY <1>1, InterruptKeeps DEF Interrupt
<1>3. /\ kbd' = o.kbd /\ at' = at /\ typed' = (typed \/ c = Watched)
      /\ pc' = IF o.wakes THEN [pc EXCEPT ![kbd.proc] = "returned"] ELSE pc
  BY DEF Interrupt
<1> HIDE DEF o
<1>4. /\ pc' = [i \in {Root, Sh} |-> pc'[i]]
      /\ pc[Sh] = "none" => pc'[Sh] = "none"
      /\ pc[Sh] # "none" => pc'[Root] = "spins"
      /\ (pc'[Sh] = pc[Sh] \/ (pc[Sh] = "reading" /\ pc'[Sh] = "returned"))
  <2>1. CASE o.wakes
    <3>1. PICK i \in {Root, Sh} : pc[i] = "reading" /\ kbd.proc = i
      BY <1>2, <2>1 DEF Blocked
    <3>2. pc' = [pc EXCEPT ![i] = "returned"]
      BY <1>3, <2>1, <3>1
    <3>3. pc[Sh] # "none" => pc[Root] = "spins" /\ i = Sh
      BY <3>1 DEF ShellInv, ShellTypes
    <3>4. pc' = [j \in {Root, Sh} |-> pc'[j]]
      BY <1>1, <3>2
    <3>5. /\ i = Sh => pc'[Sh] = "returned" /\ pc'[Root] = pc[Root]
          /\ i = Root => pc'[Sh] = pc[Sh]
      BY <1>1, <3>2 DEF Root, Sh
    <3> QED
      BY <3>1, <3>3, <3>4, <3>5
  <2>2. CASE ~o.wakes
    BY <1>1, <1>3, <2>2 DEF ShellInv, ShellTypes
  <2> QED
    BY <2>1, <2>2
<1>5. ShellTypes'
  BY <1>2, <1>3, <1>4 DEF ShellInv, ShellTypes
<1>6. ASSUME ~typed'  PROVE Cleared'
  <2>1. c # Watched /\ ~typed
    BY <1>3, <1>6
  <2>2. Cleared /\ Keeping(kbd, o.kbd)
    BY <1>2, <2>1 DEF ShellInv
  <2>3. at \in 0 .. BufSize - 1
    BY DEF ShellInv, ShellTypes
  <2>4. RingClean(kbd) => RingClean(kbd')
    BY <1>3, <2>2 DEF Keeping, RingClean
  <2>5. RingClean(kbd) /\ GotClean(kbd) => GotClean(kbd')
    BY <1>3, <2>2 DEF Keeping
  <2>6. pc'[Sh] = "ring" => \A n \in 0 .. at - 1 : kbd'.buf[n] # Watched
    <3> SUFFICES ASSUME pc'[Sh] = "ring", NEW n \in 0 .. at - 1  PROVE kbd'.buf[n] # Watched
      OBVIOUS
    <3>1. kbd.buf[n] # Watched
      BY <1>4, <2>2 DEF Cleared
    <3>2. n \in 0 .. BufSize - 1
      BY <2>3, KeyboardAssumption
    <3> QED
      BY <1>3, <2>2, <3>1, <3>2 DEF Keeping
  <2> QED
    BY <1>3, <1>4, <2>2, <2>4, <2>5, <2>6 DEF Cleared, RingClean, GotClean
<1> QED
  BY <1>5, <1>6 DEF ShellInv

LEMMA ShellStep == ShellInv /\ [Next]_shVars => ShellInv'
<1> SUFFICES ASSUME ShellInv, [Next]_shVars  PROVE ShellInv'
  OBVIOUS
<1>1. CASE RootOpens \/ RootReads \/ RootResets \/ RootCloses
  BY <1>1, RootSteps
<1>2. CASE ShellNext
  BY <1>2, ShellOpensKeeps, RingKeeps, ResetsKeep, ReadsKeep, CommandsKeep DEF ShellNext
<1>3. CASE AlarmHandler
  BY <1>3, SamePlaceKeeps DEF AlarmHandler
<1>4. CASE \E c \in Children : Wakes(c) \/ Alarm(c) \/ Ends(c)
  BY <1>4, ChildrenKeep
<1>5. CASE \E c \in Char : Interrupt(c)
  BY <1>5, KeyKeeps
<1>6. CASE UNCHANGED shVars
  BY <1>6, SamePlaceKeeps DEF shVars
<1> QED
  BY <1>1, <1>2, <1>3, <1>4, <1>5, <1>6 DEF Next

\* NoOldCharacters for every length of the ring and of the reads, every character and any
\* number of children: the keys may fall between any two statements of the reset.
THEOREM CommandsAreNew == ShellSpec => []NoOldCharacters
<1>1. ShellInv => NoOldCharacters
  <2> SUFFICES ASSUME ShellInv, pc[Sh] \in {"reading", "returned"}, ~typed
               PROVE  Watched \notin {kbd.got[n] : n \in DOMAIN kbd.got}
    BY DEF NoOldCharacters
  <2>1. kbd.got \in Seq(Stored) /\ GotClean(kbd)
    BY Fields DEF ShellInv, ShellTypes, Cleared
  <2>2. DOMAIN kbd.got = 1 .. Len(kbd.got)
    BY <2>1
  <2> QED
    BY <2>1, <2>2 DEF GotClean
<1> QED
  BY <1>1, ShellStart, ShellStep, PTL DEF ShellSpec
=============================================================================
