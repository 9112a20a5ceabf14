----------------------------- MODULE KernelProofs ----------------------------
(***************************************************************************)
(* Module Kernel, for any number of processes.                             *)
(*                                                                         *)
(* First the types of the fields, and the signals, whatever signals are    *)
(* sent to whatever processes.  The bodies of the loops of removeWaiting(),*)
(* sleep() and tick() are named here, and a lemma for each loop says that  *)
(* what every turn keeps holds at its end: the other proofs about the      *)
(* kernel cite those.  Signals are sound without a word about the lists,   *)
(* which some of them corrupt.                                             *)
(*                                                                         *)
(* Then the linked lists, as long as only processes in state READY are     *)
(* sent signals (signal() readies a process that is blocked and leaves it  *)
(* on the list it is on: the runs reader_hang and kill_hang show what then *)
(* happens).  The inductive invariant says that the pointers are those of  *)
(* a family of sequences.  A lemma for each routine of the kernel says     *)
(* which family it leaves: Insert, Less and Dropped change one of them.    *)
(***************************************************************************)
EXTENDS Kernel, FiniteSetTheorems, FunctionTheorems, SequenceTheorems, WellFoundedInduction,
        TLAPS

\* A record of the lists; the waiting field is of type W (Ptr, or more in module Devices).
QueueSet(W) == [state : [Slot -> States], next : [Slot -> Ptr], sleepdiff : [Slot -> Int],
                ret : [Slot -> Rets], waiting : [Slot -> W], waitingTail : [Slot -> Ptr],
                head : Ptr, tail : Ptr, sleepQ : Ptr, p : Ptr]

\* The routines on the lists keep the types, whatever the lists hold.
LEMMA ReadyTypes ==
    ASSUME NEW W, NEW q \in QueueSet(W), NEW i \in Slot
    PROVE  ready(q, i) \in QueueSet(W)
  BY DEF ready, QueueSet, Ptr, States

LEMMA HangTypes ==
    ASSUME NEW W, NEW q \in QueueSet(W)
    PROVE  Hang(q) \in QueueSet(W)
  BY DEF Hang, QueueSet, Ptr

LEMMA SwitchTypes ==
    ASSUME NEW W, NEW q \in QueueSet(W)
    PROVE  switch(q) \in QueueSet(W)
  BY DEF switch, Hang, QueueSet, Ptr

LEMMA ReturnTypes ==
    ASSUME NEW W, NEW q \in QueueSet(W), NEW r \in Rets
    PROVE  Return(q, r) \in QueueSet(W)
  BY DEF Return, QueueSet

LEMMA AddTypes ==
    ASSUME NEW q \in QueueSet(Ptr), NEW target \in Slot, NEW i \in Slot
    PROVE  addToWaiting(q, target, i) \in QueueSet(Ptr)
  BY DEF addToWaiting, QueueSet, Ptr

LEMMA InsertTypes ==
    ASSUME NEW W, NEW q \in QueueSet(W), NEW i \in Slot, NEW w \in [tmp : Slot, len : Int]
    PROVE  insertAfter(q, i, w) \in QueueSet(W)
<1> DEFINE s == [q EXCEPT !.next[i] = q.next[w.tmp], !.sleepdiff[i] = w.len,
                       !.next[w.tmp] = i]
           succ == s.next[i]
<1>1. w.tmp \in Slot /\ w.len \in Int
  OBVIOUS
<1>2. q.next[w.tmp] \in Ptr
  BY <1>1 DEF QueueSet
<1>3. s \in QueueSet(W)
  BY <1>1, <1>2 DEF QueueSet, Ptr
<1>4. insertAfter(q, i, w) = IF succ = NULL THEN s
                             ELSE [s EXCEPT !.sleepdiff[succ] = Minus(@, w.len)]
  BY DEF insertAfter
<1> HIDE DEF s
<1>5. succ \in Ptr
  BY <1>3 DEF QueueSet
<1> HIDE DEF succ
<1>6. ASSUME NEW t \in QueueSet(W), succ \in Slot
      PROVE  [t EXCEPT !.sleepdiff[succ] = Minus(@, w.len)] \in QueueSet(W)
  <2>1. Minus(t.sleepdiff[succ], w.len) \in Int
    BY <1>1, <1>6 DEF QueueSet, Minus, LATE
  <2> QED
    BY <2>1 DEF QueueSet
<1> QED
  BY <1>3, <1>4, <1>5, <1>6 DEF Ptr

\* Iteration of a function: what a recursive definition over 0 .. m has to equal.
LEMMA SetInduction ==
    ASSUME NEW S, 0 \in S, \A n \in Nat : n \in S => n + 1 \in S
    PROVE  Nat \subseteq S
<1> DEFINE Out == Nat \ S
           T == {0 .. n : n \in Out}
           R == StrictSubsetOrdering(Nat)
<1> SUFFICES ASSUME Out # {}  PROVE FALSE
  OBVIOUS
<1>1. IsWellFoundedOn(R, FiniteSubsetsOf(Nat))
  BY FS_StrictSubsetOrderingWellFounded
<1>2. T \subseteq FiniteSubsetsOf(Nat) /\ T # {}
  <2>1. Out \subseteq Nat
    OBVIOUS
  <2> HIDE DEF Out
  <2>2. \A n \in Out : 0 .. n \subseteq Nat /\ IsFiniteSet(0 .. n)
    BY <2>1, FS_Interval
  <2> QED
    BY <2>2 DEF FiniteSubsetsOf
<1>3. PICK x \in T : \A y \in T : ~(<<y, x>> \in R)
  <2> HIDE DEF T, R
  <2> QED
    BY <1>1, <1>2, WFMin
<1>4. PICK n \in Out : x = 0 .. n
  OBVIOUS
<1>5. n # 0 /\ n - 1 \in Nat /\ (n - 1) + 1 = n
  BY <1>4
<1>6. n - 1 \in Out
  BY <1>4, <1>5
<1>7. /\ 0 .. n - 1 \in SUBSET Nat /\ 0 .. n \in SUBSET Nat
      /\ 0 .. n - 1 # 0 .. n /\ 0 .. n - 1 \subseteq 0 .. n
  <2>1. n \notin 0 .. n - 1 /\ n \in 0 .. n
    BY <1>4
  <2> QED
    BY <2>1, <1>4, <1>5
<1>8. 0 .. n - 1 \in T
  BY <1>6
<1> HIDE DEF Out, T
<1> QED
  BY <1>3, <1>4, <1>7, <1>8 DEF StrictSubsetOrdering

\* g is the sequence of the first m applications of F to x.
Iterates(F, x, m, g) ==
    g = [n \in 0 .. m |-> IF n = 0 THEN x
                          ELSE CHOOSE s \in {F[before] : before \in {g[n - 1]}} : TRUE]

LEMMA OnlyOne == ASSUME NEW F, NEW b  PROVE (CHOOSE s \in {F[before] : before \in {b}} : TRUE) = F[b]
<1>1. {F[before] : before \in {b}} = {F[b]}
  OBVIOUS
<1> QED
  BY <1>1

LEMMA IteratesExist ==
    ASSUME NEW F, NEW x, NEW m \in Nat
    PROVE  \E g : Iterates(F, x, m, g)
<1> DEFINE S == {i \in Nat : \E g : Iterates(F, x, i, g)}
           Nx(b) == CHOOSE s \in {F[before] : before \in {b}} : TRUE
<1>1. 0 \in S
  <2>1. Iterates(F, x, 0, [n \in 0 .. 0 |-> x])
    BY DEF Iterates
  <2> QED
    BY <2>1
<1>2. ASSUME NEW i \in Nat, i \in S  PROVE i + 1 \in S
  <2>1. PICK g : Iterates(F, x, i, g)
    BY <1>2
  <2> DEFINE h == [n \in 0 .. i + 1 |-> IF n <= i THEN g[n] ELSE Nx(g[i])]
             e(n) == IF n = 0 THEN x ELSE Nx(h[n - 1])
  <2>6. g = [n \in 0 .. i |-> IF n = 0 THEN x ELSE Nx(g[n - 1])]
    BY <2>1 DEF Iterates
  <2> HIDE DEF Nx
  <2>2. ASSUME NEW n \in 0 .. i + 1  PROVE h[n] = e(n)
    <3>1. CASE n = 0
      BY <2>6, <3>1
    <3>2. CASE n \in 1 .. i
      <4>1. h[n] = g[n] /\ h[n - 1] = g[n - 1] /\ n \in 0 .. i /\ n # 0
        BY <3>2
      <4>2. g[n] = Nx(g[n - 1])
        BY <2>6, <4>1
      <4> QED
        BY <4>1, <4>2
    <3>3. CASE n = i + 1
      BY <3>3
    <3> QED
      BY <3>1, <3>2, <3>3
  <2>3. h = [n \in 0 .. i + 1 |-> e(n)]
    BY <2>2
  <2>4. Iterates(F, x, i + 1, h)
    BY <2>3 DEF Iterates, Nx
  <2> QED
    BY <2>4
<1> HIDE DEF S
<1>3. Nat \subseteq S
  BY <1>1, <1>2, SetInduction
<1> QED
  BY <1>3 DEF S

LEMMA StateTypes ==
    ASSUME NEW W, NEW q \in QueueSet(W), NEW i, NEW x \in States
    PROVE  [q EXCEPT !.state[i] = x] \in QueueSet(W)
  BY DEF QueueSet

LEMMA LoopRuns ==
    ASSUME NEW S, NEW F \in [S -> S], NEW x \in S, NEW m \in Nat, NEW g, Iterates(F, x, m, g)
    PROVE  /\ g[0] = x
           /\ \A n \in 1 .. m : g[n] = F[g[n - 1]]
           /\ \A n \in 0 .. m : g[n] \in S
<1> DEFINE Nx(b) == CHOOSE s \in {F[before] : before \in {b}} : TRUE
<1>1. g = [n \in 0 .. m |-> IF n = 0 THEN x ELSE Nx(g[n - 1])]
  BY DEF Iterates
<1>2. \A b : Nx(b) = F[b]
  BY OnlyOne
<1> HIDE DEF Nx
<1>3. g[0] = x
  BY <1>1
<1>4. \A n \in 1 .. m : g[n] = F[g[n - 1]]
  BY <1>1, <1>2
<1> DEFINE T == {n \in Nat : n <= m => g[n] \in S}
<1>5. 0 \in T
  BY <1>3
<1>6. ASSUME NEW n \in Nat, n \in T  PROVE n + 1 \in T
  <2>1. CASE n + 1 <= m
    <3>1. n + 1 \in 1 .. m /\ (n + 1) - 1 = n /\ g[n] \in S
      BY <1>6, <2>1
    <3> QED
      BY <1>4, <3>1
  <2>2. CASE ~(n + 1 <= m)
    BY <2>2
  <2> QED
    BY <2>1, <2>2
<1> HIDE DEF T
<1>7. Nat \subseteq T
  BY <1>5, <1>6, SetInduction
<1> QED
  BY <1>3, <1>4, <1>7 DEF T

\* What is kept by each turn holds at the end.
LEMMA LoopKeeps ==
    ASSUME NEW m \in Nat, NEW g, NEW I, g[0] \in I[0],
           \A n \in 1 .. m : g[n - 1] \in I[n - 1] => g[n] \in I[n]
    PROVE  g[m] \in I[m]
<1> DEFINE T == {n \in Nat : n <= m => g[n] \in I[n]}
<1>1. 0 \in T
  OBVIOUS
<1>2. ASSUME NEW n \in Nat, n \in T  PROVE n + 1 \in T
  <2>1. CASE n + 1 <= m
    <3>1. n + 1 \in 1 .. m /\ (n + 1) - 1 = n /\ g[n] \in I[n]
      BY <1>2, <2>1
    <3> QED
      BY <3>1
  <2>2. CASE ~(n + 1 <= m)
    BY <2>2
  <2> QED
    BY <2>1, <2>2
<1> HIDE DEF T
<1>3. Nat \subseteq T
  BY <1>1, <1>2, SetInduction
<1>4. m \in T
  BY <1>3
<1> QED
  BY <1>4 DEF T

\* The bound of the loops exceeds the number of slots.
LEMMA FuelIsEnough == Fuel \in Nat /\ Fuel > 2 * MaxProc /\ MaxProc \in Nat /\ MaxProc >= 2
  BY KernelAssumption DEF Fuel

\* The turns of the loop of removeWaiting().
CutFirst(s, i) ==
    LET w    == s.waiting[i]
        rest == s.next[w]
    IN  [s EXCEPT !.next[w] = NULL,
                  !.waiting[i] = IF rest = s.waitingTail[i] THEN NULL ELSE rest]
Release(s, i) ==
    LET w == s.waiting[i]
    IN  IF s.state[w] = "WAITING" THEN ready(CutFirst(s, i), w) ELSE CutFirst(s, i)
ReleaseTurn(s, i) == IF s.waiting[i] = NULL THEN s ELSE Release(s, i)
Emptied(s, i) == [s EXCEPT !.waiting[i] = NULL, !.waitingTail[i] = NULL]

LEMMA ReleaseTypes ==
    ASSUME NEW s \in QueueSet(Ptr), NEW i \in Slot
    PROVE  ReleaseTurn(s, i) \in QueueSet(Ptr)
<1> SUFFICES ASSUME s.waiting[i] # NULL  PROVE Release(s, i) \in QueueSet(Ptr)
  BY DEF ReleaseTurn
<1>1. s.waiting[i] \in Slot
  BY DEF QueueSet, Ptr
<1>2. CutFirst(s, i) \in QueueSet(Ptr)
  BY <1>1 DEF CutFirst, QueueSet, Ptr
<1> QED
  BY <1>1, <1>2, ReadyTypes DEF Release

LEMMA RunsExist ==
    ASSUME NEW S, NEW F \in [S -> S], NEW x \in S, NEW m \in Nat
    PROVE  \E g : Iterates(F, x, m, g) /\ \A n \in 0 .. m : g[n] \in S
<1>1. PICK g : Iterates(F, x, m, g)
  BY IteratesExist
<1>2. \A n \in 0 .. m : g[n] \in S
  BY <1>1, LoopRuns
<1> QED
  BY <1>1, <1>2

LEMMA RemoveLoop ==
    ASSUME NEW q \in QueueSet(Ptr), NEW i \in Slot,
           NEW I, q \in I[0],
           \A n \in 0 .. Fuel - 1 : \A s \in I[n] \cap QueueSet(Ptr) : ReleaseTurn(s, i) \in I[n + 1]
    PROVE  \E s \in I[Fuel] \cap QueueSet(Ptr) : removeWaiting(q, i) = Emptied(s, i)
<1> DEFINE F == [s \in QueueSet(Ptr) |-> ReleaseTurn(s, i)]
           Body(h) == [n \in 0 .. Fuel |-> IF n = 0 THEN q ELSE
                         CHOOSE s \in {ReleaseTurn(before, i) : before \in {h[n - 1]}} : TRUE]
           g == CHOOSE h : h = Body(h)
<1>1. removeWaiting(q, i) = Emptied(g[Fuel], i)
  BY DEF removeWaiting, Loop, Emptied, ReleaseTurn, Release, CutFirst
<1>2. Fuel \in Nat /\ q \in QueueSet(Ptr) /\ \A s \in QueueSet(Ptr) : ReleaseTurn(s, i) \in QueueSet(Ptr)
  BY ReleaseTypes, FuelIsEnough
<1>3. PICK h : Iterates(F, q, Fuel, h) /\ \A n \in 0 .. Fuel : h[n] \in QueueSet(Ptr)
  <2>1. F \in [QueueSet(Ptr) -> QueueSet(Ptr)]
    BY <1>2
  <2> HIDE DEF F
  <2> QED
    BY <1>2, <2>1, RunsExist
<1>4. h = Body(h)
  <2>1. \A n \in 0 .. Fuel : n # 0 => n - 1 \in 0 .. Fuel
    BY <1>2
  <2>2. \A b \in QueueSet(Ptr) :
           {F[before] : before \in {b}} = {ReleaseTurn(before, i) : before \in {b}}
    <3>1. \A b \in QueueSet(Ptr) : F[b] = ReleaseTurn(b, i)
      OBVIOUS
    <3> HIDE DEF F
    <3> QED
      BY <3>1
  <2> HIDE DEF F
  <2> QED
    BY <1>3, <2>1, <2>2 DEF Iterates
<1>5. g = Body(g)
  <2> HIDE DEF Body
  <2> QED
    BY <1>4
<1> HIDE DEF g
<1>6. g[0] = q /\ \A n \in 1 .. Fuel : g[n] = ReleaseTurn(g[n - 1], i)
  <2>1. \A b : (CHOOSE s \in {ReleaseTurn(before, i) : before \in {b}} : TRUE) = ReleaseTurn(b, i)
    <3>1. \A b : {ReleaseTurn(before, i) : before \in {b}} = {ReleaseTurn(b, i)}
      OBVIOUS
    <3> QED
      BY <3>1
  <2> QED
    BY <1>2, <1>5, <2>1
<1>7. g[Fuel] \in I[Fuel] \cap QueueSet(Ptr)
  <2> DEFINE J == [n \in 0 .. Fuel |-> I[n] \cap QueueSet(Ptr)]
  <2>1. ASSUME NEW n \in 1 .. Fuel, g[n - 1] \in J[n - 1]  PROVE g[n] \in J[n]
    <3>1. n - 1 \in 0 .. Fuel - 1 /\ (n - 1) + 1 = n /\ n \in 0 .. Fuel /\ n - 1 \in 0 .. Fuel
      BY <1>2
    <3>2. g[n - 1] \in I[n - 1] \cap QueueSet(Ptr)
      BY <2>1, <3>1
    <3>3. g[n] = ReleaseTurn(g[n - 1], i)
      BY <1>6
    <3>4. g[n] \in I[n] \cap QueueSet(Ptr)
      BY <1>2, <3>1, <3>2, <3>3
    <3> QED
      BY <3>1, <3>4
  <2>2. g[0] \in J[0]
    BY <1>2, <1>6
  <2>3. g[Fuel] \in J[Fuel]
    <3> HIDE DEF J
    <3> QED
      BY <1>2, <2>1, <2>2, LoopKeeps
  <2> QED
    BY <1>2, <2>3
<1> QED
  BY <1>1, <1>7

\* The turns of the loop of sleep().
Spots == [tmp : Slot, len : Int]
Spot(w, l) == [tmp |-> w, len |-> l]
Placed(q, w) ==
    LET succ == q.next[w.tmp] IN succ = NULL \/ Above(q.sleepdiff[succ], w.len)
PlaceTurn(q, w) ==
    LET succ == q.next[w.tmp]
    IN  IF Placed(q, w) THEN w ELSE Spot(succ, w.len - q.sleepdiff[succ])
FirstSpot(q, len) == Spot(q.sleepQ, len - q.sleepdiff[q.sleepQ])
Found(q, w) == [w EXCEPT !.tmp = IF Placed(q, w) THEN @ ELSE NULL]

LEMMA PlaceTypes ==
    ASSUME NEW W, NEW q \in QueueSet(W), NEW w \in Spots
    PROVE  PlaceTurn(q, w) \in Spots
<1> SUFFICES ASSUME ~Placed(q, w)
             PROVE  Spot(q.next[w.tmp], w.len - q.sleepdiff[q.next[w.tmp]]) \in Spots
  BY DEF PlaceTurn
<1>1. w.tmp \in Slot /\ w.len \in Int
  BY DEF Spots
<1>2. q.next[w.tmp] \in Slot
  BY <1>1 DEF QueueSet, Ptr, Placed
<1>3. q.sleepdiff[q.next[w.tmp]] \in Int
  BY <1>2 DEF QueueSet
<1> QED
  BY <1>1, <1>2, <1>3 DEF Spot, Spots

LEMMA FirstSpotTypes ==
    ASSUME NEW W, NEW q \in QueueSet(W), q.sleepQ \in Slot, NEW len \in Int
    PROVE  FirstSpot(q, len) \in Spots
<1>1. q.sleepdiff[q.sleepQ] \in Int
  BY DEF QueueSet
<1> QED
  BY <1>1 DEF FirstSpot, Spot, Spots

LEMMA PlaceLoop ==
    ASSUME NEW W, NEW q \in QueueSet(W), q.sleepQ \in Slot, NEW len \in Int,
           NEW I, FirstSpot(q, len) \in I[0],
           \A n \in 0 .. Fuel - 1 : \A s \in I[n] \cap Spots : PlaceTurn(q, s) \in I[n + 1]
    PROVE  \E s \in I[Fuel] \cap Spots : place(q, len) = Found(q, s)
<1> DEFINE F == [s \in Spots |-> PlaceTurn(q, s)]
           Body(h) == [n \in 0 .. Fuel |-> IF n = 0 THEN FirstSpot(q, len) ELSE
                         CHOOSE s \in {PlaceTurn(q, before) : before \in {h[n - 1]}} : TRUE]
           g == CHOOSE h : h = Body(h)
<1>1. place(q, len) = Found(q, g[Fuel])
  BY DEF place, Loop, Found, PlaceTurn, Placed, FirstSpot, Spot
<1>2. Fuel \in Nat /\ FirstSpot(q, len) \in Spots /\ \A s \in Spots : PlaceTurn(q, s) \in Spots
  BY PlaceTypes, FirstSpotTypes, FuelIsEnough
<1>3. PICK h : Iterates(F, FirstSpot(q, len), Fuel, h) /\ \A n \in 0 .. Fuel : h[n] \in Spots
  <2>1. F \in [Spots -> Spots]
    BY <1>2
  <2> HIDE DEF F
  <2> QED
    BY <1>2, <2>1, RunsExist
<1>4. h = Body(h)
  <2>1. \A n \in 0 .. Fuel : n # 0 => n - 1 \in 0 .. Fuel
    BY <1>2
  <2>2. \A b \in Spots :
           {F[before] : before \in {b}} = {PlaceTurn(q, before) : before \in {b}}
    <3>1. \A b \in Spots : F[b] = PlaceTurn(q, b)
      OBVIOUS
    <3> HIDE DEF F
    <3> QED
      BY <3>1
  <2> HIDE DEF F
  <2> QED
    BY <1>3, <2>1, <2>2 DEF Iterates
<1>5. g = Body(g)
  <2> HIDE DEF Body
  <2> QED
    BY <1>4
<1> HIDE DEF g
<1>6. g[0] = FirstSpot(q, len) /\ \A n \in 1 .. Fuel : g[n] = PlaceTurn(q, g[n - 1])
  <2>1. \A b : (CHOOSE s \in {PlaceTurn(q, before) : before \in {b}} : TRUE) = PlaceTurn(q, b)
    <3>1. \A b : {PlaceTurn(q, before) : before \in {b}} = {PlaceTurn(q, b)}
      OBVIOUS
    <3> QED
      BY <3>1
  <2> QED
    BY <1>2, <1>5, <2>1
<1>7. g[Fuel] \in I[Fuel] \cap Spots
  <2> DEFINE J == [n \in 0 .. Fuel |-> I[n] \cap Spots]
  <2>1. ASSUME NEW n \in 1 .. Fuel, g[n - 1] \in J[n - 1]  PROVE g[n] \in J[n]
    <3>1. n - 1 \in 0 .. Fuel - 1 /\ (n - 1) + 1 = n /\ n \in 0 .. Fuel /\ n - 1 \in 0 .. Fuel
      BY <1>2
    <3>2. g[n - 1] \in I[n - 1] \cap Spots
      BY <2>1, <3>1
    <3>3. g[n] = PlaceTurn(q, g[n - 1])
      BY <1>6
    <3>4. g[n] \in I[n] \cap Spots
      BY <1>2, <3>1, <3>2, <3>3
    <3> QED
      BY <3>1, <3>4
  <2>2. g[0] \in J[0]
    BY <1>2, <1>6
  <2>3. g[Fuel] \in J[Fuel]
    <3> HIDE DEF J
    <3> QED
      BY <1>2, <2>1, <2>2, LoopKeeps
  <2> QED
    BY <1>2, <2>3
<1> QED
  BY <1>1, <1>7

\* The turns of the loop of tick().
Ticked(q) == [q EXCEPT !.sleepdiff[q.sleepQ] = IF @ < 0 THEN LATE ELSE @ - 1]
NoneDue(s) == s.sleepQ = NULL \/ s.sleepdiff[s.sleepQ] # 0
Unslept(s) ==
    LET due == s.sleepQ IN [s EXCEPT !.sleepQ = s.next[due], !.ret[due] = "result"]
Wake(s) == ready(Unslept(s), s.sleepQ)
WakeTurn(s) == IF NoneDue(s) THEN s ELSE Wake(s)

LEMMA WakeTypes ==
    ASSUME NEW W, NEW s \in QueueSet(W)
    PROVE  WakeTurn(s) \in QueueSet(W)
<1> SUFFICES ASSUME s.sleepQ # NULL  PROVE Wake(s) \in QueueSet(W)
  BY DEF WakeTurn, NoneDue
<1>1. s.sleepQ \in Slot
  BY DEF QueueSet, Ptr
<1>2. Unslept(s) \in QueueSet(W)
  BY <1>1 DEF Unslept, QueueSet, Rets
<1> QED
  BY <1>1, <1>2, ReadyTypes DEF Wake

LEMMA TickedTypes ==
    ASSUME NEW W, NEW q \in QueueSet(W), q.sleepQ \in Slot
    PROVE  Ticked(q) \in QueueSet(W)
<1>1. q.sleepdiff[q.sleepQ] \in Int
  BY DEF QueueSet
<1> QED
  BY <1>1 DEF Ticked, LATE, QueueSet

LEMMA TickLoop ==
    ASSUME NEW W, NEW q \in QueueSet(W), q.sleepQ \in Slot, NULL \notin Slot,
           NEW I, Ticked(q) \in I[0],
           \A n \in 0 .. Fuel - 1 : \A s \in I[n] \cap QueueSet(W) : WakeTurn(s) \in I[n + 1]
    PROVE  \E s \in I[Fuel] \cap QueueSet(W) : tick(q) = IF NoneDue(s) THEN s ELSE Hang(s)
<1> DEFINE F == [s \in QueueSet(W) |-> WakeTurn(s)]
           Body(h) == [n \in 0 .. Fuel |-> IF n = 0 THEN Ticked(q) ELSE
                         CHOOSE s \in {WakeTurn(before) : before \in {h[n - 1]}} : TRUE]
           g == CHOOSE h : h = Body(h)
<1>1. tick(q) = IF NoneDue(g[Fuel]) THEN g[Fuel] ELSE Hang(g[Fuel])
  BY DEF tick, Loop, WakeTurn, NoneDue, Wake, Unslept, Ticked
<1>2. Fuel \in Nat /\ Ticked(q) \in QueueSet(W) /\ \A s \in QueueSet(W) : WakeTurn(s) \in QueueSet(W)
  BY WakeTypes, TickedTypes, FuelIsEnough
<1>3. PICK h : Iterates(F, Ticked(q), Fuel, h) /\ \A n \in 0 .. Fuel : h[n] \in QueueSet(W)
  <2>1. F \in [QueueSet(W) -> QueueSet(W)]
    BY <1>2
  <2> HIDE DEF F
  <2> QED
    BY <1>2, <2>1, RunsExist
<1>4. h = Body(h)
  <2>1. \A n \in 0 .. Fuel : n # 0 => n - 1 \in 0 .. Fuel
    BY <1>2
  <2>2. \A b \in QueueSet(W) :
           {F[before] : before \in {b}} = {WakeTurn(before) : before \in {b}}
    <3>1. \A b \in QueueSet(W) : F[b] = WakeTurn(b)
      OBVIOUS
    <3> HIDE DEF F
    <3> QED
      BY <3>1
  <2> HIDE DEF F
  <2> QED
    BY <1>3, <2>1, <2>2 DEF Iterates
<1>5. g = Body(g)
  <2> HIDE DEF Body
  <2> QED
    BY <1>4
<1> HIDE DEF g
<1>6. g[0] = Ticked(q) /\ \A n \in 1 .. Fuel : g[n] = WakeTurn(g[n - 1])
  <2>1. \A b : (CHOOSE s \in {WakeTurn(before) : before \in {b}} : TRUE) = WakeTurn(b)
    <3>1. \A b : {WakeTurn(before) : before \in {b}} = {WakeTurn(b)}
      OBVIOUS
    <3> QED
      BY <3>1
  <2> QED
    BY <1>2, <1>5, <2>1
<1>7. g[Fuel] \in I[Fuel] \cap QueueSet(W)
  <2> DEFINE J == [n \in 0 .. Fuel |-> I[n] \cap QueueSet(W)]
  <2>1. ASSUME NEW n \in 1 .. Fuel, g[n - 1] \in J[n - 1]  PROVE g[n] \in J[n]
    <3>1. n - 1 \in 0 .. Fuel - 1 /\ (n - 1) + 1 = n /\ n \in 0 .. Fuel /\ n - 1 \in 0 .. Fuel
      BY <1>2
    <3>2. g[n - 1] \in I[n - 1] \cap QueueSet(W)
      BY <2>1, <3>1
    <3>3. g[n] = WakeTurn(g[n - 1])
      BY <1>6
    <3>4. g[n] \in I[n] \cap QueueSet(W)
      BY <1>2, <3>1, <3>2, <3>3
    <3> QED
      BY <3>1, <3>4
  <2>2. g[0] \in J[0]
    BY <1>2, <1>6
  <2>3. g[Fuel] \in J[Fuel]
    <3> HIDE DEF J
    <3> QED
      BY <1>2, <2>1, <2>2, LoopKeeps
  <2> QED
    BY <1>2, <2>3
<1> QED
  BY <1>1, <1>7

\* So the routines with a loop keep the types too.
LEMMA RemoveTypes ==
    ASSUME NEW q \in QueueSet(Ptr), NEW i \in Slot
    PROVE  removeWaiting(q, i) \in QueueSet(Ptr)
<1> DEFINE I == [n \in 0 .. Fuel |-> QueueSet(Ptr)]
<1>1. Fuel \in Nat
  BY FuelIsEnough
<1>2. q \in I[0]
  BY <1>1
<1>3. ASSUME NEW n \in 0 .. Fuel - 1, NEW s \in I[n] \cap QueueSet(Ptr)
      PROVE  ReleaseTurn(s, i) \in I[n + 1]
  BY <1>1, ReleaseTypes
<1>4. PICK s \in QueueSet(Ptr) : removeWaiting(q, i) = Emptied(s, i)
  <2> HIDE DEF I
  <2> QED
    BY <1>2, <1>3, RemoveLoop
<1>5. Emptied(s, i) \in QueueSet(Ptr)
  BY DEF Emptied, QueueSet, Ptr
<1> QED
  BY <1>4, <1>5

LEMMA TickTypes ==
    ASSUME NEW W, NEW q \in QueueSet(W), NULL \notin Slot
    PROVE  tick(q) \in QueueSet(W)
<1>1. CASE q.sleepQ = NULL
  <2>1. tick(q) = q
    BY <1>1 DEF tick
  <2> QED
    BY <2>1
<1>2. CASE q.sleepQ # NULL
  <2> DEFINE I == [n \in 0 .. Fuel |-> QueueSet(W)]
  <2>1. Fuel \in Nat /\ q.sleepQ \in Slot
    BY <1>2, FuelIsEnough DEF QueueSet, Ptr
  <2>2. Ticked(q) \in I[0]
    BY <2>1, TickedTypes
  <2>3. ASSUME NEW n \in 0 .. Fuel - 1, NEW s \in I[n] \cap QueueSet(W)
        PROVE  WakeTurn(s) \in I[n + 1]
    BY <2>1, WakeTypes
  <2>4. PICK s \in QueueSet(W) : tick(q) = IF NoneDue(s) THEN s ELSE Hang(s)
    <3> HIDE DEF I
    <3> QED
      BY <2>1, <2>2, <2>3, TickLoop
  <2> QED
    BY <2>4, HangTypes
<1> QED
  BY <1>1, <1>2

\* The statements of sleep() before and at a place in the list.
Slept(q, i) == [q EXCEPT !.state[i] = "SLEEP", !.next[i] = NULL]
OnlySleeper(s, i, len) == [s EXCEPT !.sleepQ = i, !.sleepdiff[i] = len]
FirstSleeper(s, i, len) ==
    [s EXCEPT !.next[i] = s.sleepQ, !.sleepQ = i,
              !.sleepdiff = [s.sleepdiff EXCEPT ![s.sleepQ] = Minus(@, len), ![i] = len]]

LEMMA SleepCases ==
    ASSUME NEW q, NEW i, NEW ms
    PROVE  LET len == ms \div MILLISECONDS_TICK
               s == Slept(q, i)
               w == place(s, len)
           IN  sleep(q, i, ms) =
                 IF ms < 1 THEN ready(q, i)
                 ELSE IF s.sleepQ = NULL THEN OnlySleeper(s, i, len)
                 ELSE IF Above(s.sleepdiff[s.sleepQ], len) THEN FirstSleeper(s, i, len)
                 ELSE IF w.tmp = NULL THEN Hang(s)
                 ELSE insertAfter(s, i, w)
  BY DEF sleep, Slept, OnlySleeper, FirstSleeper

LEMMA SleptTypes ==
    ASSUME NEW W, NEW q \in QueueSet(W), NEW i \in Slot
    PROVE  Slept(q, i) \in QueueSet(W)
  BY DEF Slept, QueueSet, Ptr, States

LEMMA OnlyTypes ==
    ASSUME NEW W, NEW q \in QueueSet(W), NEW i \in Slot, NEW len \in Int
    PROVE  OnlySleeper(q, i, len) \in QueueSet(W)
  BY DEF OnlySleeper, QueueSet, Ptr

LEMMA FirstTypes ==
    ASSUME NEW W, NEW q \in QueueSet(W), NEW i \in Slot, NEW len \in Int, q.sleepQ \in Slot
    PROVE  FirstSleeper(q, i, len) \in QueueSet(W)
<1> DEFINE d == [q.sleepdiff EXCEPT ![q.sleepQ] = Minus(@, len), ![i] = len]
<1>1. d \in [Slot -> Int]
  <2>1. Minus(q.sleepdiff[q.sleepQ], len) \in Int
    BY DEF QueueSet, Minus, LATE
  <2> QED
    BY <2>1 DEF QueueSet
<1>2. FirstSleeper(q, i, len) = [q EXCEPT !.next[i] = q.sleepQ, !.sleepQ = i, !.sleepdiff = d]
  BY DEF FirstSleeper
<1> HIDE DEF d
<1>3. [q EXCEPT !.next[i] = q.sleepQ, !.sleepQ = i, !.sleepdiff = d] \in QueueSet(W)
  BY <1>1 DEF QueueSet, Ptr
<1> QED
  BY <1>2, <1>3

LEMMA TicksAre ==
    ASSUME NEW ms \in Nat
    PROVE  ms \div MILLISECONDS_TICK \in Nat
  BY DEF MILLISECONDS_TICK

LEMMA PlaceFinds ==
    ASSUME NEW W, NEW q \in QueueSet(W), q.sleepQ \in Slot, NEW len \in Int
    PROVE  /\ place(q, len).len \in Int
           /\ place(q, len).tmp \in Slot \cup {NULL}
           /\ place(q, len).tmp \in Slot => place(q, len) \in Spots
<1> DEFINE I == [n \in 0 .. Fuel |-> Spots]
<1>1. Fuel \in Nat
  BY FuelIsEnough
<1>2. FirstSpot(q, len) \in I[0]
  BY <1>1, FirstSpotTypes
<1>3. ASSUME NEW n \in 0 .. Fuel - 1, NEW w \in I[n] \cap Spots
      PROVE  PlaceTurn(q, w) \in I[n + 1]
  BY <1>1, PlaceTypes
<1>4. PICK w \in Spots : place(q, len) = Found(q, w)
  <2> HIDE DEF I
  <2> QED
    BY <1>2, <1>3, PlaceLoop
<1>5. Found(q, w) = [w EXCEPT !.tmp = IF Placed(q, w) THEN w.tmp ELSE NULL]
  BY DEF Found
<1> QED
  BY <1>4, <1>5 DEF Spots

LEMMA SleepTypes ==
    ASSUME NEW W, NEW q \in QueueSet(W), NEW i \in Slot, NEW ms \in Nat
    PROVE  sleep(q, i, ms) \in QueueSet(W)
<1> DEFINE len == ms \div MILLISECONDS_TICK
           s == Slept(q, i)
           w == place(s, len)
<1>1. len \in Int /\ s \in QueueSet(W)
  BY SleptTypes, TicksAre
<1>2. sleep(q, i, ms) =
                 IF ms < 1 THEN ready(q, i)
                 ELSE IF s.sleepQ = NULL THEN OnlySleeper(s, i, len)
                 ELSE IF Above(s.sleepdiff[s.sleepQ], len) THEN FirstSleeper(s, i, len)
                 ELSE IF w.tmp = NULL THEN Hang(s)
                 ELSE insertAfter(s, i, w)
  BY SleepCases
<1> HIDE DEF len, s
<1>3. s.sleepQ = NULL \/ s.sleepQ \in Slot
  BY <1>1 DEF QueueSet, Ptr
<1>4. s.sleepQ \in Slot /\ w.tmp # NULL => w \in [tmp : Slot, len : Int]
  BY <1>1, PlaceFinds DEF Spots
<1> HIDE DEF w
<1>5. ready(q, i) \in QueueSet(W) /\ OnlySleeper(s, i, len) \in QueueSet(W) /\ Hang(s) \in QueueSet(W)
  BY <1>1, ReadyTypes, OnlyTypes, HangTypes
<1>6. s.sleepQ \in Slot => FirstSleeper(s, i, len) \in QueueSet(W)
  BY <1>1, FirstTypes
<1>7. s.sleepQ \in Slot /\ w.tmp # NULL => insertAfter(s, i, w) \in QueueSet(W)
  BY <1>1, <1>4, InsertTypes
<1> QED
  BY <1>2, <1>3, <1>5, <1>6, <1>7

LEMMA NullIsNoSlot == NULL \notin Slot /\ WILD \notin Slot /\ NULL # WILD
  BY KernelAssumption DEF Slot

LEMMA HighestIs ==
    ASSUME NEW S \in SUBSET Sig, S # {}
    PROVE  get_highest(S) \in S /\ \A m \in S : m <= get_highest(S)
<1> DEFINE T == {n \in Nat : \A R \in SUBSET (0 .. n) :
                     R # {} => \E h \in R : \A m \in R : m <= h}
<1>1. 0 \in T
  <2>1. ASSUME NEW R \in SUBSET (0 .. 0), R # {}  PROVE \E h \in R : \A m \in R : m <= h
    <3>1. PICK h \in R : TRUE
      BY <2>1
    <3>2. \A m \in R : m = 0
      OBVIOUS
    <3>3. 0 \in R /\ \A m \in R : m <= 0
      BY <3>1, <3>2
    <3> QED
      BY <3>3
  <2> QED
    BY <2>1
<1>2. ASSUME NEW n \in Nat, n \in T  PROVE n + 1 \in T
  <2>1. ASSUME NEW R \in SUBSET (0 .. n + 1), R # {}  PROVE \E h \in R : \A m \in R : m <= h
    <3>1. CASE n + 1 \in R
      <4>1. \A m \in R : m <= n + 1
        OBVIOUS
      <4> QED
        BY <3>1, <4>1
    <3>2. CASE n + 1 \notin R
      <4>1. R \in SUBSET (0 .. n)
        BY <3>2
      <4> QED
        BY <1>2, <2>1, <4>1
    <3> QED
      BY <3>1, <3>2
  <2> QED
    BY <2>1
<1> HIDE DEF T
<1>3. 31 \in T
  BY <1>1, <1>2, SetInduction
<1>4. S \in SUBSET (0 .. 31)
  BY KernelAssumption
<1>5. \E h \in S : \A m \in S : m <= h
  BY <1>3, <1>4 DEF T
<1> QED
  BY <1>5 DEF get_highest

\* The signal fields, and the room that is left for frames.
SignalSet == [table : [Slot -> [Sig -> Handlers]], handled : [Slot -> SUBSET Sig],
              incoming : [Slot -> SUBSET Sig], frames : [Slot -> Seq(Frames)]]
Room(s) == \A i \in Slot : Len(s.frames[i]) + Cardinality(s.incoming[i]) <= MaxNest

LEMMA SignalsAreFinite ==
    ASSUME NEW S \in SUBSET Sig
    PROVE  IsFiniteSet(S) /\ Cardinality(S) \in Nat
<1>1. IsFiniteSet(0 .. 31)
  <2>1. 0 \in Int /\ 31 \in Int
    OBVIOUS
  <2> QED
    BY <2>1, FS_Interval
<1>2. S \in SUBSET (0 .. 31)
  BY KernelAssumption
<1>3. IsFiniteSet(S)
  BY <1>1, <1>2, FS_Subset
<1> QED
  BY <1>3, FS_CardinalityType

\* A delivery turns a pending signal into a frame.
LEMMA DeliverTypes ==
    ASSUME NEW s \in SignalSet, Room(s), NEW i \in Slot, NEW old \in Rets
    PROVE  deliver_signal(s, i, old) \in SignalSet /\ Room(deliver_signal(s, i, old))
<1>1. CASE s.incoming[i] = {}
  BY <1>1 DEF deliver_signal
<1>2. CASE s.incoming[i] # {}
  <2> DEFINE n == get_highest(s.incoming[i])
             frame == [sig |-> n, handler |-> s.table[i][n], old_return |-> old]
             inc == [s.incoming EXCEPT ![i] = @ \ {n}]
             han == [s.handled EXCEPT ![i] = IF n = 15 THEN @ \ {15} ELSE @]
             fra == [s.frames EXCEPT ![i] = Append(@, frame)]
             d == deliver_signal(s, i, old)
  <2>1. d = [table |-> s.table, handled |-> han, incoming |-> inc, frames |-> fra]
    BY <1>2 DEF deliver_signal
  <2>2. /\ s.table \in [Slot -> [Sig -> Handlers]] /\ s.handled \in [Slot -> SUBSET Sig]
        /\ s.incoming \in [Slot -> SUBSET Sig] /\ s.frames \in [Slot -> Seq(Frames)]
    BY DEF SignalSet
  <2>3. n \in s.incoming[i] /\ n \in Sig
    BY <1>2, <2>2, HighestIs
  <2> HIDE DEF n
  <2>4. frame \in Frames
    BY <2>2, <2>3 DEF Frames
  <2> HIDE DEF frame
  <2>5. inc \in [Slot -> SUBSET Sig] /\ han \in [Slot -> SUBSET Sig] /\ fra \in [Slot -> Seq(Frames)]
    BY <2>2, <2>4
  <2>6. inc[i] = s.incoming[i] \ {n} /\ fra[i] = Append(s.frames[i], frame)
    BY <2>2
  <2>7. \A j \in Slot \ {i} : inc[j] = s.incoming[j] /\ fra[j] = s.frames[j]
    BY <2>2
  <2>8. Cardinality(inc[i]) = Cardinality(s.incoming[i]) - 1
    <3>1. IsFiniteSet(s.incoming[i])
      BY <2>2, SignalsAreFinite
    <3>2. Cardinality(s.incoming[i] \ {n}) = Cardinality(s.incoming[i]) - 1
      BY <2>3, <3>1, FS_RemoveElement
    <3> QED
      BY <2>6, <3>2
  <2>9. Len(fra[i]) = Len(s.frames[i]) + 1
    <3>1. s.frames[i] \in Seq(Frames)
      BY <2>2
    <3>2. Len(Append(s.frames[i], frame)) = Len(s.frames[i]) + 1
      BY <2>4, <3>1, AppendProperties
    <3> QED
      BY <2>6, <3>2
  <2>10. Len(s.frames[i]) \in Nat /\ Cardinality(s.incoming[i]) \in Nat
    BY <2>2, SignalsAreFinite
  <2> HIDE DEF d, inc, han, fra
  <2>11. d \in SignalSet
    BY <2>1, <2>2, <2>5 DEF SignalSet
  <2>12. Len(fra[i]) + Cardinality(inc[i]) = Len(s.frames[i]) + Cardinality(s.incoming[i])
    <3> DEFINE a == Len(s.frames[i])
               b == Cardinality(s.incoming[i])
    <3>1. /\ a \in Nat /\ b \in Nat
          /\ Len(fra[i]) = a + 1 /\ Cardinality(inc[i]) = b - 1
      BY <2>8, <2>9, <2>10
    <3> HIDE DEF a, b
    <3>2. (a + 1) + (b - 1) = a + b
      BY <3>1
    <3>3. Len(fra[i]) + Cardinality(inc[i]) = a + b
      BY <3>1, <3>2
    <3> QED
      BY <3>3 DEF a, b
  <2>13. Room(d)
    BY <2>1, <2>7, <2>12 DEF Room
  <2> QED
    BY <2>11, <2>13 DEF d
<1> QED
  BY <1>1, <1>2

LEMMA MarkTypes ==
    ASSUME NEW s \in SignalSet, Room(s), NEW i \in Slot, NEW n \in Sig,
           Cardinality(s.incoming[i]) + Len(s.frames[i]) < MaxNest
    PROVE  mark(s, i, n) \in SignalSet /\ Room(mark(s, i, n))
<1>1. CASE n \notin s.handled[i]
  BY <1>1 DEF mark
<1>2. CASE n \in s.handled[i]
  <2> DEFINE inc == [s.incoming EXCEPT ![i] = @ \cup {n}]
             m == mark(s, i, n)
  <2>1. m = [table |-> s.table, handled |-> s.handled, incoming |-> inc, frames |-> s.frames]
    BY <1>2 DEF mark
  <2>2. /\ s.table \in [Slot -> [Sig -> Handlers]] /\ s.handled \in [Slot -> SUBSET Sig]
        /\ s.incoming \in [Slot -> SUBSET Sig] /\ s.frames \in [Slot -> Seq(Frames)]
    BY DEF SignalSet
  <2>3. inc \in [Slot -> SUBSET Sig] /\ inc[i] = s.incoming[i] \cup {n}
        /\ \A j \in Slot \ {i} : inc[j] = s.incoming[j]
    BY <2>2
  <2>4. Cardinality(inc[i]) <= Cardinality(s.incoming[i]) + 1 /\ Cardinality(inc[i]) \in Nat
    <3>1. IsFiniteSet(s.incoming[i]) /\ Cardinality(s.incoming[i]) \in Nat
      BY <2>2, SignalsAreFinite
    <3>2. Cardinality(s.incoming[i] \cup {n}) = IF n \in s.incoming[i]
             THEN Cardinality(s.incoming[i]) ELSE Cardinality(s.incoming[i]) + 1
      BY <3>1, FS_AddElement
    <3> QED
      BY <2>3, <3>1, <3>2
  <2>5. Len(s.frames[i]) \in Nat /\ Cardinality(s.incoming[i]) \in Nat /\ MaxNest \in Nat
    BY <2>2, SignalsAreFinite, KernelAssumption
  <2> HIDE DEF m, inc
  <2>6. Len(s.frames[i]) + Cardinality(inc[i]) <= MaxNest
    BY <2>4, <2>5
  <2>7. m \in SignalSet
    BY <2>1, <2>2, <2>3 DEF SignalSet
  <2>8. Room(m)
    BY <2>1, <2>3, <2>6 DEF Room
  <2> QED
    BY <2>7, <2>8 DEF m
<1> QED
  BY <1>1, <1>2

LEMMA RegisterTypes ==
    ASSUME NEW s \in SignalSet, Room(s), NEW i \in Slot, NEW n \in Sig, NEW h \in Handlers
    PROVE  register(s, i, n, h) \in SignalSet /\ Room(register(s, i, n, h))
<1> DEFINE r == register(s, i, n, h)
           tab == [s.table EXCEPT ![i] = [@ EXCEPT ![n] = h]]
           han == [s.handled EXCEPT ![i] = @ \cup {n}]
<1>1. r = [table |-> tab, handled |-> han, incoming |-> s.incoming, frames |-> s.frames]
  BY DEF register
<1>2. /\ s.table \in [Slot -> [Sig -> Handlers]] /\ s.handled \in [Slot -> SUBSET Sig]
      /\ s.incoming \in [Slot -> SUBSET Sig] /\ s.frames \in [Slot -> Seq(Frames)]
  BY DEF SignalSet
<1>3. tab \in [Slot -> [Sig -> Handlers]] /\ han \in [Slot -> SUBSET Sig]
  <2>1. [s.table[i] EXCEPT ![n] = h] \in [Sig -> Handlers]
    BY <1>2
  <2> QED
    BY <1>2, <2>1
<1> HIDE DEF r, tab, han
<1>4. r \in SignalSet
  BY <1>1, <1>2, <1>3 DEF SignalSet
<1>5. Room(r)
  BY <1>1 DEF Room
<1> QED
  BY <1>4, <1>5 DEF r

LEMMA InitTypes ==
    ASSUME NEW s \in SignalSet, Room(s), NEW i \in Slot
    PROVE  initSignals(s, i) \in SignalSet /\ Room(initSignals(s, i))
<1> DEFINE r == initSignals(s, i)
           tab == [s.table EXCEPT ![i] = [@ EXCEPT ![31] = SYSSTOP]]
           han == [s.handled EXCEPT ![i] = @ \cup {31}]
           inc == [s.incoming EXCEPT ![i] = {}]
           fra == [s.frames EXCEPT ![i] = <<>>]
<1>1. r = [table |-> tab, handled |-> han, incoming |-> inc, frames |-> fra]
  BY DEF initSignals
<1>2. /\ s.table \in [Slot -> [Sig -> Handlers]] /\ s.handled \in [Slot -> SUBSET Sig]
      /\ s.incoming \in [Slot -> SUBSET Sig] /\ s.frames \in [Slot -> Seq(Frames)]
  BY DEF SignalSet
<1>3. 31 \in Sig /\ SYSSTOP \in Handlers /\ MaxNest \in Nat
  BY KernelAssumption DEF Handlers
<1>4. tab \in [Slot -> [Sig -> Handlers]] /\ han \in [Slot -> SUBSET Sig]
  <2>1. [s.table[i] EXCEPT ![31] = SYSSTOP] \in [Sig -> Handlers]
    BY <1>2, <1>3
  <2> QED
    BY <1>2, <1>3, <2>1
<1>5. /\ inc \in [Slot -> SUBSET Sig] /\ inc[i] = {} /\ \A j \in Slot \ {i} : inc[j] = s.incoming[j]
      /\ fra \in [Slot -> Seq(Frames)] /\ fra[i] = <<>> /\ \A j \in Slot \ {i} : fra[j] = s.frames[j]
  BY <1>2
<1> HIDE DEF r, tab, han, inc, fra
<1>6. r \in SignalSet
  BY <1>1, <1>4, <1>5 DEF SignalSet
<1>7. Len(fra[i]) + Cardinality(inc[i]) <= MaxNest
  <2>1. Len(fra[i]) = 0 /\ Cardinality(inc[i]) = 0
    BY <1>5, FS_EmptySet
  <2> QED
    BY <1>3, <2>1
<1>8. Room(r)
  BY <1>1, <1>5, <1>7 DEF Room
<1> QED
  BY <1>6, <1>8 DEF r

\* ctxsw() to the head of the queue: the dispatcher marks it RUNNING.
Resumed(q) == IF q.p = NULL THEN q ELSE [q EXCEPT !.state[q.p] = "RUNNING"]

LEMMA ResumedTypes ==
    ASSUME NEW W, NEW q \in QueueSet(W)
    PROVE  Resumed(q) \in QueueSet(W)
  BY DEF Resumed, QueueSet, States

LEMMA QueueFields ==
    ASSUME NEW W, NEW q \in QueueSet(W)
    PROVE  q = [state |-> q.state, next |-> q.next, sleepdiff |-> q.sleepdiff,
                ret |-> q.ret, waiting |-> q.waiting, waitingTail |-> q.waitingTail,
                head |-> q.head, tail |-> q.tail, sleepQ |-> q.sleepQ, p |-> q.p]
  BY DEF QueueSet

\* What Dispatch leaves behind.
LEMMA DispatchEffect ==
    ASSUME NEW W, NEW q \in QueueSet(W), NEW s, Dispatch(q, s)
    PROVE  /\ Queues' = Resumed(q)
           /\ LET d == IF q.p = NULL THEN s ELSE deliver_signal(s, q.p, q.ret[q.p])
              IN  Signals' = [table |-> d.table, handled |-> d.handled,
                              incoming |-> d.incoming, frames |-> d.frames]
<1> DEFINE d == IF q.p = NULL THEN s ELSE deliver_signal(s, q.p, q.ret[q.p])
<1>1. /\ state' = IF q.p = NULL THEN q.state ELSE [q.state EXCEPT ![q.p] = "RUNNING"]
      /\ next' = q.next /\ sleepdiff' = q.sleepdiff /\ ret' = q.ret
      /\ waiting' = q.waiting /\ waitingTail' = q.waitingTail
      /\ head' = q.head /\ tail' = q.tail /\ sleepQ' = q.sleepQ /\ p' = q.p
      /\ sigHandlerTable' = d.table /\ handledSignals' = d.handled
      /\ incomingSignals' = d.incoming /\ frames' = d.frames
  BY DEF Dispatch
<1> HIDE DEF d
<1>2. Signals' = [table |-> d.table, handled |-> d.handled,
                  incoming |-> d.incoming, frames |-> d.frames]
  BY <1>1 DEF Signals
<1>3. Queues' = [state |-> IF q.p = NULL THEN q.state ELSE [q.state EXCEPT ![q.p] = "RUNNING"],
                 next |-> q.next, sleepdiff |-> q.sleepdiff,
                 ret |-> q.ret, waiting |-> q.waiting, waitingTail |-> q.waitingTail,
                 head |-> q.head, tail |-> q.tail, sleepQ |-> q.sleepQ, p |-> q.p]
  BY <1>1 DEF Queues
<1>4. CASE q.p = NULL
  <2>1. Queues' = q
    BY <1>3, <1>4, QueueFields
  <2> QED
    BY <1>2, <1>4, <2>1 DEF Resumed, d
<1>5. CASE q.p # NULL
  <2> DEFINE r == [q EXCEPT !.state[q.p] = "RUNNING"]
  <2>1. r = [state |-> [q.state EXCEPT ![q.p] = "RUNNING"],
             next |-> q.next, sleepdiff |-> q.sleepdiff,
             ret |-> q.ret, waiting |-> q.waiting, waitingTail |-> q.waitingTail,
             head |-> q.head, tail |-> q.tail, sleepQ |-> q.sleepQ, p |-> q.p]
    BY QueueFields DEF QueueSet
  <2>2. Queues' = r
    BY <1>3, <1>5, <2>1
  <2> QED
    BY <1>2, <1>5, <2>2 DEF Resumed, d
<1> QED
  BY <1>4, <1>5

LEMMA SignalFields ==
    ASSUME NEW s \in SignalSet
    PROVE  s = [table |-> s.table, handled |-> s.handled,
                incoming |-> s.incoming, frames |-> s.frames]
  BY DEF SignalSet

TypesOK == Queues \in QueueSet(Ptr) /\ Signals \in SignalSet /\ Room(Signals)

PidTypes ==
    /\ pid \in [Slot -> 0 .. MaxPid] /\ nextpid \in 2 .. MaxPid + 1
    /\ targetPCB \in StaleWords
    /\ \A i \in Slot : pid[i] < nextpid

\* The inductive invariant.
TypeInv == TypesOK /\ PidTypes

LEMMA DispatchTypes ==
    ASSUME NEW q \in QueueSet(Ptr), NEW s \in SignalSet, Room(s), Dispatch(q, s)
    PROVE  TypesOK'
<1> DEFINE d == IF q.p = NULL THEN s ELSE deliver_signal(s, q.p, q.ret[q.p])
<1>1. /\ Queues' = Resumed(q)
      /\ Signals' = [table |-> d.table, handled |-> d.handled,
                     incoming |-> d.incoming, frames |-> d.frames]
  BY DispatchEffect
<1>2. d \in SignalSet /\ Room(d)
  <2>1. CASE q.p = NULL
    BY <2>1
  <2>2. CASE q.p # NULL
    <3>1. q.p \in Slot /\ q.ret[q.p] \in Rets
      BY <2>2 DEF QueueSet, Ptr
    <3> QED
      BY <2>2, <3>1, DeliverTypes
  <2> QED
    BY <2>1, <2>2
<1> HIDE DEF d
<1>3. Signals' = d
  BY <1>1, <1>2, SignalFields
<1>4. Queues' \in QueueSet(Ptr)
  BY <1>1, ResumedTypes
<1>5. Room(Signals')
  BY <1>2, <1>3
<1>6. Signals' \in SignalSet
  BY <1>2, <1>3
<1> QED
  BY <1>4, <1>5, <1>6 DEF TypesOK, Room

LEMMA RunningIsSlot ==
    ASSUME TypesOK, p # NULL
    PROVE  p \in Slot /\ Queues.p = p
  BY DEF TypesOK, Queues, QueueSet, Ptr

LEMMA LeastIs ==
    ASSUME NEW S \in SUBSET Nat, S # {}
    PROVE  \E h \in S : \A m \in S : h <= m
<1> DEFINE T == {n \in Nat : \A R \in SUBSET Nat :
                     (\E i \in R : i <= n) => \E h \in R : \A m \in R : h <= m}
<1>1. 0 \in T
  <2>1. ASSUME NEW R \in SUBSET Nat, NEW i \in R, i <= 0  PROVE \E h \in R : \A m \in R : h <= m
    <3>1. i = 0 /\ \A m \in R : i <= m
      BY <2>1
    <3> QED
      BY <3>1
  <2> QED
    BY <2>1
<1>2. ASSUME NEW n \in Nat, n \in T  PROVE n + 1 \in T
  <2>1. ASSUME NEW R \in SUBSET Nat, NEW i \in R, i <= n + 1
        PROVE  \E h \in R : \A m \in R : h <= m
    <3>1. CASE \E j \in R : j <= n
      BY <1>2, <3>1
    <3>2. CASE ~\E j \in R : j <= n
      <4>1. \A m \in R : i <= m
        BY <2>1, <3>2
      <4> QED
        BY <4>1
    <3> QED
      BY <3>1, <3>2
  <2> QED
    BY <2>1
<1> HIDE DEF T
<1>3. Nat \subseteq T
  BY <1>1, <1>2, SetInduction
<1>4. PICK n \in S : TRUE
  OBVIOUS
<1>5. n \in T /\ n <= n
  BY <1>3
<1> QED
  BY <1>5 DEF T

LEMMA FindTypes ==
    ASSUME NEW n
    PROVE  /\ findPCB(n) \in Slot \cup {NULL}
           /\ findPCB(n) # NULL => pid[findPCB(n)] = n
<1> DEFINE slots == {i \in Slot : pid[i] = n}
<1>1. CASE slots = {}
  BY <1>1 DEF findPCB
<1>2. CASE slots # {}
  <2>1. slots \in SUBSET Nat
    BY FuelIsEnough DEF Slot
  <2>2. \E h \in slots : \A m \in slots : h <= m
    <3> HIDE DEF slots
    <3> QED
      BY <1>2, <2>1, LeastIs
  <2>3. findPCB(n) = CHOOSE i \in slots : \A j \in slots : i <= j
    BY <1>2 DEF findPCB
  <2>4. findPCB(n) \in slots
    BY <2>2, <2>3
  <2> QED
    BY <2>4
<1> QED
  BY <1>1, <1>2

LEMMA TypesHold ==
    ASSUME TypeInv
    PROVE  /\ Queues \in QueueSet(Ptr) /\ Signals \in SignalSet /\ Room(Signals)
           /\ Queues.p = p /\ Signals.frames = frames /\ Signals.incoming = incomingSignals
           /\ pid \in [Slot -> 0 .. MaxPid] /\ nextpid \in 2 .. MaxPid + 1
           /\ \A i \in Slot : pid[i] < nextpid
           /\ p # NULL => p \in Slot
  BY RunningIsSlot DEF TypeInv, TypesOK, PidTypes, Queues, Signals

LEMMA KeepsPids ==
    ASSUME TypeInv, TypesOK', UNCHANGED <<pid, nextpid, targetPCB>>
    PROVE  TypeInv'
  BY DEF TypeInv, PidTypes

\* The requests that leave the signals to the dispatcher.
LEMMA PlainStep ==
    ASSUME TypeInv, NEW q \in QueueSet(Ptr), Dispatch(q, Signals),
           UNCHANGED <<pid, nextpid, targetPCB>>
    PROVE  TypeInv'
  BY TypesHold, DispatchTypes, KeepsPids

LEMMA CreateTypes == ASSUME TypeInv, create  PROVE TypeInv'
<1>1. p # NULL /\ targetPCB' = targetPCB
  BY DEF create, MayIssue
<1>2. CASE UNCHANGED <<pid, nextpid>> /\ Dispatch(Return(Queues, "-1"), Signals)
  <2>1. Return(Queues, "-1") \in QueueSet(Ptr)
    BY TypesHold, ReturnTypes DEF Rets
  <2> QED
    BY <1>1, <1>2, <2>1, PlainStep
<1>3. ASSUME NEW i \in Slot, nextpid <= MaxPid,
             pid' = [pid EXCEPT ![i] = nextpid], nextpid' = nextpid + 1,
             Dispatch(Return(ready([Queues EXCEPT !.waiting[i] = NULL,
                                                  !.waitingTail[i] = NULL], i),
                             "result"),
                      initSignals(Signals, i))
      PROVE  TypeInv'
  <2>1. Emptied(Queues, i) \in QueueSet(Ptr)
    <3>1. ASSUME NEW q \in QueueSet(Ptr)  PROVE Emptied(q, i) \in QueueSet(Ptr)
      BY DEF Emptied, QueueSet, Ptr
    <3> QED
      BY <3>1, TypesHold
  <2>2. Return(ready(Emptied(Queues, i), i), "result") \in QueueSet(Ptr)
    BY <2>1, ReadyTypes, ReturnTypes DEF Rets
  <2>3. initSignals(Signals, i) \in SignalSet /\ Room(initSignals(Signals, i))
    BY TypesHold, InitTypes
  <2>4. TypesOK'
    BY <1>3, <2>2, <2>3, DispatchTypes DEF Emptied
  <2>5. PidTypes'
    <3>1. /\ pid \in [Slot -> 0 .. MaxPid] /\ nextpid \in 2 .. MaxPid + 1
          /\ \A j \in Slot : pid[j] < nextpid /\ targetPCB \in StaleWords /\ MaxPid \in Nat
      BY TypesHold, KernelAssumption DEF TypeInv, PidTypes
    <3>2. nextpid' \in 2 .. MaxPid + 1 /\ nextpid \in 0 .. MaxPid
      BY <1>3, <3>1
    <3>3. pid' \in [Slot -> 0 .. MaxPid]
      BY <1>3, <3>1, <3>2
    <3>4. ASSUME NEW j \in Slot  PROVE pid'[j] < nextpid'
      BY <1>3, <3>1, <3>2
    <3> QED
      BY <1>1, <3>1, <3>2, <3>3, <3>4 DEF PidTypes, TypeInv
  <2> QED
    BY <2>4, <2>5 DEF TypeInv
<1> QED
  BY <1>2, <1>3 DEF create

LEMMA KillTypes ==
    ASSUME TypeInv, NEW target, NEW n, Kill(target, n)
    PROVE  TypeInv'
<1>1. p # NULL /\ UNCHANGED <<pid, nextpid, targetPCB>>
  BY DEF Kill, MayIssue
<1>2. ASSUME NEW r \in Rets, Dispatch(Return(Queues, r), Signals)  PROVE TypeInv'
  <2>1. Return(Queues, r) \in QueueSet(Ptr)
    BY TypesHold, ReturnTypes
  <2> QED
    BY <1>1, <1>2, <2>1, PlainStep
<1>3. ASSUME NEW i, i = findPCB(target), i # NULL, n \in Sig,
             Cardinality(incomingSignals[i]) + Len(frames[i]) < MaxNest,
             Dispatch(Return(unblock(Queues, i), "result"), mark(Signals, i, n))
      PROVE  TypeInv'
  <2>1. i \in Slot
    BY <1>3, FindTypes
  <2>2. unblock(Queues, i) \in QueueSet(Ptr)
    <3>1. ASSUME NEW q \in QueueSet(Ptr)  PROVE unblock(q, i) \in QueueSet(Ptr)
      <4>1. [q EXCEPT !.ret[i] = "-99"] \in QueueSet(Ptr)
        BY DEF QueueSet, Rets
      <4> QED
        BY <2>1, <4>1, ReadyTypes DEF unblock
    <3> QED
      BY <3>1, TypesHold
  <2>3. Return(unblock(Queues, i), "result") \in QueueSet(Ptr)
    BY <2>2, ReturnTypes DEF Rets
  <2>4. mark(Signals, i, n) \in SignalSet /\ Room(mark(Signals, i, n))
    BY <1>3, <2>1, TypesHold, MarkTypes
  <2> QED
    BY <1>1, <1>3, <2>3, <2>4, DispatchTypes, KeepsPids
<1>4. {"-561", "-512", "result"} \subseteq Rets
  BY DEF Rets
<1> QED
  BY <1>2, <1>3, <1>4 DEF Kill

LEMMA HandlerTypes ==
    ASSUME TypeInv, NEW n, NEW own, sighandler(n, own)
    PROVE  TypeInv'
<1>1. p # NULL /\ UNCHANGED <<pid, nextpid, targetPCB>>
  BY DEF sighandler, MayIssue
<1>2. Return(Queues, "-1") \in QueueSet(Ptr) /\ Return(Queues, "result") \in QueueSet(Ptr)
  BY TypesHold, ReturnTypes DEF Rets
<1>3. CASE Dispatch(Return(Queues, "-1"), Signals)
  BY <1>1, <1>2, <1>3, PlainStep
<1>4. ASSUME n \in Sig, NEW h, h = IF own THEN pid[p] ELSE NULL,
             Dispatch(Return(Queues, "result"), register(Signals, p, n, h))
      PROVE  TypeInv'
  <2>1. p \in Slot /\ h \in Handlers
    BY <1>1, <1>4, TypesHold DEF Handlers
  <2>2. register(Signals, p, n, h) \in SignalSet /\ Room(register(Signals, p, n, h))
    BY <1>4, <2>1, TypesHold, RegisterTypes
  <2> QED
    BY <1>1, <1>2, <1>4, <2>2, DispatchTypes, KeepsPids
<1> QED
  BY <1>3, <1>4 DEF sighandler

LEMMA SigReturnRecord ==
    ASSUME TypeInv, SigReturn
    PROVE  LET s == [Signals EXCEPT !.frames[p] = SubSeq(@, 1, Len(@) - 1)]
           IN  s \in SignalSet /\ Room(s)
<1>1. p # NULL /\ frames[p] # <<>> /\ UNCHANGED <<pid, nextpid, targetPCB>>
  BY DEF SigReturn, MayIssue
<1> DEFINE fra == [frames EXCEPT ![p] = SubSeq(@, 1, Len(@) - 1)]
           s == [Signals EXCEPT !.frames[p] = SubSeq(@, 1, Len(@) - 1)]
<1>3. s = [table |-> sigHandlerTable, handled |-> handledSignals,
           incoming |-> incomingSignals, frames |-> fra]
  BY DEF Signals
<1>5. /\ frames \in [Slot -> Seq(Frames)] /\ p \in Slot /\ incomingSignals \in [Slot -> SUBSET Sig]
      /\ sigHandlerTable \in [Slot -> [Sig -> Handlers]] /\ handledSignals \in [Slot -> SUBSET Sig]
      /\ \A i \in Slot : Len(frames[i]) + Cardinality(incomingSignals[i]) <= MaxNest
  BY <1>1, TypesHold DEF Signals, SignalSet, Room
<1>6. /\ SubSeq(frames[p], 1, Len(frames[p]) - 1) \in Seq(Frames)
      /\ Len(SubSeq(frames[p], 1, Len(frames[p]) - 1)) <= Len(frames[p])
      /\ Len(SubSeq(frames[p], 1, Len(frames[p]) - 1)) \in Nat
      /\ Len(frames[p]) \in Nat
  <2>1. frames[p] \in Seq(Frames) /\ Len(frames[p]) \in Nat /\ Len(frames[p]) # 0
    BY <1>1, <1>5, EmptySeq
  <2>2. 1 \in 1 .. Len(frames[p]) + 1 /\ Len(frames[p]) - 1 \in 1 - 1 .. Len(frames[p])
    BY <2>1
  <2>3. SubSeq(frames[p], 1, Len(frames[p]) - 1) \in Seq(Frames)
    BY <2>1, <2>2, SubSeqProperties
  <2>4. Len(SubSeq(frames[p], 1, Len(frames[p]) - 1)) <= Len(frames[p])
    BY <2>1, <2>2, SubSeqProperties
  <2> QED
    BY <2>1, <2>3, <2>4
<1>7. fra \in [Slot -> Seq(Frames)] /\ fra[p] = SubSeq(frames[p], 1, Len(frames[p]) - 1)
      /\ \A i \in Slot \ {p} : fra[i] = frames[i]
  BY <1>5, <1>6
<1> HIDE DEF fra, s
<1>8. s \in SignalSet
  BY <1>3, <1>5, <1>7 DEF SignalSet
<1>9. Room(s)
  <2>1. ASSUME NEW i \in Slot  PROVE Len(fra[i]) + Cardinality(incomingSignals[i]) <= MaxNest
    <3>1. /\ Len(fra[i]) <= Len(frames[i]) /\ Len(fra[i]) \in Nat /\ Len(frames[i]) \in Nat
      <4>1. frames[i] \in Seq(Frames)
        BY <1>5
      <4>2. Len(frames[i]) \in Nat
        BY <4>1, LenProperties
      <4>3. CASE i = p
        BY <1>6, <1>7, <4>2, <4>3
      <4>4. CASE i # p
        BY <1>7, <4>2, <4>4
      <4> QED
        BY <4>3, <4>4
    <3>2. Cardinality(incomingSignals[i]) \in Nat /\ MaxNest \in Nat
      BY <1>5, SignalsAreFinite, KernelAssumption
    <3>3. Len(frames[i]) + Cardinality(incomingSignals[i]) <= MaxNest
      BY <1>5
    <3> HIDE DEF fra
    <3> QED
      BY <3>1, <3>2, <3>3
  <2> QED
    BY <1>3, <2>1 DEF Room
<1> QED
  BY <1>8, <1>9 DEF s

LEMMA SigReturnTypes == ASSUME TypeInv, SigReturn  PROVE TypeInv'
<1> DEFINE s == [Signals EXCEPT !.frames[p] = SubSeq(@, 1, Len(@) - 1)]
<1>1. UNCHANGED <<pid, nextpid, targetPCB>> /\ Dispatch(Return(Queues, "junk"), s)
  BY DEF SigReturn
<1>2. Return(Queues, "junk") \in QueueSet(Ptr)
  BY TypesHold, ReturnTypes DEF Rets
<1>3. s \in SignalSet /\ Room(s)
  BY SigReturnRecord
<1> HIDE DEF s
<1> QED
  BY <1>1, <1>2, <1>3, DispatchTypes, KeepsPids

LEMMA WaitTypes ==
    ASSUME TypeInv, NEW target, Wait(target)
    PROVE  TypeInv'
<1>1. p # NULL /\ UNCHANGED <<pid, nextpid, targetPCB>>
  BY DEF Wait, MayIssue
<1>2. p \in Slot /\ Queues \in QueueSet(Ptr)
  BY <1>1, TypesHold
<1>3. CASE Dispatch(Return(Queues, "-1"), Signals)
  <2>1. Return(Queues, "-1") \in QueueSet(Ptr)
    BY <1>2, ReturnTypes DEF Rets
  <2> QED
    BY <1>1, <1>3, <2>1, PlainStep
<1>4. ASSUME NEW q \in QueueSet(Ptr), Dispatch(switch([q EXCEPT !.state[p] = "WAITING"]), Signals)
      PROVE  TypeInv'
  <2>1. switch([q EXCEPT !.state[p] = "WAITING"]) \in QueueSet(Ptr)
    BY StateTypes, SwitchTypes DEF States
  <2> QED
    BY <1>1, <1>4, <2>1, PlainStep
<1>5. findPCB(target) # NULL => addToWaiting(Queues, findPCB(target), p) \in QueueSet(Ptr)
  BY <1>2, FindTypes, AddTypes
<1> QED
  BY <1>2, <1>3, <1>4, <1>5 DEF Wait

LEMMA TypesInit == Init => TypeInv
<1> SUFFICES ASSUME Init  PROVE TypeInv
  OBVIOUS
<1>1. 31 \in Sig /\ 1 \in Slot /\ 0 \in Slot /\ MaxNest \in Nat /\ MaxPid \in Nat \ {0}
  BY KernelAssumption DEF Slot
<1>2. PidTypes
  BY <1>1 DEF Init, PidTypes
<1>3. Queues \in QueueSet(Ptr)
  <2>1. state \in [Slot -> States]
    BY DEF Init, States, Slot
  <2>2. head \in Ptr /\ tail \in Ptr /\ sleepQ \in Ptr /\ p \in Ptr
    BY <1>1 DEF Init, Ptr, Idle
  <2>3. /\ next \in [Slot -> Ptr] /\ ret \in [Slot -> Rets] /\ sleepdiff \in [Slot -> Int]
        /\ waiting \in [Slot -> Ptr] /\ waitingTail \in [Slot -> Ptr]
    BY DEF Init, Ptr, Rets
  <2> QED
    BY <2>1, <2>2, <2>3 DEF Queues, QueueSet
<1>4. Signals \in SignalSet
  <2>1. sigHandlerTable \in [Slot -> [Sig -> Handlers]]
    BY DEF Init, Handlers
  <2>2. handledSignals \in [Slot -> SUBSET Sig] /\ incomingSignals \in [Slot -> SUBSET Sig]
    BY <1>1 DEF Init
  <2>3. frames \in [Slot -> Seq(Frames)]
    BY DEF Init
  <2> QED
    BY <2>1, <2>2, <2>3 DEF Signals, SignalSet
<1>5. Room(Signals)
  <2>1. ASSUME NEW i \in Slot  PROVE Len(frames[i]) + Cardinality(incomingSignals[i]) <= MaxNest
    <3>1. Len(frames[i]) = 0 /\ Cardinality(incomingSignals[i]) = 0
      BY FS_EmptySet DEF Init
    <3> QED
      BY <1>1, <3>1
  <2> QED
    BY <2>1 DEF Room, Signals
<1> QED
  BY <1>2, <1>3, <1>4, <1>5 DEF TypeInv, TypesOK

LEMMA TypesStep == TypeInv /\ [Next]_vars => TypeInv'
<1> SUFFICES ASSUME TypeInv, [Next]_vars  PROVE TypeInv'
  OBVIOUS
<1> DEFINE Q == QueueSet(Ptr)
<1>0. Queues \in Q /\ (p # NULL => p \in Slot) /\ {"result", "eax"} \subseteq Rets
      /\ {"STOPPED"} \subseteq States /\ NULL \notin Slot
  BY TypesHold, NullIsNoSlot DEF Rets, States
<1>1. CASE create
  BY <1>1, CreateTypes
<1>2. CASE Query
  BY <1>0, <1>2, ReturnTypes, PlainStep DEF Query
<1>3. CASE Yield
  BY <1>0, <1>3, ReadyTypes, SwitchTypes, PlainStep DEF Yield, MayIssue
<1>4. CASE Stop
  <2>1. p \in Slot /\ [Queues EXCEPT !.state[p] = "STOPPED"] \in Q
    BY <1>0, <1>4, StateTypes DEF Stop, MayIssue
  <2>2. switch(removeWaiting([Queues EXCEPT !.state[p] = "STOPPED"], p)) \in Q
    BY <2>1, RemoveTypes, SwitchTypes
  <2> QED
    BY <1>4, <2>2, PlainStep DEF Stop
<1>5. CASE Timer
  <2>1. p \in Slot
    BY <1>0, <1>5 DEF Timer
  <2>2. PICK q \in {tick(Return(Queues, "eax"))} :
           Dispatch(IF q.p = NULL THEN q ELSE switch(ready(q, p)), Signals)
    BY <1>5 DEF Timer
  <2>3. q \in Q
    BY <1>0, <2>2, ReturnTypes, TickTypes
  <2>4. (IF q.p = NULL THEN q ELSE switch(ready(q, p))) \in Q
    BY <2>1, <2>3, ReadyTypes, SwitchTypes
  <2> QED
    BY <1>5, <2>2, <2>4, PlainStep DEF Timer
<1>6. CASE SigReturn
  BY <1>6, SigReturnTypes
<1>7. ASSUME NEW ms \in Lens, Sleep(ms)  PROVE TypeInv'
  <2>1. p \in Slot /\ ms \in Nat
    BY <1>0, <1>7, KernelAssumption DEF Sleep, MayIssue
  <2>2. switch(sleep(Queues, p, ms)) \in Q
    BY <1>0, <2>1, SleepTypes, SwitchTypes
  <2> QED
    BY <1>7, <2>2, PlainStep DEF Sleep
<1>8. ASSUME NEW target, NEW n, Kill(target, n)  PROVE TypeInv'
  BY <1>8, KillTypes
<1>9. ASSUME NEW n, NEW own, sighandler(n, own)  PROVE TypeInv'
  BY <1>9, HandlerTypes
<1>10. ASSUME NEW target, Wait(target)  PROVE TypeInv'
  BY <1>10, WaitTypes
<1>11. CASE UNCHANGED vars
  BY <1>11 DEF vars, lists, signals, TypeInv, TypesOK, PidTypes, Queues, Signals, Room
<1> QED
  BY <1>1, <1>2, <1>3, <1>4, <1>5, <1>6, <1>7, <1>8, <1>9, <1>10, <1>11 DEF Next

\* The inductive invariant holds: every request and the timer keep it.
THEOREM TypesInductive == Spec => []TypeInv
  BY TypesInit, TypesStep, PTL DEF Spec

\* Whatever is sent to whatever process, and however damaged the queues are, every
\* pointer of the process table is NULL or a slot of it, every request leaves its
\* result where the caller or the frame of a handler expects it, and the frames on a
\* user stack and the signals still to be framed stay within the room of the model.
THEOREM FieldsKeepTheirTypes == Spec => []TypeOK
<1>1. TypeInv => TypeOK
  BY DEF TypeInv, TypesOK, PidTypes, TypeOK, Queues, QueueSet, Signals, SignalSet, Room
<1> QED
  BY <1>1, TypesInductive, PTL

-----------------------------------------------------------------------------
(* Signals                                                                  *)

\* A record of the signal fields that the C functions hand on.  created is the set
\* of the slots that have held a process.
Sound(s, created) ==
    /\ s = [table |-> s.table, handled |-> s.handled,
            incoming |-> s.incoming, frames |-> s.frames]
    /\ s.table \in [Slot -> [Sig -> Nat \cup {NULL, SYSSTOP}]]
    /\ s.handled \in [Slot -> SUBSET Sig]
    /\ s.incoming \in [Slot -> SUBSET Sig]
    /\ \A i \in Slot : s.incoming[i] \subseteq s.handled[i]
    /\ \A i \in created : s.table[i][31] = SYSSTOP /\ 31 \in s.handled[i]

PidsOK == pid \in [Slot -> Nat] /\ nextpid \in Nat

Created == {i \in Slot : i = Idle \/ pid[i] # 0}

\* The inductive invariant.
SignalsInv == PidsOK /\ Sound(Signals, Created)

\* Delivery clears one pending bit, and one handled bit only with the pending one.
LEMMA DeliverSound ==
    ASSUME NEW s, NEW created \in SUBSET Slot, Sound(s, created), NEW i, NEW old
    PROVE  Sound(deliver_signal(s, i, old), created)
<1> DEFINE n == get_highest(s.incoming[i])
           frame == [sig |-> n, handler |-> s.table[i][n], old_return |-> old]
           d == deliver_signal(s, i, old)
<1>1. CASE s.incoming[i] = {}
  BY <1>1 DEF deliver_signal
<1>2. CASE s.incoming[i] # {}
  <2> DEFINE inc == [s.incoming EXCEPT ![i] = @ \ {n}]
             han == [s.handled EXCEPT ![i] = IF n = 15 THEN @ \ {15} ELSE @]
             fra == [s.frames EXCEPT ![i] = Append(@, frame)]
  <2>1. d = [table |-> s.table, handled |-> han, incoming |-> inc, frames |-> fra]
    BY <1>2 DEF deliver_signal
  <2>2. /\ s = [table |-> s.table, handled |-> s.handled,
                incoming |-> s.incoming, frames |-> s.frames]
        /\ s.table \in [Slot -> [Sig -> Nat \cup {NULL, SYSSTOP}]]
        /\ s.handled \in [Slot -> SUBSET Sig]
        /\ s.incoming \in [Slot -> SUBSET Sig]
        /\ \A j \in Slot : s.incoming[j] \subseteq s.handled[j]
        /\ \A j \in created : s.table[j][31] = SYSSTOP /\ 31 \in s.handled[j]
    BY DEF Sound
  <2>3. /\ inc \in [Slot -> SUBSET Sig]
        /\ \A j \in Slot : inc[j] = IF j = i THEN s.incoming[j] \ {n} ELSE s.incoming[j]
    BY <2>2
  <2>4. /\ han \in [Slot -> SUBSET Sig]
        /\ \A j \in Slot : han[j] = IF j = i /\ n = 15 THEN s.handled[j] \ {15}
                                    ELSE s.handled[j]
    BY <2>2
  <2> HIDE DEF inc, han, fra, frame, n, d
  <2>5. \A j \in Slot : inc[j] \subseteq han[j]
    BY <2>2, <2>3, <2>4
  <2>6. \A j \in created : s.table[j][31] = SYSSTOP /\ 31 \in han[j]
    BY <2>2, <2>4
  <2> QED
    BY <2>2, <2>3, <2>4, <2>5, <2>6, <2>1 DEF Sound, d
<1> QED
  BY <1>1, <1>2

\* A step that hands a sound record to the top of the dispatcher's loop is safe.
LEMMA DispatchSound ==
    ASSUME NEW queues, NEW s, PidsOK', Sound(s, Created'), Dispatch(queues, s)
    PROVE  SignalsInv'
<1>1. Created' \in SUBSET Slot
  BY DEF Created
<1>2. PICK q \in {queues}, r \in {s} :
        LET delivered == IF q.p = NULL THEN r
                         ELSE deliver_signal(r, q.p, q.ret[q.p])
        IN  /\ sigHandlerTable' = delivered.table
            /\ handledSignals' = delivered.handled
            /\ incomingSignals' = delivered.incoming
            /\ frames' = delivered.frames
  BY DEF Dispatch
<1> DEFINE delivered == IF q.p = NULL THEN s ELSE deliver_signal(s, q.p, q.ret[q.p])
<1>3. Sound(delivered, Created')
  BY <1>1, DeliverSound
<1>4. Signals' = [table |-> delivered.table, handled |-> delivered.handled,
                  incoming |-> delivered.incoming, frames |-> delivered.frames]
  BY <1>2 DEF Signals
<1> HIDE DEF delivered
<1>5. Signals' = delivered
  BY <1>3, <1>4 DEF Sound
<1>6. Sound(Signals', Created')
  BY <1>3, <1>5
<1> QED
  BY <1>6 DEF SignalsInv, Sound

LEMMA PidsUnchanged ==
    ASSUME SignalsInv, UNCHANGED <<pid, nextpid>>
    PROVE  PidsOK' /\ Created' = Created /\ Sound(Signals, Created')
  BY DEF SignalsInv, PidsOK, Created

\* The requests that leave the signal fields to the dispatcher.
LEMMA OtherRequests ==
    ASSUME SignalsInv, NEW queues, Dispatch(queues, Signals), UNCHANGED <<pid, nextpid>>
    PROVE  SignalsInv'
  BY PidsUnchanged, DispatchSound

\* signal() marks what is handled.
LEMMA MarkSound ==
    ASSUME NEW s, NEW created \in SUBSET Slot, Sound(s, created), NEW i, NEW n \in Sig
    PROVE  Sound(mark(s, i, n), created)
<1> DEFINE m == mark(s, i, n)
           inc == [s.incoming EXCEPT ![i] = @ \cup {n}]
<1>1. CASE n \notin s.handled[i]
  BY <1>1 DEF mark
<1>2. CASE n \in s.handled[i]
  <2>1. m = [table |-> s.table, handled |-> s.handled,
             incoming |-> inc, frames |-> s.frames]
    BY <1>2 DEF mark
  <2> HIDE DEF m, inc
  <2>2. /\ inc \in [Slot -> SUBSET Sig]
        /\ \A j \in Slot : inc[j] = IF j = i THEN s.incoming[j] \cup {n}
                                    ELSE s.incoming[j]
    BY DEF Sound, inc
  <2>3. \A j \in Slot : inc[j] \subseteq s.handled[j]
    BY <1>2, <2>2 DEF Sound
  <2> QED
    BY <2>1, <2>2, <2>3 DEF Sound, m
<1> QED
  BY <1>1, <1>2

\* A program cannot take the handler of 31 away.
LEMMA RegisterSound ==
    ASSUME NEW s, NEW created \in SUBSET Slot, Sound(s, created), NEW i,
           NEW n \in Sig \ {31}, NEW h,
           i \in Slot => h \in Nat \cup {NULL, SYSSTOP}
    PROVE  Sound(register(s, i, n, h), created)
<1> DEFINE r == register(s, i, n, h)
           tab == [s.table EXCEPT ![i] = [@ EXCEPT ![n] = h]]
           han == [s.handled EXCEPT ![i] = @ \cup {n}]
<1>1. r = [table |-> tab, handled |-> han, incoming |-> s.incoming, frames |-> s.frames]
  BY DEF register
<1>2. /\ tab \in [Slot -> [Sig -> Nat \cup {NULL, SYSSTOP}]]
      /\ \A j \in Slot : tab[j][31] = s.table[j][31]
  <2> DEFINE T == [Sig -> Nat \cup {NULL, SYSSTOP}]
             row(j) == IF j = i THEN [s.table[j] EXCEPT ![n] = h] ELSE s.table[j]
  <2>1. s.table \in [Slot -> T]
    BY DEF Sound
  <2>2. tab = [j \in Slot |-> row(j)]
    BY <2>1
  <2>3. ASSUME NEW j \in Slot  PROVE row(j) \in T /\ row(j)[31] = s.table[j][31]
    <3>1. s.table[j] \in T
      BY <2>1
    <3>2. j = i => h \in Nat \cup {NULL, SYSSTOP}
      OBVIOUS
    <3>3. 31 \in Sig
      BY KernelAssumption
    <3> QED
      BY <3>1, <3>2, <3>3
  <2> HIDE DEF T, row, tab
  <2>4. tab \in [Slot -> T] /\ \A j \in Slot : tab[j][31] = s.table[j][31]
    BY <2>2, <2>3
  <2> QED
    BY <2>4 DEF T
<1>3. /\ han \in [Slot -> SUBSET Sig]
      /\ \A j \in Slot : s.handled[j] \subseteq han[j]
  BY DEF Sound
<1> HIDE DEF r, tab, han
<1>4. \A j \in Slot : s.incoming[j] \subseteq han[j]
  BY <1>3 DEF Sound
<1>5. \A j \in created : tab[j][31] = SYSSTOP /\ 31 \in han[j]
  BY <1>2, <1>3 DEF Sound
<1> QED
  BY <1>1, <1>2, <1>3, <1>4, <1>5 DEF Sound, r

\* A new process has no signal pending and handles 31.
LEMMA InitSound ==
    ASSUME NEW s, NEW created \in SUBSET Slot, Sound(s, created), NEW i \in Slot
    PROVE  Sound(initSignals(s, i), created \cup {i})
<1> DEFINE r == initSignals(s, i)
           tab == [s.table EXCEPT ![i] = [@ EXCEPT ![31] = SYSSTOP]]
           han == [s.handled EXCEPT ![i] = @ \cup {31}]
           inc == [s.incoming EXCEPT ![i] = {}]
           fra == [s.frames EXCEPT ![i] = <<>>]
<1>1. r = [table |-> tab, handled |-> han, incoming |-> inc, frames |-> fra]
  BY DEF initSignals
<1>2. 31 \in Sig
  BY KernelAssumption
<1>3. /\ tab \in [Slot -> [Sig -> Nat \cup {NULL, SYSSTOP}]]
      /\ tab[i][31] = SYSSTOP
      /\ \A j \in Slot \ {i} : tab[j] = s.table[j]
  BY <1>2 DEF Sound
<1>4. /\ han \in [Slot -> SUBSET Sig]
      /\ han[i] = s.handled[i] \cup {31}
      /\ \A j \in Slot \ {i} : han[j] = s.handled[j]
  BY <1>2 DEF Sound
<1>5. /\ inc \in [Slot -> SUBSET Sig]
      /\ inc[i] = {}
      /\ \A j \in Slot \ {i} : inc[j] = s.incoming[j]
  BY DEF Sound
<1> HIDE DEF r, tab, han, inc, fra
<1>6. \A j \in Slot : inc[j] \subseteq han[j]
  BY <1>4, <1>5 DEF Sound
<1>7. \A j \in created \cup {i} : tab[j][31] = SYSSTOP /\ 31 \in han[j]
  BY <1>3, <1>4 DEF Sound
<1> QED
  BY <1>1, <1>3, <1>4, <1>5, <1>6, <1>7 DEF Sound, r

LEMMA CreateSound ==
    ASSUME SignalsInv, create
    PROVE  SignalsInv'
<1>1. CASE UNCHANGED <<pid, nextpid>> /\ Dispatch(Return(Queues, "-1"), Signals)
  BY <1>1, OtherRequests
<1>2. ASSUME NEW i \in Slot, NEW queues,
             pid' = [pid EXCEPT ![i] = nextpid], nextpid' = nextpid + 1,
             Dispatch(queues, initSignals(Signals, i))
      PROVE  SignalsInv'
  <2>1. PidsOK'
    BY <1>2 DEF SignalsInv, PidsOK
  <2>2. Created \in SUBSET Slot /\ Created' \subseteq Created \cup {i}
    BY <1>2 DEF SignalsInv, PidsOK, Created
  <2>3. Sound(initSignals(Signals, i), Created \cup {i})
    BY <2>2, InitSound DEF SignalsInv
  <2>4. Sound(initSignals(Signals, i), Created')
    BY <2>2, <2>3 DEF Sound
  <2> QED
    BY <1>2, <2>1, <2>4, DispatchSound
<1> QED
  BY <1>1, <1>2 DEF create

LEMMA KillSound ==
    ASSUME SignalsInv, NEW target, NEW n, Kill(target, n)
    PROVE  SignalsInv'
<1>1. Created \in SUBSET Slot /\ UNCHANGED <<pid, nextpid>>
  BY DEF Created, Kill
<1>2. ASSUME NEW queues, Dispatch(queues, Signals)  PROVE SignalsInv'
  BY <1>1, <1>2, OtherRequests
<1>3. ASSUME NEW queues, NEW i, n \in Sig, Dispatch(queues, mark(Signals, i, n))
      PROVE  SignalsInv'
  <2>1. Sound(mark(Signals, i, n), Created)
    BY <1>1, <1>3, MarkSound DEF SignalsInv
  <2> QED
    BY <1>1, <1>3, <2>1, PidsUnchanged, DispatchSound
<1> QED
  BY <1>2, <1>3 DEF Kill

LEMMA SighandlerSound ==
    ASSUME SignalsInv, NEW n, NEW own, sighandler(n, own)
    PROVE  SignalsInv'
<1>1. Created \in SUBSET Slot /\ UNCHANGED <<pid, nextpid>>
  BY DEF Created, sighandler
<1>2. CASE Dispatch(Return(Queues, "-1"), Signals)
  BY <1>1, <1>2, OtherRequests
<1>3. ASSUME n \in Sig, n # 31, NEW queues, NEW h, h = IF own THEN pid[p] ELSE NULL,
             Dispatch(queues, register(Signals, p, n, h))
      PROVE  SignalsInv'
  <2>1. p \in Slot => h \in Nat \cup {NULL, SYSSTOP}
    BY <1>3 DEF SignalsInv, PidsOK
  <2>2. Sound(register(Signals, p, n, h), Created)
    BY <1>1, <1>3, <2>1, RegisterSound DEF SignalsInv
  <2> QED
    BY <1>1, <1>3, <2>2, PidsUnchanged, DispatchSound
<1> QED
  BY <1>2, <1>3 DEF sighandler

LEMMA SigReturnSound ==
    ASSUME SignalsInv, SigReturn
    PROVE  SignalsInv'
<1> DEFINE fra == [frames EXCEPT ![p] = SubSeq(@, 1, Len(@) - 1)]
           s == [Signals EXCEPT !.frames[p] = SubSeq(@, 1, Len(@) - 1)]
<1>1. s = [table |-> sigHandlerTable, handled |-> handledSignals,
           incoming |-> incomingSignals, frames |-> fra]
  BY DEF Signals
<1>2. Dispatch(Return(Queues, "junk"), s) /\ UNCHANGED <<pid, nextpid>>
  BY DEF SigReturn
<1> HIDE DEF fra, s
<1>3. Sound(s, Created)
  BY <1>1 DEF SignalsInv, Sound, Signals
<1> QED
  BY <1>2, <1>3, PidsUnchanged, DispatchSound

\* Wait, in all its cases, leaves the signals to the dispatcher.
LEMMA WaitSound ==
    ASSUME SignalsInv, NEW target, Wait(target)
    PROVE  SignalsInv'
<1>1. UNCHANGED <<pid, nextpid>>
  BY DEF Wait
<1>2. ASSUME NEW queues, Dispatch(queues, Signals)  PROVE SignalsInv'
  BY <1>1, <1>2, OtherRequests
<1> QED
  BY <1>2 DEF Wait

-----------------------------------------------------------------------------
LEMMA SignalsInit == Init => SignalsInv
<1> SUFFICES ASSUME Init PROVE SignalsInv
  OBVIOUS
<1>1. 31 \in Sig /\ 1 \in Slot /\ 0 \in Slot
  BY KernelAssumption DEF Slot
<1>2. PidsOK /\ Created = {0, 1}
  BY <1>1 DEF Init, PidsOK, Created, Idle
<1>3. Sound(Signals, {0, 1})
  BY <1>1 DEF Init, Sound, Signals
<1> QED
  BY <1>2, <1>3 DEF SignalsInv

LEMMA SignalsStep == SignalsInv /\ [Next]_vars => SignalsInv'
<1> SUFFICES ASSUME SignalsInv, [Next]_vars PROVE SignalsInv'
  OBVIOUS
<1>1. CASE create
  BY <1>1, CreateSound
<1>2. CASE Query
  BY <1>2, OtherRequests DEF Query
<1>3. CASE Yield
  BY <1>3, OtherRequests DEF Yield
<1>4. CASE Stop
  BY <1>4, OtherRequests DEF Stop
<1>5. CASE Timer
  BY <1>5, OtherRequests DEF Timer
<1>6. CASE SigReturn
  BY <1>6, SigReturnSound
<1>7. ASSUME NEW ms \in Lens, Sleep(ms)  PROVE SignalsInv'
  BY <1>7, OtherRequests DEF Sleep
<1>8. ASSUME NEW target, NEW n, Kill(target, n)  PROVE SignalsInv'
  BY <1>8, KillSound
<1>9. ASSUME NEW n, NEW own, sighandler(n, own)  PROVE SignalsInv'
  BY <1>9, SighandlerSound
<1>10. ASSUME NEW target, Wait(target)  PROVE SignalsInv'
  BY <1>10, WaitSound
<1>11. CASE UNCHANGED vars
  BY <1>11 DEF vars, signals, SignalsInv, PidsOK, Sound, Signals, Created
<1> QED
  BY <1>1, <1>2, <1>3, <1>4, <1>5, <1>6, <1>7, <1>8, <1>9, <1>10, <1>11 DEF Next

THEOREM SignalsInductive == Spec => []SignalsInv
  BY SignalsInit, SignalsStep, PTL DEF Spec

\* Whatever signals are sent to whatever processes, a signal is pending only where it
\* is handled: signal() marks no other, and a delivery that disables 15 takes it
\* off the pending ones (c/signal.c:78, 140 and 144).
THEOREM PendingStaysHandled == Spec => []PendingIsHandled
<1>1. SignalsInv => PendingIsHandled
  BY DEF SignalsInv, Sound, Signals, PendingIsHandled
<1> QED
  BY <1>1, SignalsInductive, PTL

\* Signal 31 stops every process that was ever created (c/create.c:92, c/signal.c:16).
THEOREM StopHandlerStays == Spec => []CanBeStopped
<1>1. SignalsInv => CanBeStopped
  BY DEF SignalsInv, Sound, Signals, Created, CanBeStopped
<1> QED
  BY <1>1, SignalsInductive, PTL

\* What Dispatch takes off the pending signals it delivers to the process it resumes.
LEMMA DispatchDelivers ==
    ASSUME NEW q \in QueueSet(Ptr), NEW s \in SignalSet, Dispatch(q, s),
           NEW i \in Slot, NEW n \in s.incoming[i], n \notin incomingSignals'[i]
    PROVE  p' = i /\ frames'[i] # <<>> /\ frames'[i][Len(frames'[i])].sig = n
<1>1. /\ s.incoming \in [Slot -> SUBSET Sig] /\ s.frames \in [Slot -> Seq(Frames)]
      /\ s.table \in [Slot -> [Sig -> Handlers]]
  BY DEF SignalSet
<1>2. /\ p' = q.p
      /\ LET d == IF q.p = NULL THEN s ELSE deliver_signal(s, q.p, q.ret[q.p])
         IN  incomingSignals' = d.incoming /\ frames' = d.frames
  BY DEF Dispatch
<1>3. q.p # NULL
  BY <1>2
<1>4. q.p \in Slot /\ q.ret[q.p] \in Rets
  BY <1>3 DEF QueueSet, Ptr
<1> DEFINE j == q.p
           m == get_highest(s.incoming[j])
           frame == [sig |-> m, handler |-> s.table[j][m], old_return |-> q.ret[j]]
<1>5. s.incoming[j] # {}
  BY <1>2, <1>3 DEF deliver_signal
<1>6. /\ incomingSignals' = [s.incoming EXCEPT ![j] = @ \ {m}]
      /\ frames' = [s.frames EXCEPT ![j] = Append(@, frame)]
  BY <1>2, <1>3, <1>5 DEF deliver_signal
<1>7. m \in Sig
  BY <1>1, <1>4, <1>5, HighestIs
<1>8. frame \in Frames /\ frame.sig = m
  BY <1>1, <1>4, <1>7 DEF Frames
<1> HIDE DEF j, m, frame
<1>9. i = j /\ n = m
  BY <1>1, <1>6
<1>10. frames'[i] = Append(s.frames[i], frame) /\ s.frames[i] \in Seq(Frames)
  BY <1>1, <1>6, <1>9
<1>11. /\ Len(frames'[i]) = Len(s.frames[i]) + 1 /\ frames'[i] # <<>>
       /\ frames'[i][Len(s.frames[i]) + 1] = frame
  BY <1>8, <1>10, AppendProperties
<1> QED
  BY <1>2, <1>8, <1>9, <1>11 DEF j

\* A pending bit goes, and what may take it: a delivery, or the creation of another
\* process in the slot.
Lost(i, n) == n \in incomingSignals[i] /\ n \notin incomingSignals'[i]
Accounted(i, n) ==
    \/ p' = i /\ frames'[i] # <<>> /\ frames'[i][Len(frames'[i])].sig = n
    \/ state[i] = "STOPPED" /\ pid'[i] # pid[i]

LEMMA PlainLoss ==
    ASSUME NEW q \in QueueSet(Ptr), NEW s \in SignalSet, Dispatch(q, s),
           NEW i \in Slot, NEW n, Lost(i, n), incomingSignals[i] \subseteq s.incoming[i]
    PROVE  Accounted(i, n)
  BY DispatchDelivers DEF Lost, Accounted

LEMMA LossAccounted ==
    ASSUME TypeInv, [Next]_vars, NEW i \in Slot, NEW n, Lost(i, n)
    PROVE  Accounted(i, n)
<1> DEFINE Q == QueueSet(Ptr)
<1>0. /\ Queues \in Q /\ (p # NULL => p \in Slot) /\ Rets \subseteq Rets
      /\ "STOPPED" \in States /\ "WAITING" \in States /\ NULL \notin Slot
      /\ Signals \in SignalSet /\ Signals.incoming = incomingSignals /\ Room(Signals)
      /\ {"result", "eax", "-1", "junk", "-512", "-561"} \subseteq Rets
  BY TypesHold, NullIsNoSlot DEF Rets, States
<1>1. ASSUME NEW q \in Q, Dispatch(q, Signals)  PROVE Accounted(i, n)
  BY <1>0, <1>1, PlainLoss
<1>2. ASSUME NEW r \in Rets, Dispatch(Return(Queues, r), Signals)  PROVE Accounted(i, n)
  BY <1>0, <1>1, <1>2, ReturnTypes
<1>3. CASE create
  <2>1. ASSUME NEW j \in Slot, state[j] = "STOPPED", pid' = [pid EXCEPT ![j] = nextpid],
               NEW q, q = Return(ready([Queues EXCEPT !.waiting[j] = NULL,
                                                      !.waitingTail[j] = NULL], j), "result"),
               Dispatch(q, initSignals(Signals, j))
        PROVE  Accounted(i, n)
    <3>1. pid[j] < nextpid /\ pid \in [Slot -> 0 .. MaxPid] /\ nextpid \in Int
      BY TypesHold
    <3>2. CASE i = j
      <4>1. pid'[i] = nextpid
        BY <2>1, <3>1, <3>2
      <4>2. pid[i] \in Int /\ pid[i] < nextpid
        BY <3>1, <3>2
      <4>3. pid'[i] # pid[i]
        BY <3>1, <4>1, <4>2
      <4> QED
        BY <2>1, <3>2, <4>3 DEF Accounted
    <3>3. CASE i # j
      <4>1. Emptied(Queues, j) \in Q
        <5>1. ASSUME NEW t \in Q  PROVE Emptied(t, j) \in Q
          BY DEF Emptied, QueueSet, Ptr
        <5> QED
          BY <5>1, <1>0
      <4>2. q \in Q
        BY <1>0, <2>1, <4>1, ReadyTypes, ReturnTypes DEF Emptied
      <4>3. initSignals(Signals, j) \in SignalSet
        BY <1>0, InitTypes
      <4>4. incomingSignals \in [Slot -> SUBSET Sig]
        BY <1>0 DEF SignalSet
      <4>5. initSignals(Signals, j).incoming = [incomingSignals EXCEPT ![j] = {}]
        BY <1>0 DEF initSignals
      <4>6. incomingSignals[i] \subseteq initSignals(Signals, j).incoming[i]
        BY <3>3, <4>4, <4>5
      <4> QED
        BY <2>1, <4>2, <4>3, <4>6, PlainLoss
    <3> QED
      BY <3>2, <3>3
  <2> QED
    BY <1>0, <1>2, <1>3, <2>1 DEF create
<1>4. CASE Query
  BY <1>0, <1>2, <1>4 DEF Query
<1>5. CASE Yield
  BY <1>0, <1>1, <1>5, ReadyTypes, SwitchTypes DEF Yield, MayIssue
<1>6. CASE Stop
  <2>1. p \in Slot /\ [Queues EXCEPT !.state[p] = "STOPPED"] \in Q
    BY <1>0, <1>6, StateTypes DEF Stop, MayIssue
  <2>2. switch(removeWaiting([Queues EXCEPT !.state[p] = "STOPPED"], p)) \in Q
    BY <2>1, RemoveTypes, SwitchTypes
  <2> QED
    BY <1>1, <1>6, <2>2 DEF Stop
<1>7. CASE Timer
  <2>1. p \in Slot
    BY <1>0, <1>7 DEF Timer
  <2>2. PICK q \in {tick(Return(Queues, "eax"))} :
           Dispatch(IF q.p = NULL THEN q ELSE switch(ready(q, p)), Signals)
    BY <1>7 DEF Timer
  <2>3. q \in Q
    BY <1>0, <2>2, ReturnTypes, TickTypes
  <2>4. (IF q.p = NULL THEN q ELSE switch(ready(q, p))) \in Q
    BY <2>1, <2>3, ReadyTypes, SwitchTypes
  <2> QED
    BY <1>1, <2>2, <2>4
<1>8. CASE SigReturn
  <2> DEFINE s == [Signals EXCEPT !.frames[p] = SubSeq(@, 1, Len(@) - 1)]
  <2>1. Dispatch(Return(Queues, "junk"), s)
    BY <1>8 DEF SigReturn
  <2>2. s \in SignalSet
    BY <1>8, SigReturnRecord
  <2>3. s.incoming = incomingSignals
    BY DEF Signals
  <2> HIDE DEF s
  <2>4. Return(Queues, "junk") \in Q
    BY <1>0, ReturnTypes
  <2> QED
    BY <2>1, <2>2, <2>3, <2>4, PlainLoss
<1>9. ASSUME NEW ms \in Lens, Sleep(ms)  PROVE Accounted(i, n)
  <2>1. p \in Slot /\ ms \in Nat
    BY <1>0, <1>9, KernelAssumption DEF Sleep, MayIssue
  <2>2. switch(sleep(Queues, p, ms)) \in Q
    BY <1>0, <2>1, SleepTypes, SwitchTypes
  <2> QED
    BY <1>1, <1>9, <2>2 DEF Sleep
<1>10. ASSUME NEW target, NEW m, Kill(target, m)  PROVE Accounted(i, n)
  <2>1. ASSUME NEW j, j = findPCB(target), j # NULL, m \in Sig,
               Cardinality(incomingSignals[j]) + Len(frames[j]) < MaxNest,
               Dispatch(Return(unblock(Queues, j), "result"), mark(Signals, j, m))
        PROVE  Accounted(i, n)
    <3>1. j \in Slot
      BY <2>1, FindTypes
    <3>2. unblock(Queues, j) \in Q
      <4>1. ASSUME NEW t \in Q  PROVE unblock(t, j) \in Q
        <5>1. [t EXCEPT !.ret[j] = "-99"] \in Q
          BY DEF QueueSet, Rets
        <5> QED
          BY <3>1, <5>1, ReadyTypes DEF unblock
      <4> QED
        BY <1>0, <4>1
    <3>3. Return(unblock(Queues, j), "result") \in Q
      BY <1>0, <3>2, ReturnTypes
    <3>4. mark(Signals, j, m) \in SignalSet
      BY <1>0, <2>1, <3>1, TypesHold, MarkTypes
    <3>5. incomingSignals[i] \subseteq mark(Signals, j, m).incoming[i]
      <4>1. incomingSignals \in [Slot -> SUBSET Sig]
        BY <1>0 DEF SignalSet
      <4>2. mark(Signals, j, m).incoming = incomingSignals
            \/ mark(Signals, j, m).incoming = [incomingSignals EXCEPT ![j] = @ \cup {m}]
        BY <1>0 DEF mark
      <4> QED
        BY <4>1, <4>2
    <3> QED
      BY <2>1, <3>3, <3>4, <3>5, PlainLoss
  <2> QED
    BY <1>0, <1>2, <1>10, <2>1 DEF Kill
<1>11. ASSUME NEW m, NEW own, sighandler(m, own)  PROVE Accounted(i, n)
  <2>1. ASSUME m \in Sig, NEW h, h = IF own THEN pid[p] ELSE NULL,
               Dispatch(Return(Queues, "result"), register(Signals, p, m, h))
        PROVE  Accounted(i, n)
    <3>1. p \in Slot /\ h \in Handlers
      BY <1>0, <1>11, <2>1, TypesHold DEF Handlers, sighandler, MayIssue
    <3>2. register(Signals, p, m, h) \in SignalSet
      BY <1>0, <2>1, <3>1, RegisterTypes
    <3>3. register(Signals, p, m, h).incoming = incomingSignals
      BY <1>0 DEF register
    <3>4. Return(Queues, "result") \in Q
      BY <1>0, ReturnTypes
    <3> QED
      BY <2>1, <3>2, <3>3, <3>4, PlainLoss
  <2> QED
    BY <1>0, <1>2, <1>11, <2>1 DEF sighandler
<1>12. ASSUME NEW target, Wait(target)  PROVE Accounted(i, n)
  <2>1. p \in Slot
    BY <1>0, <1>12 DEF Wait, MayIssue
  <2>2. ASSUME NEW q \in Q, Dispatch(switch([q EXCEPT !.state[p] = "WAITING"]), Signals)
        PROVE  Accounted(i, n)
    BY <1>0, <1>1, <2>2, StateTypes, SwitchTypes
  <2>3. findPCB(target) # NULL => addToWaiting(Queues, findPCB(target), p) \in Q
    BY <1>0, <2>1, FindTypes, AddTypes
  <2> QED
    BY <1>0, <1>2, <1>12, <2>2, <2>3 DEF Wait
<1>13. CASE UNCHANGED vars
  BY <1>13 DEF vars, signals, Lost
<1> QED
  BY <1>3, <1>4, <1>5, <1>6, <1>7, <1>8, <1>9, <1>10, <1>11, <1>12, <1>13 DEF Next

\* No pending signal is lost: only a delivery to the process that runs next, which
\* then has the frame of that signal on top of its stack, and the creation of another
\* process in the slot clear a pending bit (c/signal.c:140, c/create.c:91).
THEOREM SignalsStay == Spec => SignalsNotLost
<1>1. ASSUME TypeInv, [Next]_vars
      PROVE  [\A i \in Slot : \A n \in incomingSignals[i] :
                n \notin incomingSignals'[i] =>
                  \/ p' = i /\ frames'[i] # <<>> /\ frames'[i][Len(frames'[i])].sig = n
                  \/ state[i] = "STOPPED" /\ pid'[i] # pid[i]]_vars
  BY <1>1, LossAccounted DEF Lost, Accounted
<1> QED
  BY <1>1, TypesInductive, PTL DEF SignalsNotLost, Spec

-----------------------------------------------------------------------------
(* The lists                                                                *)


\* A family of lists: the ready queue, the list of sleepers, and for each slot those
\* that wait for its process.
RQ == -1
SQ == -2
Ix == -2 .. MaxProc - 1

\* Each process points to the one behind it, and has one place on one list.
Chained(nx, L) ==
    \A x \in Ix : \A k \in 1 .. Len(L[x]) :
        nx[L[x][k]] = IF k = Len(L[x]) THEN NULL ELSE L[x][k + 1]
Apart(L) ==
    \A x, y \in Ix : \A k \in 1 .. Len(L[x]) : \A m \in 1 .. Len(L[y]) :
        L[x][k] = L[y][m] => x = y /\ k = m
Fam(nx, L) ==
    /\ nx \in [Slot -> Ptr] /\ L \in [Ix -> Seq(Slot)]
    /\ Chained(nx, L) /\ Apart(L)

\* On a list, or on none; the ends of a list; a list with i behind its first k.
In(L, x, i) == \E k \in 1 .. Len(L[x]) : L[x][k] = i
Loose(L, i) == \A x \in Ix : ~In(L, x, i)

First(l) == IF l = <<>> THEN NULL ELSE l[1]
Last(l) == IF l = <<>> THEN NULL ELSE l[Len(l)]

Insert(l, k, i) ==
    [n \in 1 .. Len(l) + 1 |-> IF n <= k THEN l[n] ELSE IF n = k + 1 THEN i ELSE l[n - 1]]

LEMMA SlotsAre == Slot \subseteq Ix /\ RQ \in Ix /\ SQ \in Ix /\ RQ # SQ /\ RQ \notin Slot /\ SQ \notin Slot
  BY FuelIsEnough DEF Slot, Ix, RQ, SQ

LEMMA InsertIs ==
    ASSUME NEW l \in Seq(Slot), NEW k \in 0 .. Len(l), NEW i \in Slot
    PROVE  /\ Insert(l, k, i) \in Seq(Slot) /\ Len(Insert(l, k, i)) = Len(l) + 1
           /\ Len(l) \in Nat
           /\ \A n \in 1 .. Len(l) + 1 : Insert(l, k, i)[n] =
                 IF n <= k THEN l[n] ELSE IF n = k + 1 THEN i ELSE l[n - 1]
<1> DEFINE m == Insert(l, k, i)
<1>1. Len(l) \in Nat /\ \A n \in 1 .. Len(l) : l[n] \in Slot
  BY LenProperties, ElementOfSeq
<1>2. \A n \in 1 .. Len(l) + 1 : (IF n <= k THEN l[n] ELSE IF n = k + 1 THEN i ELSE l[n - 1]) \in Slot
  <2>1. ASSUME NEW n \in 1 .. Len(l) + 1
        PROVE  (IF n <= k THEN l[n] ELSE IF n = k + 1 THEN i ELSE l[n - 1]) \in Slot
    <3>1. n <= k => n \in 1 .. Len(l)
      BY <1>1
    <3>2. ~(n <= k) /\ n # k + 1 => n - 1 \in 1 .. Len(l)
      BY <1>1
    <3> QED
      BY <1>1, <3>1, <3>2
  <2> QED
    BY <2>1
<1>3. m \in [1 .. Len(l) + 1 -> Slot]
  BY <1>2 DEF Insert
<1>4. m \in Seq(Slot)
  BY <1>1, <1>3
<1>5. Len(m) = Len(l) + 1
  BY <1>1, <1>3, <1>4, LenProperties
<1> QED
  BY <1>1, <1>4, <1>5 DEF Insert

\* An element of a family of lists, by the list and the place that it has.
LEMMA FamIs ==
    ASSUME NEW nx, NEW L, Fam(nx, L), NEW x \in Ix
    PROVE  /\ L[x] \in Seq(Slot) /\ Len(L[x]) \in Nat
           /\ \A k \in 1 .. Len(L[x]) : L[x][k] \in Slot
           /\ L[x] = <<>> <=> Len(L[x]) = 0
<1>1. L[x] \in Seq(Slot)
  BY DEF Fam
<1> QED
  BY <1>1, LenProperties, ElementOfSeq, EmptySeq

\* A process that is on no list is put behind the first k of a list.
LEMMA FamInsert ==
    ASSUME NEW nx, NEW L, Fam(nx, L), NEW x \in Ix, NEW k \in 0 .. Len(L[x]),
           NEW i \in Slot, Loose(L, i), NEW ny \in [Slot -> Ptr],
           ny[i] = IF k = Len(L[x]) THEN NULL ELSE L[x][k + 1],
           k > 0 => ny[L[x][k]] = i,
           \A j \in Slot \ {i} : k = 0 \/ j # L[x][k] => ny[j] = nx[j]
    PROVE  Fam(ny, [L EXCEPT ![x] = Insert(@, k, i)])
<1> DEFINE l == L[x]
           M == [L EXCEPT ![x] = Insert(@, k, i)]
           Moved(y, n) == IF y = x /\ n > k THEN n + 1 ELSE n
<1>1. /\ l \in Seq(Slot) /\ Len(l) \in Nat /\ \A n \in 1 .. Len(l) : l[n] \in Slot
      /\ L \in [Ix -> Seq(Slot)] /\ Chained(nx, L) /\ Apart(L) /\ k \in 0 .. Len(l)
  BY FamIs DEF Fam
<1>2. /\ Insert(l, k, i) \in Seq(Slot) /\ Len(Insert(l, k, i)) = Len(l) + 1
      /\ \A n \in 1 .. Len(l) + 1 : Insert(l, k, i)[n] =
                 IF n <= k THEN l[n] ELSE IF n = k + 1 THEN i ELSE l[n - 1]
  BY <1>1, InsertIs
<1>3. /\ M \in [Ix -> Seq(Slot)] /\ M[x] = Insert(l, k, i)
      /\ \A y \in Ix \ {x} : M[y] = L[y]
  BY <1>1, <1>2
<1> HIDE DEF M
\* Each place holds i, or what another place of the same list held.
<1>4. ASSUME NEW y \in Ix, NEW n \in 1 .. Len(M[y])
      PROVE  \/ y = x /\ n = k + 1 /\ M[y][n] = i
             \/ \E o \in 1 .. Len(L[y]) : M[y][n] = L[y][o] /\ n = Moved(y, o)
  <2>1. CASE y # x
    <3>1. M[y] = L[y] /\ n = Moved(y, n)
      BY <1>3, <2>1
    <3> QED
      BY <3>1
  <2>2. CASE y = x /\ n <= k
    <3>1. n \in 1 .. Len(l) /\ n \in 1 .. Len(l) + 1 /\ n = Moved(y, n)
      BY <1>1, <2>2
    <3>2. M[y][n] = l[n]
      BY <1>2, <1>3, <2>2, <3>1
    <3> QED
      BY <2>2, <3>1, <3>2
  <2>3. CASE y = x /\ n = k + 1
    <3>1. n \in 1 .. Len(l) + 1 /\ ~(n <= k)
      BY <1>1, <2>3
    <3> QED
      BY <1>2, <1>3, <2>3, <3>1
  <2>4. CASE y = x /\ n > k + 1
    <3>1. /\ n - 1 \in 1 .. Len(l) /\ n \in 1 .. Len(l) + 1 /\ n = Moved(y, n - 1)
          /\ ~(n <= k) /\ n # k + 1
      BY <1>1, <1>2, <1>3, <2>4
    <3>2. M[y][n] = l[n - 1]
      BY <1>2, <1>3, <2>4, <3>1
    <3> QED
      BY <2>4, <3>1, <3>2
  <2> QED
    BY <1>1, <1>2, <1>3, <2>1, <2>2, <2>3, <2>4
<1>5. \A y \in Ix : \A o \in 1 .. Len(L[y]) : L[y][o] # i
  BY DEF Loose, In
<1> HIDE DEF Moved
<1>6. ASSUME NEW y \in Ix, NEW n \in 1 .. Len(M[y]), M[y][n] = i
      PROVE  y = x /\ n = k + 1
  BY <1>4, <1>5, <1>6
<1>7. Apart(M)
  <2>1. ASSUME NEW y \in Ix, NEW z \in Ix, NEW n \in 1 .. Len(M[y]), NEW m \in 1 .. Len(M[z]),
               M[y][n] = M[z][m]
        PROVE  y = z /\ n = m
    <3>1. CASE M[y][n] = i
      <4>1. y = x /\ n = k + 1 /\ z = x /\ m = k + 1
        BY <1>6, <2>1, <3>1
      <4> QED
        BY <4>1
    <3>2. CASE M[y][n] # i
      <4>1. PICK o \in 1 .. Len(L[y]) : M[y][n] = L[y][o] /\ n = Moved(y, o)
        BY <1>4, <3>2
      <4>2. PICK u \in 1 .. Len(L[z]) : M[z][m] = L[z][u] /\ m = Moved(z, u)
        BY <1>4, <2>1, <3>2
      <4>3. y = z /\ o = u
        <5>1. L[y][o] = L[z][u]
          BY <2>1, <4>1, <4>2
        <5>2. Apart(L)
          BY <1>1
        <5> QED
          BY <5>1, <5>2 DEF Apart
      <4> QED
        BY <4>1, <4>2, <4>3
    <3> QED
      BY <3>1, <3>2
  <2> QED
    BY <2>1 DEF Apart
\* What follows another place than the one before the new element is as it was.
<1>8. Chained(ny, M)
  <2>1. ASSUME NEW y \in Ix, NEW n \in 1 .. Len(M[y])
        PROVE  ny[M[y][n]] = IF n = Len(M[y]) THEN NULL ELSE M[y][n + 1]
    <3>1. CASE y # x
      <4>1. M[y] = L[y] /\ n \in 1 .. Len(L[y])
        BY <1>3, <3>1
      <4>2. L[y][n] \in Slot \ {i}
        BY <1>5, <4>1, FamIs
      <4>3. k > 0 => L[y][n] # l[k]
        <5>1. k > 0 => k \in 1 .. Len(l)
          BY <1>1
        <5> QED
          BY <1>1, <3>1, <4>1, <5>1 DEF Apart
      <4>4. ny[L[y][n]] = nx[L[y][n]]
        BY <1>1, <4>2, <4>3
      <4> QED
        BY <1>1, <4>1, <4>4 DEF Chained
    <3>2. CASE y = x /\ n = k + 1
      <4>1. M[y][n] = i /\ Len(M[y]) = Len(l) + 1
        BY <1>1, <1>2, <1>3, <3>2
      <4>2. CASE k = Len(l)
        BY <3>2, <4>1, <4>2
      <4>3. CASE k # Len(l)
        <5>1. n # Len(M[y]) /\ n + 1 \in 1 .. Len(l) + 1 /\ ~(n + 1 <= k) /\ n + 1 # k + 1 /\ (n + 1) - 1 = k + 1
          BY <1>1, <3>2, <4>1, <4>3
        <5>2. M[y][n + 1] = l[k + 1]
          BY <1>2, <1>3, <3>2, <5>1
        <5> QED
          BY <4>1, <4>3, <5>1, <5>2
      <4> QED
        BY <4>2, <4>3
    <3>3. CASE y = x /\ n = k
      <4>1. /\ n \in 1 .. Len(l) /\ n \in 1 .. Len(l) + 1 /\ n + 1 \in 1 .. Len(l) + 1
            /\ n # Len(M[y]) /\ n <= k /\ ~(n + 1 <= k) /\ n + 1 = k + 1 /\ k > 0
        BY <1>1, <1>2, <1>3, <3>3
      <4>2. M[y][n] = l[k] /\ M[y][n + 1] = i
        BY <1>2, <1>3, <3>3, <4>1
      <4> QED
        BY <4>1, <4>2
    <3>4. CASE y = x /\ n < k
      <4>1. /\ n \in 1 .. Len(l) /\ n + 1 \in 1 .. Len(l) /\ n \in 1 .. Len(l) + 1 /\ n + 1 \in 1 .. Len(l) + 1
            /\ n # Len(M[y]) /\ n # Len(l) /\ n <= k /\ n + 1 <= k /\ k \in 1 .. Len(l)
        BY <1>1, <1>2, <1>3, <3>4
      <4>2. M[y][n] = l[n] /\ M[y][n + 1] = l[n + 1]
        BY <1>2, <1>3, <3>4, <4>1
      <4>3. l[n] \in Slot \ {i} /\ l[n] # l[k]
        BY <1>1, <1>5, <3>4, <4>1 DEF Apart
      <4>4. ny[l[n]] = nx[l[n]]
        BY <4>3
      <4> QED
        BY <1>1, <4>1, <4>2, <4>4 DEF Chained
    <3>5. CASE y = x /\ n > k + 1
      <4>1. /\ n - 1 \in 1 .. Len(l) /\ n \in 1 .. Len(l) + 1 /\ ~(n <= k) /\ n # k + 1
            /\ n = Len(M[y]) <=> n - 1 = Len(l)
            /\ Len(M[y]) = Len(l) + 1 /\ k \in Nat
        BY <1>1, <1>2, <1>3, <3>5
      <4>2. M[y][n] = l[n - 1]
        BY <1>2, <1>3, <3>5, <4>1
      <4>3. n # Len(M[y]) => M[y][n + 1] = l[(n - 1) + 1]
        <5>1. n # Len(M[y]) => n + 1 \in 1 .. Len(l) + 1 /\ ~(n + 1 <= k) /\ n + 1 # k + 1 /\ (n + 1) - 1 = (n - 1) + 1
          BY <1>1, <3>5, <4>1
        <5> QED
          BY <1>2, <1>3, <3>5, <5>1
      <4>4. l[n - 1] \in Slot \ {i} /\ (k > 0 => l[n - 1] # l[k])
        <5>1. k > 0 => k \in 1 .. Len(l) /\ k # n - 1
          BY <1>1, <3>5
        <5> QED
          BY <1>1, <1>5, <4>1, <5>1 DEF Apart
      <4>5. ny[l[n - 1]] = nx[l[n - 1]]
        BY <4>1, <4>4
      <4> QED
        BY <1>1, <4>1, <4>2, <4>3, <4>5 DEF Chained
    <3>6. n < k \/ n = k \/ n = k + 1 \/ n > k + 1
      <4>1. k \in Int /\ n \in Int
        BY <1>1
      <4> QED
        BY <4>1
    <3> QED
      BY <3>1, <3>2, <3>3, <3>4, <3>5, <3>6
  <2> QED
    BY <2>1 DEF Chained
<1> QED
  BY <1>3, <1>7, <1>8 DEF Fam, M

\* A list without its first, and without any.
LEMMA TailIs ==
    ASSUME NEW l \in Seq(Slot), l # <<>>
    PROVE  /\ Tail(l) \in Seq(Slot) /\ Len(Tail(l)) = Len(l) - 1 /\ Len(l) \in Nat \ {0}
           /\ Len(Tail(l)) \in Nat
           /\ \A n \in 1 .. Len(Tail(l)) : n + 1 \in 1 .. Len(l) /\ Tail(l)[n] = l[n + 1]
<1>1. /\ Tail(l) \in Seq(Slot) /\ Len(Tail(l)) = Len(l) - 1
      /\ \A n \in 1 .. Len(Tail(l)) : Tail(l)[n] = l[n + 1]
  BY HeadTailProperties
<1>2. Len(l) \in Nat /\ Len(l) # 0
  BY LenProperties, EmptySeq
<1> QED
  BY <1>1, <1>2

LEMMA NotTheLast == \A c \in Nat : \A n \in 1 .. c : n # c => n + 1 \in 1 .. c
  OBVIOUS

Less(L, x) == [L EXCEPT ![x] = Tail(@)]
Dropped(L, x) == [L EXCEPT ![x] = <<>>]

\* The first of a list is taken off it.
LEMMA FamCut ==
    ASSUME NEW nx, NEW L, Fam(nx, L), NEW x \in Ix, L[x] # <<>>,
           NEW ny \in [Slot -> Ptr], \A j \in Slot \ {L[x][1]} : ny[j] = nx[j]
    PROVE  Fam(ny, Less(L, x)) /\ Loose(Less(L, x), L[x][1]) /\ L[x][1] \in Slot
<1> DEFINE l == L[x]
           M == Less(L, x)
           From(y, n) == IF y = x THEN n + 1 ELSE n
<1>1. /\ l \in Seq(Slot) /\ Len(l) \in Nat \ {0} /\ \A n \in 1 .. Len(l) : l[n] \in Slot
      /\ L \in [Ix -> Seq(Slot)] /\ Chained(nx, L) /\ Apart(L) /\ 1 \in 1 .. Len(l)
  BY FamIs DEF Fam
<1>2. /\ M \in [Ix -> Seq(Slot)] /\ M[x] = Tail(l)
      /\ \A y \in Ix \ {x} : M[y] = L[y]
  BY <1>1, TailIs DEF Less
<1>3. /\ Len(Tail(l)) = Len(l) - 1
      /\ \A n \in 1 .. Len(Tail(l)) : n + 1 \in 1 .. Len(l) /\ Tail(l)[n] = l[n + 1]
  BY <1>1, TailIs
<1> HIDE DEF M
<1>4. ASSUME NEW y \in Ix, NEW n \in 1 .. Len(M[y])
      PROVE  /\ From(y, n) \in 1 .. Len(L[y]) /\ M[y][n] = L[y][From(y, n)]
             /\ M[y][n] \in Slot \ {l[1]}
             /\ n = Len(M[y]) <=> From(y, n) = Len(L[y])
             /\ n # Len(M[y]) => n + 1 \in 1 .. Len(M[y]) /\ M[y][n + 1] = L[y][From(y, n) + 1]
  <2>1. CASE y # x
    <3>1. M[y] = L[y] /\ From(y, n) = n /\ Len(L[y]) \in Nat /\ L[y][n] \in Slot
      BY <1>2, <2>1, FamIs
    <3>2. L[y][n] # l[1]
      BY <1>1, <2>1, <3>1 DEF Apart
    <3> QED
      BY <3>1, <3>2
  <2>2. CASE y = x
    <3>1. /\ M[y] = Tail(l) /\ From(y, n) = n + 1 /\ L[y] = l /\ n \in 1 .. Len(Tail(l))
          /\ Len(M[y]) = Len(l) - 1
      BY <1>2, <1>3, <2>2
    <3>2. n + 1 \in 1 .. Len(l) /\ M[y][n] = l[n + 1]
      BY <1>3, <3>1
    <3>3. l[n + 1] \in Slot /\ l[n + 1] # l[1]
      <4>1. n + 1 # 1 /\ n + 1 \in 1 .. Len(L[x]) /\ 1 \in 1 .. Len(L[x])
        BY <1>1, <3>1, <3>2
      <4>2. Apart(L)
        BY <1>1
      <4>3. L[x][n + 1] # L[x][1]
        BY <4>1, <4>2 DEF Apart
      <4> QED
        BY <1>1, <3>2, <4>3
    <3>4. n # Len(M[y]) => n + 1 \in 1 .. Len(M[y]) /\ M[y][n + 1] = l[(n + 1) + 1]
      <4>0. Len(M[y]) = Len(Tail(l)) /\ Len(Tail(l)) \in Nat
        BY <1>1, <1>3, <3>1, TailIs
      <4>1. n # Len(M[y]) => n + 1 \in 1 .. Len(Tail(l))
        BY <4>0, NotTheLast
      <4> QED
        BY <1>3, <3>1, <4>1
    <3>5. n = Len(M[y]) <=> n + 1 = Len(l)
      BY <1>1, <1>3, <3>1
    <3> QED
      BY <3>1, <3>2, <3>3, <3>4, <3>5
  <2> QED
    BY <2>1, <2>2
<1>5. Apart(M)
  <2>1. ASSUME NEW y \in Ix, NEW z \in Ix, NEW n \in 1 .. Len(M[y]), NEW m \in 1 .. Len(M[z]),
               M[y][n] = M[z][m]
        PROVE  y = z /\ n = m
    <3>1. L[y][From(y, n)] = L[z][From(z, m)] /\ From(y, n) \in 1 .. Len(L[y])
          /\ From(z, m) \in 1 .. Len(L[z])
      BY <1>4, <2>1
    <3>2. Apart(L)
      BY <1>1
    <3>3. y = z /\ From(y, n) = From(z, m)
      BY <3>1, <3>2 DEF Apart
    <3> QED
      BY <3>3
  <2> QED
    BY <2>1 DEF Apart
<1>6. Chained(ny, M)
  <2>1. ASSUME NEW y \in Ix, NEW n \in 1 .. Len(M[y])
        PROVE  ny[M[y][n]] = IF n = Len(M[y]) THEN NULL ELSE M[y][n + 1]
    <3> DEFINE o == From(y, n)
    <3>1. /\ o \in 1 .. Len(L[y]) /\ M[y][n] = L[y][o] /\ M[y][n] \in Slot \ {l[1]}
          /\ n = Len(M[y]) <=> o = Len(L[y])
          /\ n # Len(M[y]) => M[y][n + 1] = L[y][o + 1]
      BY <1>4
    <3> HIDE DEF o
    <3>2. ny[M[y][n]] = nx[L[y][o]]
      BY <3>1
    <3>3. nx[L[y][o]] = IF o = Len(L[y]) THEN NULL ELSE L[y][o + 1]
      BY <1>1, <3>1 DEF Chained
    <3> QED
      BY <3>1, <3>2, <3>3
  <2> QED
    BY <2>1 DEF Chained
<1>7. Loose(M, l[1])
  BY <1>4 DEF Loose, In
<1> QED
  BY <1>1, <1>2, <1>5, <1>6, <1>7 DEF Fam, M

\* A list is forgotten.
LEMMA FamDrop ==
    ASSUME NEW nx, NEW L, Fam(nx, L), NEW x \in Ix
    PROVE  Fam(nx, Dropped(L, x))
<1> DEFINE M == Dropped(L, x)
<1>1. /\ M \in [Ix -> Seq(Slot)] /\ M[x] = <<>>
      /\ \A y \in Ix \ {x} : M[y] = L[y]
  BY DEF Dropped, Fam
<1> HIDE DEF M
<1>2. ASSUME NEW y \in Ix, NEW n \in 1 .. Len(M[y])
      PROVE  M[y] = L[y] /\ n \in 1 .. Len(L[y])
  <2>1. y # x
    <3>1. Len(<<>>) = 0
      OBVIOUS
    <3> QED
      BY <1>1, <3>1
  <2> QED
    BY <1>1, <2>1
<1>3. Apart(M)
  BY <1>2 DEF Apart, Fam
<1>4. Chained(nx, M)
  BY <1>2 DEF Chained, Fam
<1> QED
  BY <1>1, <1>3, <1>4 DEF Fam, M

\* Where a process that is on no list points makes no difference.
LEMMA FamLoose ==
    ASSUME NEW nx, NEW L, Fam(nx, L), NEW i, Loose(L, i),
           NEW ny \in [Slot -> Ptr], \A j \in Slot \ {i} : ny[j] = nx[j]
    PROVE  Fam(ny, L)
<1>1. ASSUME NEW y \in Ix, NEW n \in 1 .. Len(L[y])
      PROVE  ny[L[y][n]] = nx[L[y][n]]
  <2>1. L[y][n] \in Slot \ {i}
    BY FamIs DEF Loose, In
  <2> QED
    BY <2>1
<1>2. Chained(ny, L)
  BY <1>1 DEF Chained, Fam
<1> QED
  BY <1>2 DEF Fam

Put(L, x, k, i) == [L EXCEPT ![x] = Insert(@, k, i)]

\* The ends and the elements of a list that got one more.
LEMMA InsertEnds ==
    ASSUME NEW l \in Seq(Slot), NEW k \in 0 .. Len(l), NEW i \in Slot
    PROVE  /\ First(Insert(l, k, i)) = IF k = 0 THEN i ELSE First(l)
           /\ Last(Insert(l, k, i)) = IF k = Len(l) THEN i ELSE Last(l)
<1> DEFINE m == Insert(l, k, i)
<1>1. /\ m \in Seq(Slot) /\ Len(m) = Len(l) + 1 /\ Len(l) \in Nat
      /\ \A n \in 1 .. Len(l) + 1 :
            m[n] = IF n <= k THEN l[n] ELSE IF n = k + 1 THEN i ELSE l[n - 1]
  BY ZenonT(40), InsertIs
<1>2. l = <<>> <=> Len(l) = 0
  BY EmptySeq
<1>3. m # <<>>
  BY <1>1, EmptySeq
<1> HIDE DEF m
<1>4. First(m) = m[1] /\ Last(m) = m[Len(l) + 1]
  BY <1>1, <1>3 DEF First, Last
<1>5. 1 \in 1 .. Len(l) + 1 /\ Len(l) + 1 \in 1 .. Len(l) + 1
  BY <1>1
<1>6. m[1] = IF k = 0 THEN i ELSE l[1]
  BY <1>1, <1>5
<1>7. m[Len(l) + 1] = IF k = Len(l) THEN i ELSE l[Len(l)]
  <2>1. ~(Len(l) + 1 <= k) /\ (Len(l) + 1) - 1 = Len(l) /\ (Len(l) + 1 = k + 1 <=> k = Len(l))
    BY <1>1
  <2> QED
    BY <1>1, <1>5, <2>1
<1>8. (k # 0 => l # <<>>) /\ (k # Len(l) => l # <<>>)
  BY <1>1, <1>2
<1> QED
  BY <1>4, <1>6, <1>7, <1>8 DEF First, Last, m

LEMMA InsertIn ==
    ASSUME NEW L \in [Ix -> Seq(Slot)], NEW x \in Ix, NEW k \in 0 .. Len(L[x]), NEW i \in Slot
    PROVE  \A y \in Ix, j \in Slot :
              In(Put(L, x, k, i), y, j) <=> In(L, y, j) \/ (y = x /\ j = i)
<1> DEFINE l == L[x]
           m == Insert(l, k, i)
           M == Put(L, x, k, i)
<1>1. /\ Len(m) = Len(l) + 1 /\ Len(l) \in Nat
      /\ \A n \in 1 .. Len(l) + 1 :
            m[n] = IF n <= k THEN l[n] ELSE IF n = k + 1 THEN i ELSE l[n - 1]
  BY InsertIs
<1>2. M[x] = m /\ \A y \in Ix \ {x} : M[y] = L[y]
  BY DEF Put
<1> HIDE DEF m, M
<1> TAKE y \in Ix, j \in Slot
<1>3. CASE y # x
  BY <1>2, <1>3 DEF In, M
<1>4. CASE y = x
  <2>1. ASSUME NEW n \in 1 .. Len(l) + 1, m[n] = j, j # i  PROVE \E o \in 1 .. Len(l) : l[o] = j
    <3>1. CASE n <= k
      <4>1. n \in 1 .. Len(l)
        BY <1>1, <3>1
      <4> QED
        BY <1>1, <2>1, <3>1, <4>1
    <3>2. CASE ~(n <= k)
      <4>1. n # k + 1 /\ m[n] = l[n - 1]
        BY <1>1, <2>1, <3>2
      <4>2. n - 1 \in 1 .. Len(l)
        BY <1>1, <3>2, <4>1
      <4> QED
        BY <2>1, <4>1, <4>2
    <3> QED
      BY <3>1, <3>2
  <2>2. ASSUME NEW o \in 1 .. Len(l), l[o] = j  PROVE \E n \in 1 .. Len(l) + 1 : m[n] = j
    <3>1. CASE o <= k
      <4>1. o \in 1 .. Len(l) + 1
        BY <1>1
      <4> QED
        BY <1>1, <2>2, <3>1, <4>1
    <3>2. CASE ~(o <= k)
      <4>1. /\ o + 1 \in 1 .. Len(l) + 1 /\ ~(o + 1 <= k) /\ o + 1 # k + 1
            /\ (o + 1) - 1 = o
        BY <1>1, <3>2
      <4> QED
        BY <1>1, <2>2, <4>1
    <3> QED
      BY <3>1, <3>2
  <2>3. k + 1 \in 1 .. Len(l) + 1 /\ m[k + 1] = i
    <3>1. k + 1 \in 1 .. Len(l) + 1 /\ ~(k + 1 <= k)
      BY <1>1
    <3> QED
      BY <1>1, <3>1
  <2>4. In(M, y, j) <=> \E n \in 1 .. Len(l) + 1 : m[n] = j
    BY <1>1, <1>2, <1>4 DEF In
  <2>5. In(L, y, j) <=> \E o \in 1 .. Len(l) : l[o] = j
    BY <1>4 DEF In
  <2> QED
    BY <1>4, <2>1, <2>2, <2>3, <2>4, <2>5 DEF M
<1> QED
  BY <1>3, <1>4

\* The same for a list without its first.
LEMMA TailEnds ==
    ASSUME NEW l \in Seq(Slot), l # <<>>
    PROVE  /\ First(Tail(l)) = IF Len(l) = 1 THEN NULL ELSE l[2]
           /\ Last(Tail(l)) = IF Len(l) = 1 THEN NULL ELSE Last(l)
           /\ Tail(l) = <<>> <=> Len(l) = 1
<1>1. /\ Tail(l) \in Seq(Slot) /\ Len(Tail(l)) = Len(l) - 1 /\ Len(l) \in Nat \ {0}
      /\ \A n \in 1 .. Len(Tail(l)) : Tail(l)[n] = l[n + 1]
  BY TailIs
<1>2. Tail(l) = <<>> <=> Len(Tail(l)) = 0
  BY <1>1, EmptySeq
<1>3. Tail(l) = <<>> <=> Len(l) = 1
  BY <1>1, <1>2
<1>4. CASE Len(l) = 1
  BY <1>3, <1>4 DEF First, Last
<1>5. CASE Len(l) # 1
  <2>1. /\ 1 \in 1 .. Len(Tail(l)) /\ Len(Tail(l)) \in 1 .. Len(Tail(l)) /\ 1 + 1 = 2
        /\ Len(Tail(l)) + 1 = Len(l)
    BY <1>1, <1>5
  <2>2. Tail(l)[1] = l[2] /\ Tail(l)[Len(Tail(l))] = l[Len(l)]
    BY <1>1, <2>1
  <2> QED
    BY <1>3, <1>5, <2>2 DEF First, Last
<1> QED
  BY <1>3, <1>4, <1>5

LEMMA LessIn ==
    ASSUME NEW nx, NEW L, Fam(nx, L), NEW x \in Ix, L[x] # <<>>
    PROVE  \A y \in Ix, j \in Slot :
              In(Less(L, x), y, j) <=> In(L, y, j) /\ j # L[x][1]
<1> DEFINE l == L[x]
           M == Less(L, x)
<1>1. /\ l \in Seq(Slot) /\ L \in [Ix -> Seq(Slot)] /\ 1 \in 1 .. Len(l)
  BY FamIs DEF Fam
<1>2. Apart(L)
  BY DEF Fam
<1>3. /\ Len(Tail(l)) = Len(l) - 1 /\ Len(l) \in Nat \ {0}
      /\ \A n \in 1 .. Len(Tail(l)) : n + 1 \in 1 .. Len(l) /\ Tail(l)[n] = l[n + 1]
  BY <1>1, TailIs
<1>4. M[x] = Tail(l) /\ \A y \in Ix \ {x} : M[y] = L[y]
  BY <1>1 DEF Less
<1> HIDE DEF M
<1> TAKE y \in Ix, j \in Slot
<1>5. CASE y # x
  <2>1. In(L, y, j) => j # L[x][1]
    BY <1>1, <1>2, <1>5 DEF In, Apart
  <2> QED
    BY <1>4, <1>5, <2>1 DEF In, M
<1>6. CASE y = x
  <2>1. ASSUME NEW n \in 1 .. Len(Tail(l)), Tail(l)[n] = j
        PROVE  (\E o \in 1 .. Len(l) : l[o] = j) /\ j # L[x][1]
    <3>1. n + 1 \in 1 .. Len(L[x]) /\ L[x][n + 1] = j /\ n + 1 # 1
      BY <1>3, <2>1
    <3> QED
      BY <1>1, <1>2, <3>1 DEF Apart
  <2>2. ASSUME NEW o \in 1 .. Len(l), l[o] = j, j # L[x][1]
        PROVE  \E n \in 1 .. Len(Tail(l)) : Tail(l)[n] = j
    <3>1. o # 1
      BY <2>2
    <3>2. o - 1 \in 1 .. Len(Tail(l)) /\ (o - 1) + 1 = o
      BY <1>3, <3>1
    <3> QED
      BY <1>3, <2>2, <3>2
  <2> QED
    BY <1>4, <1>6, <2>1, <2>2 DEF In, M
<1> QED
  BY <1>5, <1>6

\* The fields of q are those of the lists L.  The states of the processes in D agree
\* with the lists that they are on.
Ends(q, L) == q.head = First(L[RQ]) /\ q.tail = Last(L[RQ]) /\ q.sleepQ = First(L[SQ])
Listed(q, L, D) ==
    \A i \in D : /\ q.state[i] = "READY" <=> In(L, RQ, i)
                 /\ q.state[i] = "SLEEP" <=> In(L, SQ, i)
                 /\ \A x \in Slot : In(L, x, i) => q.state[i] = "WAITING"
Linked(q, L, D) ==
    q \in QueueSet(Ptr) /\ Fam(q.next, L) /\ Ends(q, L) /\ Listed(q, L, D)
Waited(q, L, D) ==
    \A x \in D : /\ q.waiting[x] = First(L[x]) /\ q.waitingTail[x] = Last(L[x])
                 /\ L[x] # <<>> => q.state[x] # "STOPPED"
IdleOK(q) == q.state[Idle] \in {"READY", "RUNNING"}

\* The pointers to the ends of a list are NULL where it is empty.
LEMMA EndsAre ==
    ASSUME NEW nx, NEW L, Fam(nx, L), NEW x \in Ix
    PROVE  /\ First(L[x]) = NULL <=> L[x] = <<>>
           /\ Last(L[x]) = NULL <=> L[x] = <<>>
           /\ L[x] # <<>> => /\ First(L[x]) = L[x][1] /\ Last(L[x]) = L[x][Len(L[x])]
                             /\ 1 \in 1 .. Len(L[x]) /\ Len(L[x]) \in 1 .. Len(L[x])
                             /\ First(L[x]) \in Slot /\ Last(L[x]) \in Slot
<1>1. /\ Len(L[x]) \in Nat /\ \A k \in 1 .. Len(L[x]) : L[x][k] \in Slot
      /\ L[x] = <<>> <=> Len(L[x]) = 0
  BY FamIs
<1>2. L[x] # <<>> => 1 \in 1 .. Len(L[x]) /\ Len(L[x]) \in 1 .. Len(L[x])
  BY <1>1
<1> QED
  BY <1>1, <1>2, NullIsNoSlot DEF First, Last

\* The fields that ready() leaves.
LEMMA ReadyIs ==
    ASSUME NEW q \in QueueSet(Ptr), NEW i \in Slot
    PROVE  /\ q.tail = NULL => ready(q, i).next = [q.next EXCEPT ![i] = NULL]
           /\ q.tail # NULL => ready(q, i).next =
                  [[q.next EXCEPT ![i] = NULL] EXCEPT ![q.tail] = i]
           /\ ready(q, i).state = [q.state EXCEPT ![i] = "READY"]
           /\ ready(q, i).tail = i /\ ready(q, i).sleepQ = q.sleepQ /\ ready(q, i).p = q.p
           /\ ready(q, i).head = IF q.tail # NULL THEN q.head ELSE i
           /\ ready(q, i).waiting = q.waiting /\ ready(q, i).waitingTail = q.waitingTail
           /\ ready(q, i).sleepdiff = q.sleepdiff
<1>1. CASE q.tail = NULL
  BY <1>1 DEF ready, QueueSet
<1>2. CASE q.tail # NULL
  BY <1>2 DEF ready, QueueSet
<1> QED
  BY <1>1, <1>2

\* ready() puts a process that is on no list at the end of the ready queue.
LEMMA ReadyLinked ==
    ASSUME NEW q, NEW L, NEW D, NEW i \in Slot, Linked(q, L, D), Slot \ {i} \subseteq D,
           Loose(L, i)
    PROVE  /\ Linked(ready(q, i), Put(L, RQ, Len(L[RQ]), i), Slot)
           /\ \A x \in Slot : Put(L, RQ, Len(L[RQ]), i)[x] = L[x]
<1> DEFINE l == L[RQ]
           k == Len(l)
           r == ready(q, i)
           M == Put(L, RQ, k, i)
<1>1. /\ q \in QueueSet(Ptr) /\ Fam(q.next, L) /\ Ends(q, L) /\ Listed(q, L, D)
      /\ RQ \in Ix /\ SQ \in Ix /\ RQ # SQ /\ Slot \subseteq Ix /\ RQ \notin Slot
  BY SlotsAre DEF Linked
<1>2. /\ l \in Seq(Slot) /\ k \in Nat /\ k \in 0 .. Len(l) /\ L \in [Ix -> Seq(Slot)]
      /\ l = <<>> <=> k = 0
  <2>1. l \in Seq(Slot) /\ k \in Nat /\ (l = <<>> <=> k = 0)
    BY <1>1, FamIs
  <2>2. k \in 0 .. k
    BY <2>1
  <2> QED
    BY <1>1, <2>1, <2>2 DEF Fam
<1>3. /\ q.tail = NULL <=> l = <<>>
      /\ l # <<>> => q.tail \in Slot /\ q.tail = l[k] /\ k \in 1 .. Len(l)
  BY <1>1, EndsAre DEF Ends
<1>4. l # <<>> => q.tail # i
  BY <1>1, <1>3 DEF Loose, In
<1> HIDE DEF k
<1>5. r \in QueueSet(Ptr)
  BY <1>1, ReadyTypes
<1>6. /\ r.next \in [Slot -> Ptr] /\ r.next[i] = NULL
      /\ \A j \in Slot \ {i} : q.tail = NULL \/ j # q.tail => r.next[j] = q.next[j]
      /\ q.tail # NULL /\ q.tail # i => r.next[q.tail] = i
      /\ r.state = [q.state EXCEPT ![i] = "READY"] /\ r.tail = i
      /\ r.head = (IF q.tail # NULL THEN q.head ELSE i) /\ r.sleepQ = q.sleepQ
  <2>1. q.next \in [Slot -> Ptr] /\ q.tail \in Ptr /\ r.next \in [Slot -> Ptr]
    BY <1>1, <1>5 DEF QueueSet
  <2>2. /\ q.tail = NULL => r.next = [q.next EXCEPT ![i] = NULL]
        /\ q.tail # NULL => r.next = [[q.next EXCEPT ![i] = NULL] EXCEPT ![q.tail] = i]
        /\ r.state = [q.state EXCEPT ![i] = "READY"]
        /\ r.tail = i /\ r.sleepQ = q.sleepQ
        /\ r.head = IF q.tail # NULL THEN q.head ELSE i
    BY <1>1, ReadyIs
  <2> HIDE DEF r
  <2>3. q.tail # NULL => q.tail \in Slot /\ q.tail # i
    BY <1>3, <1>4
  <2>4. CASE q.tail = NULL
    BY <2>1, <2>2, <2>4
  <2>5. CASE q.tail # NULL
    BY <2>1, <2>2, <2>3, <2>5
  <2> QED
    BY <2>4, <2>5
<1>7. Fam(r.next, M)
  <2>10. M = [L EXCEPT ![RQ] = Insert(@, k, i)] /\ r.next \in [Slot -> Ptr]
    BY <1>6 DEF Put
  <2> HIDE DEF r
  <2>1. r.next[i] = IF k = Len(l) THEN NULL ELSE l[k + 1]
    BY <1>6 DEF k
  <2>2. k > 0 => r.next[l[k]] = i
    BY <1>2, <1>3, <1>4, <1>6, NullIsNoSlot
  <2>3. \A j \in Slot \ {i} : k = 0 \/ j # l[k] => r.next[j] = q.next[j]
    BY <1>2, <1>3, <1>6
  <2> QED
    <3>1. k \in 0 .. Len(L[RQ]) /\ Fam(q.next, L) /\ RQ \in Ix
      BY <1>1, <1>2
    <3> HIDE DEF M, r
    <3> QED
      BY ZenonT(40), <2>10, <2>1, <2>2, <2>3, <3>1, FamInsert
<1>8. Ends(r, M)
  <2>1. M[RQ] = Insert(l, k, i) /\ M[SQ] = L[SQ]
    BY <1>1, <1>2 DEF Put
  <2>2. First(M[RQ]) = (IF k = 0 THEN i ELSE First(l)) /\ Last(M[RQ]) = i
    BY <1>2, <2>1, InsertEnds DEF k
  <2> QED
    BY <1>1, <1>2, <1>3, <1>6, <2>1, <2>2 DEF Ends
<1>9. Listed(r, M, Slot)
  <2>1. \A y \in Ix, j \in Slot : In(M, y, j) <=> In(L, y, j) \/ (y = RQ /\ j = i)
    BY ZenonT(40), <1>1, <1>2, InsertIn
  <2>2. \A y \in Ix : ~In(L, y, i)
    BY DEF Loose
  <2>3. q.state \in [Slot -> States]
    BY <1>1 DEF QueueSet
  <2> HIDE DEF M, r
  <2> QED
    BY <1>1, <1>6, <2>1, <2>2, <2>3 DEF Listed
<1>10. \A x \in Slot : M[x] = L[x]
  BY <1>1, <1>2 DEF Put
<1> QED
  BY <1>5, <1>7, <1>8, <1>9, <1>10 DEF Linked, k

\* The lists of those that wait do not change with that.
LEMMA ReadyWaited ==
    ASSUME NEW q \in QueueSet(Ptr), NEW L, NEW M, NEW D \in SUBSET Slot, NEW i \in Slot,
           Waited(q, L, D), \A x \in Slot : M[x] = L[x]
    PROVE  Waited(ready(q, i), M, D) /\ (IdleOK(q) => IdleOK(ready(q, i)))
<1>1. /\ ready(q, i).waiting = q.waiting /\ ready(q, i).waitingTail = q.waitingTail
      /\ ready(q, i).state = [q.state EXCEPT ![i] = "READY"] /\ q.state \in [Slot -> States]
  BY DEF ready, QueueSet
<1>2. Idle \in Slot
  BY KernelAssumption DEF Idle, Slot
<1> QED
  BY <1>1, <1>2 DEF Waited, IdleOK

\* The lists at the points where a process runs, and where none does: between the
\* statement that blocks the process and the return of next().
Sane(q, L) == Linked(q, L, Slot) /\ Waited(q, L, Slot) /\ IdleOK(q)
Running(q, L) ==
    Sane(q, L) /\ q.p \in Slot /\ \A i \in Slot : q.state[i] = "RUNNING" <=> i = q.p
Blocked(q, L) ==
    Sane(q, L) /\ q.p # NULL /\ \A i \in Slot : q.state[i] # "RUNNING"

\* The fields that next() and the dispatcher leave.
LEMMA SwitchIs ==
    ASSUME NEW q \in QueueSet(Ptr), q.p # NULL, q.head \in Slot
    PROVE  LET s == Resumed(switch(q)) IN
           /\ s.p = q.head /\ s.head = q.next[q.head]
           /\ s.tail = IF q.next[q.head] = NULL THEN NULL ELSE q.tail
           /\ s.next = [q.next EXCEPT ![q.head] = NULL]
           /\ s.state = [q.state EXCEPT ![q.head] = "RUNNING"]
           /\ s.sleepQ = q.sleepQ /\ s.sleepdiff = q.sleepdiff
           /\ s.waiting = q.waiting /\ s.waitingTail = q.waitingTail
<1> DEFINE t == switch(q)
<1>1. q.head # NULL
  BY NullIsNoSlot
<1>2. /\ t.p = q.head /\ t.head = q.next[q.head]
      /\ t.tail = IF q.next[q.head] = NULL THEN NULL ELSE q.tail
      /\ t.next = [q.next EXCEPT ![q.head] = NULL] /\ t.state = q.state
      /\ t.sleepQ = q.sleepQ /\ t.waiting = q.waiting /\ t.waitingTail = q.waitingTail
      /\ t.sleepdiff = q.sleepdiff
  BY <1>1 DEF switch, QueueSet
<1>3. t \in QueueSet(Ptr)
  BY SwitchTypes
<1> HIDE DEF t
<1>4. Resumed(t) = [t EXCEPT !.state[t.p] = "RUNNING"]
  BY <1>1, <1>2 DEF Resumed
<1>5. /\ Resumed(t).p = t.p /\ Resumed(t).head = t.head /\ Resumed(t).tail = t.tail
      /\ Resumed(t).next = t.next /\ Resumed(t).state = [t.state EXCEPT ![t.p] = "RUNNING"]
      /\ Resumed(t).sleepQ = t.sleepQ /\ Resumed(t).sleepdiff = t.sleepdiff
      /\ Resumed(t).waiting = t.waiting /\ Resumed(t).waitingTail = t.waitingTail
  BY <1>3, <1>4 DEF QueueSet
<1> QED
  BY <1>2, <1>5 DEF t

\* next() takes the first of the ready queue: there is one, if need be the idle process.
LEMMA SwitchRuns ==
    ASSUME NEW q, NEW L, Blocked(q, L)
    PROVE  Running(Resumed(switch(q)), Less(L, RQ))
<1> DEFINE s == Resumed(switch(q))
           M == Less(L, RQ)
           l == L[RQ]
<1>1. /\ q \in QueueSet(Ptr) /\ Fam(q.next, L) /\ Ends(q, L) /\ Listed(q, L, Slot)
      /\ Waited(q, L, Slot) /\ IdleOK(q) /\ q.p # NULL
      /\ \A i \in Slot : q.state[i] # "RUNNING"
  BY DEF Blocked, Sane, Linked
<1>2. /\ RQ \in Ix /\ SQ \in Ix /\ RQ # SQ /\ Slot \subseteq Ix /\ RQ \notin Slot
      /\ Idle \in Slot /\ q.state \in [Slot -> States] /\ q.next \in [Slot -> Ptr]
  BY <1>1, SlotsAre, KernelAssumption DEF QueueSet, Idle, Slot
<1>3. l # <<>>
  <2>1. In(L, RQ, Idle)
    BY <1>1, <1>2 DEF IdleOK, Listed
  <2>2. \E k \in 1 .. Len(l) : l[k] = Idle
    BY <2>1 DEF In
  <2>3. Len(<<>>) = 0
    OBVIOUS
  <2> QED
    BY <2>2, <2>3
<1>4. /\ q.head = l[1] /\ q.head \in Slot /\ q.tail = Last(l) /\ q.sleepQ = First(L[SQ])
      /\ l \in Seq(Slot) /\ Len(l) \in Nat /\ 1 \in 1 .. Len(l)
  <2>1. First(l) = l[1] /\ First(l) \in Slot /\ 1 \in 1 .. Len(l)
    BY <1>1, <1>2, <1>3, EndsAre
  <2>2. l \in Seq(Slot) /\ Len(l) \in Nat
    BY <1>1, <1>2, FamIs
  <2> QED
    BY <1>1, <2>1, <2>2 DEF Ends
<1>5. /\ s.p = q.head /\ s.head = q.next[q.head]
      /\ s.tail = IF q.next[q.head] = NULL THEN NULL ELSE q.tail
      /\ s.next = [q.next EXCEPT ![q.head] = NULL]
      /\ s.state = [q.state EXCEPT ![q.head] = "RUNNING"]
      /\ s.sleepQ = q.sleepQ
      /\ s.waiting = q.waiting /\ s.waitingTail = q.waitingTail
  BY <1>1, <1>4, SwitchIs
<1>6. s \in QueueSet(Ptr)
  BY <1>1, SwitchTypes, ResumedTypes
<1> HIDE DEF s
<1>7. q.next[q.head] = IF Len(l) = 1 THEN NULL ELSE l[2]
  <2>1. q.next[L[RQ][1]] = IF 1 = Len(L[RQ]) THEN NULL ELSE L[RQ][1 + 1]
    BY <1>1, <1>2, <1>4 DEF Fam, Chained
  <2> QED
    BY <1>4, <2>1
<1>8. Len(l) # 1 => l[2] # NULL
  <2>0. \A c \in Nat : 1 \in 1 .. c /\ c # 1 => 2 \in 1 .. c
    OBVIOUS
  <2>1. Len(l) # 1 => 2 \in 1 .. Len(l)
    BY <1>4, <2>0
  <2> QED
    BY <1>1, <1>2, <2>1, FamIs, NullIsNoSlot
<1>9. /\ M[RQ] = Tail(l) /\ \A y \in Ix \ {RQ} : M[y] = L[y]
  BY <1>1, <1>2 DEF Less, Fam
<1>10. Fam(s.next, M) /\ Loose(M, q.head)
  <2>1. s.next \in [Slot -> Ptr] /\ \A j \in Slot \ {l[1]} : s.next[j] = q.next[j]
    BY <1>2, <1>4, <1>5, <1>6 DEF QueueSet
  <2> QED
    BY <1>1, <1>2, <1>3, <1>4, <2>1, FamCut
<1>11. Ends(s, M)
  <2>1. /\ First(Tail(l)) = IF Len(l) = 1 THEN NULL ELSE l[2]
        /\ Last(Tail(l)) = IF Len(l) = 1 THEN NULL ELSE Last(l)
    BY <1>3, <1>4, TailEnds
  <2> QED
    <3> HIDE DEF M
    <3>1. /\ M[RQ] = Tail(l) /\ M[SQ] = L[SQ]
      BY <1>2, <1>9
    <3>2. s.head = First(Tail(l))
      BY <1>5, <1>7, <2>1
    <3>3. s.tail = Last(Tail(l))
      BY <1>4, <1>5, <1>7, <1>8, <2>1
    <3> QED
      BY <1>4, <1>5, <3>1, <3>2, <3>3 DEF Ends
<1>12. Listed(s, M, Slot)
  <2>1. \A y \in Ix, j \in Slot : In(M, y, j) <=> In(L, y, j) /\ j # q.head
    BY <1>1, <1>2, <1>3, <1>4, LessIn
  <2> HIDE DEF M
  <2> QED
    BY <1>1, <1>2, <1>4, <1>5, <2>1 DEF Listed
<1>13. Waited(s, M, Slot)
  <2>1. \A x \in Slot : M[x] = L[x]
    BY <1>2, <1>9
  <2> HIDE DEF M
  <2> QED
    BY <1>1, <1>2, <1>4, <1>5, <2>1 DEF Waited
<1>14. IdleOK(s) /\ s.p \in Slot /\ \A i \in Slot : s.state[i] = "RUNNING" <=> i = s.p
  BY <1>1, <1>2, <1>4, <1>5 DEF IdleOK
<1> QED
  BY <1>6, <1>10, <1>11, <1>12, <1>13, <1>14 DEF Running, Sane, Linked, s

\* Nothing else than the pointers and the states matters to the lists.
LEMMA SameLists ==
    ASSUME NEW q, NEW L, NEW D, NEW s \in QueueSet(Ptr),
           s.state = q.state, s.next = q.next, s.head = q.head, s.tail = q.tail,
           s.sleepQ = q.sleepQ, s.waiting = q.waiting, s.waitingTail = q.waitingTail
    PROVE  /\ Linked(q, L, D) => Linked(s, L, D)
           /\ Waited(q, L, D) => Waited(s, L, D)
           /\ IdleOK(q) => IdleOK(s)
  BY DEF Linked, Waited, IdleOK, Ends, Listed

\* Where a process that is on no list points does not either, nor its state if it is not
\* among those that are on a list.
LEMMA LooseState ==
    ASSUME NEW q, NEW L, NEW D \in SUBSET Slot, NEW i \in Slot, Linked(q, L, D \ {i}), Loose(L, i),
           NEW s \in QueueSet(Ptr), s.state[i] \notin {"READY", "SLEEP"},
           \A j \in Slot \ {i} : s.state[j] = q.state[j] /\ s.next[j] = q.next[j],
           s.head = q.head, s.tail = q.tail, s.sleepQ = q.sleepQ
    PROVE  Linked(s, L, D)
<1>1. /\ Fam(q.next, L) /\ Ends(q, L) /\ Listed(q, L, D \ {i}) /\ s.next \in [Slot -> Ptr]
  BY DEF Linked, QueueSet
<1>2. Fam(s.next, L)
  BY <1>1, FamLoose
<1>3. Ends(s, L)
  BY <1>1 DEF Ends
<1>4. \A x \in Slot : x \in Ix /\ ~In(L, x, i)
  BY SlotsAre DEF Loose
<1>5. ~In(L, RQ, i) /\ ~In(L, SQ, i)
  BY SlotsAre DEF Loose
<1>6. Listed(s, L, D)
  BY <1>1, <1>4, <1>5 DEF Listed
<1> QED
  BY <1>2, <1>3, <1>6 DEF Linked

\* A process that runs or is stopped is on no list.
LEMMA RunningLoose ==
    ASSUME NEW q, NEW L, NEW D, NEW i \in D, Linked(q, L, D), q.state[i] \in {"RUNNING", "STOPPED"}
    PROVE  Loose(L, i)
<1>1. ASSUME NEW x \in Ix, In(L, x, i)  PROVE FALSE
  <2>1. x = RQ \/ x = SQ \/ x \in Slot
    BY FuelIsEnough DEF Ix, RQ, SQ, Slot
  <2> QED
    BY <1>1, <2>1 DEF Linked, Listed
<1> QED
  BY <1>1 DEF Loose

\* The first of another list than the ready queue is taken off.
CutFrom(q, L, x, s) ==
    /\ Linked(q, L, Slot) /\ x \in Ix \ {RQ} /\ L[x] # <<>>
    /\ s \in QueueSet(Ptr) /\ s.state = q.state
    /\ \A j \in Slot \ {L[x][1]} : s.next[j] = q.next[j]
    /\ s.head = q.head /\ s.tail = q.tail /\ s.sleepQ = First(Less(L, x)[SQ])

LEMMA CutLinked ==
    ASSUME NEW q, NEW L, NEW x, NEW s, CutFrom(q, L, x, s)
    PROVE  /\ L[x][1] \in Slot /\ Linked(s, Less(L, x), Slot \ {L[x][1]})
           /\ Loose(Less(L, x), L[x][1]) /\ First(L[x]) = L[x][1] /\ In(L, x, L[x][1])
           /\ \A y \in Ix \ {x} : Less(L, x)[y] = L[y]
<1> DEFINE w == L[x][1]
           M == Less(L, x)
<1>0. /\ Linked(q, L, Slot) /\ x \in Ix \ {RQ} /\ L[x] # <<>>
      /\ s \in QueueSet(Ptr) /\ s.state = q.state
      /\ \A j \in Slot \ {L[x][1]} : s.next[j] = q.next[j]
      /\ s.head = q.head /\ s.tail = q.tail /\ s.sleepQ = First(Less(L, x)[SQ])
  BY DEF CutFrom
<1>1. /\ Fam(q.next, L) /\ Ends(q, L) /\ Listed(q, L, Slot) /\ s.next \in [Slot -> Ptr]
      /\ RQ \in Ix /\ SQ \in Ix /\ Slot \subseteq Ix
  BY <1>0, SlotsAre DEF Linked, QueueSet
<1>2. Fam(s.next, M) /\ Loose(M, w) /\ w \in Slot
  BY <1>0, <1>1, FamCut
<1>3. \A y \in Ix \ {x} : M[y] = L[y]
  BY <1>0, <1>1 DEF Less, Fam
<1>4. First(L[x]) = w /\ In(L, x, w)
  <2>1. First(L[x]) = w /\ 1 \in 1 .. Len(L[x])
    BY <1>0, <1>1, EndsAre
  <2> QED
    BY <2>1 DEF In
<1>5. \A y \in Ix, j \in Slot : In(M, y, j) <=> In(L, y, j) /\ j # w
  <2>1. Fam(q.next, L) /\ x \in Ix /\ L[x] # <<>>
    BY <1>0, <1>1
  <2> QED
    BY <2>1, LessIn
<1> HIDE DEF M, w
<1>6. Ends(s, M)
  BY <1>0, <1>1, <1>3 DEF Ends, M
<1>7. Listed(s, M, Slot \ {w})
  BY <1>0, <1>1, <1>5 DEF Listed
<1> QED
  BY <1>0, <1>2, <1>3, <1>4, <1>6, <1>7 DEF Linked, M, w

\* The first of a list is moved to the end of the ready queue; the first m are.
Shift(L, x) == Put(Less(L, x), RQ, Len(Less(L, x)[RQ]), L[x][1])
Moved(L, x, m) ==
    [L EXCEPT ![x] = SubSeq(L[x], m + 1, Len(L[x])),
              ![RQ] = L[RQ] \o SubSeq(L[x], 1, m)]

LEMMA MovedIs ==
    ASSUME NEW L \in [Ix -> Seq(Slot)], NEW x \in Ix \ {RQ}, NEW m \in 0 .. Len(L[x])
    PROVE  LET M == Moved(L, x, m)
           IN  /\ M \in [Ix -> Seq(Slot)]
               /\ M[x] = SubSeq(L[x], m + 1, Len(L[x])) /\ M[RQ] = L[RQ] \o SubSeq(L[x], 1, m)
               /\ \A y \in Ix \ {x, RQ} : M[y] = L[y]
               /\ Len(L[x]) \in Nat /\ Len(M[x]) = Len(L[x]) - m
               /\ \A n \in 1 .. Len(M[x]) : m + n \in 1 .. Len(L[x]) /\ M[x][n] = L[x][m + n]
<1> DEFINE l == L[x]
           a == SubSeq(l, m + 1, Len(l))
           b == SubSeq(l, 1, m)
           M == Moved(L, x, m)
<1>1. RQ \in Ix /\ L[RQ] \in Seq(Slot) /\ l \in Seq(Slot) /\ Len(l) \in Nat /\ m \in Nat
  <2>1. RQ \in Ix /\ L[RQ] \in Seq(Slot) /\ l \in Seq(Slot)
    BY SlotsAre
  <2> HIDE DEF l
  <2>2. Len(l) \in Nat
    BY <2>1, LenProperties
  <2> QED
    BY <2>1, <2>2 DEF l
<1> HIDE DEF l
<1>2. /\ a \in Seq(Slot) /\ Len(a) = Len(l) - m
      /\ \A n \in 1 .. Len(a) : m + n \in 1 .. Len(l) /\ a[n] = l[m + n]
  <2>1. a = SubSeq(l, m + 1, Len(l)) /\ m <= Len(l)
    BY <1>1 DEF l
  <2> HIDE DEF a
  <2>2. a \in Seq(Slot) /\ Len(a) = Len(l) - m
    BY <1>1, <2>1
  <2>3. ASSUME NEW n \in 1 .. Len(a)  PROVE m + n \in 1 .. Len(l) /\ a[n] = l[m + n]
    BY <1>1, <2>1, <2>2
  <2> QED
    BY <2>2, <2>3
<1>3. b \in Seq(Slot) /\ L[RQ] \o b \in Seq(Slot)
  <2>1. b \in Seq(Slot)
    BY <1>1 DEF l
  <2> HIDE DEF b
  <2> QED
    BY <1>1, <2>1
<1>4. M = [L EXCEPT ![x] = a, ![RQ] = L[RQ] \o b]
  BY DEF Moved, l
<1> HIDE DEF a, b, M
<1>5. M \in [Ix -> Seq(Slot)]
  BY <1>1, <1>2, <1>3, <1>4
<1>6. M[x] = a /\ M[RQ] = L[RQ] \o b /\ \A y \in Ix \ {x, RQ} : M[y] = L[y]
  BY <1>1, <1>4
<1> QED
  BY <1>1, <1>2, <1>5, <1>6 DEF a, b, l, M

\* The moves, one after the other.
LEMMA MovedNone ==
    ASSUME NEW L \in [Ix -> Seq(Slot)], NEW x \in Ix \ {RQ}
    PROVE  Moved(L, x, 0) = L
<1>1. RQ \in Ix /\ L[RQ] \in Seq(Slot) /\ L[x] \in Seq(Slot)
  BY SlotsAre
<1>2. ASSUME NEW l \in Seq(Slot)
      PROVE  SubSeq(l, 0 + 1, Len(l)) = l /\ SubSeq(l, 1, 0) = <<>> /\ l \o <<>> = l
  BY <1>2
<1>3. SubSeq(L[x], 0 + 1, Len(L[x])) = L[x] /\ L[RQ] \o SubSeq(L[x], 1, 0) = L[RQ]
  BY <1>1, <1>2
<1> QED
  BY <1>1, <1>3 DEF Moved

\* Behind all of a sequence is behind its last.
LEMMA InsertLast ==
    ASSUME NEW q \in Seq(Slot), NEW i \in Slot
    PROVE  Insert(q, Len(q), i) = Append(q, i)
<1>1. Len(q) \in Nat /\ Len(q) \in 0 .. Len(q)
  BY LenProperties
<1>2. /\ Insert(q, Len(q), i) \in Seq(Slot) /\ Len(Insert(q, Len(q), i)) = Len(q) + 1
      /\ \A n \in 1 .. Len(q) + 1 : Insert(q, Len(q), i)[n] =
             IF n <= Len(q) THEN q[n] ELSE IF n = Len(q) + 1 THEN i ELSE q[n - 1]
  BY <1>1, InsertIs
<1>3. /\ Append(q, i) \in Seq(Slot) /\ Len(Append(q, i)) = Len(q) + 1
      /\ \A n \in 1 .. Len(q) : Append(q, i)[n] = q[n]
      /\ Append(q, i)[Len(q) + 1] = i
  BY AppendProperties
<1>4. \A n \in 1 .. Len(q) + 1 : Insert(q, Len(q), i)[n] = Append(q, i)[n]
  <2>1. ASSUME NEW n \in 1 .. Len(q) + 1
        PROVE  n \in 1 .. Len(q) \/ (n = Len(q) + 1 /\ ~(n <= Len(q)))
    BY <1>1
  <2>2. \A n \in 1 .. Len(q) : n <= Len(q)
    BY <1>1
  <2> QED
    BY <1>2, <1>3, <2>1, <2>2
<1> QED
  BY <1>2, <1>3, <1>4, SeqEqual

LEMMA MovedOne ==
    ASSUME NEW L \in [Ix -> Seq(Slot)], NEW x \in Ix \ {RQ}, NEW m \in 0 .. Len(L[x]),
           m # Len(L[x])
    PROVE  /\ m + 1 \in 0 .. Len(L[x]) /\ Moved(L, x, m)[x] # <<>>
           /\ m + 1 \in 1 .. Len(L[x]) /\ Moved(L, x, m)[x][1] = L[x][m + 1]
           /\ Shift(Moved(L, x, m), x) = Moved(L, x, m + 1)
<1> DEFINE l == L[x]
           r == L[RQ]
           M == Moved(L, x, m)
           N == Moved(L, x, m + 1)
           S == Shift(M, x)
<1>1. /\ RQ \in Ix /\ r \in Seq(Slot) /\ l \in Seq(Slot) /\ Len(l) \in Nat /\ m \in Nat
      /\ m < Len(l)
  <2>1. RQ \in Ix /\ r \in Seq(Slot) /\ l \in Seq(Slot)
    BY SlotsAre
  <2> HIDE DEF l
  <2>2. Len(l) \in Nat
    BY <2>1, LenProperties
  <2> QED
    BY <2>1, <2>2 DEF l
<1>2. m + 1 \in 0 .. Len(l) /\ m + 1 \in 1 .. Len(l)
  BY <1>1
<1>3. /\ M \in [Ix -> Seq(Slot)] /\ M[x] = SubSeq(l, m + 1, Len(l))
      /\ M[RQ] = r \o SubSeq(l, 1, m) /\ \A y \in Ix \ {x, RQ} : M[y] = L[y]
      /\ Len(M[x]) = Len(l) - m
      /\ \A n \in 1 .. Len(M[x]) : m + n \in 1 .. Len(l) /\ M[x][n] = l[m + n]
  BY ZenonT(40), MovedIs
<1>4. /\ N \in [Ix -> Seq(Slot)] /\ N[x] = SubSeq(l, (m + 1) + 1, Len(l))
      /\ N[RQ] = r \o SubSeq(l, 1, m + 1) /\ \A y \in Ix \ {x, RQ} : N[y] = L[y]
  BY ZenonT(40), <1>2, MovedIs
<1> HIDE DEF M, N
<1>5. M[x] # <<>> /\ M[x][1] = l[m + 1] /\ l[m + 1] \in Slot
  <2>1. 1 \in 1 .. Len(M[x]) /\ Len(M[x]) # 0
    BY <1>1, <1>3
  <2>2. M[x] # <<>>
    BY <2>1, EmptySeq
  <2>3. l[m + 1] \in Slot
    BY <1>1, <1>2, ElementOfSeq
  <2> QED
    BY <1>3, <2>1, <2>2, <2>3
<1>6. S = [[M EXCEPT ![x] = Tail(M[x])] EXCEPT ![RQ] = Insert(M[RQ], Len(M[RQ]), l[m + 1])]
  <2>1. [M EXCEPT ![x] = Tail(@)][RQ] = M[RQ]
    BY <1>1, <1>3
  <2> QED
    BY <1>1, <1>3, <1>5, <2>1 DEF Shift, Put, Less
<1>7. Tail(M[x]) = N[x]
  <2>1. ASSUME NEW q \in Seq(Slot), NEW k \in Nat, k < Len(q)
        PROVE  Tail(SubSeq(q, k + 1, Len(q))) = SubSeq(q, (k + 1) + 1, Len(q))
    BY <2>1
  <2> QED
    BY <1>1, <1>3, <1>4, <2>1
<1>8. Insert(M[RQ], Len(M[RQ]), l[m + 1]) = N[RQ]
  <2>2. M[RQ] \in Seq(Slot)
    BY <1>1, <1>3
  <2>3. ASSUME NEW a \in Seq(Slot), NEW q \in Seq(Slot), NEW k \in Nat, k < Len(q)
        PROVE  Append(a \o SubSeq(q, 1, k), q[k + 1]) = a \o SubSeq(q, 1, k + 1)
    <3>1. /\ k + 1 \in 1 .. Len(q) /\ 1 \in 1 .. Len(q) /\ k + 1 \in 1 .. Len(q)
          /\ (k + 1) - 1 = k
      BY <2>3, LenProperties
    <3>2. SubSeq(q, 1, k) \in Seq(Slot) /\ q[k + 1] \in Slot /\ <<q[k + 1]>> \in Seq(Slot)
      <4>1. q[k + 1] \in Slot
        BY <3>1, ElementOfSeq
      <4>2. \A n \in 1 .. k : q[n] \in Slot
        <5>1. \A n \in 1 .. k : n \in 1 .. Len(q)
          BY <2>3, LenProperties
        <5> QED
          BY <5>1, ElementOfSeq
      <4> QED
        BY <4>1, <4>2, SubSeqProperties
    <3>3. SubSeq(q, 1, k + 1) = SubSeq(q, 1, k) \o <<q[k + 1]>>
      <4>1. SubSeq(q, 1, k + 1) = SubSeq(q, 1, (k + 1) - 1) \o <<q[k + 1]>>
        BY ZenonT(40), <3>1, SubSeqRecursiveSecond
      <4> QED
        BY <3>1, <4>1
    <3>4. a \o SubSeq(q, 1, k) \in Seq(Slot)
      BY <3>2, ConcatProperties
    <3>5. Append(a \o SubSeq(q, 1, k), q[k + 1]) = (a \o SubSeq(q, 1, k)) \o <<q[k + 1]>>
      BY <3>2, <3>4, AppendIsConcat
    <3>6. (a \o SubSeq(q, 1, k)) \o <<q[k + 1]>> = a \o (SubSeq(q, 1, k) \o <<q[k + 1]>>)
      <4> DEFINE u == SubSeq(q, 1, k)
                 t == <<q[k + 1]>>
      <4>1. u \in Seq(Slot) /\ t \in Seq(Slot)
        BY <3>2
      <4> HIDE DEF u, t
      <4>2. (a \o u) \o t = a \o (u \o t)
        BY SMTT(30), <4>1, ConcatAssociative
      <4> QED
        BY <4>2 DEF u, t
    <3> QED
      BY <3>3, <3>5, <3>6
  <2>4. Insert(M[RQ], Len(M[RQ]), l[m + 1]) = Append(M[RQ], l[m + 1])
    BY <1>5, <2>2, InsertLast
  <2>5. Append(r \o SubSeq(l, 1, m), l[m + 1]) = r \o SubSeq(l, 1, m + 1)
    <3> HIDE DEF l, r
    <3> QED
      BY <1>1, <2>3
  <2> QED
    BY <1>3, <1>4, <2>4, <2>5
<1>9. S = N
  <2> DEFINE T == [[M EXCEPT ![x] = N[x]] EXCEPT ![RQ] = N[RQ]]
  <2>1. T \in [Ix -> Seq(Slot)] /\ \A y \in Ix : T[y] = N[y]
    BY <1>1, <1>3, <1>4
  <2> QED
    BY <1>4, <1>6, <1>7, <1>8, <2>1
<1> QED
  BY <1>2, <1>5, <1>9 DEF M, N

\* The fields of the others that a loop leaves alone.
Kept(q, r, M) ==
    /\ r.sleepdiff = q.sleepdiff
    /\ \A j \in Slot : ~In(M, RQ, j) => r.state[j] = q.state[j]

\* The loop of removeWaiting() on the list of i: each turn readies the first.  The last
\* of two or more stays WAITING, on no list: waiting[i] is NULL before its turn.
Releasing(s, i, me, L) ==
    /\ Linked(s, L, Slot) /\ Waited(s, L, Slot \ {i}) /\ IdleOK(s)
    /\ s.state[i] = "STOPPED" /\ s.p = me /\ \A j \in Slot : s.state[j] # "RUNNING"
    /\ \/ s.waiting[i] = NULL
       \/ s.waiting[i] = First(L[i]) /\ s.waitingTail[i] = Last(L[i]) /\ L[i] # <<>>

\* The fields that a turn of the loop leaves before ready().
LEMMA CutIs ==
    ASSUME NEW s \in QueueSet(Ptr), NEW i \in Slot, s.waiting[i] \in Slot
    PROVE  LET c == CutFirst(s, i)
               w == s.waiting[i] IN
           /\ c \in QueueSet(Ptr) /\ c.state = s.state /\ c.p = s.p
           /\ c.next = [s.next EXCEPT ![w] = NULL]
           /\ c.head = s.head /\ c.tail = s.tail /\ c.sleepQ = s.sleepQ
           /\ c.waitingTail = s.waitingTail /\ c.sleepdiff = s.sleepdiff
           /\ c.waiting = [s.waiting EXCEPT ![i] =
                              IF s.next[w] = s.waitingTail[i] THEN NULL ELSE s.next[w]]
<1>1. s.next[s.waiting[i]] \in Ptr
  BY DEF QueueSet
<1>2. CutFirst(s, i) \in QueueSet(Ptr)
  BY <1>1 DEF CutFirst, QueueSet, Ptr
<1> QED
  BY <1>2 DEF CutFirst, QueueSet

LEMMA ReleaseKeeps ==
    ASSUME NEW s \in QueueSet(Ptr), NEW i \in Slot, NEW me, NEW L, Releasing(s, i, me, L),
           s.waiting[i] # NULL
    PROVE  LET r == ReleaseTurn(s, i)
               N == Shift(L, i)
           IN  /\ Releasing(r, i, me, N) /\ Kept(s, r, N)
               /\ r.waiting[i] = NULL <=> Len(L[i]) <= 2
               /\ \A j \in Slot : In(L, RQ, j) => In(N, RQ, j)
<1>2. s.waiting[i] # NULL
  OBVIOUS
<1>3. LET r == ReleaseTurn(s, i)
          N == Shift(L, i)
      IN  /\ Releasing(r, i, me, N) /\ Kept(s, r, N)
          /\ r.waiting[i] = NULL <=> Len(L[i]) <= 2
          /\ \A j \in Slot : In(L, RQ, j) => In(N, RQ, j)
  <2> DEFINE w == s.waiting[i]
             c == CutFirst(s, i)
             r == ready(c, w)
             M == Less(L, i)
             N == Put(M, RQ, Len(M[RQ]), w)
             l == L[i]
  <2>1. /\ Linked(s, L, Slot) /\ Waited(s, L, Slot \ {i}) /\ IdleOK(s)
        /\ s.state[i] = "STOPPED" /\ s.p = me /\ \A j \in Slot : s.state[j] # "RUNNING"
        /\ w = First(L[i]) /\ s.waitingTail[i] = Last(L[i]) /\ L[i] # <<>>
        /\ Fam(s.next, L) /\ i \in Ix \ {RQ} /\ i # SQ /\ SQ \in Ix /\ SQ # i
        /\ Idle \in Slot /\ s.state \in [Slot -> States]
    <3>1. Idle \in Slot
      BY KernelAssumption DEF Idle, Slot
    <3>2. s.state \in [Slot -> States]
      BY DEF QueueSet
    <3> QED
      BY <1>2, <3>1, <3>2, SlotsAre DEF Releasing, Linked
  <2>2. /\ w = l[1] /\ w \in Slot /\ l \in Seq(Slot) /\ Len(l) \in Nat /\ 1 \in 1 .. Len(l)
    BY <2>1, EndsAre, FamIs
  <2>3. /\ c \in QueueSet(Ptr) /\ c.state = s.state /\ c.p = s.p
        /\ c.next = [s.next EXCEPT ![w] = NULL]
        /\ c.head = s.head /\ c.tail = s.tail /\ c.sleepQ = s.sleepQ
        /\ c.waitingTail = s.waitingTail /\ c.sleepdiff = s.sleepdiff
        /\ c.waiting = [s.waiting EXCEPT ![i] =
                           IF s.next[w] = s.waitingTail[i] THEN NULL ELSE s.next[w]]
    BY <2>2, CutIs
  <2> HIDE DEF c
  <2>4. /\ s.next \in [Slot -> Ptr] /\ s.waiting \in [Slot -> Ptr]
        /\ s.waitingTail \in [Slot -> Ptr]
    BY DEF QueueSet
  <2>5. M[SQ] = L[SQ]
    BY <2>1 DEF Less, Fam
  <2>6. /\ Linked(c, M, Slot \ {w}) /\ Loose(M, w) /\ In(L, i, w)
        /\ \A y \in Ix \ {i} : M[y] = L[y]
    <3>1. c.sleepQ = First(M[SQ])
      BY <2>1, <2>3, <2>5 DEF Linked, Ends
    <3>2. \A j \in Slot \ {l[1]} : c.next[j] = s.next[j]
      BY <2>2, <2>3, <2>4
    <3>3. /\ Linked(c, M, Slot \ {l[1]}) /\ Loose(M, l[1]) /\ In(L, i, l[1])
          /\ \A y \in Ix \ {i} : M[y] = L[y]
      <4>1. /\ Linked(s, L, Slot) /\ i \in Ix \ {RQ} /\ L[i] # <<>> /\ c \in QueueSet(Ptr)
            /\ c.state = s.state /\ c.head = s.head /\ c.tail = s.tail
        BY <2>1, <2>3
      <4>2. CutFrom(s, L, i, c)
        BY <3>1, <3>2, <4>1 DEF CutFrom
      <4> QED
        BY <4>2, CutLinked
    <3> QED
      BY <2>2, <3>3
  <2>7. s.state[w] = "WAITING"
    BY <2>1, <2>2, <2>6 DEF Linked, Listed
  <2>8. ReleaseTurn(s, i) = r
    BY <1>2, <2>7 DEF ReleaseTurn, Release, c
  <2>9. Linked(r, N, Slot) /\ \A x \in Slot : N[x] = M[x]
    BY <2>2, <2>6, ReadyLinked
  <2>18. \A y \in Ix, j \in Slot : In(N, y, j) <=> In(M, y, j) \/ (y = RQ /\ j = w)
    <3>1. M \in [Ix -> Seq(Slot)] /\ RQ \in Ix /\ w \in Slot
      BY <2>2, <2>6, SlotsAre DEF Linked, Fam
    <3>2. Len(M[RQ]) \in 0 .. Len(M[RQ])
      <4>1. M[RQ] \in Seq(Slot)
        BY <3>1
      <4>2. Len(M[RQ]) \in Nat
        BY <4>1, LenProperties
      <4> QED
        BY <4>2
    <3> HIDE DEF M, w
    <3> QED
      BY <3>1, <3>2, InsertIn
  <2>10. /\ r.state = [c.state EXCEPT ![w] = "READY"] /\ r.p = c.p
         /\ r.waiting = c.waiting /\ r.waitingTail = c.waitingTail
         /\ r.sleepdiff = c.sleepdiff
    BY ZenonT(40), <2>2, <2>3, ReadyIs
  <2> HIDE DEF r, N
  <2>11. M[i] = Tail(l)
    BY <2>1 DEF Less, Fam
  <2> HIDE DEF M
  <2>12. Waited(r, N, Slot \ {i})
    <3>1. \A x \in Slot \ {i} : N[x] = L[x]
      BY <2>6, <2>9, SlotsAre
    <3> QED
      BY <2>1, <2>2, <2>3, <2>4, <2>10, <3>1 DEF Waited
  <2>13. /\ IdleOK(r) /\ r.state[i] = "STOPPED" /\ r.p = me
         /\ \A j \in Slot : r.state[j] # "RUNNING"
    BY <2>1, <2>2, <2>3, <2>7, <2>10 DEF IdleOK
  <2>14. /\ \/ r.waiting[i] = NULL
            \/ r.waiting[i] = First(N[i]) /\ r.waitingTail[i] = Last(N[i]) /\ N[i] # <<>>
         /\ r.waiting[i] = NULL <=> Len(l) <= 2
    <3>1. N[i] = Tail(l)
      BY <2>9, <2>11
    <3>2. /\ First(Tail(l)) = IF Len(l) = 1 THEN NULL ELSE l[2]
          /\ Last(Tail(l)) = IF Len(l) = 1 THEN NULL ELSE Last(l)
          /\ Tail(l) = <<>> <=> Len(l) = 1
      BY <2>1, <2>2, TailEnds
    <3>3. s.next[w] = IF 1 = Len(l) THEN NULL ELSE l[1 + 1]
      <4>1. Chained(s.next, L) /\ i \in Ix /\ 1 \in 1 .. Len(L[i])
        BY <2>1, <2>2 DEF Fam
      <4>2. s.next[L[i][1]] = IF 1 = Len(L[i]) THEN NULL ELSE L[i][1 + 1]
        BY <4>1 DEF Chained
      <4> QED
        BY <2>2, <4>2
    <3>4. r.waiting[i] = IF s.next[w] = s.waitingTail[i] THEN NULL ELSE s.next[w]
      BY <2>3, <2>4, <2>10
    <3>5. r.waitingTail[i] = Last(l)
      BY <2>1, <2>3, <2>10
    <3> HIDE DEF l
    <3>8. Len(l) \in Nat /\ Len(l) # 0
      BY <2>1, <2>2 DEF l
    <3>6. CASE Len(l) = 1
      BY <3>3, <3>4, <3>6
    <3>7. CASE Len(l) # 1
      <4>1. 2 \in 1 .. Len(l) /\ Len(l) \in 1 .. Len(l)
        <5>1. \A n \in Nat : n # 0 /\ n # 1 => 2 \in 1 .. n /\ n \in 1 .. n
          OBVIOUS
        <5> QED
          BY <3>7, <3>8, <5>1
      <4>2. l[2] # NULL /\ s.waitingTail[i] = l[Len(l)]
        BY <2>1, <2>2, <4>1, ElementOfSeq, NullIsNoSlot DEF Last, l
      <4>3. l[2] = l[Len(l)] <=> 2 = Len(l)
        <5>1. \A k \in 1 .. Len(l), m \in 1 .. Len(l) : l[k] = l[m] => k = m
          BY <2>1 DEF Fam, Apart, l
        <5> QED
          BY <4>1, <5>1
      <4>4. r.waiting[i] = IF 2 = Len(l) THEN NULL ELSE l[2]
        BY <3>3, <3>4, <3>7, <4>2, <4>3
      <4> QED
        BY <3>1, <3>2, <3>3, <3>4, <3>5, <3>7, <3>8, <4>2, <4>4
    <3> QED
      BY <3>6, <3>7
  <2>15. Kept(s, r, N)
    <3>1. In(N, RQ, w)
      BY <2>2, <2>18, SlotsAre
    <3> QED
      BY <2>1, <2>2, <2>3, <2>10, <3>1 DEF Kept
  <2>16. \A j \in Slot : In(L, RQ, j) => In(N, RQ, j)
    <3>1. M[RQ] = L[RQ]
      BY <2>1, <2>6, SlotsAre
    <3>2. \A j \in Slot : In(L, RQ, j) <=> In(M, RQ, j)
      BY <3>1 DEF In
    <3> QED
      BY <2>18, <3>2, SlotsAre
  <2>17. N = Shift(L, i)
    BY <2>2 DEF N, M, Shift
  <2>19. Releasing(r, i, me, N)
    BY <2>9, <2>12, <2>13, <2>14 DEF Releasing
  <2> QED
    BY <2>8, <2>14, <2>15, <2>16, <2>17, <2>19
<1> QED
  BY <1>3

\* A list is not longer than the process table.
LEMMA ListFits ==
    ASSUME NEW nx, NEW L, Fam(nx, L), NEW x \in Ix
    PROVE  Len(L[x]) \in 0 .. MaxProc
<1> DEFINE l == L[x]
           f == [k \in 1 .. Len(l) |-> l[k]]
<1>1. Len(l) \in Nat /\ \A k \in 1 .. Len(l) : l[k] \in Slot
  BY FamIs
<1>2. MaxProc \in Nat /\ MaxProc >= 2
  BY FuelIsEnough
<1>3. /\ IsFiniteSet(Slot) /\ Cardinality(Slot) = MaxProc
      /\ IsFiniteSet(1 .. Len(l)) /\ Cardinality(1 .. Len(l)) = Len(l)
  <2>1. \A a, b \in Int : IsFiniteSet(a .. b) /\ Cardinality(a .. b) = IF a > b THEN 0 ELSE b - a + 1
    BY FS_Interval
  <2>2. 0 \in Int /\ 1 \in Int /\ MaxProc - 1 \in Int /\ Len(l) \in Int
    BY <1>1, <1>2
  <2> HIDE DEF l
  <2>3. /\ IsFiniteSet(0 .. MaxProc - 1)
        /\ Cardinality(0 .. MaxProc - 1) = IF 0 > MaxProc - 1 THEN 0 ELSE MaxProc - 1 - 0 + 1
        /\ IsFiniteSet(1 .. Len(l))
        /\ Cardinality(1 .. Len(l)) = IF 1 > Len(l) THEN 0 ELSE Len(l) - 1 + 1
    BY <2>1, <2>2
  <2>4. (IF 0 > MaxProc - 1 THEN 0 ELSE MaxProc - 1 - 0 + 1) = MaxProc
    BY <1>2
  <2>5. (IF 1 > Len(l) THEN 0 ELSE Len(l) - 1 + 1) = Len(l)
    BY <1>1
  <2> QED
    BY <2>3, <2>4, <2>5 DEF Slot
<1>4. ~(MaxProc < Len(l))
  <2> SUFFICES ASSUME MaxProc < Len(l)  PROVE FALSE
    OBVIOUS
  <2>1. f \in [1 .. Len(l) -> Slot]
    BY <1>1
  <2>2. Cardinality(Slot) < Cardinality(1 .. Len(l))
    BY <1>3
  <2>3. PICK k \in 1 .. Len(l), m \in 1 .. Len(l) : k # m /\ f[k] = f[m]
    <3> HIDE DEF f
    <3> QED
      BY <1>3, <2>1, <2>2, FS_PigeonHole
  <2>4. L[x][k] = L[x][m]
    BY <2>3
  <2> QED
    BY <2>3, <2>4 DEF Fam, Apart
<1> QED
  BY <1>1, <1>2, <1>4

\* So a process that stops leaves the lists in order, and none on its own: of several
\* waiters all but the last are READY (the break at c/disp.c:54).
Count(l) == IF Len(l) <= 1 THEN Len(l) ELSE Len(l) - 1

LEMMA RemoveBlocks ==
    ASSUME NEW q, NEW L, NEW i \in Slot, Linked(q, L, Slot), Waited(q, L, Slot \ {i}), IdleOK(q),
           q.waiting[i] = First(L[i]), q.waitingTail[i] = Last(L[i]),
           q.state[i] = "STOPPED", q.p # NULL, \A j \in Slot : q.state[j] # "RUNNING"
    PROVE  LET M == Dropped(Moved(L, i, Count(L[i])), i)
               r == removeWaiting(q, i)
           IN  Blocked(r, M) /\ Kept(q, r, M) /\ r.p = q.p
<1> DEFINE l == L[i]
           At(s, m) == LET M == Moved(L, i, m)
                       IN  Releasing(s, i, q.p, M) /\ Kept(q, s, M)
           Far(s, m, n) == IF s.waiting[i] = NULL THEN m = Count(l)
                           ELSE m = n /\ (m = 0 \/ m + 2 <= Len(l))
           I == [n \in 0 .. Fuel |->
                    {s \in QueueSet(Ptr) : \E m \in 0 .. Len(l) : At(s, m) /\ Far(s, m, n)}]
<1>1. /\ Fuel \in Nat /\ q \in QueueSet(Ptr) /\ i \in Ix /\ i \in Ix \ {RQ} /\ RQ \in Ix
      /\ L \in [Ix -> Seq(Slot)] /\ Len(l) \in 0 .. MaxProc /\ MaxProc \in Nat /\ Fuel > MaxProc
      /\ l = <<>> <=> Len(l) = 0
      /\ 0 \in 0 .. Len(l)
  <2>1. /\ Fuel \in Nat /\ q \in QueueSet(Ptr) /\ i \in Ix /\ i \in Ix \ {RQ} /\ RQ \in Ix
        /\ MaxProc \in Nat /\ Fuel > MaxProc /\ Fam(q.next, L)
    BY FuelIsEnough, SlotsAre DEF Linked
  <2>2. Len(L[i]) \in 0 .. MaxProc
    BY <2>1, ListFits
  <2>3. L \in [Ix -> Seq(Slot)] /\ (L[i] = <<>> <=> Len(L[i]) = 0)
    BY <2>1, FamIs DEF Fam
  <2> QED
    BY <2>1, <2>2, <2>3
<1>2. q \in I[0]
  <2>1. Moved(L, i, 0) = L
    BY <1>1, MovedNone
  <2>2. l = <<>> <=> First(l) = NULL
    <3>1. Fam(q.next, L)
      BY DEF Linked
    <3> QED
      BY <1>1, <3>1, EndsAre
  <2>3. Releasing(q, i, q.p, L)
    BY <2>2 DEF Releasing
  <2>4. Kept(q, q, L)
    BY DEF Kept
  <2>5. At(q, 0)
    BY <2>1, <2>3, <2>4
  <2>6. Far(q, 0, 0)
    <3>1. q.waiting[i] = NULL => Count(l) = 0
      BY <1>1, <2>2 DEF Count
    <3> QED
      BY <3>1
  <2>7. 0 \in 0 .. Fuel
    BY <1>1
  <2> HIDE DEF At, Far, l
  <2> QED
    BY <1>1, <2>5, <2>6, <2>7
<1>3. ASSUME NEW n \in 0 .. Fuel - 1, NEW s \in I[n] \cap QueueSet(Ptr)
      PROVE  ReleaseTurn(s, i) \in I[n + 1]
  <2> DEFINE r == ReleaseTurn(s, i)
  <2>1. n \in 0 .. Fuel /\ n + 1 \in 0 .. Fuel /\ n \in Nat
    BY <1>1
  <2>2. PICK m \in 0 .. Len(l) : At(s, m) /\ Far(s, m, n)
    <3> HIDE DEF At, Far, l
    <3> QED
      BY <2>1
  <2>3. r \in QueueSet(Ptr)
    BY ReleaseTypes
  <2>4. CASE s.waiting[i] = NULL
    <3>1. r = s
      BY <2>4 DEF ReleaseTurn
    <3>2. Far(s, m, n + 1)
      BY <2>2, <2>4
    <3> HIDE DEF At, Far, l, r
    <3> QED
      BY <2>1, <2>2, <2>3, <3>1, <3>2 DEF r
  <2>5. CASE s.waiting[i] # NULL
    <3> DEFINE M == Moved(L, i, m)
               N == Shift(M, i)
    <3>1. Releasing(s, i, q.p, M) /\ Kept(q, s, M) /\ m = n /\ (m = 0 \/ m + 2 <= Len(l))
      BY <2>2, <2>5
    <3>2. Len(M[i]) = Len(l) - m /\ M[i] \in Seq(Slot)
      <4>1. M \in [Ix -> Seq(Slot)] /\ Len(M[i]) = Len(l) - m
        BY <1>1, MovedIs
      <4> HIDE DEF M
      <4> QED
        BY <1>1, <4>1
    <3>3. /\ Releasing(r, i, q.p, N) /\ Kept(s, r, N)
          /\ r.waiting[i] = NULL <=> Len(M[i]) <= 2
          /\ \A j \in Slot : In(M, RQ, j) => In(N, RQ, j)
      <4> HIDE DEF M
      <4>1. s \in QueueSet(Ptr) /\ Releasing(s, i, q.p, M) /\ s.waiting[i] # NULL
        BY <2>5, <3>1
      <4> QED
        BY ZenonT(40), <4>1, ReleaseKeeps
    <3>4. m # Len(l)
      <4> HIDE DEF M
      <4>1. Releasing(s, i, q.p, M) => M[i] # <<>>
        BY <2>5 DEF Releasing
      <4>3. Len(M[i]) # 0
        BY <3>1, <3>2, <4>1, EmptySeq
      <4> HIDE DEF l
      <4> QED
        BY <1>1, <3>2, <4>3
    <3>5. N = Moved(L, i, m + 1) /\ m + 1 \in 0 .. Len(l)
      BY <1>1, <3>4, MovedOne
    <3>6. Kept(q, r, N)
      BY <3>1, <3>3 DEF Kept
    <3>7. At(r, m + 1)
      BY <3>3, <3>5, <3>6
    <3>8. Far(r, m + 1, n + 1)
      <4> DEFINE c == Len(l)
      <4>1. c \in Nat /\ m \in Nat /\ m <= c /\ m # c
        BY <1>1, <3>4
      <4>2. (r.waiting[i] = NULL <=> c - m <= 2) /\ (m = 0 \/ m + 2 <= c) /\ m = n
        BY <3>1, <3>2, <3>3
      <4> HIDE DEF c, r
      <4>3. c - m <= 2 => m + 1 = IF c <= 1 THEN c ELSE c - 1
        BY <4>1, <4>2
      <4>4. ~(c - m <= 2) => m + 1 = n + 1 /\ (m + 1) + 2 <= c
        BY <4>1, <4>2
      <4> QED
        BY <4>2, <4>3, <4>4 DEF c, Count
    <3> HIDE DEF At, Far, l, r
    <3> QED
      BY <2>1, <2>3, <3>5, <3>7, <3>8 DEF r
  <2> QED
    BY <2>4, <2>5
<1>4. PICK s \in I[Fuel] \cap QueueSet(Ptr) : removeWaiting(q, i) = Emptied(s, i)
  <2> HIDE DEF I
  <2> QED
    BY <1>1, <1>2, <1>3, RemoveLoop
<1> DEFINE M == Moved(L, i, Count(l))
<1>5. Releasing(s, i, q.p, M) /\ Kept(q, s, M)
  <2>1. Fuel \in 0 .. Fuel
    BY <1>1
  <2>2. PICK m \in 0 .. Len(l) : At(s, m) /\ Far(s, m, Fuel)
    <3> HIDE DEF At, Far, l
    <3> QED
      BY <1>4, <2>1
  <2>3. m = Count(l)
    <3>1. m # Fuel
      BY <1>1
    <3> QED
      BY <2>2, <3>1
  <2> QED
    BY <2>2, <2>3
<1> HIDE DEF M
<1> DEFINE N == Dropped(M, i)
           e == Emptied(s, i)
<1> HIDE DEF I
<1>6. /\ e \in QueueSet(Ptr) /\ e.state = s.state /\ e.next = s.next /\ e.head = s.head
      /\ e.tail = s.tail /\ e.sleepQ = s.sleepQ /\ e.p = s.p
      /\ e.waiting = [s.waiting EXCEPT ![i] = NULL]
      /\ e.waitingTail = [s.waitingTail EXCEPT ![i] = NULL]
      /\ s.waiting \in [Slot -> Ptr] /\ s.waitingTail \in [Slot -> Ptr]
      /\ e.sleepdiff = s.sleepdiff
  BY <1>4 DEF Emptied, QueueSet, Ptr
<1> HIDE DEF e
<1>7. /\ Linked(s, M, Slot) /\ Waited(s, M, Slot \ {i}) /\ IdleOK(s) /\ s.p = q.p
      /\ \A j \in Slot : s.state[j] # "RUNNING"
      /\ Fam(s.next, M) /\ Ends(s, M) /\ Listed(s, M, Slot)
  BY <1>5 DEF Releasing, Linked
<1>8. N[i] = <<>> /\ \A y \in Ix \ {i} : N[y] = M[y]
  BY <1>1, <1>7 DEF Dropped, Fam
<1>9. Fam(e.next, N)
  BY <1>1, <1>6, <1>7, FamDrop
<1> HIDE DEF N
<1>10. Ends(e, N)
  BY <1>6, <1>7, <1>8, SlotsAre DEF Ends
<1>11. Listed(e, N, Slot)
  <2>1. \A x \in Slot, j \in Slot : In(N, x, j) => In(M, x, j)
    <3>1. Len(<<>>) = 0
      OBVIOUS
    <3>2. \A j : ~In(N, i, j)
      BY <1>8, <3>1 DEF In
    <3> QED
      BY <1>8, <3>2, SlotsAre DEF In
  <2>2. N[RQ] = M[RQ] /\ N[SQ] = M[SQ]
    BY <1>8, SlotsAre
  <2>3. \A j \in Slot : (In(N, RQ, j) <=> In(M, RQ, j)) /\ (In(N, SQ, j) <=> In(M, SQ, j))
    BY <2>2 DEF In
  <2> QED
    BY <1>6, <1>7, <2>1, <2>3 DEF Listed
<1>12. Waited(e, N, Slot)
  <2>1. First(<<>>) = NULL /\ Last(<<>>) = NULL
    BY DEF First, Last
  <2>2. \A x \in Slot \ {i} : N[x] = M[x]
    BY <1>8, SlotsAre
  <2> QED
    BY <1>6, <1>7, <1>8, <2>1, <2>2 DEF Waited
<1>13. IdleOK(e) /\ e.p # NULL /\ \A j \in Slot : e.state[j] # "RUNNING"
  BY <1>6, <1>7 DEF IdleOK
<1>14. Blocked(e, N)
  BY <1>6, <1>9, <1>10, <1>11, <1>12, <1>13 DEF Blocked, Sane, Linked
<1>15. Kept(q, e, N)
  <2>1. N[RQ] = M[RQ]
    BY <1>1, <1>8
  <2>2. \A j : In(N, RQ, j) <=> In(M, RQ, j)
    BY <2>1 DEF In
  <2> QED
    BY <1>5, <1>6, <2>2 DEF Kept
<1>16. e.p = q.p
  BY <1>6, <1>7
<1> QED
  BY <1>4, <1>14, <1>15, <1>16 DEF e, N, M

\* The fields that a turn of the loop of tick() leaves before ready().
LEMMA UnsleptIs ==
    ASSUME NEW s \in QueueSet(Ptr), s.sleepQ \in Slot
    PROVE  LET c == Unslept(s) IN
           /\ c \in QueueSet(Ptr) /\ c.state = s.state /\ c.next = s.next /\ c.p = s.p
           /\ c.head = s.head /\ c.tail = s.tail /\ c.sleepQ = s.next[s.sleepQ]
           /\ c.waiting = s.waiting /\ c.waitingTail = s.waitingTail
           /\ c.sleepdiff = s.sleepdiff
<1>1. s.next[s.sleepQ] \in Ptr /\ "result" \in Rets
  BY DEF QueueSet, Rets
<1>2. Unslept(s) \in QueueSet(Ptr)
  BY <1>1 DEF Unslept, QueueSet
<1> QED
  BY <1>2 DEF Unslept, QueueSet

\* Each turn moves the first sleeper, whose difference is 0, to the end of the ready queue.
LEMMA WakeKeeps ==
    ASSUME NEW s \in QueueSet(Ptr), NEW L, Running(s, L), ~NoneDue(s)
    PROVE  LET r == WakeTurn(s)
               N == Shift(L, SQ)
           IN  /\ Running(r, N) /\ Kept(s, r, N) /\ r.p = s.p
               /\ \A j \in Slot : In(L, RQ, j) => In(N, RQ, j)
               /\ L[SQ] # <<>> /\ s.sleepdiff[L[SQ][1]] = 0
<1>2. ~NoneDue(s)
  OBVIOUS
<1>3. LET r == WakeTurn(s)
          N == Shift(L, SQ)
      IN  /\ Running(r, N) /\ Kept(s, r, N) /\ r.p = s.p
          /\ \A j \in Slot : In(L, RQ, j) => In(N, RQ, j)
          /\ L[SQ] # <<>> /\ s.sleepdiff[L[SQ][1]] = 0
  <2> DEFINE w == s.sleepQ
             l == L[SQ]
             c == Unslept(s)
             r == ready(c, w)
             M == Less(L, SQ)
             N == Put(M, RQ, Len(M[RQ]), w)
  <2>2. /\ Linked(s, L, Slot) /\ Waited(s, L, Slot) /\ IdleOK(s) /\ Fam(s.next, L)
        /\ s.sleepQ = First(l) /\ s.sleepQ # NULL /\ SQ \in Ix \ {RQ}
        /\ s.p \in Slot /\ \A i \in Slot : s.state[i] = "RUNNING" <=> i = s.p
    BY <1>2, SlotsAre DEF Running, Sane, Linked, Ends, NoneDue
  <2>1. s.sleepdiff[w] = 0
    BY <1>2 DEF NoneDue
  <2>3. l # <<>> /\ w = l[1] /\ w \in Slot /\ l \in Seq(Slot) /\ Len(l) \in Nat /\ 1 \in 1 .. Len(l)
    BY <2>2, EndsAre, FamIs
  <2>4. /\ c \in QueueSet(Ptr) /\ c.state = s.state /\ c.next = s.next /\ c.p = s.p
        /\ c.head = s.head /\ c.tail = s.tail /\ c.sleepQ = s.next[s.sleepQ]
        /\ c.waiting = s.waiting /\ c.waitingTail = s.waitingTail
        /\ c.sleepdiff = s.sleepdiff
    BY <2>3, UnsleptIs
  <2> HIDE DEF c
  <2>5. M[SQ] = Tail(l) /\ \A y \in Ix \ {SQ} : M[y] = L[y]
    BY <2>2 DEF Less, Fam
  <2>6. c.sleepQ = First(M[SQ])
    <3>1. First(Tail(l)) = IF Len(l) = 1 THEN NULL ELSE l[2]
      BY <2>3, TailEnds
    <3>2. s.next[L[SQ][1]] = IF 1 = Len(L[SQ]) THEN NULL ELSE L[SQ][1 + 1]
      BY <2>2, <2>3 DEF Fam, Chained
    <3> QED
      BY <2>3, <2>4, <2>5, <3>1, <3>2
  <2>7. /\ Linked(c, M, Slot \ {l[1]}) /\ Loose(M, l[1]) /\ In(L, SQ, l[1])
    <3>1. /\ Linked(s, L, Slot) /\ SQ \in Ix \ {RQ} /\ L[SQ] # <<>> /\ c \in QueueSet(Ptr)
          /\ c.state = s.state /\ c.head = s.head /\ c.tail = s.tail
          /\ \A j \in Slot \ {l[1]} : c.next[j] = s.next[j]
      BY <2>2, <2>3, <2>4
    <3>2. CutFrom(s, L, SQ, c)
      BY <2>6, <3>1 DEF CutFrom
    <3> QED
      BY <3>2, CutLinked
  <2>8. s.state[w] = "SLEEP"
    BY <2>2, <2>3, <2>7 DEF Linked, Listed
  <2>9. Linked(r, N, Slot) /\ \A x \in Slot : N[x] = M[x]
    BY <2>3, <2>7, ReadyLinked
  <2>14. \A y \in Ix, j \in Slot : In(N, y, j) <=> In(M, y, j) \/ (y = RQ /\ j = w)
    <3>1. M \in [Ix -> Seq(Slot)] /\ RQ \in Ix /\ w \in Slot
      BY <2>3, <2>7, SlotsAre DEF Linked, Fam
    <3>2. Len(M[RQ]) \in 0 .. Len(M[RQ])
      <4>1. M[RQ] \in Seq(Slot)
        BY <3>1
      <4>2. Len(M[RQ]) \in Nat
        BY <4>1, LenProperties
      <4> QED
        BY <4>2
    <3> HIDE DEF M, w
    <3> QED
      BY <3>1, <3>2, InsertIn
  <2>10. r.state = [c.state EXCEPT ![w] = "READY"] /\ r.p = c.p /\ r.sleepdiff = c.sleepdiff
    BY <2>3, <2>4, ReadyIs
  <2>11. Waited(c, M, Slot) /\ IdleOK(c)
    <3>1. \A x \in Slot : M[x] = L[x]
      BY <2>5, SlotsAre
    <3> QED
      BY <2>2, <2>4, <3>1 DEF Waited, IdleOK
  <2>12. Waited(r, N, Slot) /\ IdleOK(r)
    BY <2>3, <2>4, <2>9, <2>11, ReadyWaited
  <2>13. s.state \in [Slot -> States]
    BY DEF QueueSet
  <2> HIDE DEF r, N
  <2>15. Running(r, N)
    BY <2>2, <2>3, <2>4, <2>8, <2>9, <2>10, <2>12, <2>13 DEF Running, Sane
  <2>16. Kept(s, r, N) /\ \A j \in Slot : In(L, RQ, j) => In(N, RQ, j)
    <3>1. In(N, RQ, w) /\ w \in Slot
      BY <2>3, <2>14, SlotsAre
    <3>2. M[RQ] = L[RQ]
      BY <2>2, <2>5, SlotsAre
    <3>3. \A j \in Slot : In(L, RQ, j) => In(M, RQ, j)
      BY <3>2 DEF In
    <3>4. \A j \in Slot : In(L, RQ, j) => In(N, RQ, j)
      BY <2>14, <3>3, SlotsAre
    <3>5. \A j \in Slot : ~In(N, RQ, j) => r.state[j] = s.state[j]
      BY <2>4, <2>10, <2>13, <3>1
    <3> QED
      BY <2>4, <2>10, <3>4, <3>5 DEF Kept
  <2>17. WakeTurn(s) = r
    BY <1>2 DEF WakeTurn, Wake, r, c
  <2>18. N = Shift(L, SQ)
    BY <2>3 DEF N, M, Shift
  <2> QED
    BY <2>1, <2>3, <2>4, <2>10, <2>15, <2>16, <2>17, <2>18
<1> QED
  BY <1>3

\* What tick() leaves: the first m sleepers are READY, those whose differences are 0
\* once that of the first went down by one.
Ticks(q, r, l) ==
    IF l = <<>> THEN r.sleepdiff = q.sleepdiff
    ELSE r.sleepdiff = [q.sleepdiff EXCEPT ![l[1]] = IF @ < 0 THEN LATE ELSE @ - 1]
Woken(q, r, L, m) ==
    /\ Running(r, Moved(L, SQ, m)) /\ r.p = q.p /\ Ticks(q, r, L[SQ])
    /\ \A j \in Slot : ~In(Moved(L, SQ, m), RQ, j) => r.state[j] = q.state[j]
    /\ \A k \in 1 .. m : r.sleepdiff[L[SQ][k]] = 0
    /\ m # Len(L[SQ]) => r.sleepdiff[L[SQ][m + 1]] # 0

\* tick() ends, and keeps the lists in order.
LEMMA TickRuns ==
    ASSUME NEW q, NEW L, Running(q, L)
    PROVE  \E m \in 0 .. Len(L[SQ]) : Woken(q, tick(q), L, m)
<1> DEFINE l == L[SQ]
<1>1. /\ q \in QueueSet(Ptr) /\ Fam(q.next, L) /\ q.sleepQ \in Ptr /\ q.p \in Slot
      /\ q.sleepQ = First(l)
  BY DEF Running, Sane, Linked, Ends, QueueSet
<1>2. /\ SQ \in Ix \ {RQ} /\ L \in [Ix -> Seq(Slot)] /\ Len(l) \in 0 .. MaxProc
      /\ l = <<>> <=> Len(l) = 0
      /\ q.sleepQ = NULL <=> l = <<>>
      /\ l # <<>> => q.sleepQ = l[1] /\ q.sleepQ \in Slot
      /\ 0 \in 0 .. Len(l)
  <2>1. SQ \in Ix /\ SQ \in Ix \ {RQ}
    BY SlotsAre
  <2>2. Len(L[SQ]) \in 0 .. MaxProc
    BY <1>1, <2>1, ListFits
  <2> QED
    BY <1>1, <2>1, <2>2, FamIs, EndsAre, FuelIsEnough DEF Fam
<1>3. Moved(L, SQ, 0) = L
  BY <1>2, MovedNone
<1>4. CASE q.sleepQ = NULL
  <2>1. tick(q) = q
    BY <1>4 DEF tick
  <2>2. l = <<>> /\ Len(l) = 0
    BY <1>2, <1>4
  <2>3. Woken(q, q, L, 0)
    BY <1>3, <2>2 DEF Woken, Ticks
  <2> QED
    BY <1>2, <2>1, <2>3
<1>5. CASE q.sleepQ # NULL
  <2> DEFINE t == Ticked(q)
             At(s, m) == LET M == Moved(L, SQ, m)
                         IN  Running(s, M) /\ Kept(t, s, M) /\ s.p = q.p
             Far(s, m, n) == /\ \A k \in 1 .. m : t.sleepdiff[l[k]] = 0
                             /\ NoneDue(s) \/ m = n
             I == [n \in 0 .. Fuel |->
                      {s \in QueueSet(Ptr) : \E m \in 0 .. Len(l) : At(s, m) /\ Far(s, m, n)}]
  <2>1. /\ Fuel \in Nat /\ MaxProc \in Nat /\ Fuel > MaxProc /\ q.sleepQ \in Slot
        /\ l # <<>> /\ q.sleepQ = l[1]
    BY <1>1, <1>2, <1>5, FuelIsEnough DEF Ptr
  <2>2. /\ t \in QueueSet(Ptr) /\ Running(t, L) /\ t.p = q.p /\ t.state = q.state
        /\ t.sleepdiff = [q.sleepdiff EXCEPT ![l[1]] = IF @ < 0 THEN LATE ELSE @ - 1]
    <3>1. t \in QueueSet(Ptr)
      BY <1>1, <2>1, TickedTypes
    <3>2. /\ t.state = q.state /\ t.next = q.next /\ t.head = q.head /\ t.tail = q.tail
          /\ t.sleepQ = q.sleepQ /\ t.waiting = q.waiting /\ t.waitingTail = q.waitingTail
          /\ t.p = q.p
      BY <1>1 DEF Ticked, QueueSet
    <3>3. t.sleepdiff = [q.sleepdiff EXCEPT ![l[1]] = IF @ < 0 THEN LATE ELSE @ - 1]
      BY <1>1, <2>1 DEF Ticked, QueueSet
    <3> HIDE DEF t
    <3>4. Linked(t, L, Slot) /\ Waited(t, L, Slot) /\ IdleOK(t)
      BY <3>1, <3>2, SameLists DEF Running, Sane
    <3> QED
      BY <3>1, <3>2, <3>3, <3>4 DEF Running, Sane
  <2>3. t \in I[0]
    <3> HIDE DEF t
    <3>1. At(t, 0)
      BY <1>3, <2>2 DEF Kept
    <3>2. Far(t, 0, 0)
      OBVIOUS
    <3>3. 0 \in 0 .. Fuel
      BY <2>1
    <3> HIDE DEF At, Far, l
    <3> QED
      BY <1>2, <2>2, <3>1, <3>2, <3>3
  <2>4. ASSUME NEW n \in 0 .. Fuel - 1, NEW s \in I[n] \cap QueueSet(Ptr)
        PROVE  WakeTurn(s) \in I[n + 1]
    <3> DEFINE r == WakeTurn(s)
    <3>1. n \in 0 .. Fuel /\ n + 1 \in 0 .. Fuel /\ n \in Nat
      BY <2>1
    <3>2. PICK m \in 0 .. Len(l) : At(s, m) /\ Far(s, m, n)
      <4> HIDE DEF At, Far, l
      <4> QED
        BY <3>1
    <3>3. r \in QueueSet(Ptr)
      BY WakeTypes
    <3>4. CASE NoneDue(s)
      <4>1. r = s
        BY <3>4 DEF WakeTurn
      <4>2. Far(s, m, n + 1)
        BY <3>2, <3>4
      <4> HIDE DEF At, Far, l, r
      <4> QED
        BY <3>1, <3>2, <3>3, <4>1, <4>2 DEF r
    <3>5. CASE ~NoneDue(s)
      <4> DEFINE M == Moved(L, SQ, m)
                 N == Shift(M, SQ)
      <4>1. /\ Running(s, M) /\ Kept(t, s, M) /\ s.p = q.p /\ m = n
            /\ \A k \in 1 .. m : t.sleepdiff[l[k]] = 0
        BY <3>2, <3>5
      <4>2. Len(M[SQ]) = Len(l) - m /\ M[SQ] \in Seq(Slot)
        <5>1. M \in [Ix -> Seq(Slot)] /\ Len(M[SQ]) = Len(l) - m
          BY ZenonT(40), <1>2, MovedIs
        <5> HIDE DEF M
        <5> QED
          BY <1>2, <5>1
      <4>3. /\ Running(r, N) /\ Kept(s, r, N) /\ r.p = s.p
            /\ \A j \in Slot : In(M, RQ, j) => In(N, RQ, j)
            /\ M[SQ] # <<>> /\ s.sleepdiff[M[SQ][1]] = 0
        <5> HIDE DEF M
        <5>1. s \in QueueSet(Ptr) /\ Running(s, M) /\ ~NoneDue(s)
          BY <3>5, <4>1
        <5> QED
          BY ZenonT(40), <5>1, WakeKeeps
      <4>4. m # Len(l)
        <5>1. Len(M[SQ]) # 0
          BY <4>2, <4>3, EmptySeq
        <5> HIDE DEF M, l
        <5> QED
          BY <1>2, <4>2, <5>1
      <4>5. N = Moved(L, SQ, m + 1) /\ m + 1 \in 0 .. Len(l) /\ M[SQ][1] = l[m + 1]
        BY <1>2, <4>4, MovedOne
      <4>6. Kept(t, r, N)
        <5> HIDE DEF t, M, N, r
        <5> QED
          BY <4>1, <4>3 DEF Kept
      <4>7. At(r, m + 1)
        BY <4>1, <4>3, <4>5, <4>6
      <4>8. Far(r, m + 1, n + 1)
        <5>1. t.sleepdiff[l[m + 1]] = 0
          BY <4>1, <4>3, <4>5 DEF Kept
        <5>2. \A k \in 1 .. m + 1 : k = m + 1 \/ k \in 1 .. m
          BY <1>2
        <5> HIDE DEF t, l
        <5> QED
          BY <4>1, <5>1, <5>2
      <4> HIDE DEF At, Far, l, r
      <4> QED
        BY <3>1, <3>3, <4>5, <4>7, <4>8 DEF r
    <3> QED
      BY <3>4, <3>5
  <2>5. PICK s \in I[Fuel] \cap QueueSet(Ptr) : tick(q) = IF NoneDue(s) THEN s ELSE Hang(s)
    <3> HIDE DEF I
    <3> QED
      BY <1>1, <2>1, <2>3, <2>4, TickLoop, NullIsNoSlot
  <2>6. PICK m \in 0 .. Len(l) : At(s, m) /\ Far(s, m, Fuel)
    <3>1. Fuel \in 0 .. Fuel
      BY <2>1
    <3> HIDE DEF At, Far, l
    <3> QED
      BY <2>5, <3>1
  <2> DEFINE M == Moved(L, SQ, m)
  <2>7. /\ Running(s, M) /\ Kept(t, s, M) /\ s.p = q.p
        /\ \A k \in 1 .. m : t.sleepdiff[l[k]] = 0
        /\ NoneDue(s) \/ m = Fuel
    BY <2>6
  <2>8. NoneDue(s)
    <3>1. m # Fuel
      BY <1>2, <2>1
    <3> QED
      BY <2>7, <3>1
  <2>9. tick(q) = s
    BY <2>5, <2>8
  <2>10. m # Len(l) => s.sleepdiff[l[m + 1]] # 0
    <3> SUFFICES ASSUME m # Len(l)  PROVE s.sleepdiff[l[m + 1]] # 0
      OBVIOUS
    <3>1. M[SQ] # <<>> /\ M[SQ][1] = l[m + 1]
      BY <1>2, MovedOne
    <3> HIDE DEF M
    <3>2. Fam(s.next, M) /\ s.sleepQ = First(M[SQ])
      BY <2>7 DEF Running, Sane, Linked, Ends
    <3>3. s.sleepQ = M[SQ][1] /\ s.sleepQ # NULL
      BY <1>2, <3>1, <3>2, EndsAre, NullIsNoSlot
    <3> QED
      BY <2>8, <3>1, <3>3 DEF NoneDue
  <2>11. s.sleepdiff = t.sleepdiff /\ \A j \in Slot : ~In(M, RQ, j) => s.state[j] = q.state[j]
    BY <2>2, <2>7 DEF Kept
  <2>12. Ticks(q, s, l)
    BY <2>1, <2>2, <2>11 DEF Ticks
  <2>13. Woken(q, s, L, m)
    <3> HIDE DEF t
    <3> QED
      BY <2>7, <2>10, <2>11, <2>12 DEF Woken
  <2> QED
    BY <2>9, <2>13
<1> QED
  BY <1>4, <1>5

\* What is used of the lists at a request.
LEMMA RunningIs ==
    ASSUME NEW q, NEW L, Running(q, L)
    PROVE  /\ q \in QueueSet(Ptr) /\ Linked(q, L, Slot) /\ Waited(q, L, Slot) /\ IdleOK(q)
           /\ Fam(q.next, L) /\ Ends(q, L) /\ Listed(q, L, Slot)
           /\ q.p \in Slot /\ q.p # NULL /\ Loose(L, q.p)
           /\ q.state \in [Slot -> States] /\ q.next \in [Slot -> Ptr]
           /\ \A i \in Slot : q.state[i] = "RUNNING" <=> i = q.p
<1>1. /\ q \in QueueSet(Ptr) /\ Linked(q, L, Slot) /\ Waited(q, L, Slot) /\ IdleOK(q)
      /\ q.p \in Slot /\ \A i \in Slot : q.state[i] = "RUNNING" <=> i = q.p
  BY DEF Running, Sane, Linked
<1>2. Loose(L, q.p)
  BY <1>1, RunningLoose
<1>3. q.state \in [Slot -> States] /\ q.next \in [Slot -> Ptr]
  BY <1>1 DEF QueueSet
<1> QED
  BY <1>1, <1>2, <1>3, NullIsNoSlot DEF Linked

LEMMA FamPut ==
    ASSUME NEW nx, NEW L, Fam(nx, L), NEW x \in Ix, NEW k \in 0 .. Len(L[x]),
           NEW i \in Slot, Loose(L, i), NEW ny \in [Slot -> Ptr],
           ny[i] = IF k = Len(L[x]) THEN NULL ELSE L[x][k + 1],
           k > 0 => ny[L[x][k]] = i,
           \A j \in Slot \ {i} : k = 0 \/ j # L[x][k] => ny[j] = nx[j]
    PROVE  Fam(ny, Put(L, x, k, i))
  BY FamInsert DEF Put

LEMMA IdleIsSlot == Idle \in Slot
  BY KernelAssumption DEF Idle, Slot

\* The running process goes to the end of the ready queue.
LEMMA ReadyBlocks ==
    ASSUME NEW q, NEW L, Running(q, L)
    PROVE  Blocked(ready(q, q.p), Put(L, RQ, Len(L[RQ]), q.p))
<1> DEFINE r == ready(q, q.p)
           M == Put(L, RQ, Len(L[RQ]), q.p)
<1>1. /\ q \in QueueSet(Ptr) /\ Linked(q, L, Slot) /\ Waited(q, L, Slot) /\ IdleOK(q)
      /\ q.p \in Slot /\ q.p # NULL /\ Loose(L, q.p) /\ q.state \in [Slot -> States]
      /\ \A i \in Slot : q.state[i] = "RUNNING" <=> i = q.p
  BY RunningIs
<1>2. Linked(r, M, Slot) /\ \A x \in Slot : M[x] = L[x]
  BY <1>1, ReadyLinked
<1>3. Waited(r, M, Slot) /\ IdleOK(r)
  BY <1>1, <1>2, ReadyWaited
<1>4. r.state = [q.state EXCEPT ![q.p] = "READY"] /\ r.p = q.p
  BY <1>1, ReadyIs
<1>5. r.p # NULL /\ \A i \in Slot : r.state[i] # "RUNNING"
  <2> HIDE DEF r
  <2> QED
    BY <1>1, <1>4
<1> QED
  BY <1>2, <1>3, <1>5 DEF Blocked, Sane

\* The running process is put in the list of sleepers, behind the first k.
LEMMA SleepBlocks ==
    ASSUME NEW q, NEW L, Running(q, L), q.p # Idle, NEW k \in 0 .. Len(L[SQ]),
           NEW s \in QueueSet(Ptr), s.state = [q.state EXCEPT ![q.p] = "SLEEP"],
           s.next[q.p] = IF k = Len(L[SQ]) THEN NULL ELSE L[SQ][k + 1],
           k > 0 => s.next[L[SQ][k]] = q.p,
           \A j \in Slot \ {q.p} : k = 0 \/ j # L[SQ][k] => s.next[j] = q.next[j],
           s.head = q.head, s.tail = q.tail, s.p = q.p,
           s.waiting = q.waiting, s.waitingTail = q.waitingTail,
           s.sleepQ = IF k = 0 THEN q.p ELSE q.sleepQ
    PROVE  Blocked(s, Put(L, SQ, k, q.p))
<1> DEFINE M == Put(L, SQ, k, q.p)
<1>1. /\ q \in QueueSet(Ptr) /\ Linked(q, L, Slot) /\ Waited(q, L, Slot) /\ IdleOK(q)
      /\ Fam(q.next, L) /\ Ends(q, L) /\ Listed(q, L, Slot)
      /\ q.p \in Slot /\ q.p # NULL /\ Loose(L, q.p) /\ q.state \in [Slot -> States]
      /\ \A i \in Slot : q.state[i] = "RUNNING" <=> i = q.p
  BY RunningIs
<1>2. /\ RQ \in Ix /\ SQ \in Ix /\ RQ # SQ /\ Slot \subseteq Ix /\ SQ \notin Slot
      /\ L \in [Ix -> Seq(Slot)] /\ s.next \in [Slot -> Ptr]
  BY <1>1, SlotsAre DEF Fam, QueueSet
<1>3. M[SQ] = Insert(L[SQ], k, q.p) /\ \A y \in Ix \ {SQ} : M[y] = L[y]
  BY <1>2 DEF Put
<1>4. Fam(s.next, M)
  <2> HIDE DEF M
  <2>1. /\ Fam(q.next, L) /\ SQ \in Ix /\ q.p \in Slot /\ Loose(L, q.p)
        /\ s.next \in [Slot -> Ptr]
    BY <1>1, <1>2
  <2> QED
    BY <2>1, FamPut DEF M
<1>5. \A y \in Ix, j \in Slot : In(M, y, j) <=> In(L, y, j) \/ (y = SQ /\ j = q.p)
  BY <1>1, <1>2, InsertIn
<1>6. First(M[SQ]) = IF k = 0 THEN q.p ELSE First(L[SQ])
  BY <1>1, <1>2, <1>3, InsertEnds
<1> HIDE DEF M
<1>7. Ends(s, M)
  BY <1>1, <1>2, <1>3, <1>6 DEF Ends
<1>8. Listed(s, M, Slot)
  <2>1. \A y \in Ix : ~In(L, y, q.p)
    BY <1>1 DEF Loose
  <2> QED
    BY <1>1, <1>2, <1>5, <2>1 DEF Listed
<1>9. Waited(s, M, Slot)
  <2>1. \A x \in Slot : M[x] = L[x]
    BY <1>2, <1>3
  <2> QED
    BY <1>1, <2>1 DEF Waited
<1>10. IdleOK(s) /\ s.p # NULL /\ \A i \in Slot : s.state[i] # "RUNNING"
  BY <1>1, IdleIsSlot DEF IdleOK
<1> QED
  BY <1>4, <1>7, <1>8, <1>9, <1>10 DEF Blocked, Sane, Linked, M

LEMMA SleptIs ==
    ASSUME NEW q \in QueueSet(Ptr), NEW i \in Slot
    PROVE  LET s == Slept(q, i) IN
           /\ s \in QueueSet(Ptr) /\ s.state = [q.state EXCEPT ![i] = "SLEEP"]
           /\ s.next = [q.next EXCEPT ![i] = NULL]
           /\ s.head = q.head /\ s.tail = q.tail /\ s.p = q.p /\ s.sleepQ = q.sleepQ
           /\ s.waiting = q.waiting /\ s.waitingTail = q.waitingTail
           /\ s.sleepdiff = q.sleepdiff
  BY SleptTypes DEF Slept, QueueSet

\* The loop of sleep() stays on the list of sleepers, and ends.
PlacedAt(s, l, w, n) ==
    \E k \in 1 .. Len(l) : w.tmp = l[k] /\ (Placed(s, w) \/ k > n)

LEMMA PlaceIsOnList ==
    ASSUME NEW s \in QueueSet(Ptr), NEW l \in Seq(Slot), l # <<>>, Len(l) <= MaxProc,
           s.sleepQ = l[1], NEW len \in Int,
           \A k \in 1 .. Len(l) : s.next[l[k]] = IF k = Len(l) THEN NULL ELSE l[k + 1]
    PROVE  /\ place(s, len) \in Spots
           /\ \E k \in 1 .. Len(l) : place(s, len).tmp = l[k]
<1> DEFINE I == [n \in 0 .. Fuel |-> {w \in Spots : PlacedAt(s, l, w, n)}]
<1>1. Fuel \in Nat /\ MaxProc \in Nat /\ Fuel > MaxProc
  BY FuelIsEnough
<1>2. /\ Len(l) \in Nat /\ 1 \in 1 .. Len(l) /\ \A k \in 1 .. Len(l) : l[k] \in Slot
  <2>1. Len(l) \in Nat /\ Len(l) # 0 /\ \A k \in 1 .. Len(l) : l[k] \in Slot
    BY LenProperties, EmptySeq, ElementOfSeq
  <2> QED
    BY <2>1
<1>3. FirstSpot(s, len) \in I[0]
  <2>1. FirstSpot(s, len) \in Spots /\ FirstSpot(s, len).tmp = l[1]
    BY <1>2, FirstSpotTypes DEF FirstSpot, Spot
  <2>2. PlacedAt(s, l, FirstSpot(s, len), 0)
    BY <1>2, <2>1 DEF PlacedAt
  <2> QED
    BY <1>1, <2>1, <2>2
<1>4. ASSUME NEW n \in 0 .. Fuel - 1, NEW w \in I[n] \cap Spots  PROVE PlaceTurn(s, w) \in I[n + 1]
  <2>1. n \in 0 .. Fuel /\ n + 1 \in 0 .. Fuel /\ n \in Nat
    BY <1>1
  <2>2. PICK k \in 1 .. Len(l) : w.tmp = l[k] /\ (Placed(s, w) \/ k > n)
    BY <2>1 DEF PlacedAt
  <2>3. PlaceTurn(s, w) \in Spots
    BY PlaceTypes
  <2>4. CASE Placed(s, w)
    BY <2>1, <2>2, <2>3, <2>4 DEF PlaceTurn, PlacedAt
  <2>5. CASE ~Placed(s, w)
    <3> DEFINE succ == s.next[w.tmp]
    <3>1. succ # NULL /\ PlaceTurn(s, w) = Spot(succ, w.len - s.sleepdiff[succ])
      BY <2>5 DEF PlaceTurn, Placed
    <3>2. k # Len(l) /\ succ = l[k + 1]
      BY <2>2, <3>1
    <3>3. k + 1 \in 1 .. Len(l)
      BY <1>2, <3>2, NotTheLast
    <3>4. k > n
      BY <2>2, <2>5
    <3>5. k + 1 > n + 1
      BY <2>1, <3>4
    <3>6. PlaceTurn(s, w).tmp = l[k + 1]
      BY <3>1, <3>2 DEF Spot
    <3> QED
      BY <2>1, <2>3, <3>3, <3>5, <3>6 DEF PlacedAt
  <2> QED
    BY <2>4, <2>5
<1>5. PICK w \in I[Fuel] \cap Spots : place(s, len) = Found(s, w)
  <2> HIDE DEF I
  <2>1. s.sleepQ \in Slot
    BY <1>2
  <2> QED
    BY <1>3, <1>4, <2>1, PlaceLoop
<1>6. PICK k \in 1 .. Len(l) : w.tmp = l[k] /\ (Placed(s, w) \/ k > Fuel)
  <2>1. Fuel \in 0 .. Fuel
    BY <1>1
  <2> QED
    BY <1>5, <2>1 DEF PlacedAt
<1>7. ~(k > Fuel)
  BY <1>1, <1>2
<1>8. Found(s, w) = w
  BY <1>5, <1>6, <1>7 DEF Found, Spots
<1> QED
  BY <1>5, <1>6, <1>8

LEMMA OnlyIs ==
    ASSUME NEW s \in QueueSet(Ptr), NEW i \in Slot, NEW len \in Int
    PROVE  LET t == OnlySleeper(s, i, len) IN
           /\ t \in QueueSet(Ptr) /\ t.state = s.state /\ t.next = s.next
           /\ t.head = s.head /\ t.tail = s.tail /\ t.p = s.p /\ t.sleepQ = i
           /\ t.waiting = s.waiting /\ t.waitingTail = s.waitingTail
           /\ t.sleepdiff = [s.sleepdiff EXCEPT ![i] = len]
  BY OnlyTypes DEF OnlySleeper, QueueSet

LEMMA FirstIs ==
    ASSUME NEW s \in QueueSet(Ptr), NEW i \in Slot, NEW len \in Int, s.sleepQ \in Slot
    PROVE  LET t == FirstSleeper(s, i, len) IN
           /\ t \in QueueSet(Ptr) /\ t.state = s.state
           /\ t.next = [s.next EXCEPT ![i] = s.sleepQ]
           /\ t.head = s.head /\ t.tail = s.tail /\ t.p = s.p /\ t.sleepQ = i
           /\ t.waiting = s.waiting /\ t.waitingTail = s.waitingTail
           /\ t.sleepdiff = [[s.sleepdiff EXCEPT ![s.sleepQ] = Minus(s.sleepdiff[s.sleepQ], len)]
                                 EXCEPT ![i] = len]
<1>1. FirstSleeper(s, i, len) \in QueueSet(Ptr)
  BY FirstTypes
<1> QED
  BY <1>1 DEF FirstSleeper, QueueSet

\* The differences with i before succ, x ticks after the process before it.
Ahead(sd, i, succ, x) ==
    LET ed == [sd EXCEPT ![i] = x]
    IN  IF succ = NULL THEN ed ELSE [ed EXCEPT ![succ] = Minus(@, x)]

LEMMA InsertAfterIs ==
    ASSUME NEW s \in QueueSet(Ptr), NEW i \in Slot, NEW w \in Spots
    PROVE  LET t == insertAfter(s, i, w) IN
           /\ t \in QueueSet(Ptr) /\ t.state = s.state
           /\ t.next = [[s.next EXCEPT ![i] = s.next[w.tmp]] EXCEPT ![w.tmp] = i]
           /\ t.head = s.head /\ t.tail = s.tail /\ t.p = s.p /\ t.sleepQ = s.sleepQ
           /\ t.waiting = s.waiting /\ t.waitingTail = s.waitingTail
           /\ t.sleepdiff = Ahead(s.sleepdiff, i, t.next[i], w.len)
<1> DEFINE u == [s EXCEPT !.next[i] = s.next[w.tmp], !.sleepdiff[i] = w.len,
                       !.next[w.tmp] = i]
           succ == u.next[i]
<1>1. /\ u.state = s.state
      /\ u.next = [[s.next EXCEPT ![i] = s.next[w.tmp]] EXCEPT ![w.tmp] = i]
      /\ u.head = s.head /\ u.tail = s.tail /\ u.p = s.p /\ u.sleepQ = s.sleepQ
      /\ u.waiting = s.waiting /\ u.waitingTail = s.waitingTail
      /\ u.sleepdiff = [s.sleepdiff EXCEPT ![i] = w.len]
  BY DEF QueueSet
<1>2. insertAfter(s, i, w) = IF succ = NULL THEN u
                             ELSE [u EXCEPT !.sleepdiff[succ] = Minus(@, w.len)]
  BY DEF insertAfter
<1>3. insertAfter(s, i, w) \in QueueSet(Ptr)
  BY InsertTypes DEF Spots
<1>4. u \in QueueSet(Ptr)
  <2>1. w.tmp \in Slot /\ w.len \in Int
    BY DEF Spots
  <2>2. s.next[w.tmp] \in Ptr
    BY <2>1 DEF QueueSet
  <2> QED
    BY <2>1, <2>2 DEF QueueSet, Ptr
<1> HIDE DEF u
<1>5. ASSUME NEW v \in QueueSet(Ptr), NEW x
      PROVE  LET t == [v EXCEPT !.sleepdiff[succ] = x] IN
             /\ t.state = v.state /\ t.next = v.next
             /\ t.head = v.head /\ t.tail = v.tail /\ t.p = v.p /\ t.sleepQ = v.sleepQ
             /\ t.waiting = v.waiting /\ t.waitingTail = v.waitingTail
             /\ t.sleepdiff = [v.sleepdiff EXCEPT ![succ] = x]
  BY DEF QueueSet
<1>6. succ = u.next[i]
  OBVIOUS
<1> HIDE DEF succ
<1>7. CASE succ = NULL
  BY <1>1, <1>2, <1>3, <1>6, <1>7 DEF Ahead
<1>8. CASE succ # NULL
  <2> DEFINE t == [u EXCEPT !.sleepdiff[succ] = Minus(@, w.len)]
  <2>1. t = [u EXCEPT !.sleepdiff[succ] = Minus(u.sleepdiff[succ], w.len)]
    BY <1>4 DEF QueueSet
  <2>2. /\ t.state = u.state /\ t.next = u.next
        /\ t.head = u.head /\ t.tail = u.tail /\ t.p = u.p /\ t.sleepQ = u.sleepQ
        /\ t.waiting = u.waiting /\ t.waitingTail = u.waitingTail
        /\ t.sleepdiff = [u.sleepdiff EXCEPT ![succ] = Minus(u.sleepdiff[succ], w.len)]
    <3> HIDE DEF t
    <3> QED
      BY <1>4, <1>5, <2>1
  <2>3. insertAfter(s, i, w) = t
    BY <1>2, <1>8
  <2>4. t.next[i] = succ
    BY <1>6, <2>2
  <2>5. t.sleepdiff = [[s.sleepdiff EXCEPT ![i] = w.len] EXCEPT ![succ] = Minus(@, w.len)]
    BY <1>1, <2>2
  <2> HIDE DEF t
  <2> QED
    BY <1>1, <1>3, <1>8, <2>2, <2>3, <2>4, <2>5 DEF Ahead
<1> QED
  BY <1>7, <1>8

\* ... behind the first k of a list.
Delayed(sd, l, k, i, x) == Ahead(sd, i, IF k = Len(l) THEN NULL ELSE l[k + 1], x)

\* Where sleep() puts the running process: at the front of the list, or where the loop
\* that place() stands for ends.
Goes(q, l, k, len, x) ==
    \/ k = 0 /\ x = len /\ (l = <<>> \/ Above(q.sleepdiff[l[1]], len))
    \/ /\ k > 0 /\ ~Above(q.sleepdiff[l[1]], len)
       /\ place(Slept(q, q.p), len).tmp = l[k] /\ place(Slept(q, q.p), len).len = x

SleptBehind(q, r, L, k, len, x) ==
    /\ Blocked(r, Put(L, SQ, k, q.p)) /\ Goes(q, L[SQ], k, len, x)
    /\ r.state = [q.state EXCEPT ![q.p] = "SLEEP"] /\ r.p = q.p
    /\ r.sleepdiff = Delayed(q.sleepdiff, L[SQ], k, q.p, x)

\* sleep() puts the running process on the list of sleepers.
LEMMA SleepRuns ==
    ASSUME NEW q, NEW L, Running(q, L), q.p # Idle, NEW ms \in Nat, ~(ms < 1)
    PROVE  \E k \in 0 .. Len(L[SQ]), x \in Int :
              SleptBehind(q, sleep(q, q.p, ms), L, k, ms \div MILLISECONDS_TICK, x)
<1> DEFINE i == q.p
           l == L[SQ]
           len == ms \div MILLISECONDS_TICK
           s == Slept(q, i)
           w == place(s, len)
           r == sleep(q, i, ms)
<1>1. /\ q \in QueueSet(Ptr) /\ Fam(q.next, L) /\ Ends(q, L) /\ Loose(L, i)
      /\ i \in Slot /\ q.next \in [Slot -> Ptr]
  BY RunningIs
<1>2. /\ SQ \in Ix /\ l \in Seq(Slot) /\ Len(l) \in Nat /\ Len(l) <= MaxProc
      /\ 0 \in 0 .. Len(l) /\ (l = <<>> <=> Len(l) = 0)
      /\ \A k \in 1 .. Len(l) : l[k] \in Slot
  <2>1. SQ \in Ix
    BY SlotsAre
  <2>2. Len(l) \in 0 .. MaxProc
    BY <1>1, <2>1, ListFits
  <2> QED
    BY <1>1, <2>1, <2>2, FamIs, FuelIsEnough
<1>3. \A k \in 1 .. Len(l) : l[k] # i /\ q.next[l[k]] = IF k = Len(l) THEN NULL ELSE l[k + 1]
  BY <1>1, <1>2 DEF Fam, Chained, Loose, In
<1>4. len \in Int
  BY TicksAre
<1>5. /\ s \in QueueSet(Ptr) /\ s.state = [q.state EXCEPT ![i] = "SLEEP"]
      /\ s.next = [q.next EXCEPT ![i] = NULL]
      /\ s.head = q.head /\ s.tail = q.tail /\ s.p = q.p /\ s.sleepQ = q.sleepQ
      /\ s.waiting = q.waiting /\ s.waitingTail = q.waitingTail
      /\ s.sleepdiff = q.sleepdiff /\ q.sleepdiff \in [Slot -> Int]
  <2>1. q.sleepdiff \in [Slot -> Int]
    BY <1>1 DEF QueueSet
  <2> QED
    BY <1>1, <2>1, SleptIs
<1>6. /\ q.sleepQ = First(l)
      /\ l # <<>> => q.sleepQ = l[1] /\ q.sleepQ \in Slot
      /\ l = <<>> <=> q.sleepQ = NULL
  BY <1>1, <1>2, EndsAre DEF Ends
<1>7. r = IF s.sleepQ = NULL THEN OnlySleeper(s, i, len)
          ELSE IF Above(s.sleepdiff[s.sleepQ], len) THEN FirstSleeper(s, i, len)
          ELSE IF w.tmp = NULL THEN Hang(s)
          ELSE insertAfter(s, i, w)
  BY SleepCases
<1> HIDE DEF s, len, w
<1> SUFFICES \E k \in 0 .. Len(l), x \in Int : SleptBehind(q, r, L, k, len, x)
  BY DEF len
<1> HIDE DEF r
<1>9. CASE s.sleepQ = NULL
  <2> DEFINE t == OnlySleeper(s, i, len)
  <2>1. l = <<>> /\ Len(l) = 0
    BY <1>2, <1>5, <1>6, <1>9
  <2>2. /\ t \in QueueSet(Ptr) /\ t.state = s.state /\ t.next = s.next
        /\ t.head = s.head /\ t.tail = s.tail /\ t.p = s.p /\ t.sleepQ = i
        /\ t.waiting = s.waiting /\ t.waitingTail = s.waitingTail
        /\ t.sleepdiff = [s.sleepdiff EXCEPT ![i] = len]
    BY <1>1, <1>4, <1>5, OnlyIs
  <2> HIDE DEF t
  <2>3. t.next[i] = NULL /\ \A j \in Slot \ {i} : t.next[j] = q.next[j]
    BY <1>1, <1>5, <2>2
  <2>4. Blocked(t, Put(L, SQ, 0, i))
    <3>1. /\ 0 \in 0 .. Len(L[SQ]) /\ t \in QueueSet(Ptr)
          /\ t.state = [q.state EXCEPT ![q.p] = "SLEEP"]
          /\ t.head = q.head /\ t.tail = q.tail /\ t.p = q.p
          /\ t.waiting = q.waiting /\ t.waitingTail = q.waitingTail
      BY <1>2, <1>5, <2>1, <2>2, <2>3
    <3>2. t.next[q.p] = IF 0 = Len(L[SQ]) THEN NULL ELSE L[SQ][0 + 1]
      BY <1>2, <1>5, <2>1, <2>2, <2>3
    <3>3. 0 > 0 => t.next[L[SQ][0]] = q.p
      BY <1>2, <1>5, <2>1, <2>2, <2>3
    <3>4. \A j \in Slot \ {q.p} : 0 = 0 \/ j # L[SQ][0] => t.next[j] = q.next[j]
      BY <1>2, <1>5, <2>1, <2>2, <2>3
    <3>5. t.sleepQ = IF 0 = 0 THEN q.p ELSE q.sleepQ
      BY <1>2, <1>5, <2>1, <2>2, <2>3
    <3> QED
      BY <3>1, <3>2, <3>3, <3>4, <3>5, SleepBlocks
  <2>5. Goes(q, l, 0, len, len) /\ t.sleepdiff = Delayed(q.sleepdiff, l, 0, i, len)
    BY <1>5, <2>1, <2>2 DEF Goes, Delayed, Ahead
  <2>6. r = t
    BY <1>7, <1>9 DEF t
  <2>7. SleptBehind(q, r, L, 0, len, len)
    BY <1>2, <1>4, <1>5, <2>2, <2>4, <2>5, <2>6 DEF SleptBehind
  <2> QED
    BY <1>2, <1>4, <2>7
<1>10. CASE s.sleepQ # NULL /\ Above(s.sleepdiff[s.sleepQ], len)
  <2> DEFINE t == FirstSleeper(s, i, len)
  <2>1. l # <<>> /\ Len(l) # 0 /\ q.sleepQ = l[1] /\ q.sleepQ \in Slot /\ 0 + 1 = 1
    BY <1>2, <1>5, <1>6, <1>10
  <2>2. /\ t \in QueueSet(Ptr) /\ t.state = s.state
        /\ t.next = [s.next EXCEPT ![i] = s.sleepQ]
        /\ t.head = s.head /\ t.tail = s.tail /\ t.p = s.p /\ t.sleepQ = i
        /\ t.waiting = s.waiting /\ t.waitingTail = s.waitingTail
        /\ t.sleepdiff = [[s.sleepdiff EXCEPT ![s.sleepQ] = Minus(s.sleepdiff[s.sleepQ], len)]
                              EXCEPT ![i] = len]
    <3>1. s \in QueueSet(Ptr) /\ i \in Slot /\ len \in Int /\ s.sleepQ \in Slot
      BY <1>1, <1>4, <1>5, <2>1
    <3> HIDE DEF i
    <3> QED
      BY <3>1, FirstIs
  <2> HIDE DEF t
  <2>3. t.next[i] = l[1] /\ \A j \in Slot \ {i} : t.next[j] = q.next[j]
    BY <1>1, <1>5, <2>1, <2>2
  <2>4. Blocked(t, Put(L, SQ, 0, i))
    <3>1. /\ 0 \in 0 .. Len(L[SQ]) /\ t \in QueueSet(Ptr)
          /\ t.state = [q.state EXCEPT ![q.p] = "SLEEP"]
          /\ t.head = q.head /\ t.tail = q.tail /\ t.p = q.p
          /\ t.waiting = q.waiting /\ t.waitingTail = q.waitingTail
      BY <1>2, <1>5, <2>1, <2>2, <2>3
    <3>2. t.next[q.p] = IF 0 = Len(L[SQ]) THEN NULL ELSE L[SQ][0 + 1]
      BY <1>2, <1>5, <2>1, <2>2, <2>3
    <3>3. 0 > 0 => t.next[L[SQ][0]] = q.p
      BY <1>2, <1>5, <2>1, <2>2, <2>3
    <3>4. \A j \in Slot \ {q.p} : 0 = 0 \/ j # L[SQ][0] => t.next[j] = q.next[j]
      BY <1>2, <1>5, <2>1, <2>2, <2>3
    <3>5. t.sleepQ = IF 0 = 0 THEN q.p ELSE q.sleepQ
      BY <1>2, <1>5, <2>1, <2>2, <2>3
    <3> QED
      BY <3>1, <3>2, <3>3, <3>4, <3>5, SleepBlocks
  <2>5. t.sleepdiff = Delayed(q.sleepdiff, l, 0, i, len)
    <3>1. l[1] \in Slot /\ l[1] # i /\ l[1] # NULL
      BY <1>2, <1>3, <2>1, NullIsNoSlot
    <3> QED
      BY <1>1, <1>5, <2>1, <2>2, <3>1 DEF Delayed, Ahead
  <2>6. Goes(q, l, 0, len, len)
    BY <1>5, <1>10, <2>1 DEF Goes
  <2>7. r = t
    BY <1>7, <1>10 DEF t
  <2>8. SleptBehind(q, r, L, 0, len, len)
    BY <1>2, <1>4, <1>5, <2>2, <2>4, <2>5, <2>6, <2>7 DEF SleptBehind
  <2> QED
    BY <1>2, <1>4, <2>8
<1>11. CASE s.sleepQ # NULL /\ ~Above(s.sleepdiff[s.sleepQ], len)
  <2> DEFINE t == insertAfter(s, i, w)
  <2>1. l # <<>> /\ s.sleepQ = l[1]
    BY <1>5, <1>6, <1>11
  <2>2. \A k \in 1 .. Len(l) : s.next[l[k]] = IF k = Len(l) THEN NULL ELSE l[k + 1]
    BY <1>1, <1>2, <1>3, <1>5
  <2>3. w \in Spots /\ \E k \in 1 .. Len(l) : w.tmp = l[k]
    BY ZenonT(40), <1>2, <1>4, <1>5, <2>1, <2>2, PlaceIsOnList DEF w
  <2>4. PICK k \in 1 .. Len(l) : w.tmp = l[k]
    BY <2>3
  <2>5. /\ t \in QueueSet(Ptr) /\ t.state = s.state
        /\ t.next = [[s.next EXCEPT ![i] = s.next[w.tmp]] EXCEPT ![w.tmp] = i]
        /\ t.head = s.head /\ t.tail = s.tail /\ t.p = s.p /\ t.sleepQ = s.sleepQ
        /\ t.waiting = s.waiting /\ t.waitingTail = s.waitingTail
        /\ t.sleepdiff = Ahead(s.sleepdiff, i, t.next[i], w.len)
    <3>1. s \in QueueSet(Ptr) /\ i \in Slot /\ w \in Spots
      BY <1>1, <1>5, <2>3
    <3> HIDE DEF i
    <3> QED
      BY <3>1, InsertAfterIs
  <2> HIDE DEF t
  <2>6. l[k] \in Slot /\ l[k] # i /\ s.next \in [Slot -> Ptr] /\ k \in 0 .. Len(l) /\ k # 0
    BY <1>1, <1>2, <1>3, <1>5 DEF QueueSet
  <2>7. /\ t.next[i] = IF k = Len(l) THEN NULL ELSE l[k + 1]
        /\ t.next[l[k]] = i
        /\ \A j \in Slot \ {i} : j # l[k] => t.next[j] = q.next[j]
    BY <1>1, <1>5, <2>2, <2>4, <2>5, <2>6
  <2>8. Blocked(t, Put(L, SQ, k, i))
    <3>1. /\ k \in 0 .. Len(L[SQ]) /\ t \in QueueSet(Ptr)
          /\ t.state = [q.state EXCEPT ![q.p] = "SLEEP"]
          /\ t.head = q.head /\ t.tail = q.tail /\ t.p = q.p
          /\ t.waiting = q.waiting /\ t.waitingTail = q.waitingTail
      BY <1>5, <2>5, <2>6, <2>7
    <3>2. t.next[q.p] = IF k = Len(L[SQ]) THEN NULL ELSE L[SQ][k + 1]
      BY <1>5, <2>5, <2>6, <2>7
    <3>3. k > 0 => t.next[L[SQ][k]] = q.p
      BY <1>5, <2>5, <2>6, <2>7
    <3>4. \A j \in Slot \ {q.p} : k = 0 \/ j # L[SQ][k] => t.next[j] = q.next[j]
      BY <1>5, <2>5, <2>6, <2>7
    <3>5. t.sleepQ = IF k = 0 THEN q.p ELSE q.sleepQ
      BY <1>5, <2>5, <2>6, <2>7
    <3> QED
      BY <3>1, <3>2, <3>3, <3>4, <3>5, SleepBlocks
  <2>9. w.tmp # NULL
    BY <2>4, <2>6, NullIsNoSlot
  <2>10. r = t
    BY <1>7, <1>11, <2>9 DEF t
  <2>11. t.sleepdiff = Delayed(q.sleepdiff, l, k, i, w.len)
    BY <1>5, <2>5, <2>7 DEF Delayed
  <2>12. Goes(q, l, k, len, w.len)
    BY <1>5, <1>11, <2>1, <2>4, <2>6 DEF Goes, w, s
  <2>13. w.len \in Int
    BY <2>3 DEF Spots
  <2>14. SleptBehind(q, r, L, k, len, w.len)
    BY <1>5, <2>5, <2>6, <2>8, <2>10, <2>11, <2>12, <2>13 DEF SleptBehind
  <2> QED
    BY <2>6, <2>13, <2>14
<1> QED
  BY <1>9, <1>10, <1>11

\* A field that is no part of the lists changes.
LEMMA RunningSame ==
    ASSUME NEW q, NEW L, Running(q, L), NEW s \in QueueSet(Ptr),
           s.state = q.state, s.next = q.next, s.head = q.head, s.tail = q.tail,
           s.sleepQ = q.sleepQ, s.waiting = q.waiting, s.waitingTail = q.waitingTail, s.p = q.p
    PROVE  Running(s, L)
  BY SameLists DEF Running, Sane

LEMMA ReturnRuns ==
    ASSUME NEW q, NEW L, Running(q, L), NEW r \in Rets
    PROVE  Running(Return(q, r), L) /\ Return(q, r).p = q.p
<1>1. q \in QueueSet(Ptr) /\ q.p \in Slot
  BY RunningIs
<1>2. Return(q, r) \in QueueSet(Ptr)
  BY <1>1, ReturnTypes
<1>3. LET s == Return(q, r) IN
      /\ s.state = q.state /\ s.next = q.next /\ s.head = q.head /\ s.tail = q.tail
      /\ s.sleepQ = q.sleepQ /\ s.waiting = q.waiting /\ s.waitingTail = q.waitingTail
      /\ s.p = q.p
  BY <1>1 DEF Return, QueueSet
<1> QED
  BY <1>2, <1>3, RunningSame

LEMMA StateIs ==
    ASSUME NEW q \in QueueSet(Ptr), NEW i \in Slot, NEW x \in States
    PROVE  LET s == [q EXCEPT !.state[i] = x] IN
           /\ s \in QueueSet(Ptr) /\ s.state = [q.state EXCEPT ![i] = x]
           /\ s.next = q.next /\ s.head = q.head /\ s.tail = q.tail /\ s.p = q.p
           /\ s.sleepQ = q.sleepQ /\ s.waiting = q.waiting /\ s.waitingTail = q.waitingTail
           /\ s.sleepdiff = q.sleepdiff
  BY DEF QueueSet

\* The process that goes on is marked RUNNING, which it is.
LEMMA ResumedRuns ==
    ASSUME NEW q, NEW L, Running(q, L)
    PROVE  Running(Resumed(q), L)
<1>1. /\ q \in QueueSet(Ptr) /\ q.p \in Slot /\ q.p # NULL /\ q.state[q.p] = "RUNNING"
      /\ q.state \in [Slot -> States]
  BY RunningIs
<1> DEFINE s == Resumed(q)
<1>2. s = [q EXCEPT !.state[q.p] = "RUNNING"]
  BY <1>1 DEF Resumed
<1>3. /\ s \in QueueSet(Ptr) /\ s.state = [q.state EXCEPT ![q.p] = "RUNNING"]
      /\ s.next = q.next /\ s.head = q.head /\ s.tail = q.tail /\ s.p = q.p
      /\ s.sleepQ = q.sleepQ /\ s.waiting = q.waiting /\ s.waitingTail = q.waitingTail
  <2>1. LET r == [q EXCEPT !.state[q.p] = "RUNNING"] IN
        /\ r \in QueueSet(Ptr) /\ r.state = [q.state EXCEPT ![q.p] = "RUNNING"]
        /\ r.next = q.next /\ r.head = q.head /\ r.tail = q.tail /\ r.p = q.p
        /\ r.sleepQ = q.sleepQ /\ r.waiting = q.waiting /\ r.waitingTail = q.waitingTail
    BY ZenonT(40), <1>1, StateIs DEF States
  <2> HIDE DEF s
  <2> QED
    BY <1>2, <2>1
<1> HIDE DEF s
<1>4. s.state = q.state
  BY <1>1, <1>3
<1> QED
  BY <1>3, <1>4, RunningSame DEF s

\* sysstop(): the running process leaves the lists.
LEMMA StopBlocks ==
    ASSUME NEW q, NEW L, Running(q, L), q.p # Idle
    PROVE  LET s == [q EXCEPT !.state[q.p] = "STOPPED"]
               M == Dropped(Moved(L, q.p, Count(L[q.p])), q.p)
               r == removeWaiting(s, q.p)
           IN  /\ Blocked(r, M) /\ Kept(s, r, M) /\ r.p = q.p
               /\ s.state = [q.state EXCEPT ![q.p] = "STOPPED"] /\ s.sleepdiff = q.sleepdiff
<1> DEFINE s == [q EXCEPT !.state[q.p] = "STOPPED"]
<1>1. /\ q \in QueueSet(Ptr) /\ Linked(q, L, Slot) /\ Waited(q, L, Slot) /\ IdleOK(q)
      /\ q.p \in Slot /\ q.p # NULL /\ Loose(L, q.p) /\ q.state \in [Slot -> States]
      /\ \A i \in Slot : q.state[i] = "RUNNING" <=> i = q.p
  BY RunningIs
<1>2. /\ s \in QueueSet(Ptr) /\ s.state = [q.state EXCEPT ![q.p] = "STOPPED"]
      /\ s.next = q.next /\ s.head = q.head /\ s.tail = q.tail /\ s.p = q.p
      /\ s.sleepQ = q.sleepQ /\ s.waiting = q.waiting /\ s.waitingTail = q.waitingTail
      /\ s.sleepdiff = q.sleepdiff
  BY ZenonT(40), <1>1, StateIs DEF States
<1> HIDE DEF s
<1>3. Linked(s, L, Slot)
  <2>1. Linked(q, L, Slot \ {q.p})
    BY <1>1 DEF Linked, Listed
  <2> QED
    BY <1>1, <1>2, <2>1, LooseState
<1>4. Waited(s, L, Slot \ {q.p})
  BY <1>1, <1>2 DEF Waited
<1>5. s.waiting[q.p] = First(L[q.p]) /\ s.waitingTail[q.p] = Last(L[q.p])
  BY <1>1, <1>2 DEF Waited
<1>6. /\ IdleOK(s) /\ s.state[q.p] = "STOPPED" /\ s.p # NULL
      /\ \A j \in Slot : s.state[j] # "RUNNING"
  BY <1>1, <1>2, IdleIsSlot DEF IdleOK
<1>7. LET M == Dropped(Moved(L, q.p, Count(L[q.p])), q.p)
          r == removeWaiting(s, q.p)
      IN  Blocked(r, M) /\ Kept(s, r, M) /\ r.p = s.p
  BY ZenonT(40), <1>1, <1>3, <1>4, <1>5, <1>6, RemoveBlocks
<1> QED
  BY <1>2, <1>7 DEF s

\* syswait() that blocks the caller without putting it on a list.
LEMMA UnlistedBlocks ==
    ASSUME NEW q, NEW L, Running(q, L), q.p # Idle
    PROVE  Blocked([q EXCEPT !.state[q.p] = "WAITING"], L)
<1> DEFINE s == [q EXCEPT !.state[q.p] = "WAITING"]
<1>1. /\ q \in QueueSet(Ptr) /\ Linked(q, L, Slot) /\ Waited(q, L, Slot) /\ IdleOK(q)
      /\ q.p \in Slot /\ q.p # NULL /\ Loose(L, q.p) /\ q.state \in [Slot -> States]
      /\ \A i \in Slot : q.state[i] = "RUNNING" <=> i = q.p
  BY RunningIs
<1>2. /\ s \in QueueSet(Ptr) /\ s.state = [q.state EXCEPT ![q.p] = "WAITING"]
      /\ s.next = q.next /\ s.head = q.head /\ s.tail = q.tail /\ s.p = q.p
      /\ s.sleepQ = q.sleepQ /\ s.waiting = q.waiting /\ s.waitingTail = q.waitingTail
  BY ZenonT(40), <1>1, StateIs DEF States
<1> HIDE DEF s
<1>3. Linked(s, L, Slot)
  <2>1. Linked(q, L, Slot \ {q.p})
    BY <1>1 DEF Linked, Listed
  <2> QED
    BY <1>1, <1>2, <2>1, LooseState
<1>4. Waited(s, L, Slot)
  BY <1>1, <1>2 DEF Waited
<1>5. IdleOK(s) /\ s.p # NULL /\ \A j \in Slot : s.state[j] # "RUNNING"
  BY <1>1, <1>2, IdleIsSlot DEF IdleOK
<1>6. Blocked(s, L)
  BY <1>3, <1>4, <1>5 DEF Blocked, Sane
<1> QED
  BY <1>6 DEF s

LEMMA AddIs ==
    ASSUME NEW q \in QueueSet(Ptr), NEW f \in Slot, NEW i \in Slot
    PROVE  LET s == addToWaiting(q, f, i) IN
           /\ s \in QueueSet(Ptr) /\ s.state = q.state
           /\ q.waitingTail[f] # NULL =>
                 /\ s.next = [[q.next EXCEPT ![q.waitingTail[f]] = i] EXCEPT ![i] = NULL]
                 /\ s.waiting = q.waiting
           /\ q.waitingTail[f] = NULL =>
                 /\ s.next = [q.next EXCEPT ![i] = NULL]
                 /\ s.waiting = [q.waiting EXCEPT ![f] = i]
           /\ s.waitingTail = [q.waitingTail EXCEPT ![f] = i]
           /\ s.head = q.head /\ s.tail = q.tail /\ s.p = q.p /\ s.sleepQ = q.sleepQ
           /\ s.sleepdiff = q.sleepdiff
<1>1. addToWaiting(q, f, i) \in QueueSet(Ptr)
  BY AddTypes
<1>2. CASE q.waitingTail[f] # NULL
  BY <1>1, <1>2 DEF addToWaiting, QueueSet
<1>3. CASE q.waitingTail[f] = NULL
  BY <1>1, <1>3 DEF addToWaiting, QueueSet
<1> QED
  BY <1>2, <1>3

\* syswait(): the running process goes to the end of the list of the process in slot f.
LEMMA AddBlocks ==
    ASSUME NEW q, NEW L, Running(q, L), q.p # Idle, NEW f \in Slot, q.state[f] # "STOPPED"
    PROVE  LET s == [addToWaiting(q, f, q.p) EXCEPT !.state[q.p] = "WAITING"] IN
           /\ Blocked(s, Put(L, f, Len(L[f]), q.p)) /\ s.p = q.p
           /\ s.state = [q.state EXCEPT ![q.p] = "WAITING"] /\ s.sleepdiff = q.sleepdiff
<1> DEFINE i == q.p
           a == addToWaiting(q, f, i)
           s == [a EXCEPT !.state[i] = "WAITING"]
           l == L[f]
           k == Len(l)
           M == Put(L, f, k, i)
<1>1. /\ q \in QueueSet(Ptr) /\ Linked(q, L, Slot) /\ Waited(q, L, Slot) /\ IdleOK(q)
      /\ Fam(q.next, L) /\ Ends(q, L) /\ Listed(q, L, Slot)
      /\ i \in Slot /\ i # NULL /\ Loose(L, i) /\ q.state \in [Slot -> States]
      /\ q.next \in [Slot -> Ptr]
      /\ \A j \in Slot : q.state[j] = "RUNNING" <=> j = i
  BY RunningIs
<1>2. /\ a \in QueueSet(Ptr) /\ a.state = q.state
      /\ q.waitingTail[f] # NULL =>
            /\ a.next = [[q.next EXCEPT ![q.waitingTail[f]] = i] EXCEPT ![i] = NULL]
            /\ a.waiting = q.waiting
      /\ q.waitingTail[f] = NULL =>
            /\ a.next = [q.next EXCEPT ![i] = NULL]
            /\ a.waiting = [q.waiting EXCEPT ![f] = i]
      /\ a.waitingTail = [q.waitingTail EXCEPT ![f] = i]
      /\ a.head = q.head /\ a.tail = q.tail /\ a.p = q.p /\ a.sleepQ = q.sleepQ
      /\ a.sleepdiff = q.sleepdiff
  <2>1. q \in QueueSet(Ptr) /\ i \in Slot
    BY <1>1
  <2> HIDE DEF i
  <2> QED
    BY ZenonT(40), <2>1, AddIs
<1> HIDE DEF a
<1>3. /\ s \in QueueSet(Ptr) /\ s.state = [a.state EXCEPT ![i] = "WAITING"]
      /\ s.next = a.next /\ s.head = a.head /\ s.tail = a.tail /\ s.p = a.p
      /\ s.sleepQ = a.sleepQ /\ s.waiting = a.waiting /\ s.waitingTail = a.waitingTail
      /\ s.sleepdiff = a.sleepdiff
  BY ZenonT(40), <1>1, <1>2, StateIs DEF States
<1> HIDE DEF s
<1>4. /\ RQ \in Ix /\ SQ \in Ix /\ f \in Ix /\ RQ # f /\ SQ # f /\ Slot \subseteq Ix
      /\ L \in [Ix -> Seq(Slot)] /\ s.next \in [Slot -> Ptr]
      /\ q.waiting \in [Slot -> Ptr] /\ q.waitingTail \in [Slot -> Ptr]
  BY <1>1, <1>3, SlotsAre DEF Fam, QueueSet
<1>5. /\ l \in Seq(Slot) /\ k \in Nat /\ k \in 0 .. Len(l) /\ (l = <<>> <=> k = 0)
  <2>1. l \in Seq(Slot) /\ k \in Nat /\ (l = <<>> <=> k = 0)
    BY <1>1, <1>4, FamIs
  <2>2. k \in 0 .. k
    BY <2>1
  <2> QED
    BY <2>1, <2>2
<1>6. /\ q.waitingTail[f] = Last(l) /\ q.waiting[f] = First(l)
      /\ q.waitingTail[f] = NULL <=> l = <<>>
      /\ l # <<>> => q.waitingTail[f] \in Slot /\ q.waitingTail[f] = l[k] /\ k \in 1 .. Len(l)
  <2>1. q.waitingTail[f] = Last(l) /\ q.waiting[f] = First(l)
    BY <1>1 DEF Waited
  <2> QED
    BY <1>1, <1>4, <2>1, EndsAre
<1>7. l # <<>> => q.waitingTail[f] # i
  BY <1>1, <1>4, <1>6 DEF Loose, In
<1> HIDE DEF k
<1>8. /\ s.next[i] = NULL /\ (l # <<>> => s.next[q.waitingTail[f]] = i)
      /\ \A j \in Slot \ {i} : l = <<>> \/ j # q.waitingTail[f] => s.next[j] = q.next[j]
  <2>1. CASE l = <<>>
    BY <1>1, <1>2, <1>3, <1>6, <2>1
  <2>2. CASE l # <<>>
    BY <1>1, <1>2, <1>3, <1>6, <1>7, <2>2
  <2> QED
    BY <2>1, <2>2
<1>9. Fam(s.next, M)
  <2>1. s.next[i] = IF k = Len(L[f]) THEN NULL ELSE L[f][k + 1]
    BY <1>8 DEF k
  <2>2. k > 0 => s.next[L[f][k]] = i
    BY <1>5, <1>6, <1>8
  <2>3. \A j \in Slot \ {i} : k = 0 \/ j # L[f][k] => s.next[j] = q.next[j]
    BY <1>5, <1>6, <1>8
  <2>4. /\ Fam(q.next, L) /\ f \in Ix /\ k \in 0 .. Len(L[f]) /\ i \in Slot /\ Loose(L, i)
        /\ s.next \in [Slot -> Ptr]
    BY <1>1, <1>4, <1>5
  <2> HIDE DEF i
  <2> QED
    BY <2>1, <2>2, <2>3, <2>4, FamPut
<1>10. M[f] = Insert(l, k, i) /\ \A y \in Ix \ {f} : M[y] = L[y]
  BY <1>4 DEF Put
<1>11. \A y \in Ix, j \in Slot : In(M, y, j) <=> In(L, y, j) \/ (y = f /\ j = i)
  BY ZenonT(40), <1>1, <1>4, <1>5, InsertIn
<1>12. First(M[f]) = (IF k = 0 THEN i ELSE First(l)) /\ Last(M[f]) = i
  BY <1>1, <1>5, <1>10, InsertEnds DEF k
<1> HIDE DEF M
<1>13. Ends(s, M)
  BY <1>1, <1>2, <1>3, <1>4, <1>10 DEF Ends
<1>14. s.state = [q.state EXCEPT ![i] = "WAITING"]
  BY <1>2, <1>3
<1>15. Listed(s, M, Slot)
  <2>1. \A y \in Ix : ~In(L, y, i)
    BY <1>1 DEF Loose
  <2> QED
    BY <1>1, <1>4, <1>11, <1>14, <2>1 DEF Listed
<1>16. Waited(s, M, Slot)
  <2>1. ASSUME NEW x \in Slot, x # f
        PROVE  /\ s.waiting[x] = First(M[x]) /\ s.waitingTail[x] = Last(M[x])
               /\ M[x] # <<>> => s.state[x] # "STOPPED"
    <3>1. s.waiting[x] = q.waiting[x] /\ s.waitingTail[x] = q.waitingTail[x] /\ M[x] = L[x]
      BY <1>2, <1>3, <1>4, <1>10, <2>1
    <3> QED
      BY <1>1, <1>14, <3>1 DEF Waited
  <2>2. s.waiting[f] = First(M[f])
    BY <1>2, <1>3, <1>4, <1>5, <1>6, <1>12
  <2>3. s.waitingTail[f] = Last(M[f]) /\ s.state[f] # "STOPPED"
    BY <1>1, <1>2, <1>3, <1>4, <1>12, <1>14
  <2> QED
    BY <2>1, <2>2, <2>3 DEF Waited
<1>17. IdleOK(s) /\ s.p # NULL /\ \A j \in Slot : s.state[j] # "RUNNING"
  BY <1>1, <1>2, <1>3, <1>14, IdleIsSlot DEF IdleOK
<1>18. Blocked(s, M)
  BY <1>3, <1>9, <1>13, <1>15, <1>16, <1>17 DEF Blocked, Sane, Linked
<1> QED
  BY <1>2, <1>3, <1>14, <1>18 DEF s, a, M, k

\* create(): the process in a stopped slot goes to the end of the ready queue.
LEMMA CreateRuns ==
    ASSUME NEW q, NEW L, Running(q, L), NEW i \in Slot, q.state[i] = "STOPPED"
    PROVE  LET r == ready(Emptied(q, i), i) IN
           /\ Running(r, Put(L, RQ, Len(L[RQ]), i)) /\ L[i] = <<>> /\ r.p = q.p
           /\ r.state = [q.state EXCEPT ![i] = "READY"] /\ r.sleepdiff = q.sleepdiff
<1> DEFINE c == Emptied(q, i)
           r == ready(c, i)
           M == Put(L, RQ, Len(L[RQ]), i)
<1>1. /\ q \in QueueSet(Ptr) /\ Linked(q, L, Slot) /\ Waited(q, L, Slot) /\ IdleOK(q)
      /\ q.p \in Slot /\ q.state \in [Slot -> States]
      /\ \A j \in Slot : q.state[j] = "RUNNING" <=> j = q.p
  BY RunningIs
<1>2. Loose(L, i)
  BY <1>1, RunningLoose
<1>3. /\ c \in QueueSet(Ptr) /\ c.state = q.state /\ c.next = q.next /\ c.head = q.head
      /\ c.tail = q.tail /\ c.sleepQ = q.sleepQ /\ c.p = q.p
      /\ c.waiting = [q.waiting EXCEPT ![i] = NULL]
      /\ c.waitingTail = [q.waitingTail EXCEPT ![i] = NULL]
      /\ q.waiting \in [Slot -> Ptr] /\ q.waitingTail \in [Slot -> Ptr]
      /\ c.sleepdiff = q.sleepdiff
  BY <1>1 DEF Emptied, QueueSet, Ptr
<1> HIDE DEF c
<1>4. q.waiting[i] = NULL /\ q.waitingTail[i] = NULL /\ L[i] = <<>>
  <2>1. L[i] = <<>> /\ q.waiting[i] = First(L[i]) /\ q.waitingTail[i] = Last(L[i])
    BY <1>1 DEF Waited
  <2> QED
    BY <2>1 DEF First, Last
<1>5. c.waiting = q.waiting /\ c.waitingTail = q.waitingTail
  BY <1>3, <1>4
<1>6. Running(c, L)
  BY <1>3, <1>5, RunningSame
<1>7. Linked(c, L, Slot) /\ Waited(c, L, Slot) /\ IdleOK(c)
  BY <1>6, RunningIs
<1>8. Linked(r, M, Slot) /\ \A x \in Slot : M[x] = L[x]
  BY <1>2, <1>7, ReadyLinked
<1>9. Waited(r, M, Slot) /\ IdleOK(r)
  BY <1>3, <1>7, <1>8, ReadyWaited
<1>10. r.state = [c.state EXCEPT ![i] = "READY"] /\ r.p = c.p /\ r.sleepdiff = c.sleepdiff
  BY ZenonT(40), <1>3, ReadyIs
<1>11. r.p \in Slot /\ \A j \in Slot : r.state[j] = "RUNNING" <=> j = r.p
  <2> HIDE DEF r
  <2> QED
    BY <1>1, <1>3, <1>10
<1>12. Running(r, M)
  BY <1>8, <1>9, <1>11 DEF Running, Sane
<1> HIDE DEF r
<1>13. r.state = [q.state EXCEPT ![i] = "READY"] /\ r.p = q.p /\ r.sleepdiff = q.sleepdiff
  BY <1>3, <1>10
<1> QED
  BY <1>4, <1>12, <1>13 DEF r, c

\* The inductive invariant.
ListInv == \E L : Running(Queues, L)

LEMMA ResumesRunning ==
    ASSUME NEW q, NEW L, Running(q, L), NEW s, Dispatch(q, s)
    PROVE  ListInv'
<1>1. q \in QueueSet(Ptr)
  BY RunningIs
<1>2. Queues' = Resumed(q)
  BY <1>1, DispatchEffect
<1>3. Running(Resumed(q), L)
  BY ResumedRuns
<1>4. Running(Queues', L)
  BY <1>2, <1>3
<1> QED
  BY <1>4 DEF ListInv

LEMMA Switches ==
    ASSUME NEW q, NEW L, Blocked(q, L), NEW s, Dispatch(switch(q), s)
    PROVE  ListInv'
<1>1. switch(q) \in QueueSet(Ptr)
  BY SwitchTypes DEF Blocked, Sane, Linked
<1>2. Queues' = Resumed(switch(q))
  BY <1>1, DispatchEffect
<1>3. Running(Resumed(switch(q)), Less(L, RQ))
  BY SwitchRuns
<1>4. Running(Queues', Less(L, RQ))
  BY <1>2, <1>3
<1> QED
  BY <1>4 DEF ListInv

AtFirst == [x \in Ix |-> IF x = RQ THEN <<1>> ELSE <<>>]

LEMMA FirstLists ==
    ASSUME Init
    PROVE  Running(Queues, AtFirst)
<1> DEFINE q == Queues
           L == AtFirst
<1>1. q \in QueueSet(Ptr)
  BY TypesInit DEF TypeInv, TypesOK
<1>2. /\ q.state = [i \in Slot |-> CASE i = 0 -> "RUNNING" [] i = 1 -> "READY"
                                     [] i > 1 -> "STOPPED"]
      /\ q.next = [i \in Slot |-> NULL] /\ q.waiting = [i \in Slot |-> NULL]
      /\ q.waitingTail = [i \in Slot |-> NULL]
      /\ q.head = 1 /\ q.tail = 1 /\ q.sleepQ = NULL /\ q.p = 0
  BY DEF Init, Queues, Idle
<1> HIDE DEF q
<1>3. 0 \in Slot /\ 1 \in Slot /\ Slot \subseteq Nat
  BY KernelAssumption DEF Slot
<1>4. /\ RQ \in Ix /\ SQ \in Ix /\ RQ # SQ /\ Slot \subseteq Ix /\ RQ \notin Slot
  BY SlotsAre
<1>5. /\ L[RQ] = <<1>> /\ \A x \in Ix \ {RQ} : L[x] = <<>>
  BY <1>4 DEF AtFirst
<1>6. L \in [Ix -> Seq(Slot)]
  <2>1. <<1>> \in Seq(Slot) /\ <<>> \in Seq(Slot)
    BY <1>3
  <2> QED
    BY <2>1 DEF AtFirst
<1> HIDE DEF L
<1>7. Len(<<1>>) = 1 /\ Len(<<>>) = 0 /\ <<1>>[1] = 1 /\ <<1>> # <<>>
  OBVIOUS
<1>8. \A x \in Ix : \A k \in 1 .. Len(L[x]) : x = RQ /\ k = 1 /\ L[x][k] = 1 /\ Len(L[x]) = 1
  <2> SUFFICES ASSUME NEW x \in Ix, NEW k \in 1 .. Len(L[x])
               PROVE  x = RQ /\ k = 1 /\ L[x][k] = 1 /\ Len(L[x]) = 1
    OBVIOUS
  <2>1. x = RQ
    BY <1>5, <1>7
  <2>2. L[x] = <<1>> /\ Len(L[x]) = 1
    BY <1>5, <1>7, <2>1
  <2>3. k = 1
    BY <2>2
  <2> QED
    BY <1>7, <2>1, <2>2, <2>3
<1>9. Fam(q.next, L)
  <2>1. Chained(q.next, L)
    BY <1>2, <1>3, <1>8 DEF Chained
  <2>2. Apart(L)
    BY <1>8 DEF Apart
  <2> QED
    BY <1>1, <1>6, <2>1, <2>2 DEF Fam, QueueSet
<1>10. Ends(q, L)
  BY <1>2, <1>4, <1>5, <1>7 DEF Ends, First, Last
<1>11. \A x \in Ix, i \in Slot : In(L, x, i) <=> x = RQ /\ i = 1
  <2> SUFFICES ASSUME NEW x \in Ix, NEW i \in Slot  PROVE In(L, x, i) <=> x = RQ /\ i = 1
    OBVIOUS
  <2>1. In(L, x, i) => x = RQ /\ i = 1
    BY <1>8 DEF In
  <2>2. x = RQ /\ i = 1 => In(L, x, i)
    BY <1>5, <1>7 DEF In
  <2> QED
    BY <2>1, <2>2
<1>12. \A i \in Slot : /\ q.state[i] = "READY" <=> i = 1
                       /\ q.state[i] = "RUNNING" <=> i = 0
                       /\ q.state[i] # "SLEEP"
  BY <1>2, <1>3
<1>13. Listed(q, L, Slot)
  BY <1>4, <1>11, <1>12 DEF Listed
<1>14. Waited(q, L, Slot)
  BY <1>2, <1>4, <1>5 DEF Waited, First, Last
<1>15. IdleOK(q)
  BY <1>3, <1>12 DEF IdleOK, Idle
<1>16. Running(q, L)
  BY <1>1, <1>2, <1>3, <1>9, <1>10, <1>12, <1>13, <1>14, <1>15 DEF Running, Sane, Linked
<1> QED
  BY <1>16 DEF q, L

LEMMA ListsInit == Init => ListInv
  BY FirstLists DEF ListInv

\* Only the processes that are READY are sent signals: signal() readies the others,
\* and those that sleep or wait stay on their list too.
LEMMA ListsStep ==
    ASSUME KillStates \subseteq {"READY"}, ListInv, [Next]_vars
    PROVE  ListInv'
<1>1. PICK L : Running(Queues, L)
  BY DEF ListInv
<1>2. /\ Queues \in QueueSet(Ptr) /\ Queues.p = p /\ p \in Slot
      /\ Queues.state = state
  <2>1. Queues.p = p /\ Queues.state = state
    BY DEF Queues
  <2> QED
    BY <1>1, <2>1, RunningIs
<1>3. {"result", "eax", "-1", "-99", "-561", "-512", "junk"} \subseteq Rets
  BY DEF Rets
<1>4. ASSUME NEW r \in Rets, NEW s, Dispatch(Return(Queues, r), s)  PROVE ListInv'
  BY <1>1, <1>4, ReturnRuns, ResumesRunning
<1>5. ASSUME NEW call, MayIssue(call), call # "yield"  PROVE Queues.p # Idle
  BY <1>2, <1>5 DEF MayIssue
<1>6. CASE create
  <2>1. ASSUME NEW i \in Slot, state[i] = "STOPPED",
               Dispatch(Return(ready([Queues EXCEPT !.waiting[i] = NULL,
                                                    !.waitingTail[i] = NULL], i), "result"),
                        initSignals(Signals, i))
        PROVE  ListInv'
    <3> DEFINE M == Put(L, RQ, Len(L[RQ]), i)
    <3>1. Running(ready(Emptied(Queues, i), i), M)
      BY <1>1, <1>2, <2>1, CreateRuns
    <3> HIDE DEF M
    <3>2. Running(Return(ready(Emptied(Queues, i), i), "result"), M)
      BY <1>3, <3>1, ReturnRuns
    <3> QED
      BY <2>1, <3>2, ResumesRunning DEF Emptied
  <2> QED
    BY <1>3, <1>4, <1>6, <2>1 DEF create
<1>7. CASE Query
  BY <1>3, <1>4, <1>7 DEF Query
<1>8. CASE Yield
  <2>1. Blocked(ready(Queues, p), Put(L, RQ, Len(L[RQ]), p))
    BY <1>1, <1>2, ReadyBlocks
  <2> QED
    BY <1>8, <2>1, Switches DEF Yield
<1>9. CASE Stop
  <2>1. PICK M : Blocked(removeWaiting([Queues EXCEPT !.state[p] = "STOPPED"], p), M)
    <3>1. Queues.p # Idle
      BY <1>5, <1>9 DEF Stop
    <3> QED
      BY <1>1, <1>2, <3>1, StopBlocks
  <2> QED
    BY <1>9, <2>1, Switches DEF Stop
<1>10. CASE Timer
  <2>1. PICK q \in {tick(Return(Queues, "eax"))} :
           Dispatch(IF q.p = NULL THEN q ELSE switch(ready(q, p)), Signals)
    BY <1>10 DEF Timer
  <2>2. Running(Return(Queues, "eax"), L) /\ Return(Queues, "eax").p = p
    BY <1>1, <1>2, <1>3, ReturnRuns
  <2>3. PICK M : Running(q, M) /\ q.p = p
    BY <2>1, <2>2, TickRuns DEF Woken
  <2>4. PICK N : Blocked(ready(q, p), N)
    BY <2>3, ReadyBlocks
  <2>5. q.p # NULL
    BY <2>3, RunningIs
  <2> QED
    BY <2>1, <2>4, <2>5, Switches
<1>11. CASE SigReturn
  BY <1>3, <1>4, <1>11 DEF SigReturn
<1>12. ASSUME NEW ms \in Lens, Sleep(ms)  PROVE ListInv'
  <2>1. ms \in Nat /\ Queues.p # Idle
    BY <1>5, <1>12, KernelAssumption DEF Sleep
  <2>2. PICK M : Blocked(sleep(Queues, p, ms), M)
    <3>1. CASE ms < 1
      <4>1. sleep(Queues, p, ms) = ready(Queues, p)
        BY <3>1 DEF sleep
      <4> QED
        BY <1>1, <1>2, <4>1, ReadyBlocks
    <3>2. CASE ~(ms < 1)
      BY <1>1, <1>2, <2>1, <3>2, SleepRuns DEF SleptBehind
    <3> QED
      BY <3>1, <3>2
  <2> QED
    BY <1>12, <2>2, Switches DEF Sleep
<1>13. ASSUME NEW target, NEW n, Kill(target, n)  PROVE ListInv'
  <2>1. ASSUME NEW i, i = findPCB(target), i # NULL, state[i] \in KillStates,
               Dispatch(Return(unblock(Queues, i), "result"), mark(Signals, i, n))
        PROVE  ListInv'
    <3>1. i \in Slot /\ state[i] = "READY"
      BY <2>1, FindTypes
    <3>2. ASSUME NEW q \in QueueSet(Ptr)
          PROVE  LET u == [q EXCEPT !.ret[i] = "-99"] IN
                 /\ u \in QueueSet(Ptr) /\ u.state = q.state /\ u.next = q.next
                 /\ u.head = q.head /\ u.tail = q.tail /\ u.sleepQ = q.sleepQ /\ u.p = q.p
                 /\ u.waiting = q.waiting /\ u.waitingTail = q.waitingTail
      BY <1>3, <3>1 DEF QueueSet
    <3> DEFINE u == [Queues EXCEPT !.ret[i] = "-99"]
    <3>3. /\ u \in QueueSet(Ptr) /\ u.state = state
          /\ Running(u, L)
      <4>1. /\ u \in QueueSet(Ptr) /\ u.state = Queues.state /\ u.next = Queues.next
            /\ u.head = Queues.head /\ u.tail = Queues.tail /\ u.sleepQ = Queues.sleepQ
            /\ u.p = Queues.p
            /\ u.waiting = Queues.waiting /\ u.waitingTail = Queues.waitingTail
        BY <1>2, <3>2
      <4> HIDE DEF u
      <4> QED
        BY <1>1, <1>2, <4>1, RunningSame
    <3> HIDE DEF u
    <3>4. unblock(Queues, i) = u
      BY <3>1, <3>3 DEF unblock, u
    <3> QED
      BY <1>3, <2>1, <3>3, <3>4, ReturnRuns, ResumesRunning
  <2> QED
    BY <1>3, <1>4, <1>13, <2>1 DEF Kill
<1>14. ASSUME NEW n, NEW own, sighandler(n, own)  PROVE ListInv'
  BY <1>3, <1>4, <1>14 DEF sighandler
<1>15. ASSUME NEW target, Wait(target)  PROVE ListInv'
  <2>1. Queues.p # Idle
    BY <1>5, <1>15 DEF Wait
  <2>2. CASE Dispatch(Return(Queues, "-1"), Signals)
    BY <1>3, <1>4, <2>2
  <2>3. CASE Dispatch(switch([Queues EXCEPT !.state[p] = "WAITING"]), Signals)
    <3>1. Blocked([Queues EXCEPT !.state[p] = "WAITING"], L)
      BY <1>1, <1>2, <2>1, UnlistedBlocks
    <3> QED
      BY <2>3, <3>1, Switches
  <2>4. ASSUME NEW f, f = findPCB(target), f # NULL, state[f] # "STOPPED",
               Dispatch(switch([addToWaiting(Queues, f, p) EXCEPT !.state[p] = "WAITING"]),
                        Signals)
        PROVE  ListInv'
    <3>1. f \in Slot
      BY <2>4, FindTypes
    <3>2. PICK M : Blocked([addToWaiting(Queues, f, p) EXCEPT !.state[p] = "WAITING"], M)
      BY <1>1, <1>2, <2>1, <2>4, <3>1, AddBlocks
    <3> QED
      BY <2>4, <3>2, Switches
  <2> QED
    BY <1>15, <2>2, <2>3, <2>4 DEF Wait
<1>16. CASE UNCHANGED vars
  <2>1. Queues' = Queues
    BY <1>16 DEF vars, lists, Queues
  <2> QED
    BY <1>1, <2>1 DEF ListInv
<1> QED
  BY <1>6, <1>7, <1>8, <1>9, <1>10, <1>11, <1>12, <1>13, <1>14, <1>15, <1>16 DEF Next

\* The lists are in order after every request and every tick, for any number of
\* processes, as long as only READY ones are sent signals.
THEOREM ListsInductive ==
    ASSUME KillStates \subseteq {"READY"}
    PROVE  Spec => []ListInv
  BY ListsInit, ListsStep, PTL DEF Spec

\* next() never spins on an empty ready queue: the idle process, which only yields,
\* is on it whenever another process runs (c/disp.c:285).
THEOREM KernelNeverHangs ==
    ASSUME KillStates \subseteq {"READY"}
    PROVE  Spec => []NeverHangs
<1>1. ListInv => NeverHangs
  <2>1. ASSUME NEW L, Running(Queues, L)  PROVE p # NULL
    <3>1. Queues.p = p
      BY DEF Queues
    <3> QED
      BY <2>1, <3>1, RunningIs
  <2> QED
    BY <2>1 DEF ListInv, NeverHangs
<1> QED
  BY <1>1, ListsInductive, PTL

\* The sequence that the definition of List reads off the pointers.
LEMMA ListIs ==
    ASSUME NEW L, Fam(next, L), NEW y \in Ix
    PROVE  List(First(L[y])) = L[y]
<1> DEFINE l == L[y]
           x == First(l)
           a == [n \in 0 .. MaxProc |-> IF n < Len(l) THEN l[n + 1] ELSE NULL]
           Body(h) == [n \in 0 .. MaxProc |->
                          IF n = 0 THEN x
                          ELSE LET before == h[n - 1]
                               IN  IF before = NULL THEN NULL ELSE next[before]]
           at == CHOOSE h : h = Body(h)
           There == {m \in 0 .. MaxProc : at[m] # NULL}
<1>1. /\ l \in Seq(Slot) /\ Len(l) \in 0 .. MaxProc /\ MaxProc \in Nat /\ Len(l) \in Nat
      /\ \A k \in 1 .. Len(l) : l[k] \in Slot /\ l[k] # NULL
      /\ x = IF Len(l) = 0 THEN NULL ELSE l[1]
  BY FamIs, ListFits, FuelIsEnough, NullIsNoSlot DEF First
<1>2. \A k \in 1 .. Len(l) : next[l[k]] = IF k = Len(l) THEN NULL ELSE l[k + 1]
  BY DEF Fam, Chained
<1>3. List(x) = [n \in 1 .. Cardinality(There) |-> at[n - 1]]
  BY DEF List
<1> HIDE DEF l, x
<1>4. \A n \in 0 .. MaxProc : Body(a)[n] = a[n]
  <2> SUFFICES ASSUME NEW n \in 0 .. MaxProc  PROVE Body(a)[n] = a[n]
    OBVIOUS
  <2>1. CASE n = 0
    BY <1>1, <2>1
  <2>2. CASE n # 0
    <3>1. n - 1 \in 0 .. MaxProc
      BY <1>1, <2>2
    <3>2. a[n - 1] = IF n - 1 < Len(l) THEN l[n] ELSE NULL
      BY <1>1, <3>1
    <3>3. CASE n - 1 < Len(l)
      <4>1. n \in 1 .. Len(l) /\ (n = Len(l) <=> ~(n < Len(l)))
        BY <1>1, <2>2, <3>3
      <4> QED
        BY <1>1, <1>2, <2>2, <3>2, <3>3, <4>1
    <3>4. CASE ~(n - 1 < Len(l))
      <4>1. ~(n < Len(l))
        BY <1>1, <2>2, <3>4
      <4> QED
        BY <2>2, <3>2, <3>4, <4>1
    <3> QED
      BY <3>3, <3>4
  <2> QED
    BY <2>1, <2>2
<1>5. a = Body(a)
  BY <1>4
<1> HIDE DEF a
<1>6. at = Body(at)
  BY <1>5
<1> HIDE DEF at
<1>7. \A n \in 0 .. MaxProc : at[n] = a[n]
  <2> DEFINE T == {n \in Nat : n \in 0 .. MaxProc => at[n] = a[n]}
  <2>1. 0 \in T
    <3>1. 0 \in 0 .. MaxProc
      BY <1>1
    <3> QED
      BY <1>5, <1>6, <3>1
  <2>2. ASSUME NEW n \in Nat, n \in T  PROVE n + 1 \in T
    <3> SUFFICES ASSUME n + 1 \in 0 .. MaxProc  PROVE at[n + 1] = a[n + 1]
      OBVIOUS
    <3>1. n \in 0 .. MaxProc /\ (n + 1) - 1 = n /\ n + 1 # 0
      BY <1>1
    <3>2. at[n] = a[n]
      BY <2>2, <3>1
    <3>3. Body(at)[n + 1] = Body(a)[n + 1]
      BY <3>1, <3>2
    <3> HIDE DEF Body
    <3> QED
      BY <1>5, <1>6, <3>3
  <2> HIDE DEF T
  <2>3. Nat \subseteq T
    BY <2>1, <2>2, SetInduction
  <2> QED
    BY <2>3 DEF T
<1>8. There = 0 .. Len(l) - 1
  <2>1. ASSUME NEW m \in 0 .. MaxProc  PROVE at[m] # NULL <=> m \in 0 .. Len(l) - 1
    <3>1. at[m] = IF m < Len(l) THEN l[m + 1] ELSE NULL
      BY <1>7 DEF a
    <3>2. m < Len(l) => m + 1 \in 1 .. Len(l)
      BY <1>1
    <3>3. m < Len(l) <=> m \in 0 .. Len(l) - 1
      BY <1>1
    <3> QED
      BY <1>1, <3>1, <3>2, <3>3
  <2>2. 0 .. Len(l) - 1 \subseteq 0 .. MaxProc
    BY <1>1
  <2> QED
    BY <2>1, <2>2
<1>9. Cardinality(There) = Len(l)
  <2>1. 0 \in Int /\ Len(l) - 1 \in Int
    BY <1>1
  <2>2. Cardinality(0 .. Len(l) - 1) = IF 0 > Len(l) - 1 THEN 0 ELSE Len(l) - 1 - 0 + 1
    BY <2>1, FS_Interval
  <2>3. (IF 0 > Len(l) - 1 THEN 0 ELSE Len(l) - 1 - 0 + 1) = Len(l)
    BY <1>1
  <2> QED
    BY <1>8, <2>2, <2>3
<1>10. \A n \in 1 .. Len(l) : at[n - 1] = l[n]
  <2> SUFFICES ASSUME NEW n \in 1 .. Len(l)  PROVE at[n - 1] = l[n]
    OBVIOUS
  <2>1. n - 1 \in 0 .. MaxProc /\ n - 1 < Len(l) /\ (n - 1) + 1 = n
    BY <1>1
  <2> QED
    BY <1>7, <2>1 DEF a
<1> HIDE DEF There
<1>11. List(x) = [n \in 1 .. Len(l) |-> l[n]]
  BY <1>3, <1>9, <1>10
<1>12. [n \in 1 .. Len(l) |-> l[n]] = l
  BY <1>1
<1> QED
  BY <1>11, <1>12 DEF l, x

\* The elements of a list, no two of which are the same.
LEMMA ElementsAre ==
    ASSUME NEW nx, NEW L, Fam(nx, L), NEW y \in Ix
    PROVE  /\ Elements(L[y]) = {i \in Slot : In(L, y, i)}
           /\ NoDuplicates(L[y])
<1> DEFINE l == L[y]
           f == [k \in 1 .. Len(l) |-> l[k]]
<1>1. /\ l \in Seq(Slot) /\ Len(l) \in Nat /\ DOMAIN l = 1 .. Len(l)
      /\ \A k \in 1 .. Len(l) : l[k] \in Slot
  BY FamIs
<1>2. Elements(l) = {i \in Slot : In(L, y, i)}
  BY <1>1 DEF Elements, In
<1>3. f \in Bijection(1 .. Len(l), Elements(l))
  <2>1. f \in [1 .. Len(l) -> Elements(l)]
    BY <1>1 DEF Elements
  <2>2. \A k, m \in 1 .. Len(l) : f[k] = f[m] => k = m
    BY DEF Fam, Apart
  <2>3. \A i \in Elements(l) : \E k \in 1 .. Len(l) : f[k] = i
    BY <1>1 DEF Elements
  <2> HIDE DEF f, l
  <2> QED
    BY <2>1, <2>2, <2>3, Fun_IsBij
<1>4. IsFiniteSet(1 .. Len(l)) /\ Cardinality(1 .. Len(l)) = Len(l)
  <2>1. 1 \in Int /\ Len(l) \in Int
    BY <1>1
  <2> HIDE DEF l
  <2>2. /\ IsFiniteSet(1 .. Len(l))
        /\ Cardinality(1 .. Len(l)) = IF 1 > Len(l) THEN 0 ELSE Len(l) - 1 + 1
    BY <2>1, FS_Interval
  <2>3. (IF 1 > Len(l) THEN 0 ELSE Len(l) - 1 + 1) = Len(l)
    BY <1>1
  <2> QED
    BY <2>2, <2>3
<1>5. Cardinality(Elements(l)) = Len(l)
  <2> HIDE DEF f, l
  <2> QED
    BY <1>3, <1>4, FS_Bijection DEF ExistsBijection
<1> QED
  BY <1>2, <1>5 DEF NoDuplicates

LEMMA ListsAreExact ==
    ASSUME NEW L, Running(Queues, L)
    PROVE  ListsExact
<1> DEFINE q == Queues
<1>1. /\ q.state = state /\ q.next = next /\ q.waiting = waiting /\ q.waitingTail = waitingTail
      /\ q.head = head /\ q.tail = tail /\ q.sleepQ = sleepQ /\ q.p = p
  BY DEF Queues
<1> HIDE DEF q
<1>2. /\ Waited(q, L, Slot) /\ Fam(next, L) /\ Ends(q, L) /\ Listed(q, L, Slot)
      /\ q.p \in Slot /\ \A i \in Slot : q.state[i] = "RUNNING" <=> i = q.p
  BY <1>1, RunningIs DEF q
<1>3. RQ \in Ix /\ SQ \in Ix /\ Slot \subseteq Ix
  BY SlotsAre
<1>4. ReadyQueueExact
  <2>1. List(head) = L[RQ] /\ tail = Last(L[RQ])
    BY <1>1, <1>2, <1>3, ListIs DEF Ends
  <2>2. EndsAt(L[RQ], tail)
    BY <2>1 DEF EndsAt, Last
  <2>3. Elements(L[RQ]) = {i \in Slot : state[i] = "READY"} /\ NoDuplicates(L[RQ])
    BY <1>1, <1>2, <1>3, ElementsAre DEF Listed
  <2> QED
    BY <2>1, <2>2, <2>3 DEF ReadyQueueExact
<1>5. SleepQueueExact
  <2>1. List(sleepQ) = L[SQ]
    BY <1>1, <1>2, <1>3, ListIs DEF Ends
  <2>2. Elements(L[SQ]) = {i \in Slot : state[i] = "SLEEP"} /\ NoDuplicates(L[SQ])
    BY <1>1, <1>2, <1>3, ElementsAre DEF Listed
  <2> QED
    BY <2>1, <2>2 DEF SleepQueueExact
<1>6. WaitListsExact
  <2>1. ASSUME NEW i \in Slot
        PROVE  /\ List(waiting[i]) = L[i] /\ NoDuplicates(L[i]) /\ EndsAt(L[i], waitingTail[i])
               /\ Elements(L[i]) = {w \in Slot : In(L, i, w)}
               /\ \A w \in Elements(L[i]) : state[w] = "WAITING"
               /\ L[i] # <<>> => state[i] # "STOPPED"
    <3>1. /\ waiting[i] = First(L[i]) /\ waitingTail[i] = Last(L[i])
          /\ L[i] # <<>> => state[i] # "STOPPED"
      BY <1>1, <1>2 DEF Waited
    <3>2. List(waiting[i]) = L[i]
      BY <1>2, <1>3, <3>1, ListIs
    <3>3. Elements(L[i]) = {w \in Slot : In(L, i, w)} /\ NoDuplicates(L[i])
      BY <1>2, <1>3, ElementsAre
    <3>4. EndsAt(L[i], waitingTail[i])
      BY <3>1 DEF EndsAt, Last
    <3>5. \A w \in Elements(L[i]) : state[w] = "WAITING"
      BY <1>1, <1>2, <3>3 DEF Listed
    <3> QED
      BY <3>1, <3>2, <3>3, <3>4, <3>5
  <2>2. ASSUME NEW i \in Slot, NEW j \in Slot \ {i}
        PROVE  Elements(L[i]) \cap Elements(L[j]) = {}
    <3>1. ASSUME NEW w \in Slot, In(L, i, w), In(L, j, w)  PROVE FALSE
      BY <1>2, <1>3, <3>1 DEF Fam, Apart, In
    <3> QED
      BY <2>1, <3>1
  <2> QED
    BY <2>1, <2>2 DEF WaitListsExact
<1>7. {i \in Slot : state[i] = "RUNNING"} = {p}
  BY <1>1, <1>2
<1> QED
  BY <1>4, <1>5, <1>6, <1>7 DEF ListsExact

\* What is on a list has its state, heads and tails are those of the lists, nothing is
\* on two of them, all that is ready or asleep is on its queue, and exactly the current
\* process is RUNNING: ready(), next(), addToWaiting(), removeWaiting(), sleep() and
\* tick() keep so the one field next that links all the lists (c/disp.c:247-300,
\* c/sleep.c:20-145).  Of WAITING processes it does not say that they are on a list.
THEOREM ListsStayExact ==
    ASSUME KillStates \subseteq {"READY"}
    PROVE  Spec => []ListsExact
<1>1. ListInv => ListsExact
  BY ListsAreExact DEF ListInv
<1> QED
  BY <1>1, ListsInductive, PTL

-----------------------------------------------------------------------------
(* Nobody is forgotten, as long as one process at most waits for another.   *)
(* Of several, removeWaiting() forgets the last (c/disp.c:54), and a        *)
(* syswait() that compares NULL with NULL blocks its caller on no list.     *)

Few(L) == \A x \in Slot : Len(L[x]) <= MaxWaiters
AllListed(st, L) == \A i \in Slot : st[i] = "WAITING" => \E x \in Slot : In(L, x, i)
Remembered(st, L) == Few(L) /\ AllListed(st, L)

\* The inductive invariant, with TypeInv, which says what targetPCB may hold.
Recalled(q) == \E L : Running(q, L) /\ Remembered(q.state, L)

\* A step that leaves the waiting lists and makes nobody wait.
LEMMA StaysRemembered ==
    ASSUME NEW st, NEW su, NEW L, NEW M, Remembered(st, L), \A x \in Slot : M[x] = L[x],
           \A i \in Slot : su[i] = "WAITING" => st[i] = "WAITING"
    PROVE  Remembered(su, M)
  BY DEF Remembered, Few, AllListed, In

\* What happens to the ready queue and to the sleep queue leaves the waiting lists.
LEMMA NoSlotsChange ==
    ASSUME NEW L \in [Ix -> Seq(Slot)], NEW x \in Ix, x \notin Slot
    PROVE  /\ \A k, i : \A y \in Slot : Put(L, x, k, i)[y] = L[y]
           /\ \A y \in Slot : Less(L, x)[y] = L[y]
           /\ x # RQ => \A m : \A y \in Slot : Moved(L, x, m)[y] = L[y]
<1>1. RQ \in Ix /\ RQ \notin Slot /\ Slot \subseteq Ix
  BY SlotsAre
<1>2. ASSUME NEW y \in Slot  PROVE y \in Ix /\ y # x /\ y # RQ
  BY <1>1
<1>3. ASSUME NEW k, NEW i, NEW y \in Slot  PROVE Put(L, x, k, i)[y] = L[y]
  BY <1>2 DEF Put
<1>4. ASSUME NEW y \in Slot  PROVE Less(L, x)[y] = L[y]
  BY <1>2 DEF Less
<1>5. ASSUME NEW m, NEW y \in Slot  PROVE Moved(L, x, m)[y] = L[y]
  BY <1>2 DEF Moved
<1> QED
  BY <1>3, <1>4, <1>5

LEMMA GoesOnRecalled ==
    ASSUME NEW q, NEW L, Running(q, L), Remembered(q.state, L), NEW s, Dispatch(q, s)
    PROVE  Recalled(Queues)'
<1>1. q \in QueueSet(Ptr) /\ q.p \in Slot /\ q.p # NULL /\ q.state \in [Slot -> States]
  BY RunningIs
<1>2. Queues' = Resumed(q)
  BY <1>1, DispatchEffect
<1>3. Running(Resumed(q), L)
  BY ResumedRuns
<1>4. Resumed(q).state = [q.state EXCEPT ![q.p] = "RUNNING"]
  BY <1>1 DEF Resumed, QueueSet
<1>5. \A i \in Slot : Resumed(q).state[i] = "WAITING" => q.state[i] = "WAITING"
  BY <1>1, <1>4
<1>6. Remembered(Resumed(q).state, L)
  BY <1>5, StaysRemembered
<1>7. Recalled(Resumed(q))
  BY <1>3, <1>6 DEF Recalled
<1>8. Recalled(Queues)' <=> Recalled(Queues')
  BY DEF Recalled, Running, Sane, Linked, Waited, IdleOK, Ends, Listed, Fam, Chained, Apart,
         Remembered, Few, AllListed, In, First, Last, QueueSet, Ptr
<1> QED
  BY <1>2, <1>7, <1>8

LEMMA SwitchesRecalled ==
    ASSUME NEW q, NEW L, Blocked(q, L), Remembered(q.state, L), NEW s, Dispatch(switch(q), s)
    PROVE  Recalled(Queues)'
<1> DEFINE r == Resumed(switch(q))
           M == Less(L, RQ)
<1>1. q \in QueueSet(Ptr) /\ q.p # NULL /\ L \in [Ix -> Seq(Slot)] /\ q.state \in [Slot -> States]
  BY DEF Blocked, Sane, Linked, Fam, QueueSet
<1>2. Queues' = r
  BY <1>1, SwitchTypes, DispatchEffect
<1>3. Running(r, M)
  BY SwitchRuns
<1>4. q.head \in Slot
  <2>1. r.p \in Slot /\ switch(q) \in QueueSet(Ptr)
    BY <1>1, <1>3, RunningIs, SwitchTypes
  <2>2. r.p = switch(q).p
    BY <2>1 DEF Resumed, QueueSet
  <2>3. q.head = NULL => switch(q).p = NULL
    BY <1>1 DEF switch, Hang, QueueSet
  <2>4. q.head \in Slot \cup {NULL}
    BY <1>1 DEF QueueSet, Ptr
  <2> QED
    BY <2>1, <2>2, <2>3, <2>4, NullIsNoSlot
<1>5. r.state = [q.state EXCEPT ![q.head] = "RUNNING"]
  BY <1>1, <1>4, SwitchIs
<1>6. \A i \in Slot : r.state[i] = "WAITING" => q.state[i] = "WAITING"
  <2> HIDE DEF r
  <2> QED
    BY <1>1, <1>4, <1>5
<1>7. \A x \in Slot : M[x] = L[x]
  BY <1>1, NoSlotsChange, SlotsAre
<1> HIDE DEF r, M
<1>8. Recalled(r)
  BY <1>3, <1>6, <1>7, StaysRemembered DEF Recalled
<1>9. Recalled(Queues)' <=> Recalled(Queues')
  BY DEF Recalled, Running, Sane, Linked, Waited, IdleOK, Ends, Listed, Fam, Chained, Apart,
         Remembered, Few, AllListed, In, First, Last, QueueSet, Ptr
<1> QED
  BY <1>2, <1>8, <1>9

\* A process is added to or taken from other lists than those of waiting processes.
LEMMA StaysBlocked ==
    ASSUME NEW q, NEW L, Running(q, L), Remembered(q.state, L),
           NEW r, NEW M, Blocked(r, M), \A x \in Slot : M[x] = L[x],
           \A i \in Slot : r.state[i] = "WAITING" => q.state[i] = "WAITING",
           NEW s, Dispatch(switch(r), s)
    PROVE  Recalled(Queues)'
<1>1. Remembered(r.state, M)
  BY StaysRemembered
<1> QED
  BY <1>1, SwitchesRecalled

LEMMA QueuesAreFam ==
    ASSUME NEW q, NEW L, Running(q, L)
    PROVE  /\ L \in [Ix -> Seq(Slot)] /\ q.p \in Slot /\ q.state \in [Slot -> States]
           /\ RQ \in Ix /\ SQ \in Ix /\ RQ \notin Slot /\ SQ \notin Slot /\ SQ # RQ
  BY RunningIs, SlotsAre DEF Fam

LEMMA ReturnRecalled ==
    ASSUME NEW q, NEW L, Running(q, L), Remembered(q.state, L), NEW r \in Rets, NEW s,
           Dispatch(Return(q, r), s)
    PROVE  Recalled(Queues)'
<1>1. q \in QueueSet(Ptr) /\ Running(Return(q, r), L)
  BY RunningIs, ReturnRuns
<1>2. Return(q, r).state = q.state
  BY <1>1 DEF Return, QueueSet
<1> QED
  BY <1>1, <1>2, GoesOnRecalled

LEMMA CreateRecalled ==
    ASSUME NEW q, NEW L, Running(q, L), Remembered(q.state, L), NEW i \in Slot,
           q.state[i] = "STOPPED", NEW r \in Rets, NEW s,
           Dispatch(Return(ready(Emptied(q, i), i), r), s)
    PROVE  Recalled(Queues)'
<1> DEFINE t == ready(Emptied(q, i), i)
           M == Put(L, RQ, Len(L[RQ]), i)
<1>1. Running(t, M) /\ t.state = [q.state EXCEPT ![i] = "READY"]
  BY CreateRuns
<1>2. /\ L \in [Ix -> Seq(Slot)] /\ q.state \in [Slot -> States] /\ RQ \in Ix /\ RQ \notin Slot
  BY QueuesAreFam
<1>3. \A x \in Slot : M[x] = L[x]
  BY <1>2, NoSlotsChange
<1> HIDE DEF t, M
<1>4. \A j \in Slot : t.state[j] = "WAITING" => q.state[j] = "WAITING"
  BY <1>1, <1>2
<1>5. Remembered(t.state, M)
  BY <1>3, <1>4, StaysRemembered
<1> QED
  BY <1>1, <1>5, ReturnRecalled DEF t

LEMMA YieldRecalled ==
    ASSUME NEW q, NEW L, Running(q, L), Remembered(q.state, L), NEW s,
           Dispatch(switch(ready(q, q.p)), s)
    PROVE  Recalled(Queues)'
<1> DEFINE M == Put(L, RQ, Len(L[RQ]), q.p)
<1>1. Blocked(ready(q, q.p), M)
  BY ReadyBlocks
<1>2. /\ L \in [Ix -> Seq(Slot)] /\ q.state \in [Slot -> States] /\ RQ \in Ix /\ RQ \notin Slot
      /\ q.p \in Slot /\ q \in QueueSet(Ptr)
  BY QueuesAreFam, RunningIs
<1>3. \A x \in Slot : M[x] = L[x]
  BY <1>2, NoSlotsChange
<1>4. ready(q, q.p).state = [q.state EXCEPT ![q.p] = "READY"]
  BY <1>2, ReadyIs
<1>5. \A j \in Slot : ready(q, q.p).state[j] = "WAITING" => q.state[j] = "WAITING"
  BY <1>2, <1>4
<1> HIDE DEF M
<1> QED
  BY <1>1, <1>3, <1>5, StaysBlocked

LEMMA SleepRecalled ==
    ASSUME NEW q, NEW L, Running(q, L), Remembered(q.state, L), q.p # Idle, NEW ms \in Nat,
           NEW s, Dispatch(switch(sleep(q, q.p, ms)), s)
    PROVE  Recalled(Queues)'
<1>1. CASE ms < 1
  <2>1. sleep(q, q.p, ms) = ready(q, q.p)
    BY <1>1 DEF sleep
  <2> QED
    BY <2>1, YieldRecalled
<1>2. CASE ~(ms < 1)
  <2> DEFINE r == sleep(q, q.p, ms)
  <2>1. PICK k \in 0 .. Len(L[SQ]), x \in Int : SleptBehind(q, r, L, k, ms \div MILLISECONDS_TICK, x)
    BY <1>2, SleepRuns
  <2> DEFINE M == Put(L, SQ, k, q.p)
  <2>2. Blocked(r, M) /\ r.state = [q.state EXCEPT ![q.p] = "SLEEP"]
    BY <2>1 DEF SleptBehind
  <2>3. /\ L \in [Ix -> Seq(Slot)] /\ q.state \in [Slot -> States] /\ SQ \in Ix /\ SQ \notin Slot
        /\ q.p \in Slot
    BY QueuesAreFam
  <2>4. \A y \in Slot : M[y] = L[y]
    BY <2>3, NoSlotsChange
  <2>5. \A j \in Slot : r.state[j] = "WAITING" => q.state[j] = "WAITING"
    <3> HIDE DEF r
    <3> QED
      BY <2>2, <2>3
  <2>6. Dispatch(switch(r), s)
    OBVIOUS
  <2> HIDE DEF r, M
  <2>7. Remembered(r.state, M)
    BY <2>4, <2>5, StaysRemembered
  <2> QED
    BY <2>2, <2>6, <2>7, SwitchesRecalled
<1> QED
  BY <1>1, <1>2

\* Those that tick() wakes slept before.
LEMMA TickRecalled ==
    ASSUME NEW q, NEW L, Running(q, L), Remembered(q.state, L), NEW s,
           Dispatch(switch(ready(tick(q), q.p)), s)
    PROVE  Recalled(Queues)'
<1> DEFINE r == tick(q)
<1>1. PICK m \in 0 .. Len(L[SQ]) : Woken(q, r, L, m)
  BY TickRuns
<1> DEFINE M == Moved(L, SQ, m)
<1>2. /\ Running(r, M) /\ r.p = q.p
      /\ \A j \in Slot : ~In(M, RQ, j) => r.state[j] = q.state[j]
  BY <1>1 DEF Woken
<1>3. /\ L \in [Ix -> Seq(Slot)] /\ SQ \in Ix /\ SQ \notin Slot /\ SQ # RQ
  BY QueuesAreFam
<1>4. \A x \in Slot : M[x] = L[x]
  BY <1>3, NoSlotsChange
<1>5. \A j \in Slot : r.state[j] = "WAITING" => q.state[j] = "WAITING"
  <2>1. Listed(r, M, Slot)
    BY <1>2, RunningIs
  <2> HIDE DEF r, M
  <2> QED
    BY <1>2, <2>1 DEF Listed
<1> HIDE DEF r, M
<1>6. Remembered(r.state, M)
  BY <1>4, <1>5, StaysRemembered
<1> QED
  BY <1>2, <1>6, YieldRecalled DEF r

LEMMA MovedTo ==
    ASSUME NEW L \in [Ix -> Seq(Slot)], NEW x \in Ix \ {RQ}, NEW m \in 0 .. Len(L[x])
    PROVE  /\ Moved(L, x, m) \in [Ix -> Seq(Slot)]
           /\ Moved(L, x, m)[RQ] = L[RQ] \o SubSeq(L[x], 1, m)
           /\ \A y \in Ix \ {x, RQ} : Moved(L, x, m)[y] = L[y]
  BY ZenonT(40), MovedIs

\* All of at most one process that waits are readied.
LEMMA StopRecalled ==
    ASSUME NEW q, NEW L, Running(q, L), Remembered(q.state, L), q.p # Idle, MaxWaiters <= 1,
           NEW s, Dispatch(switch(removeWaiting([q EXCEPT !.state[q.p] = "STOPPED"], q.p)), s)
    PROVE  Recalled(Queues)'
<1> DEFINE i == q.p
           t == [q EXCEPT !.state[q.p] = "STOPPED"]
           r == removeWaiting(t, i)
           N == Moved(L, i, Count(L[i]))
           M == Dropped(N, i)
<1>1. /\ Blocked(r, M) /\ Kept(t, r, M) /\ t.state = [q.state EXCEPT ![i] = "STOPPED"]
  BY StopBlocks
<1>2. /\ L \in [Ix -> Seq(Slot)] /\ q.state \in [Slot -> States] /\ i \in Slot
      /\ RQ \in Ix /\ RQ \notin Slot /\ Slot \subseteq Ix
  BY QueuesAreFam, SlotsAre
<1>3. /\ Len(L[i]) \in Nat /\ Len(L[i]) <= 1 /\ Count(L[i]) = Len(L[i])
      /\ L[i] \in Seq(Slot) /\ i \in Ix \ {RQ}
  <2>1. L[i] \in Seq(Slot) /\ i \in Ix \ {RQ}
    BY <1>2
  <2>2. Len(L[i]) \in Nat
    BY <2>1
  <2>3. Len(L[i]) <= MaxWaiters /\ MaxWaiters \in Nat
    BY <1>2, KernelAssumption DEF Remembered, Few
  <2>4. Len(L[i]) <= 1
    BY <2>2, <2>3
  <2> QED
    BY <2>1, <2>2, <2>4 DEF Count
<1>4. /\ N \in [Ix -> Seq(Slot)] /\ N[RQ] = L[RQ] \o SubSeq(L[i], 1, Len(L[i]))
      /\ \A y \in Ix \ {i, RQ} : N[y] = L[y]
  <2>1. Count(L[i]) \in 0 .. Len(L[i])
    BY <1>3
  <2>2. L \in [Ix -> Seq(Slot)] /\ i \in Ix \ {RQ}
    BY <1>2, <1>3
  <2>3. /\ N \in [Ix -> Seq(Slot)] /\ N[RQ] = L[RQ] \o SubSeq(L[i], 1, Count(L[i]))
        /\ \A y \in Ix \ {i, RQ} : N[y] = L[y]
    BY ZenonT(90), <2>1, <2>2, MovedTo
  <2> QED
    BY <1>3, <2>3
<1>5. \A w \in Slot : In(L, i, w) => In(M, RQ, w)
  <2> SUFFICES ASSUME NEW w \in Slot, In(L, i, w)  PROVE In(M, RQ, w)
    OBVIOUS
  <2>1. PICK k \in 1 .. Len(L[i]) : L[i][k] = w
    BY DEF In
  <2>2. L[RQ] \in Seq(Slot) /\ SubSeq(L[i], 1, Len(L[i])) = L[i]
    BY <1>2, <1>3
  <2>3. M[RQ] = L[RQ] \o L[i]
    BY <1>2, <1>4, <2>2 DEF Dropped
  <2>4. ASSUME NEW a \in Seq(Slot), NEW b \in Seq(Slot), NEW n \in 1 .. Len(b)
        PROVE  Len(a) + n \in 1 .. Len(a \o b) /\ (a \o b)[Len(a) + n] = b[n]
    BY <2>4
  <2> HIDE DEF M
  <2>5. Len(L[RQ]) + k \in 1 .. Len(M[RQ]) /\ M[RQ][Len(L[RQ]) + k] = w
    <3> DEFINE a == L[RQ]
               b == L[i]
    <3>1. a \in Seq(Slot) /\ b \in Seq(Slot) /\ k \in 1 .. Len(b) /\ b[k] = w /\ M[RQ] = a \o b
      BY <1>3, <2>1, <2>2, <2>3
    <3> HIDE DEF a, b
    <3>2. Len(a) + k \in 1 .. Len(a \o b) /\ (a \o b)[Len(a) + k] = b[k]
      BY <2>4, <3>1
    <3> QED
      BY <3>1, <3>2 DEF a
  <2> QED
    BY <2>5 DEF In
<1>6. \A x \in Slot : M[x] = IF x = i THEN <<>> ELSE L[x]
  BY <1>2, <1>4 DEF Dropped
<1>7. Listed(r, M, Slot) /\ \A j \in Slot : ~In(M, RQ, j) => r.state[j] = t.state[j]
  BY <1>1 DEF Blocked, Sane, Linked, Kept
<1> HIDE DEF r, N, M, t
<1>8. Few(M)
  <2>1. Len(<<>>) <= MaxWaiters
    BY KernelAssumption
  <2> QED
    BY <1>6, <2>1 DEF Few, Remembered
<1>9. AllListed(r.state, M)
  <2> SUFFICES ASSUME NEW w \in Slot, r.state[w] = "WAITING"
               PROVE  \E x \in Slot : In(M, x, w)
    BY DEF AllListed
  <2>1. ~In(M, RQ, w)
    BY <1>7 DEF Listed
  <2>2. q.state[w] = "WAITING"
    <3>1. t.state[w] = "WAITING"
      BY <1>7, <2>1
    <3> QED
      BY <1>1, <1>2, <3>1
  <2>3. PICK x \in Slot : In(L, x, w)
    BY <2>2 DEF Remembered, AllListed
  <2>4. x # i
    BY <1>5, <2>1, <2>3
  <2> QED
    BY <1>6, <2>3, <2>4 DEF In
<1> QED
  BY <1>1, <1>8, <1>9, SwitchesRecalled DEF Remembered, r, t

\* A process that waits is put on a list that is not full.
LEMMA WaitRecalled ==
    ASSUME NEW q, NEW L, Running(q, L), Remembered(q.state, L), q.p # Idle, NEW f \in Slot,
           q.state[f] # "STOPPED", Len(L[f]) < MaxWaiters, NEW s,
           Dispatch(switch([addToWaiting(q, f, q.p) EXCEPT !.state[q.p] = "WAITING"]), s)
    PROVE  Recalled(Queues)'
<1> DEFINE i == q.p
           r == [addToWaiting(q, f, i) EXCEPT !.state[i] = "WAITING"]
           k == Len(L[f])
           M == Put(L, f, k, i)
<1>1. Blocked(r, M) /\ r.state = [q.state EXCEPT ![i] = "WAITING"]
  BY AddBlocks
<1>2. /\ L \in [Ix -> Seq(Slot)] /\ q.state \in [Slot -> States] /\ i \in Slot
      /\ Slot \subseteq Ix /\ f \in Ix /\ L[f] \in Seq(Slot)
  BY QueuesAreFam, SlotsAre
<1>3. k \in Nat /\ k \in 0 .. Len(L[f])
  <2>1. Len(L[f]) \in Nat
    BY <1>2
  <2> QED
    BY <2>1
<1>4. \A y \in Ix, j \in Slot : In(M, y, j) <=> In(L, y, j) \/ (y = f /\ j = i)
  BY <1>2, <1>3, InsertIn
<1>5. Len(M[f]) = k + 1 /\ \A x \in Slot : x # f => M[x] = L[x]
  <2>1. M[f] = Insert(L[f], k, i)
    BY <1>2 DEF Put
  <2>2. Len(Insert(L[f], k, i)) = Len(L[f]) + 1
    BY <1>2, <1>3, InsertIs
  <2> QED
    BY <1>2, <2>1, <2>2 DEF Put
<1> HIDE DEF r, M
<1>6. Few(M)
  <2>1. k + 1 <= MaxWaiters
    BY <1>3, KernelAssumption
  <2> HIDE DEF k
  <2> QED
    BY <1>5, <2>1 DEF Few, Remembered
<1>7. AllListed(r.state, M)
  <2> SUFFICES ASSUME NEW w \in Slot, r.state[w] = "WAITING"
               PROVE  \E x \in Slot : In(M, x, w)
    BY DEF AllListed
  <2>1. CASE w = i
    BY <1>2, <1>4, <2>1
  <2>2. CASE w # i
    <3>1. q.state[w] = "WAITING"
      BY <1>1, <1>2, <2>2
    <3>2. PICK x \in Slot : In(L, x, w)
      BY <3>1 DEF Remembered, AllListed
    <3> QED
      BY <1>2, <1>4, <3>2
  <2> QED
    BY <2>1, <2>2
<1> QED
  BY <1>1, <1>6, <1>7, SwitchesRecalled DEF Remembered, r

\* What a creation dispatches: with a free entry, and with none.
LEMMA CreateIs ==
    ASSUME create
    PROVE  \/ \E i \in Slot :
                /\ state[i] = "STOPPED"
                /\ Dispatch(Return(ready(Emptied(Queues, i), i), "result"),
                            initSignals(Signals, i))
           \/ Dispatch(Return(Queues, "-1"), Signals)
  BY Zenon DEF create, Emptied

LEMMA RecalledInit == Init => Recalled(Queues)
<1> SUFFICES ASSUME Init  PROVE Recalled(Queues)
  OBVIOUS
<1>1. Running(Queues, AtFirst)
  BY FirstLists
<1>2. \A x \in Slot : AtFirst[x] = <<>>
  BY SlotsAre DEF AtFirst
<1>3. Few(AtFirst)
  <2>1. Len(<<>>) <= MaxWaiters
    BY KernelAssumption
  <2> QED
    BY <1>2, <2>1 DEF Few
<1>4. AllListed(Queues.state, AtFirst)
  <2>1. Queues.state = [i \in Slot |-> CASE i = 0 -> "RUNNING" [] i = 1 -> "READY"
                                        [] i > 1 -> "STOPPED"]
    BY DEF Init, Queues
  <2>2. \A i \in Slot : i \in Nat
    BY KernelAssumption DEF Slot
  <2>3. \A i \in Slot : Queues.state[i] # "WAITING"
    BY <2>1, <2>2
  <2> QED
    BY <2>3 DEF AllListed
<1> QED
  BY <1>1, <1>3, <1>4 DEF Recalled, Remembered

LEMMA RecalledStep ==
    ASSUME KillStates \subseteq {"READY"}, MaxWaiters <= 1, NULL \notin StaleWords,
           targetPCB \in StaleWords, Recalled(Queues), [Next]_vars
    PROVE  Recalled(Queues)'
<1> DEFINE q == Queues
<1>1. PICK L : Running(q, L) /\ Remembered(q.state, L)
  BY DEF Recalled
<1>2. /\ q \in QueueSet(Ptr) /\ q.p = p /\ p \in Slot /\ q.state = state
      /\ q.waiting = waiting /\ q.next = next
  <2>1. q.p = p /\ q.state = state /\ q.waiting = waiting /\ q.next = next
    BY DEF Queues
  <2> QED
    BY <1>1, <2>1, RunningIs
<1>3. {"result", "eax", "-1", "-99", "-561", "-512", "junk"} \subseteq Rets
  BY DEF Rets
<1> HIDE DEF q
<1>4. ASSUME NEW r \in Rets, NEW s, Dispatch(Return(q, r), s)  PROVE Recalled(Queues)'
  BY <1>1, <1>4, ReturnRecalled
<1>5. ASSUME NEW call, MayIssue(call), call # "yield"  PROVE q.p # Idle
  BY <1>2, <1>5 DEF MayIssue
<1>6. CASE create
  <2>1. ASSUME NEW i \in Slot, state[i] = "STOPPED",
               Dispatch(Return(ready(Emptied(q, i), i), "result"), initSignals(Signals, i))
        PROVE  Recalled(Queues)'
    BY <1>1, <1>2, <1>3, <2>1, CreateRecalled
  <2>2. \/ \E i \in Slot :
              /\ state[i] = "STOPPED"
              /\ Dispatch(Return(ready(Emptied(Queues, i), i), "result"),
                          initSignals(Signals, i))
        \/ Dispatch(Return(Queues, "-1"), Signals)
    BY <1>6, CreateIs
  <2>3. q = Queues
    BY DEF q
  <2> QED
    BY <1>3, <1>4, <2>1, <2>2, <2>3
<1>7. CASE Query
  BY <1>3, <1>4, <1>7 DEF Query, q
<1>8. CASE Yield
  <2>1. Dispatch(switch(ready(q, q.p)), Signals)
    BY <1>2, <1>8 DEF Yield, q
  <2> QED
    BY <1>1, <2>1, YieldRecalled
<1>9. CASE Stop
  <2>1. q.p # Idle
    BY <1>5, <1>9 DEF Stop
  <2>2. Dispatch(switch(removeWaiting([q EXCEPT !.state[q.p] = "STOPPED"], q.p)), Signals)
    BY <1>2, <1>9 DEF Stop, q
  <2> QED
    BY <1>1, <2>1, <2>2, StopRecalled
<1>10. CASE Timer
  <2> DEFINE t == Return(q, "eax")
  <2>1. Running(t, L) /\ t.p = p /\ t.state = q.state
    <3>1. t.state = q.state
      BY <1>2 DEF Return, QueueSet
    <3> QED
      BY <1>1, <1>2, <1>3, <3>1, ReturnRuns
  <2>2. PICK r \in {tick(t)} : Dispatch(IF r.p = NULL THEN r ELSE switch(ready(r, p)), Signals)
    BY <1>10 DEF Timer, q
  <2> HIDE DEF t
  <2>3. r = tick(t)
    BY <2>2
  <2>4. r.p = p /\ r.p # NULL
    BY <1>2, <2>1, <2>3, TickRuns, NullIsNoSlot DEF Woken
  <2>5. Dispatch(switch(ready(tick(t), t.p)), Signals)
    BY <2>1, <2>2, <2>3, <2>4
  <2> QED
    BY <1>1, <2>1, <2>5, TickRecalled
<1>11. CASE SigReturn
  BY <1>3, <1>4, <1>11 DEF SigReturn, q
<1>12. ASSUME NEW ms \in Lens, Sleep(ms)  PROVE Recalled(Queues)'
  <2>1. ms \in Nat /\ q.p # Idle
    BY <1>5, <1>12, KernelAssumption DEF Sleep
  <2>2. Dispatch(switch(sleep(q, q.p, ms)), Signals)
    BY <1>2, <1>12 DEF Sleep, q
  <2> QED
    BY <1>1, <2>1, <2>2, SleepRecalled
<1>13. ASSUME NEW target, NEW n, Kill(target, n)  PROVE Recalled(Queues)'
  <2>1. ASSUME NEW i, i = findPCB(target), i # NULL, state[i] \in KillStates,
               Dispatch(Return(unblock(q, i), "result"), mark(Signals, i, n))
        PROVE  Recalled(Queues)'
    <3>1. i \in Slot /\ state[i] = "READY"
      BY <2>1, FindTypes
    <3>2. ASSUME NEW r \in QueueSet(Ptr)
          PROVE  LET u == [r EXCEPT !.ret[i] = "-99"] IN
                 /\ u \in QueueSet(Ptr) /\ u.state = r.state /\ u.next = r.next
                 /\ u.head = r.head /\ u.tail = r.tail /\ u.sleepQ = r.sleepQ /\ u.p = r.p
                 /\ u.waiting = r.waiting /\ u.waitingTail = r.waitingTail
      BY <1>3, <3>1 DEF QueueSet
    <3> DEFINE u == [q EXCEPT !.ret[i] = "-99"]
    <3>3. /\ u \in QueueSet(Ptr) /\ u.state = state /\ Running(u, L)
      <4>1. /\ u \in QueueSet(Ptr) /\ u.state = q.state /\ u.next = q.next
            /\ u.head = q.head /\ u.tail = q.tail /\ u.sleepQ = q.sleepQ
            /\ u.p = q.p /\ u.waiting = q.waiting /\ u.waitingTail = q.waitingTail
        BY <1>2, <3>2
      <4> HIDE DEF u
      <4> QED
        BY <1>1, <1>2, <4>1, RunningSame
    <3> HIDE DEF u
    <3>4. unblock(q, i) = u
      BY <3>1, <3>3 DEF unblock, u
    <3> QED
      BY <1>1, <1>2, <1>3, <2>1, <3>3, <3>4, ReturnRecalled
  <2> QED
    BY <1>3, <1>4, <1>13, <2>1 DEF Kill, q
<1>14. ASSUME NEW n, NEW own, sighandler(n, own)  PROVE Recalled(Queues)'
  BY <1>3, <1>4, <1>14 DEF sighandler, q
<1>15. ASSUME NEW target, Wait(target)  PROVE Recalled(Queues)'
  <2>1. q.p # Idle
    BY <1>5, <1>15 DEF Wait
  <2>2. CASE Dispatch(Return(q, "-1"), Signals)
    BY <1>3, <1>4, <2>2
  <2>3. ASSUME NEW f, f = findPCB(target), f # NULL, state[f] # "STOPPED",
               Len(List(waiting[f])) < MaxWaiters,
               Dispatch(switch([addToWaiting(q, f, p) EXCEPT !.state[p] = "WAITING"]),
                        Signals)
        PROVE  Recalled(Queues)'
    <3>1. f \in Slot /\ f \in Ix
      BY <2>3, FindTypes, SlotsAre
    <3>2. waiting[f] = First(L[f]) /\ Fam(next, L)
      BY <1>1, <1>2, <3>1, RunningIs DEF Waited
    <3>3. Len(L[f]) < MaxWaiters
      BY <2>3, <3>1, <3>2, ListIs
    <3> QED
      BY <1>1, <1>2, <2>1, <2>3, <3>1, <3>3, WaitRecalled
  <2> QED
    BY <1>15, <2>2, <2>3 DEF Wait, q
<1>16. CASE UNCHANGED vars
  <2>1. Queues' = Queues
    BY <1>16 DEF vars, lists, Queues
  <2> QED
    BY <1>1, <2>1 DEF Recalled, q
<1> QED
  BY <1>6, <1>7, <1>8, <1>9, <1>10, <1>11, <1>12, <1>13, <1>14, <1>15, <1>16 DEF Next

LEMMA WaitersAreListed ==
    ASSUME Recalled(Queues)
    PROVE  EachProcessOnItsList
<1>1. PICK L : Running(Queues, L) /\ Remembered(Queues.state, L)
  BY DEF Recalled
<1>2. Queues.state = state /\ Queues.waiting = waiting /\ Queues.next = next
  BY DEF Queues
<1>3. ListsExact
  BY <1>1, ListsAreExact
<1>4. WaitersListed
  <2> SUFFICES ASSUME NEW w \in Slot, state[w] = "WAITING"
               PROVE  \E i \in Slot : w \in Elements(List(waiting[i]))
    BY DEF WaitersListed
  <2>1. PICK i \in Slot : In(L, i, w)
    BY <1>1, <1>2 DEF Remembered, AllListed
  <2>2. i \in Ix /\ Fam(next, L) /\ waiting[i] = First(L[i])
    BY <1>1, <1>2, RunningIs, SlotsAre DEF Waited
  <2>3. List(waiting[i]) = L[i] /\ w \in Elements(L[i])
    BY <2>1, <2>2, ListIs, ElementsAre
  <2> QED
    BY <2>3
<1> QED
  BY <1>3, <1>4 DEF EachProcessOnItsList

\* Every process is once on the list its state names and on no other, also those that
\* wait for a process to stop, which is why all of them are readied then (c/disp.c:43).
\* Assumed: signals go to READY processes only; at most one process at a time waits for
\* another, or the break at c/disp.c:54 forgets the last; and the stale targetPCB is not
\* NULL, or a syswait() for no process blocks on no list (c/disp.c:177).
THEOREM ProcessesOnTheirLists ==
    ASSUME KillStates \subseteq {"READY"}, MaxWaiters <= 1, NULL \notin StaleWords
    PROVE  Spec => []EachProcessOnItsList
<1>1. Init => Recalled(Queues)
  BY RecalledInit
<1>2. TypeInv /\ Recalled(Queues) /\ [Next]_vars => Recalled(Queues)'
  BY RecalledStep DEF TypeInv, PidTypes
<1>3. Recalled(Queues) => EachProcessOnItsList
  BY WaitersAreListed
<1>4. Spec => []TypeInv
  BY TypesInductive
<1> QED
  BY <1>1, <1>2, <1>3, <1>4, PTL DEF Spec
=============================================================================
