-------------------------------- MODULE Sort --------------------------------
(***************************************************************************)
(* qsort() of lib/libxc/qsort.c: a quicksort whose middle part, lp .. hp,  *)
(* grows to hold every element equal to the pivot.  The elements are the   *)
(* entries of the function a from 0; offsets count elements.               *)
(***************************************************************************)
EXTENDS Integers, Sequences, FiniteSets

CONSTANTS
    Keys,      \* bound: what elements are compared by
    MaxSize    \* bound: the number of elements

ASSUME SortAssumption == Keys \subseteq Int /\ MaxSize \in Nat

VARIABLES
    input,    \* the array as it was given
    array,    \* the array as it is now
    at,       \* "start", "for", "loop": the labels of qs1(); "done"
    reg,      \* its variables a, l, i, j, lp, hp
    stack     \* the calls of qs1() that have not returned: their a and l

sortVars == <<input, array, at, reg, stack>>

qscmp(x, y) == array[x] - array[y]

\* Mutants of qsexc and qstexc: the elements go to the wrong places.
qsexcNot(i, j) == array
qstexcOther(i, j, k) ==
    [array EXCEPT ![i] = array[j], ![j] = array[k], ![k] = array[i]]

qsexc(i, j) == [array EXCEPT ![i] = array[j], ![j] = array[i]]

\* Three elements change places: i gets k's, k gets j's, j gets i's.
qstexc(i, j, k) ==
    [array EXCEPT ![i] = array[k], ![k] = array[j], ![j] = array[i]]

\* A mutant of extended: the element that was moved is looked at again.
extendedNot(r) == r

\* The middle part grows upwards by one.
extended(r) == [r EXCEPT !.hp = @ + 1]

SortInit ==
    /\ \E n \in 0 .. MaxSize : input \in [0 .. n - 1 -> Keys]
    /\ array = input
    /\ at = "start"
    /\ LET n == CHOOSE n \in 0 .. MaxSize : DOMAIN input = 0 .. n - 1
       IN  reg = [a |-> 0, l |-> n, i |-> 0, j |-> 0, lp |-> 0, hp |-> 0]
    /\ stack = <<>>

\* A part of one element is sorted; of a longer one the middle is the pivot.
Start ==
    /\ at = "start"
    /\ LET n == reg.l - reg.a
           m == reg.a + n \div 2
       IN  \/ /\ n <= 1 /\ stack = <<>>
              /\ at' = "done" /\ UNCHANGED <<reg, stack>>
           \/ /\ n <= 1 /\ stack # <<>>
              /\ reg' = [reg EXCEPT !.a = Head(stack).a, !.l = Head(stack).l]
              /\ stack' = Tail(stack) /\ UNCHANGED at
           \/ /\ n > 1
              /\ reg' = [reg EXCEPT !.lp = m, !.hp = m, !.i = reg.a, !.j = reg.l - 1]
              /\ at' = "for" /\ UNCHANGED stack
    /\ UNCHANGED <<input, array>>

\* i looks for an element above the pivot.
For ==
    /\ at = "for"
    /\ \/ /\ reg.i < reg.lp /\ qscmp(reg.i, reg.lp) = 0
          /\ array' = qsexc(reg.i, reg.lp - 1)
          /\ reg' = [reg EXCEPT !.lp = @ - 1] /\ UNCHANGED at
       \/ /\ reg.i < reg.lp /\ qscmp(reg.i, reg.lp) < 0
          /\ reg' = [reg EXCEPT !.i = @ + 1] /\ UNCHANGED <<array, at>>
       \/ /\ reg.i >= reg.lp \/ qscmp(reg.i, reg.lp) > 0
          /\ at' = "loop" /\ UNCHANGED <<array, reg>>
    /\ UNCHANGED <<input, stack>>

\* j looks for one below the pivot, to exchange the two.
Loop ==
    /\ at = "loop" /\ reg.j > reg.hp
    /\ \/ /\ qscmp(reg.hp, reg.j) = 0
          /\ array' = qsexc(reg.hp + 1, reg.j)
          /\ reg' = extended(reg) /\ UNCHANGED at
       \/ /\ qscmp(reg.hp, reg.j) > 0 /\ reg.i = reg.lp
          /\ array' = qstexc(reg.i, reg.hp + 1, reg.j)
          /\ reg' = [extended(reg) EXCEPT !.lp = @ + 1, !.i = reg.lp + 1]
          /\ UNCHANGED at
       \/ /\ qscmp(reg.hp, reg.j) > 0 /\ reg.i # reg.lp
          /\ array' = qsexc(reg.i, reg.j)
          /\ reg' = [reg EXCEPT !.j = @ - 1, !.i = @ + 1] /\ at' = "for"
       \/ /\ qscmp(reg.hp, reg.j) < 0
          /\ reg' = [reg EXCEPT !.j = @ - 1] /\ UNCHANGED <<array, at>>
    /\ UNCHANGED <<input, stack>>

\* Both are at the middle part: sort the shorter side in a call, then the longer.
Split ==
    /\ at = "loop" /\ reg.j <= reg.hp /\ reg.i = reg.lp
    /\ LET below == [a |-> reg.a, l |-> reg.lp]
           above == [a |-> reg.hp + 1, l |-> reg.l]
           upFirst == reg.lp - reg.a >= reg.l - reg.hp
           first == IF upFirst THEN above ELSE below
       IN  /\ reg' = [reg EXCEPT !.a = first.a, !.l = first.l]
           /\ stack' = <<IF upFirst THEN below ELSE above>> \o stack
    /\ at' = "start" /\ UNCHANGED <<input, array>>

\* Only j is: the element at i goes above the middle part, which moves down.
Shift ==
    /\ at = "loop" /\ reg.j <= reg.hp /\ reg.i # reg.lp
    /\ array' = qstexc(reg.j, reg.lp - 1, reg.i)
    /\ reg' = [reg EXCEPT !.lp = @ - 1, !.j = reg.hp - 1, !.hp = @ - 1]
    /\ at' = "for" /\ UNCHANGED <<input, stack>>

SortNext == Start \/ For \/ Loop \/ Split \/ Shift

SortSpec == SortInit /\ [][SortNext]_sortVars

-----------------------------------------------------------------------------
(* Properties                                                               *)

Occurrences(f, x) == Cardinality({i \in DOMAIN f : f[i] = x})

\* qsort() loses and duplicates no element, and when it returns they are in order.
Sorted ==
    /\ \A x \in Keys : Occurrences(array, x) = Occurrences(input, x)
    /\ at = "done" => \A i, j \in DOMAIN array : i < j => array[i] <= array[j]

\* The three parts stay what they are for: below i nothing is above the pivot,
\* between lp and hp all are equal to it, above j nothing is below it.  No step
\* leaves the part a .. l - 1, so that a call does not disturb its caller's.
Partitioned ==
    at \in {"for", "loop"} =>
        /\ reg.a <= reg.i /\ reg.i <= reg.lp /\ reg.lp <= reg.hp
        /\ reg.hp <= reg.j /\ reg.j < reg.l
        /\ \A x \in reg.a .. reg.i - 1 : array[x] <= array[reg.lp]
        /\ \A x \in reg.lp .. reg.hp : array[x] = array[reg.lp]
        /\ \A x \in reg.j + 1 .. reg.l - 1 : array[x] >= array[reg.lp]

\* However many elements are equal, the loops come to an end.
SortEnds == at = "start" ~> at = "done"
=============================================================================
