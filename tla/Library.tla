------------------------------ MODULE Library -------------------------------
(***************************************************************************)
(* Calls of the C library: every behaviour is one call, with inputs that   *)
(* are chosen at the start, and its return.  qsort() takes many steps; of  *)
(* the others the step is the whole call.  What a call returns is compared *)
(* with what the standard function of that name promises, which is what    *)
(* h/xeroslib.h says of them.                                              *)
(***************************************************************************)
EXTENDS Sort, Format, Strings

CONSTANTS
    Values,        \* bound: the numbers that are printed and read
    Directives,    \* bound: the directives they are printed by
    Arrays,        \* bound: the arrays of the string functions
    Counts         \* bound: their n

ASSUME LibraryAssumption == Values \subseteq Int_ /\ Counts \subseteq Nat

\* What a caller owes: characters that are not negative, a NUL among them, and room in
\* s1 for the longest that comes of it: "S1's space must be large enough" (strcat.c).
ASSUME StringAssumption ==
    /\ \A s \in Arrays : /\ \E last \in DOMAIN s : s \in [0 .. last -> Nat]
                         /\ \E k \in DOMAIN s : s[k] = 0
    /\ \A s1, s2 \in Arrays : strlen(s1) + strlen(s2) \in DOMAIN s1
    /\ \A s \in Arrays, n \in Counts : n - 1 \in DOMAIN s \cup {-1}

VARIABLES
    call,      \* the function and its arguments
    result     \* of the call: a record, empty until it returns

libVars == <<call, result>>

Pending == [returned |-> FALSE]
sortIdle == at = "done" /\ array = <<>> /\ input = <<>> /\ reg = <<>> /\ stack = <<>>

\* What a call of sprintf() that runs over the array string leaves is not defined.
Overrun_ == [returned |-> FALSE, overrun |-> TRUE]

\* The conversions that both have, with what fills them in front.
Readable == {d \in Directives : d.conv # "b" /\ ~d.left /\ d.min \in {0, 6}}

LibInit ==
    /\ result = Pending
    /\ \/ call = [fn |-> "qsort"] /\ SortInit
       \/ sortIdle /\ call \in [fn : {"sprintf"}, d : Directives, v : Values]
       \/ sortIdle /\ call \in [fn : {"sscanf"}, d : Readable, e : Readable,
                                v : Values, w : Values]
       \/ sortIdle /\ call \in [fn : {"str"}, s1 : Arrays, s2 : Arrays, n : Counts,
                                c : 0 .. 2]

Printf ==
    /\ call.fn = "sprintf" /\ result = Pending
    /\ result' = IF Fits(call.d.conv, call.v)
                 THEN [returned |-> TRUE, text |-> sprintf(<<call.d>>, <<call.v>>)]
                 ELSE Overrun_
    /\ UNCHANGED <<call, sortVars>>

Blank == [conv |-> "echo", char |-> " "]
Scanned(d) == [conv |-> d.conv, len |-> 0, size |-> "", keep |-> TRUE]

\* Two fields with a blank between them, as sprintf() leaves them.
Scanf ==
    /\ call.fn = "sscanf" /\ result = Pending
    /\ LET text == sprintf(<<call.d, Blank, call.e>>, <<call.v, 0, call.w>>)
       IN  result' = [returned |-> TRUE, number |-> atoi(text),
                      scan |-> sscanf(text, <<Scanned(call.d), Scanned(call.e)>>)]
    /\ UNCHANGED <<call, sortVars>>

String ==
    /\ call.fn = "str" /\ result = Pending
    /\ LET s1 == call.s1  s2 == call.s2  n == call.n
       IN  result' = [returned |-> TRUE,
                      len |-> strlen(s1), cmp |-> strcmp(s1, s2),
                      ncmp |-> strncmp(s1, s2, n), cpy |-> strcpy(s1, s2),
                      cat |-> strcat(s1, s2), ncpy |-> strncpy(s1, s2, n),
                      ncat |-> strncat(s1, s2, n), set |-> memset(s1, call.c, n),
                      first |-> index(s1, call.c), last |-> rindex(s1, call.c)]
    /\ UNCHANGED <<call, sortVars>>

LibNext ==
    \/ SortNext /\ UNCHANGED libVars
    \/ Printf
    \/ Scanf
    \/ String

-----------------------------------------------------------------------------
(* Properties                                                               *)

\* The digits, blanks and the sign that come to the number n with a width.
IsNumeral(text, n, base, d) ==
    LET sign == IF n < 0 THEN <<"-">> ELSE <<>>
        magnitude == IF n < 0 THEN -n ELSE n
        value[k \in 0 .. Len(text)] ==
            IF k = 0 THEN 0
            ELSE IF text[k] \in {" ", "-"} THEN value[k - 1]
            ELSE value[k - 1] * base + ValueOf(text[k])
        least == IF d.min <= MAXSTR THEN d.min ELSE 0
        begin == CHOOSE k \in 1 .. Len(text) :
                     text[k] # " " /\ \A j \in 1 .. k - 1 : text[j] = " "
        end == CHOOSE k \in begin .. Len(text) :
                   text[k] # " " /\ \A j \in k + 1 .. Len(text) : text[j] = " "
    IN  /\ value[Len(text)] = magnitude
        /\ IsPrefix(sign, SubSeq(text, begin, end))
        /\ \A k \in begin + Len(sign) .. end : text[k] \notin {" ", "-"}
        /\ Len(text) >= least
        /\ Len(text) > least => begin = 1 /\ end = Len(text)
        /\ (Len(text) > least \/ ~d.zero)
              => (text[begin + Len(sign)] = "0" => end = begin + Len(sign))
        /\ begin > 1 => ~d.left /\ ~d.zero
        /\ end < Len(text) => d.left

\* A number is printed as a numeral of it: in base 10 also words that signed
\* division cannot take apart, with the sign before the zeros that fill the width,
\* no zero in front otherwise, and no character more than the width asks for.  "-"
\* with "0" fills with zeros behind, so that the number is what stands before them.
\* No other conversion runs over string than one to base 2, and that if and only if
\* it has StringSize digits or more.
Printed ==
    (call.fn = "sprintf" /\ result # Pending) =>
        LET n == IF call.d.conv = "d" THEN call.v ELSE call.v % Word
            base == BaseOf[call.d.conv]
            text == result.text
            numeral(k) ==
                /\ IsNumeral(SubSeq(text, 1, k), n, base, [call.d EXCEPT !.min = 0])
                /\ \A i \in k + 1 .. Len(text) : text[i] = "0" /\ i <= call.d.min
                /\ call.d.min <= MAXSTR => call.d.min <= Len(text)
        IN  IF call.d.conv = "b" /\ n >= 2 ^ (StringSize - 1) THEN result = Overrun_
            ELSE /\ result.returned
                 /\ IF call.d.left /\ call.d.zero
                    THEN \E k \in 1 .. Len(text) : numeral(k)
                    ELSE IsNumeral(text, n, base, call.d)

\* What sprintf() wrote sscanf() reads: both fields match, with the values they were
\* written from, and atoi() agrees on the first decimal one.
ReadsBack ==
    (call.fn = "sscanf" /\ result.returned) =>
        /\ result.scan.result = 2
        /\ result.scan.args = <<call.v, call.w>>
        /\ call.d.conv \in {"d", "u"} => result.number = call.v

\* The characters before the first NUL.
Str(s) == LET n == CHOOSE k \in DOMAIN s : s[k] = 0 /\ \A j \in 0 .. k - 1 : s[j] # 0
          IN  [i \in 1 .. n |-> s[i - 1]]
Cut(t, n) == SubSeq(t, 1, IF n < Len(t) THEN n ELSE Len(t))

\* The order of strings: a proper prefix is less, or the first difference decides.
Less(t, u) ==
    \/ IsStrictPrefix(t, u)
    \/ \E i \in 1 .. Len(t) :
           i <= Len(u) /\ t[i] < u[i] /\ \A j \in 1 .. i - 1 : t[j] = u[j]

Compares(n, t, u) == (n < 0 <=> Less(t, u)) /\ (n > 0 <=> Less(u, t))
Places_(s, c) == {i \in 0 .. strlen(s) : s[i] = c}

\* The string functions agree with their definitions on strings, none looks at or
\* changes what lies behind what it was given, and a count of characters is exact.
StringsAgree ==
    (call.fn = "str" /\ result.returned) =>
        LET t == Str(call.s1)  u == Str(call.s2)  n == call.n
            Behind(s, k) == \A i \in DOMAIN s : i >= k => s[i] = call.s1[i]
        IN  /\ result.len = Len(t)
            /\ Compares(result.cmp, t, u)
            /\ Compares(result.ncmp, Cut(t, n), Cut(u, n))
            /\ Str(result.cpy) = u /\ Behind(result.cpy, Len(u) + 1)
            /\ Str(result.cat) = t \o u /\ Behind(result.cat, Len(t \o u) + 1)
            /\ Str(result.ncat) = t \o Cut(u, n)
            /\ Behind(result.ncat, Len(t \o Cut(u, n)) + 1)
            /\ \A i \in 0 .. n - 1 :
                   result.ncpy[i] = IF i < Len(u) THEN u[i + 1] ELSE 0
            /\ Behind(result.ncpy, n) /\ Behind(result.set, n)
            /\ \A i \in 0 .. n - 1 : result.set[i] = call.c
            /\ result.first = (IF Places_(call.s1, call.c) = {} THEN NULL
                               ELSE Min(Places_(call.s1, call.c)))
            /\ result.last = (IF Places_(call.s1, call.c) = {} THEN NULL
                              ELSE Max(Places_(call.s1, call.c)))
=============================================================================
