------------------------------ MODULE Strings -------------------------------
(***************************************************************************)
(* The string functions of lib/libxc.  A string is the array that holds    *)
(* it, a function from 0 to characters: numbers of which NUL is 0.  What   *)
(* lies behind the NUL is part of the array.  Each loop is a recursive     *)
(* function of the offset that it has reached.                             *)
(***************************************************************************)
EXTENDS Integers, FiniteSets

strlen(s) ==
    LET n[i \in Nat] == IF s[i] = 0 THEN i ELSE n[i + 1] IN n[0]

strcmp(s1, s2) ==
    LET cmp[i \in Nat] == IF s1[i] # s2[i] THEN s1[i] - s2[i]
                          ELSE IF s1[i] = 0 THEN 0 ELSE cmp[i + 1]
    IN  cmp[0]

strncmp(s1, s2, n) ==
    LET cmp[i \in Nat] == IF i = n THEN 0
                          ELSE IF s1[i] # s2[i] THEN s1[i] - s2[i]
                          ELSE IF s1[i] = 0 THEN 0 ELSE cmp[i + 1]
    IN  cmp[0]

\* *s1++ = *s2++ until the NUL is copied, from s1[at] on.
copy(s1, at, s2) ==
    LET to[i \in Nat] == LET s == [(IF i = 0 THEN s1 ELSE to[i - 1])
                                       EXCEPT ![at + i] = s2[i]] IN s
    IN  to[strlen(s2)]

strcpy(s1, s2) == copy(s1, 0, s2)
strcat(s1, s2) == copy(s1, strlen(s1), s2)

\* A short string is filled up with NULs, a long one gets none.
strncpy(s1, s2, n) ==
    LET len == strlen(s2)
    IN  [i \in DOMAIN s1 |-> IF i >= n THEN s1[i] ELSE IF i < len THEN s2[i] ELSE 0]

\* A mutant of strncat: the count is compared before the character is moved.
strncatOneMore(s1, s2, n) ==
    LET at == strlen(s1)
    IN  [strcat(s1, s2) EXCEPT ![at + n + 1] = IF n + 1 <= strlen(s2) THEN 0 ELSE @]

\* Character n of s2, counted from 0, is moved as well, then replaced by NUL.
strncat(s1, s2, n) ==
    LET at == strlen(s1)
        to[i \in Nat] == [(IF i = 0 THEN s1 ELSE to[i - 1]) EXCEPT ![at + i] = s2[i]]
    IN  IF n >= strlen(s2) THEN to[strlen(s2)] ELSE [to[n] EXCEPT ![at + n] = 0]

NULL == -1

\* The first and the last place of c, which may be NUL.
index(s, c) ==
    LET from[i \in Nat] == IF s[i] = c THEN i ELSE IF s[i] = 0 THEN NULL ELSE from[i + 1]
    IN  from[0]

rindex(s, c) ==
    LET r[i \in -1 .. strlen(s)] == IF i = -1 THEN NULL ELSE IF s[i] = c THEN i ELSE r[i - 1]
    IN  r[strlen(s)]

memset(pch, c, len) == [i \in DOMAIN pch |-> IF i < len THEN c ELSE pch[i]]
=============================================================================
