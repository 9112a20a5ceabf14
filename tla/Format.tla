------------------------------- MODULE Format -------------------------------
(***************************************************************************)
(* Formatted output and input: _doprnt() of lib/libxc/doprnt.c as          *)
(* sprintf() calls it, and _doscan() of doscan.c as sscanf() calls it.     *)
(* Text is a sequence of characters, a format a sequence of directives     *)
(* that are already taken apart: parsing "%-05d" is not modelled.          *)
(***************************************************************************)
EXTENDS Integers, Sequences, SequencesExt

CONSTANTS
    Bits,         \* 32, the bits of an int and of a long
    StringSize    \* 20, the size of the array string

\* The conversion of unsigned words relies on what holds of 32 (and of 12): no
\* less than two of the greatest power of ten are left in half the words.  The
\* digits of a word in octal fit in 20 characters, those in base 2 do not.
ASSUME FormatAssumption ==
    /\ Bits \in {12, 32} /\ StringSize \in Nat
    /\ 8 ^ (StringSize - 1) >= 2 ^ Bits /\ StringSize <= Bits

Word == 2 ^ Bits
Int_ == -(Word \div 2) .. Word \div 2 - 1
Wrap(n, size) == LET m == n % size IN IF 2 * m < size THEN m ELSE m - size

Digits == <<"0", "1", "2", "3", "4", "5", "6", "7", "8", "9",
            "a", "b", "c", "d", "e", "f">>
ValueOf(c) == CHOOSE d \in 0 .. 15 : Digits[d + 1] = c
BaseOf == [d |-> 10, u |-> 10, o |-> 8, x |-> 16, b |-> 2]
MAXSTR == 80

-----------------------------------------------------------------------------
(* Output: a directive is a record of conv, left, zero, min and max         *)

\* The length of temp[]: the digits of the greatest word.
Places(base) == CHOOSE n \in 1 .. Bits : base ^ n >= Word /\ base ^ (n - 1) < Word

\* The digits as they are written: from the first that is not 0, but at least one.
Significant(temp) ==
    LET i == Max({1} \cup {n \in DOMAIN temp : temp[n] # 0})
    IN  Reverse(SubSeq(temp, 1, i))

\* The digits of a number that is not negative, of which there are Places(10).
_prtl10(num) == Significant([i \in 1 .. Places(10) |-> (num \div 10 ^ (i - 1)) % 10])

\* num >> n of a signed word, which copies the sign.
Right(num, n) == num \div 2 ^ n

\* Of the copies of the sign that come into the first octal digit, a mask leaves those
\* that are bits of the word.
_prtl8(num) ==
    LET mask == Word \div 8 ^ (Places(8) - 1)
    IN  Significant([i \in 1 .. Places(8) |->
            Right(num, 3 * (i - 1)) % (IF i = Places(8) THEN mask ELSE 8)])

_prtl16(num) == Significant([i \in 1 .. Places(16) |-> Right(num, 4 * (i - 1)) % 16])

\* The remainder of a negative odd number is -1 in C, which is not 0 either.
_prtl2(num) == Significant([i \in 1 .. Places(2) |-> Right(num, i - 1) % 2])

\* A mutant of unsigned10: the word's sign bit is dropped.
unsigned10Half(num) == _prtl10(num % (Word \div 2))

\* Signed division cannot take a word above the greatest int apart: the greatest
\* power of ten is subtracted until it can, and added to the first digit again.
unsigned10(num) ==
    LET top == 10 ^ (Places(10) - 1)
        digit1 == CHOOSE k \in 0 .. 9 :
                     /\ Wrap(num - k * top, Word) >= 0
                     /\ \A j \in 0 .. k - 1 : Wrap(num - j * top, Word) < 0
        str == _prtl10(Wrap(num - digit1 * top, Word))
    IN  [str EXCEPT ![1] = @ + digit1]

Text(ds) == [i \in DOMAIN ds |-> Digits[ds[i] + 1]]

\* The switch on the conversion: the characters, without a sign, of which only those of
\* a number are first stored in the array string.
string(conv, arg) ==
    CASE conv \in {"c", "s"} -> arg
      [] conv = "d" -> Text(unsigned10(IF arg < 0 THEN Wrap(-arg, Word) ELSE arg))
      [] conv = "u" -> Text(unsigned10(arg))
      [] conv = "o" -> Text(_prtl8(arg))
      [] conv = "x" -> Text(_prtl16(arg))
      [] conv = "b" -> Text(_prtl2(arg))

\* The digits and the NUL behind them fit in string, which nothing looks at: what is
\* written past its end lands in other variables of _doprnt() or its return address.
Fits(conv, arg) == conv \in {"c", "s"} \/ Len(string(conv, arg)) + 1 <= StringSize

\* A directive and its argument: the sign goes before zeros and after blanks.
field(d, arg) ==
    LET str == string(d.conv, arg)
        fill == IF d.zero /\ d.conv \notin {"c", "s"} THEN "0" ELSE " "
        sign == IF d.conv = "d" /\ arg < 0 THEN <<"-">> ELSE <<>>
        fmin == IF d.min > MAXSTR THEN 0 ELSE d.min
        fmax == IF d.max > MAXSTR \/ d.conv # "s" THEN 0 ELSE d.max
        length == IF fmax # 0 /\ Len(str) > fmax THEN fmax ELSE Len(str)
        taken == length + Len(sign)
        leading == IF fmin > taken THEN fmin - taken ELSE 0
        pad == [i \in 1 .. leading |-> fill]
    IN  (IF fill = "0" THEN sign ELSE <<>>)
        \o (IF d.left THEN <<>> ELSE pad)
        \o (IF fill = " " THEN sign ELSE <<>>)
        \o SubSeq(str, 1, length)
        \o (IF d.left THEN pad ELSE <<>>)

\* Characters of the format are echoed; "%%" is the character "%".
_doprnt(fmt, args) ==
    FlattenSeq([i \in DOMAIN fmt |->
        IF fmt[i].conv = "echo" THEN <<fmt[i].char>> ELSE field(fmt[i], args[i])])

sprintf(fmt, args) == _doprnt(fmt, args)

-----------------------------------------------------------------------------
(* Input: a directive is a record of conv, len (0: none), size and keep     *)

EOF == -1
SPC == {" ", "\t", "\n"}

\* How many characters of the string, from its first, are of the class.
Span(s, class) ==
    Max({n \in 0 .. Len(s) : \A i \in 1 .. n : s[i] \in class})

Rest(s, n) == SubSeq(s, n + 1, Len(s))
Lesser(m, n) == IF m < n THEN m ELSE n
DigitsOf(base) == {Digits[d + 1] : d \in 0 .. (IF base = 16 THEN 15 ELSE 9)}

\* The digits 8 and 9 are read in base 8 as well, and overflow is not noticed.
\* A sign counts as a character, and "-" alone is a number.
_innum(d, s) ==
    LET t == Rest(s, Span(s, SPC))
        signed == t # <<>> /\ t[1] \in {"-", "+"}
        negflg == t # <<>> /\ t[1] = "-"
        u == IF signed THEN Tail(t) ELSE t
        base == IF d.conv \in {"o", "x"} THEN BaseOf[d.conv] ELSE 10
        most == IF d.len = 0 THEN Len(u) ELSE IF signed THEN d.len - 1 ELSE d.len
        n == Lesser(most, Span(u, DigitsOf(base)))
        lcval == FoldLeft(LAMBDA v, c : Wrap(v * base + ValueOf(c), Word), 0,
                          SubSeq(u, 1, n))
    IN  [rest |-> Rest(u, n), fileended |-> n = Len(u),
         matched |-> negflg \/ n > 0,
         value |-> Wrap(IF negflg THEN -lcval ELSE lcval,
                        IF d.size = "h" THEN 2 ^ (Bits \div 2) ELSE Word)]

\* The characters that end a "[": those _getccl() marks in _sctab.
_getccl(d, c) == IF d.not THEN c \in d.set ELSE c \notin d.set

\* "s" skips blanks and reads up to the next; "[" skips nothing.  The string is not
\* known to have ended when the length is reached.
_instr(d, s) ==
    LET t == IF d.conv = "s" THEN Rest(s, Span(s, SPC)) ELSE s
        stops(c) == CASE d.conv = "c" -> FALSE
                      [] d.conv = "s" -> c \in SPC
                      [] OTHER        -> _getccl(d, c)
        most == IF d.len # 0 THEN d.len ELSE IF d.conv = "c" THEN 1 ELSE Len(t) + 1
        n == Lesser(most, Span(t, {c \in ToSet(t) : ~stops(c)}))
    IN  [rest |-> Rest(t, n), fileended |-> n < most /\ n = Len(t),
         matched |-> n > 0, value |-> SubSeq(t, 1, n)]

\* A conversion that matches nothing does not end the scan, the string's end does.
conversion(d, st) ==
    LET r == IF d.conv \in {"c", "s", "["} THEN _instr(d, st.s) ELSE _innum(d, st.s)
        kept == r.matched /\ d.keep
        n == IF kept THEN st.nmatch + 1 ELSE st.nmatch
    IN  [s |-> r.rest, nmatch |-> n,
         args |-> IF kept THEN Append(st.args, r.value) ELSE st.args,
         done |-> r.fileended, result |-> IF r.fileended /\ n = 0 THEN EOF ELSE n]

\* A character of the format must be next in the string; a blank is any number of them.
literal(d, st) ==
    IF d.char \in SPC THEN [st EXCEPT !.s = Rest(@, Span(@, SPC))]
    ELSE IF st.s = <<>> THEN [st EXCEPT !.done = TRUE, !.result = EOF]
    ELSE IF Head(st.s) # d.char THEN [st EXCEPT !.done = TRUE]
    ELSE [st EXCEPT !.s = Tail(@)]

_doscan(fmt, str) ==
    FoldLeft(LAMBDA st, d : IF st.done THEN st
                            ELSE IF d.conv = "echo" THEN literal(d, st)
                            ELSE conversion(d, st),
             [s |-> str, args |-> <<>>, nmatch |-> 0, done |-> FALSE, result |-> 0],
             fmt)

sscanf(str, fmt) == _doscan(fmt, str)

\* atoi() and atol() skip blanks and tabs and read a sign and digits.
atoi(p) ==
    LET t == Rest(p, Span(p, {" ", "\t"}))
        signed == t # <<>> /\ t[1] \in {"-", "+"}
        u == IF signed THEN Tail(t) ELSE t
        n == FoldLeft(LAMBDA v, c : Wrap(v * 10 + ValueOf(c), Word), 0,
                      SubSeq(u, 1, Span(u, DigitsOf(10))))
    IN  Wrap(IF signed /\ t[1] = "-" THEN -n ELSE n, Word)
=============================================================================
