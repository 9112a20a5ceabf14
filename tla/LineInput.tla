----------------------------- MODULE LineInput -----------------------------
(***************************************************************************)
(* What a program may rely on when it reads the keyboard: characters are   *)
(* queued in the order in which they were typed, those typed into a full   *)
(* queue are lost, and a read takes from the front of the queue up to the  *)
(* end of a line, the end-of-file character or the length it asked for.    *)
(***************************************************************************)
EXTENDS Integers, Sequences, FiniteSetsExt

CONSTANTS Capacity, Char, Lens, ENTER, NUL, EOF

VARIABLES
    queue,   \* the characters typed and not yet read
    line,    \* what the current or last read has put into its buffer
    want,    \* the length of that buffer
    eof      \* the end-of-file character

Init == queue = <<>> /\ line = <<>> /\ want = 0 /\ eof = EOF

\* A read that has the characters in got takes some of q.
Deliver(q, got, room) ==
    LET ends  == {n \in DOMAIN q : q[n] \in {ENTER, eof}}
        count == Min({Len(q), room - Len(got)} \cup ends)
        taken == [n \in 1 .. count |-> IF q[n] = ENTER THEN NUL ELSE q[n]]
        isEof == count > 0 /\ q[count] = eof
    IN  /\ queue' = SubSeq(q, count + 1, Len(q))
        /\ line' = got \o SubSeq(taken, 1, IF isEof THEN count - 1 ELSE count)

\* Whether a typed character is delivered at once is up to the reader.
Type(c) ==
    LET q == IF Len(queue) < Capacity THEN Append(queue, c) ELSE queue
    IN  /\ Deliver(q, line, want) \/ (queue' = q /\ line' = line)
        /\ UNCHANGED <<want, eof>>

Read(n) ==
    /\ want' = n
    /\ Deliver(queue, <<>>, n) \/ (queue' = queue /\ line' = <<>>)
    /\ UNCHANGED eof

ReadNothing == line' = <<>> /\ UNCHANGED <<queue, want, eof>>

SetEof(c) == eof' = c /\ UNCHANGED <<queue, line, want>>

Reset == queue' = <<>> /\ line' = <<>> /\ want' = 0 /\ eof' = EOF

Next ==
    \/ \E c \in Char : Type(c) \/ SetEof(c)
    \/ \E n \in Lens : Read(n)
    \/ ReadNothing \/ Reset

Spec == Init /\ [][Next]_<<queue, line, want, eof>>
=============================================================================
