------------------------------- MODULE Memory -------------------------------
(***************************************************************************)
(* The memory manager, c/mem.c: a list of the free parts of memory below   *)
(* and behind the hole, with the header of each at its start.  Addresses   *)
(* and sizes count bytes.  kfree() does nothing.                           *)
(***************************************************************************)
EXTENDS Integers, Sequences

CONSTANTS
    freemem,       \* the first address behind the kernel and its stack
    HOLESTART, HOLEEND, MemoryEnd,
    HeaderSize,    \* sizeof(mem), 12
    AskSizes,      \* bound: the sizes asked for
    MaxBlocks      \* bound: the number of calls of kmalloc()

Paragraph == 16

ASSUME MemoryAssumption ==
    /\ {freemem, HOLESTART, HOLEEND, MemoryEnd} \subseteq Nat
    /\ \A a \in {HOLESTART, HOLEEND, MemoryEnd} : a % Paragraph = 0
    /\ freemem + Paragraph < HOLESTART /\ HOLESTART < HOLEEND /\ HOLEEND < MemoryEnd
    /\ HeaderSize \in 1 .. Paragraph /\ AskSizes \subseteq Nat \ {0}

VARIABLES
    head,      \* the address of the first free part, or 0 for NULL
    mem,       \* the headers: what is in memory at the addresses of free parts
    blocks     \* what kmalloc() has returned: the address and size of each

memVars == <<head, mem, blocks>>

Header(next, prev, size) == [next |-> next, prev |-> prev, size |-> size]
Down(a) == a - (a % Paragraph)

kmeminit ==
    LET s == Down(freemem + Paragraph)
    IN  /\ head = s
        /\ mem = [a \in {s, HOLEEND} |->
                    IF a = s THEN Header(HOLEEND, 0, HOLESTART - s)
                             ELSE Header(0, s, MemoryEnd - HOLEEND)]
        /\ blocks = <<>>

\* A mutant of RoundedUp: down.
RoundedDown(size) == Down(size)

RoundedUp(size) == IF size % Paragraph # 0 THEN Down(size + Paragraph) ELSE size

\* The first part, from p on, that is large enough, or NULL.
Fit(size) ==
    LET from[p \in DOMAIN mem \cup {0}] ==
            IF p = 0 \/ mem[p].size >= size THEN p ELSE from[mem[p].next]
    IN  from[head]

\* Header r takes the place of p in the list; 0 takes p out of it.
Relinked(p, r, new) ==
    [a \in (DOMAIN mem \ {p}) \cup ({r} \ {0}) |->
        IF a = r THEN new
        ELSE IF a = mem[p].next THEN [mem[a] EXCEPT !.prev = IF r = 0 THEN mem[p].prev ELSE r]
        ELSE IF a = mem[p].prev THEN [mem[a] EXCEPT !.next = IF r = 0 THEN mem[p].next ELSE r]
        ELSE mem[a]]

\* The rest of a part keeps, with its header, the size of the whole part.
kmalloc(asked) ==
    LET size == RoundedUp(asked)
        p == Fit(size)
    IN  \/ p = 0 /\ UNCHANGED memVars
        \/ /\ p # 0
           /\ LET exact == mem[p].size - size < HeaderSize
                  r == IF exact THEN 0 ELSE p + size
              IN  /\ mem' = Relinked(p, r, mem[p])
                  /\ head' = IF mem[p].prev # 0 THEN head
                             ELSE IF exact THEN mem[p].next ELSE r
           /\ blocks' = Append(blocks, [addr |-> p, size |-> asked])

NextMemory == Len(blocks) < MaxBlocks /\ \E size \in AskSizes : kmalloc(size)

-----------------------------------------------------------------------------
(* Properties                                                               *)

Bytes(b) == b.addr .. b.addr + b.size - 1
Usable == (Down(freemem + Paragraph) .. HOLESTART - 1) \cup (HOLEEND .. MemoryEnd - 1)
Asked ==
    LET sum[n \in 0 .. Len(blocks)] ==
            IF n = 0 THEN 0 ELSE sum[n - 1] + RoundedUp(blocks[n].size)
    IN  sum[Len(blocks)]

\* No byte belongs to two blocks or to a block and the header of a free part, blocks
\* begin at paragraphs, and the list is linked both ways.  This holds while blocks lie
\* in memory that can be used, and they do while no more has been asked for than the
\* part below the hole has: after that, nothing keeps kmalloc() out of the hole, since
\* the rest of a part never gets smaller (c/mem.c:73), and never returns 0.
BlocksApart ==
    /\ Asked <= HOLESTART - Down(freemem + Paragraph)
           => \A i \in DOMAIN blocks : Bytes(blocks[i]) \subseteq Usable
    /\ (\A i \in DOMAIN blocks : Bytes(blocks[i]) \subseteq Usable) =>
           /\ \A i \in DOMAIN blocks :
                 /\ blocks[i].addr % Paragraph = 0
                 /\ \A j \in 1 .. i - 1 : Bytes(blocks[i]) \cap Bytes(blocks[j]) = {}
                 /\ \A h \in DOMAIN mem :
                       Bytes(blocks[i]) \cap h .. h + HeaderSize - 1 = {}
           /\ head = 0 <=> DOMAIN mem = {}
           /\ \A h \in DOMAIN mem :
                 /\ mem[h].prev = 0 <=> h = head
                 /\ mem[h].next # 0 => mem[mem[h].next].prev = h
=============================================================================
