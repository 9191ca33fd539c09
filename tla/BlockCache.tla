----------------------------- MODULE BlockCache -----------------------------
(***************************************************************************)
(* The block cache behind the remote Viewer: remote_block and remote_byte  *)
(* of src/view/source.c, over the bounded reads of src/provider/http.c.    *)
(* A slot holds one block of the resource; when a block is wanted that no  *)
(* slot holds, the least recently used slot is read into.                  *)
(*                                                                         *)
(* The bytes of the resource are all different: the byte at an offset is   *)
(* the offset, so a byte out of its place shows.  The stamps of the slots  *)
(* are kept as the order they define, least recently used first.           *)
(***************************************************************************)
EXTENDS Integers, Sequences, SequencesExt

CONSTANTS Total,       \* size of the resource
          BlockSize,   \* REMOTE_VIEW_BLOCK
          CacheBlocks, \* REMOTE_CACHE_BLOCKS
          ShortReads,  \* whether the server may send less than was asked for
          None         \* nothing written, no answer, no byte

ASSUME TotalAssumption == Total \in Nat \ {0}
ASSUME BlockSizeAssumption == BlockSize \in Nat \ {0}
ASSUME CacheBlocksAssumption == CacheBlocks \in Nat \ {0}
ASSUME ShortReadsAssumption == ShortReads \in BOOLEAN

Offsets == 0 .. Total - 1
Indices == 0 .. (Total - 1) \div BlockSize
Slots == 1 .. CacheBlocks

Blocks == [index : Indices, length : 1 .. BlockSize]
Buffers == [1 .. BlockSize -> Offsets \cup {None}]
Answers == [offset : 0 .. Total, result : {"byte", "end", "failed"},
            value : Offsets \cup {None}]
ASSUME NoneAssumption == None \notin Offsets \cup Blocks \cup Answers

VARIABLES
    block,     \* block[s]: what slot s says it holds, None if it is not valid
    data,      \* data[s]: the bytes in slot s
    order,     \* the valid slots, least recently used first
    answer,    \* what remote_byte answered last
    clobbered, \* ghost: the valid slots a failed read has written to
    recent     \* ghost: the blocks read with success, without repetition,
               \*        latest last, CacheBlocks of them at most

cache == <<block, data, order>>
ghosts == <<clobbered, recent>>
vars == <<cache, answer, ghosts>>

----------------------------------------------------------------------------
Least(a, b) == IF a < b THEN a ELSE b

\* What the server has of the block.
Length(i) == Least(BlockSize, Total - i * BlockSize)

\* The buffer after the first n bytes of block i were written to it.
Filled(buffer, i, n) ==
    [k \in 1 .. BlockSize |->
        IF k <= n THEN i * BlockSize + k - 1 ELSE buffer[k]]

Holding(i) == {s \in Slots : block[s] # None /\ block[s].index = i}
Invalid == {s \in Slots : block[s] = None}
LastInvalid == CHOOSE s \in Invalid : \A t \in Invalid : t <= s

\* The last slot that is not valid, or the least recently used.
Victim == IF Invalid # {} THEN LastInvalid ELSE Head(order)

\* Mutant: a hit does not renew the stamp.
NotRenewed(s) == order

\* Where a value is in a sequence that has it.
Position(seq, x) == CHOOSE k \in DOMAIN seq : seq[k] = x

\* The slot gets the latest stamp.
Renewed(s) ==
    IF s \in Invalid
    THEN Append(order, s)
    ELSE Append(RemoveAt(order, Position(order, s)), s)

\* Mutant: the length asked for is recorded.
WholeBlock(i, n) == [index |-> i, length |-> BlockSize]

\* Mutant: the last byte is not counted.
OneLess(i, n) == [index |-> i, length |-> n - 1]

Received(i, n) == [index |-> i, length |-> n]

\* Block i is the latest, and the oldest goes if there are too many.
Noted(i) ==
    IF i \in Range(recent)
    THEN Append(RemoveAt(recent, Position(recent, i)), i)
    ELSE Append(IF Len(recent) = CacheBlocks THEN Tail(recent) ELSE recent, i)

\* The bounded read brings n of the bytes of the block.
Brings(i, n) == IF ShortReads THEN n \in 1 .. Length(i) ELSE n = Length(i)

\* What remote_byte finds at an offset of a block that is cached.
Found(o, b, buffer) ==
    LET within == o % BlockSize
    IN IF within >= b.length
       THEN [offset |-> o, result |-> "end", value |-> None]
       ELSE [offset |-> o, result |-> "byte", value |-> buffer[within + 1]]

\* open_remote_source has read the first block.
Init ==
    \E n \in 1 .. BlockSize :
        /\ Brings(0, n)
        /\ block = [s \in Slots |->
                       IF s = CacheBlocks THEN Received(0, n) ELSE None]
        /\ data = [s \in Slots |->
                      IF s = CacheBlocks
                      THEN Filled([k \in 1 .. BlockSize |-> None], 0, n)
                      ELSE [k \in 1 .. BlockSize |-> None]]
        /\ order = <<CacheBlocks>>
        /\ answer = None
        /\ clobbered = {}
        /\ recent = <<0>>

\* The block is in a slot.
Hit(o, s) ==
    /\ s \in Holding(o \div BlockSize)
    /\ order' = Renewed(s)
    /\ answer' = Found(o, block[s], data[s])
    /\ recent' = Noted(o \div BlockSize)
    /\ UNCHANGED <<block, data, clobbered>>

\* Mutant: a block that is being read is not looked for.
LookedFor(i) == TRUE

Missing(i) == Holding(i) = {}

\* The block is read straight into the slot, which holds it afterwards.
Fetch(o, n) ==
    LET i == o \div BlockSize
        s == Victim
    IN /\ Missing(i)
       /\ Brings(i, n)
       /\ block' = [block EXCEPT ![s] = Received(i, n)]
       /\ data' = [data EXCEPT ![s] = Filled(@, i, n)]
       /\ order' = Renewed(s)
       /\ answer' = Found(o, block'[s], data'[s])
       /\ clobbered' = clobbered \ {s}
       /\ recent' = Noted(i)

\* The read fails after n bytes, or the resource turns out to have another
\* size: the slot is as valid as before.
FetchFails(o, n) ==
    LET i == o \div BlockSize
        s == Victim
    IN /\ Missing(i)
       /\ n \in 0 .. Length(i)
       /\ data' = [data EXCEPT ![s] = Filled(@, i, n)]
       /\ answer' = [offset |-> o, result |-> "failed", value |-> None]
       /\ clobbered' = IF n > 0 /\ block[s] # None
                       THEN clobbered \cup {s}
                       ELSE clobbered
       /\ UNCHANGED <<block, order, recent>>

\* The size has been known since the first block.
PastEnd(o) ==
    /\ o >= Total
    /\ answer' = [offset |-> o, result |-> "end", value |-> None]
    /\ UNCHANGED <<cache, ghosts>>

RemoteByte(o) ==
    \/ PastEnd(o)
    \/ /\ o < Total
       /\ \/ \E s \in Slots : Hit(o, s)
          \/ \E n \in 0 .. BlockSize : Fetch(o, n) \/ FetchFails(o, n)

Next == \E o \in 0 .. Total : RemoteByte(o)

Spec == Init /\ [][Next]_vars

----------------------------------------------------------------------------
(* Properties *)

\* Every variable has its type, and the order lists the valid slots.
TypeOK ==
    /\ block \in [Slots -> Blocks \cup {None}]
    /\ data \in [Slots -> Buffers]
    /\ order \in Seq(Slots)
    /\ Range(order) = Slots \ Invalid
    /\ Len(order) <= CacheBlocks
    /\ answer \in Answers \cup {None}
    /\ clobbered \subseteq Slots \ Invalid
    /\ recent \in Seq(Indices)

\* No block is in two slots, whatever reads fail in between: the byte
\* remote_byte finds does not depend on which slot it looks at first.
CachedOnce ==
    \A s, t \in Slots \ Invalid : block[s].index = block[t].index => s = t

\* A slot no failed read has touched holds the bytes of its block, as many as
\* it says, whatever was in it before.
UntouchedIsFaithful ==
    \A s \in Slots \ (Invalid \cup clobbered) :
        \A k \in 1 .. block[s].length :
            data[s][k] = block[s].index * BlockSize + k - 1

\* The blocks read last, as many as there are slots, are all in the cache,
\* though reads of others failed: a page that fits is not read again.
RecentIsCached == \A k \in DOMAIN recent : Holding(recent[k]) # {}

\* remote_byte "Returns one for a byte, zero at known EOF, and minus one on
\* read failure": the byte is the one at the offset, and the end is the end.
AnswerIsRight ==
    answer # None =>
        /\ answer.result = "byte" => answer.value = answer.offset
        /\ answer.result = "end" => answer.offset >= Total
=============================================================================
