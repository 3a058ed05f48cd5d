------------------------------ MODULE MemoryCopy -----------------------------
(***************************************************************************)
(* The ways the launcher moves and clears memory: tonccpy and toncset      *)
(* (common/source/tonccpy), which touch video memory and so never write    *)
(* single bytes, the loop that moves the card engine (common.h) and the    *)
(* DMA fills (common.h, dmaTwl.h).  A routine is the sequence of writes it *)
(* makes, each [at, bytes], in order; a memory is a string of bytes.       *)
(***************************************************************************)
EXTENDS Bytes

Write(at, bytes) == <<[at |-> at, bytes |-> bytes]>>
Taken4(mem, at, n) == SubSeq(mem, at + 1, at + n)

(* n writes of unit bytes each, one after the other, of what lies at src   *)
(* and of a word.                                                          *)
Copies(mem, n, unit, dst, src) ==
  <<>> \o [i \in 1..n |-> [at |-> dst + (unit * (i - 1)),
                           bytes |-> Taken4(mem, src + (unit * (i - 1)), unit)]]
Fills(n, dst, word) ==
  <<>> \o [i \in 1..n |-> [at |-> dst + (4 * (i - 1)), bytes |-> word]]

(* Duff's device: the switch enters the loop for the odd ones, and the     *)
(* condition counts the fours.                                             *)
Duff(count) == (count % 4) + (4 * (count \div 4))

(* Halfwords from an even address: a last byte keeps its neighbour.        *)
Halfwords(mem, dst, src, size) ==
  Copies(mem, size \div 2, 2, dst, src)
    \o IF size % 2 = 0 THEN <<>>
       ELSE Write(dst + size - 1, <<At(mem, src + size - 1), At(mem, dst + size)>>)

(* Mutant: the byte before an odd address is not kept.                     *)
tonccpy_Head(mem, dst, src, size) ==
  LET words == 4 * (size \div 4)
  IN CASE size = 0 -> <<>>
       [] size >= 4 /\ src % 4 = 0 /\ dst % 4 = 0 ->
            Copies(mem, Duff(size \div 4), 4, dst, src)
              \o Halfwords(mem, dst + words, src + words, size - words)
       [] size > 0 /\ dst % 2 = 1 ->
            Write(dst - 1, <<0, At(mem, src)>>)
              \o Halfwords(mem, dst + 1, src + 1, size - 1)
       [] OTHER -> Halfwords(mem, dst, src, size)

(* Words if both addresses are aligned and there is one, else halfwords,   *)
(* after a first byte that keeps the one before it.                        *)
tonccpy(mem, dst, src, size) ==
  LET words == 4 * (size \div 4)
      aligned == size >= 4 /\ src % 4 = 0 /\ dst % 4 = 0
  IN CASE size = 0 -> <<>>
       [] size > 0 /\ aligned ->
            Copies(mem, Duff(size \div 4), 4, dst, src)
              \o Halfwords(mem, dst + words, src + words, size - words)
       [] size > 0 /\ ~aligned /\ dst % 2 = 1 ->
            Write(dst - 1, <<At(mem, dst - 1), At(mem, src)>>)
              \o Halfwords(mem, dst + 1, src + 1, size - 1)
       [] OTHER -> Halfwords(mem, dst, src, size)

(* A word of memory with the bytes first, ..., last - 1 taken from fill    *)
(* (four bytes): what the masks of __toncset select.                       *)
Masked(mem, at, fill, first, last) ==
  Write(at, <<>> \o [i \in 1..4 |-> IF first < i /\ i <= last THEN fill[i]
                                    ELSE At(mem, at + i - 1)])

__toncset(mem, dst, fill, size) ==
  LET left == dst % 4
      start == IF left = 0 THEN dst ELSE dst + (4 - left)
      rest == IF left = 0 THEN size ELSE size - (4 - left)
      words == rest \div 4
  IN CASE size = 0 -> <<>>
       [] size > 0 /\ left # 0 /\ left + size < 4 ->
            Masked(mem, dst - left, fill, left, left + size)
       [] OTHER ->
            (IF left = 0 THEN <<>> ELSE Masked(mem, dst - left, fill, left, 4))
              \o Fills(Duff(words), start, fill)
              \o IF rest % 4 = 0 THEN <<>>
                 ELSE Masked(mem, start + (4 * words), fill, 0, rest % 4)

(* The byte four times, the halfword twice.                                *)
toncset(mem, dst, src, size) == __toncset(mem, dst, <<src, src, src, src>>, size)
toncset16(mem, dst, src, size) == __toncset(mem, dst, src \o src, 2 * size)
toncset32(mem, dst, src, size) == __toncset(mem, dst, src, 4 * size)

(* copyLoop: a word, then again while what is left is not zero.  From a    *)
(* size of zero, or one that is no multiple of four, it wraps around the   *)
(* address space: Runaway.                                                 *)
Runaway == <<[at |-> 0, bytes |-> <<>>]>>
copyLoop(mem, dst, src, size) ==
  IF size = 0 \/ size % 4 # 0 THEN Runaway
  ELSE Copies(mem, size \div 4, 4, dst, src)

(* The DMA: size>>2 words of one value, in memory or given.                *)
dmaFill(mem, src, dst, size) == Fills(size \div 4, dst, Taken4(mem, src, 4))
dma_twlFill32(dst, value, size) == Fills(size \div 4, dst, value)

(* Mutant: the DMA is given the count of words in halfwords.               *)
memset_addrs_arm7_Half(mem, isDSiMode, start, end) ==
  IF isDSiMode THEN dma_twlFill32(start, <<0, 0, 0, 0>>, (end - start) \div 2)
  ELSE toncset(mem, start, 0, end - start)

memset_addrs_arm7(mem, isDSiMode, start, end) ==
  IF isDSiMode THEN dma_twlFill32(start, <<0, 0, 0, 0>>, end - start)
  ELSE toncset(mem, start, 0, end - start)

-----------------------------------------------------------------------------
(* What a sequence of writes must come to.                                 *)

(* A byte of memory is then what the last write over it made it.           *)
WritesOver(writes, p) ==
  {i \in DOMAIN writes : writes[i].at < p /\ p <= writes[i].at + Len(writes[i].bytes)}
LastWriteOver(writes, p) ==
  CHOOSE i \in WritesOver(writes, p) : \A j \in WritesOver(writes, p) : j <= i
After(mem, writes) ==
  <<>> \o [p \in 1..Len(mem) |->
             IF WritesOver(writes, p) = {} THEN mem[p]
             ELSE LET last == writes[LastWriteOver(writes, p)] IN last.bytes[p - last.at]]

(* Halfwords and words at their own alignment, and no other access.        *)
FitForVideoMemory(writes) ==
  \A i \in DOMAIN writes :
     /\ Len(writes[i].bytes) \in {2, 4}
     /\ writes[i].at % Len(writes[i].bytes) = 0

Moves(mem, writes, dst, bytes) ==
  FitForVideoMemory(writes) /\ After(mem, writes) = Over(mem, dst, bytes)
=============================================================================
