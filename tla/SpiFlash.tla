------------------------------ MODULE SpiFlash ------------------------------
(***************************************************************************)
(* The serial flash driver (board/ar9100/common/ar7100_flash.c) and the    *)
(* chip it drives.  An address is a page and an offset, its quotient and   *)
(* remainder by AR7100_SPI_PAGE_SIZE.  A cell of the flash is the set of   *)
(* the values programmed into it since it was erased: {} is an erased      *)
(* cell, two values have left their conjunction.  What a call of           *)
(* write_buff means for address a is the value <<a.page, a.off, call>>.    *)
(*                                                                         *)
(* The driver polls the chip after every command, so a command and its     *)
(* poll are one step; the power may fail in it.  Left out: the bits on the *)
(* SPI lines.                                                              *)
(***************************************************************************)
EXTENDS Integers

CONSTANTS
    PageSize,      \* AR7100_SPI_PAGE_SIZE
    SectorPages,   \* pages of a sector
    Sectors,       \* sector_count
    MaxCalls       \* bound: calls of the driver; no command follows the last

ASSUME SpiFlashAssumption ==
    /\ PageSize \in Nat \ {0}
    /\ SectorPages \in Nat \ {0} /\ Sectors \in Nat \ {0}
    /\ MaxCalls \in Nat

PageNos == 0 .. Sectors * SectorPages - 1
Offsets == 0 .. PageSize - 1
SectorNos == 0 .. Sectors - 1
SectorOf(p) == p \div SectorPages

\* What was in the flash at first, and what an interrupted erase leaves.
Old  == <<-1, 0, 0>>
Torn == <<-2, 0, 0>>

VARIABLES
    mem,      \* the cells of each page
    pc,       \* what the driver does
    i, last,  \* flash_erase: i and s_last
    start,    \* write_buff: addr
    dst,      \* write_buff: dst, that is addr + total
    left,     \* write_buff: len - total
    calls,    \* number of calls
    before    \* mem at the last call: history, no variable of the code

svars == <<mem, pc, i, last, start, dst, left, calls, before>>

Address == [page: Nat, off: Offsets]

SpiInit ==
    /\ mem = [p \in PageNos |-> [o \in Offsets |-> {Old}]]
    /\ pc = "idle"
    /\ i = 0 /\ last = 0
    /\ start = [page |-> 0, off |-> 0] /\ dst = start /\ left = 0
    /\ calls = 0
    /\ before = mem

-----------------------------------------------------------------------------
(* flash_erase and flash_erase_t                                           *)

flash_erase(s_first, s_last) ==
    /\ pc \in {"idle", "written"} /\ calls < MaxCalls
    /\ pc' = "erase" /\ i' = s_first /\ last' = s_last
    /\ calls' = calls + 1 /\ before' = mem
    /\ UNCHANGED <<mem, start, dst, left>>

\* The cells of sector s become cell.
Fill(s, cell) ==
    [p \in PageNos |-> IF SectorOf(p) = s THEN [o \in Offsets |-> cell] ELSE mem[p]]

\* while (++i < s_last)
More(n) == n + 1 < last

\* ar7100_spi_sector_erase
EraseSector ==
    /\ pc = "erase"
    /\ mem' = Fill(i, {})
    /\ IF More(i) THEN pc' = "erase" /\ i' = i + 1 ELSE pc' = "idle" /\ i' = i
    /\ UNCHANGED <<last, start, dst, left, calls, before>>

-----------------------------------------------------------------------------
(* write_buff                                                              *)

write_buff(addr, len) ==
    /\ pc \in {"idle", "written"} /\ calls < MaxCalls
    /\ pc' = "write"
    /\ start' = addr /\ dst' = addr /\ left' = len
    /\ calls' = calls + 1 /\ before' = mem
    /\ UNCHANGED <<mem, i, last>>

\* Callers write to the flash only.
InFlash(addr, len) ==
    addr.page * PageSize + addr.off + len <= Sectors * SectorPages * PageSize

\* Mutant: every page takes a whole page.
FullPage == PageSize

\* bytes_this_page: of the page in which the whole write starts.
BytesThisPage == PageSize - start.off

\* len_this_lp
LenThisLp == IF left > BytesThisPage THEN BytesThisPage ELSE left

\* a + n, for n of at most a page.
Plus(a, n) ==
    IF a.off + n < PageSize THEN [page |-> a.page, off |-> a.off + n]
    ELSE [page |-> a.page + 1, off |-> a.off + n - PageSize]

\* The unit of the source that is meant for address a.
Unit(a) == <<a.page, a.off, calls>>

\* The page program command: the k-th unit goes to offset a.off + k, but the
\* chip does not leave the page: after its last cell comes its first.
CellOf(a, k) == IF a.off + k < PageSize THEN a.off + k ELSE a.off + k - PageSize
Programmed(a, ks) ==
    [p \in PageNos |->
        IF p # a.page THEN mem[p]
        ELSE [o \in Offsets |-> mem[p][o] \cup {Unit(Plus(a, k)) : k \in {k \in ks : CellOf(a, k) = o}}]]

\* ar7100_spi_write_page
WritePage ==
    /\ pc = "write" /\ left > 0
    /\ mem' = Programmed(dst, 0 .. LenThisLp - 1)
    /\ dst' = Plus(dst, LenThisLp)
    /\ left' = left - LenThisLp
    /\ UNCHANGED <<pc, i, last, start, calls, before>>

WriteDone ==
    /\ pc = "write" /\ left = 0
    /\ pc' = "written"
    /\ UNCHANGED <<mem, i, last, start, dst, left, calls, before>>

-----------------------------------------------------------------------------
\* The power fails: a sector that is being erased is left undefined, of a page
\* that is being programmed some units have been.
PowerLoss ==
    /\ \/ pc \in {"idle", "written"} /\ UNCHANGED mem
       \/ pc = "erase" /\ mem' = Fill(i, {Old, Torn})
       \/ pc = "write" /\ \E ks \in SUBSET (0 .. LenThisLp - 1) : mem' = Programmed(dst, ks)
    /\ pc' = "off"
    /\ UNCHANGED <<i, last, start, dst, left, calls, before>>

PowerOn ==
    /\ pc = "off" /\ pc' = "idle"
    /\ UNCHANGED <<mem, i, last, start, dst, left, calls, before>>

\* What every call leads to.
SpiStep == EraseSector \/ WritePage \/ WriteDone \/ PowerLoss \/ PowerOn

SpiNext ==
    \/ \E s, t \in SectorNos : flash_erase(s, t)
    \/ \E a \in Address, n \in Nat : InFlash(a, n) /\ write_buff(a, n)
    \/ SpiStep

SpiSpec == SpiInit /\ [][SpiNext]_svars
-----------------------------------------------------------------------------
(* Properties.                                                             *)

\* The addresses from a up to b, b not included.
From(a, b, p, o) ==
    /\ a.page < p \/ (a.page = p /\ a.off <= o)
    /\ p < b.page \/ (p = b.page /\ o < b.off)

\* The room in a page is computed from the start of the whole write: that is
\* right for a write that starts on a page, or ends in the page after its first.
Fits(len) == start.off = 0 \/ len <= 2 * PageSize - start.off

Length == (dst.page - start.page) * PageSize + dst.off - start.off

\* When write_buff returns, each address of the range has got its unit, and
\* nothing else has changed, for a write of a length that fits (ar7100_flash.c,
\* 118-126).
WriteExact ==
    pc = "written" /\ Fits(Length) =>
        \A p \in PageNos, o \in Offsets :
            mem[p][o] = IF From(start, dst, p, o) THEN before[p][o] \cup {<<p, o, calls>>}
                        ELSE before[p][o]
=============================================================================
