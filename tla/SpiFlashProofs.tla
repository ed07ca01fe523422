--------------------------- MODULE SpiFlashProofs ---------------------------
(* Proofs about SpiFlash and FlashCmd, for every page and sector size.     *)
EXTENDS FlashCmd, TLAPS

USE SpiFlashAssumption

Types == start \in Address /\ dst \in Address /\ left \in Nat

Ordered == start.page < dst.page \/ (start.page = dst.page /\ start.off <= dst.off)

\* Where the loop of write_buff can be when the write fits: no page program
\* that follows leaves its page.
Shape ==
    \/ left = 0
    \/ start.off = 0 /\ dst.off = 0
    \/ dst = start
    \/ dst.off + left <= PageSize

Exact ==
    \A p \in PageNos, o \in Offsets :
        mem[p][o] = IF From(start, dst, p, o) THEN before[p][o] \cup {<<p, o, calls>>}
                    ELSE before[p][o]

\* Length + left is the length of the whole write.
WInv ==
    pc \in {"write", "written"} =>
        /\ Ordered
        /\ Fits(Length + left) => Shape /\ Exact
        /\ pc = "written" => left = 0

IInv == Types /\ WInv

-----------------------------------------------------------------------------
(* One page program.                                                       *)

LEMMA LenType ==
    ASSUME Types, left > 0
    PROVE  /\ BytesThisPage \in 1 .. PageSize
           /\ LenThisLp \in 1 .. PageSize /\ LenThisLp <= left
           /\ left - LenThisLp \in Nat
<1>1. start.off \in 0 .. PageSize - 1
  BY DEF Types, Address, Offsets
<1>2. BytesThisPage \in 1 .. PageSize
  BY <1>1 DEF BytesThisPage
<1> QED BY <1>2 DEF Types, LenThisLp

LEMMA PlusType ==
    ASSUME NEW a \in Address, NEW n \in 0 .. PageSize
    PROVE  /\ Plus(a, n) \in Address
           /\ a.off + n < PageSize => Plus(a, n).page = a.page /\ Plus(a, n).off = a.off + n
           /\ a.off + n >= PageSize => Plus(a, n).page = a.page + 1 /\ Plus(a, n).off = a.off + n - PageSize
<1>1. a.page \in Nat /\ a.off \in 0 .. PageSize - 1
  BY DEF Address, Offsets
<1>2. CASE a.off + n < PageSize
  BY <1>1, <1>2 DEF Plus, Address, Offsets
<1>3. CASE a.off + n >= PageSize
  BY <1>1, <1>3 DEF Plus, Address, Offsets
<1> QED BY <1>1, <1>2, <1>3

\* dst moves by what has been written, so Length grows by it.
LEMMA LengthGrows ==
    ASSUME NEW s \in Address, NEW a \in Address, NEW n \in 0 .. PageSize
    PROVE  (Plus(a, n).page - s.page) * PageSize + Plus(a, n).off - s.off
             = (a.page - s.page) * PageSize + a.off - s.off + n
<1>1. a.page \in Nat /\ a.off \in 0 .. PageSize - 1 /\ s.page \in Nat /\ s.off \in 0 .. PageSize - 1
  BY DEF Address, Offsets
<1>p. PICK b \in Address : b = Plus(a, n)
  BY PlusType
<1>q. /\ a.off + n < PageSize => b.page = a.page /\ b.off = a.off + n
      /\ a.off + n >= PageSize => b.page = a.page + 1 /\ b.off = a.off + n - PageSize
  BY <1>p, PlusType
<1>2. CASE a.off + n < PageSize
  <2>1. b.page = a.page /\ b.off = a.off + n
    BY <1>2, <1>q
  <2>2. (a.page - s.page) * PageSize \in Int
    BY <1>1
  <2>3. (b.page - s.page) * PageSize = (a.page - s.page) * PageSize
    BY <2>1
  <2>4. (b.page - s.page) * PageSize + b.off - s.off = (a.page - s.page) * PageSize + a.off - s.off + n
    BY <1>1, <2>1, <2>2, <2>3
  <2> QED BY <2>4, <1>p
<1>3. CASE a.off + n >= PageSize
  <2> DEFINE d == a.page - s.page
  <2>1. b.page - s.page = d + 1 /\ b.off = a.off + n - PageSize
    BY <1>1, <1>3, <1>q
  <2>2. d \in Int
    BY <1>1
  <2> HIDE DEF d
  <2>3. (d + 1) * PageSize = d * PageSize + PageSize
    BY <2>2
  <2>4. d * PageSize \in Int
    BY <2>2
  <2>5. d * PageSize = (a.page - s.page) * PageSize
    BY DEF d
  <2>6. (b.page - s.page) * PageSize = d * PageSize + PageSize
    BY <2>1, <2>3
  <2>7. (b.page - s.page) * PageSize + b.off - s.off = (a.page - s.page) * PageSize + a.off - s.off + n
    BY <1>1, <2>1, <2>4, <2>5, <2>6
  <2> QED BY <2>7, <1>p
<1> QED BY <1>1, <1>2, <1>3

\* A page program that stays in its page puts each unit into its own cell.
LEMMA ProgramExact ==
    ASSUME NEW a \in Address, NEW n \in 1 .. PageSize, a.off + n <= PageSize,
           NEW p \in PageNos, NEW o \in Offsets
    PROVE  Programmed(a, 0 .. n - 1)[p][o]
             = IF p = a.page /\ a.off <= o /\ o < a.off + n THEN mem[p][o] \cup {<<p, o, calls>>}
               ELSE mem[p][o]
<1>1. a.page \in Nat /\ a.off \in 0 .. PageSize - 1 /\ o \in Nat
  BY DEF Address, Offsets
<1>2. \A k \in 0 .. n - 1 : CellOf(a, k) = a.off + k /\ Unit(Plus(a, k)) = <<a.page, a.off + k, calls>>
  BY <1>1 DEF CellOf, Unit, Plus
<1>3. CASE p # a.page
  BY <1>3 DEF Programmed
<1>4. CASE p = a.page
  <2> DEFINE ks == {k \in 0 .. n - 1 : CellOf(a, k) = o}
  <2>1. Programmed(a, 0 .. n - 1)[p][o] = mem[p][o] \cup {Unit(Plus(a, k)) : k \in ks}
    BY <1>4 DEF Programmed
  <2>2. CASE a.off <= o /\ o < a.off + n
    <3>1. ks = {o - a.off}
      BY <1>1, <1>2, <2>2
    <3>2. Unit(Plus(a, o - a.off)) = <<p, o, calls>>
      BY <1>1, <1>2, <1>4, <2>2
    <3> HIDE DEF ks
    <3>3. {Unit(Plus(a, k)) : k \in ks} = {<<p, o, calls>>}
      BY <3>1, <3>2
    <3> QED BY <1>4, <2>1, <2>2, <3>3
  <2>3. CASE ~(a.off <= o /\ o < a.off + n)
    <3>1. ks = {}
      BY <1>1, <1>2, <2>3
    <3> HIDE DEF ks
    <3>2. {Unit(Plus(a, k)) : k \in ks} = {}
      BY <3>1
    <3> QED BY <1>4, <2>1, <2>3, <3>2
  <2> QED BY <2>2, <2>3
<1> QED BY <1>3, <1>4

\* When the write fits no page program leaves its page, and the loop goes on
\* so (ar7100_flash.c, 117-127).
LEMMA StaysInPage ==
    ASSUME Types, left > 0, Fits(Length + left), Shape
    PROVE  /\ dst.off + LenThisLp <= PageSize
           /\ \/ left - LenThisLp = 0
              \/ start.off = 0 /\ Plus(dst, LenThisLp).off = 0
              \/ Plus(dst, LenThisLp).off + (left - LenThisLp) <= PageSize
<1> DEFINE n == LenThisLp
<1>1. /\ start.off \in 0 .. PageSize - 1 /\ dst.off \in 0 .. PageSize - 1
      /\ start.page \in Nat /\ dst \in Address /\ left \in Nat
  BY DEF Types, Address, Offsets
<1>2. n \in 1 .. PageSize /\ n <= left
  BY LenType
<1>3. n = IF left > PageSize - start.off THEN PageSize - start.off ELSE left
  BY DEF LenThisLp, BytesThisPage
<1> HIDE DEF n
<1>4. PICK b \in Address : b = Plus(dst, n)
  BY <1>1, <1>2, PlusType
<1>5. /\ dst.off + n < PageSize => b.off = dst.off + n
      /\ dst.off + n >= PageSize => b.off = dst.off + n - PageSize
  BY <1>1, <1>2, <1>4, PlusType
<1>6. dst.off + n <= PageSize
      /\ (left - n = 0 \/ (start.off = 0 /\ b.off = 0) \/ b.off + (left - n) <= PageSize)
  <2>1. CASE start.off = 0 /\ dst.off = 0
    BY <1>1, <1>2, <1>3, <1>5, <2>1
  <2>2. CASE dst = start /\ start.off # 0
    <3>1. Length = 0
      BY <1>1, <2>2 DEF Length
    <3>2. left <= 2 * PageSize - start.off
      BY <1>1, <2>2, <3>1 DEF Fits
    <3> QED BY <1>1, <1>2, <1>3, <1>5, <2>2, <3>2
  <2>3. CASE dst.off + left <= PageSize
    BY <1>1, <1>2, <1>5, <2>3
  <2> QED BY <1>1, <2>1, <2>2, <2>3 DEF Shape
<1> QED BY <1>4, <1>6 DEF n

LEMMA WritePageKeeps ==
    ASSUME IInv, WritePage
    PROVE  IInv'
<1> DEFINE n == LenThisLp
<1>1. /\ pc = "write" /\ left > 0 /\ mem' = Programmed(dst, 0 .. n - 1)
      /\ dst' = Plus(dst, n) /\ left' = left - n
      /\ pc' = pc /\ start' = start /\ calls' = calls /\ before' = before
  BY DEF WritePage
<1>2. Types /\ Ordered
  BY <1>1 DEF IInv, WInv
<1>3. n \in 1 .. PageSize /\ n <= left /\ left - n \in Nat
  BY <1>1, <1>2, LenType
<1> HIDE DEF n
<1>4. /\ start.page \in Nat /\ start.off \in 0 .. PageSize - 1
      /\ dst.page \in Nat /\ dst.off \in 0 .. PageSize - 1
      /\ start \in Address /\ dst \in Address /\ left \in Nat
  BY <1>2 DEF Types, Address, Offsets
<1>5. PICK b \in Address : b = Plus(dst, n)
  BY <1>3, <1>4, PlusType
<1>6. /\ dst.off + n < PageSize => b.page = dst.page /\ b.off = dst.off + n
      /\ dst.off + n >= PageSize => b.page = dst.page + 1 /\ b.off = dst.off + n - PageSize
  <2>1. n \in 0 .. PageSize
    BY <1>3
  <2> QED BY <1>4, <1>5, <2>1, PlusType
<1>7. Types'
  BY <1>1, <1>3, <1>4, <1>5 DEF Types
<1>8. Ordered'
  BY <1>1, <1>2, <1>3, <1>4, <1>5, <1>6 DEF Ordered
<1>9. (Length + left)' = Length + left
  <2>1. n \in 0 .. PageSize
    BY <1>3
  <2>2. (b.page - start.page) * PageSize + b.off - start.off
          = (dst.page - start.page) * PageSize + dst.off - start.off + n
    BY <1>4, <1>5, <2>1, LengthGrows
  <2>3. Length' = Length + n
    BY <1>1, <1>5, <2>2 DEF Length
  <2>4. Length \in Int
    BY <1>4 DEF Length
  <2> QED BY <1>1, <1>3, <1>4, <2>3, <2>4
<1>10. ASSUME Fits(Length + left)' PROVE Shape' /\ Exact'
  <2>1. Fits(Length + left)
    BY <1>1, <1>9, <1>10 DEF Fits
  <2>2. Shape /\ Exact
    BY <1>1, <2>1 DEF IInv, WInv
  <2>3. dst.off + n <= PageSize /\ Shape'
    BY <1>1, <1>2, <2>1, <2>2, StaysInPage DEF Shape, n
  <2>4. Exact'
    <3> SUFFICES ASSUME NEW p \in PageNos, NEW o \in Offsets
                 PROVE  mem'[p][o] = IF From(start, b, p, o) THEN before[p][o] \cup {<<p, o, calls>>}
                                     ELSE before[p][o]
      BY <1>1, <1>5 DEF Exact
    <3>1. p \in Int /\ o \in 0 .. PageSize - 1
      BY DEF PageNos, Offsets
    <3>2. mem'[p][o] = IF p = dst.page /\ dst.off <= o /\ o < dst.off + n
                       THEN mem[p][o] \cup {<<p, o, calls>>} ELSE mem[p][o]
      BY <1>1, <1>3, <1>4, <2>3, ProgramExact
    <3>3. mem[p][o] = IF From(start, dst, p, o) THEN before[p][o] \cup {<<p, o, calls>>}
                      ELSE before[p][o]
      BY <2>2 DEF Exact
    <3>4. From(start, b, p, o)
            <=> From(start, dst, p, o) \/ (p = dst.page /\ dst.off <= o /\ o < dst.off + n)
      BY <1>2, <1>3, <1>4, <1>6, <2>3, <3>1 DEF From, Ordered
    <3>5. ~(From(start, dst, p, o) /\ p = dst.page /\ dst.off <= o)
      BY <1>4, <3>1 DEF From
    <3> QED BY <3>2, <3>3, <3>4, <3>5
  <2> QED BY <2>3, <2>4
<1> QED BY <1>1, <1>7, <1>8, <1>10 DEF IInv, WInv

-----------------------------------------------------------------------------
LEMMA CallKeeps ==
    ASSUME NEW a \in Address, NEW n \in Nat, write_buff(a, n)
    PROVE  IInv'
<1>1. /\ pc' = "write" /\ start' = a /\ dst' = a /\ left' = n /\ before' = mem /\ mem' = mem
  BY DEF write_buff
<1>2. a.page \in Nat /\ a.off \in 0 .. PageSize - 1
  BY DEF Address, Offsets
<1>3. Types' /\ Ordered' /\ Shape'
  BY <1>1, <1>2 DEF Types, Ordered, Shape
<1>4. \A p \in PageNos, o \in Offsets : ~From(a, a, p, o)
  BY <1>2 DEF From, PageNos, Offsets
<1>5. Exact'
  BY <1>1, <1>4 DEF Exact
<1> QED BY <1>1, <1>3, <1>5 DEF IInv, WInv

LEMMA StepKeeps ==
    ASSUME IInv, [SpiNext]_svars
    PROVE  IInv'
<1>1. ASSUME NEW s \in SectorNos, NEW t \in SectorNos, flash_erase(s, t) PROVE IInv'
  BY <1>1 DEF flash_erase, IInv, Types, WInv
<1>2. ASSUME NEW a \in Address, NEW n \in Nat, write_buff(a, n) PROVE IInv'
  BY <1>2, CallKeeps
<1>3. CASE EraseSector
  BY <1>3 DEF EraseSector, IInv, Types, WInv
<1>4. CASE WritePage
  BY <1>4, WritePageKeeps
<1>5. CASE WriteDone
  BY <1>5 DEF WriteDone, IInv, Types, WInv, Ordered, Fits, Length, Shape, Exact
<1>6. CASE PowerLoss \/ PowerOn
  BY <1>6 DEF PowerLoss, PowerOn, IInv, Types, WInv
<1>7. CASE UNCHANGED svars
  BY <1>7 DEF svars, IInv, Types, WInv, Ordered, Fits, Length, Shape, Exact
<1> QED BY <1>1, <1>2, <1>3, <1>4, <1>5, <1>6, <1>7 DEF SpiNext, SpiStep

LEMMA InitHolds == SpiInit => IInv
BY DEF SpiInit, IInv, Types, WInv, Address, Offsets

LEMMA IInvExact == IInv => WriteExact
<1> SUFFICES ASSUME IInv, pc = "written", Fits(Length)
             PROVE  \A p \in PageNos, o \in Offsets :
                        mem[p][o] = IF From(start, dst, p, o) THEN before[p][o] \cup {<<p, o, calls>>}
                                    ELSE before[p][o]
  BY DEF WriteExact
<1>1. left = 0
  BY DEF IInv, WInv
<1>2. Length \in Int
  BY DEF IInv, Types, Address, Offsets, Length
<1>3. Exact
  BY <1>1, <1>2 DEF IInv, WInv
<1> QED BY <1>3 DEF Exact

\* write_buff writes what it is given, where it is told to and nowhere else,
\* for every page size, start and length that fit, over any sequence of calls
\* and power failures.
THEOREM DriverExact == SpiSpec => []WriteExact
<1>1. IInv /\ [SpiNext]_svars => IInv'
  BY StepKeeps
<1> QED BY <1>1, InitHolds, IInvExact, PTL DEF SpiSpec

-----------------------------------------------------------------------------
(* The commands.                                                           *)

LEMMA AtType ==
    ASSUME NEW addr \in Int, Base <= addr
    PROVE  At(addr) \in Address
<1>1. addr - Base \in Nat
  BY FlashCmdAssumption
<1>2. \A x \in Nat : x \div PageSize \in Nat /\ x % PageSize \in 0 .. PageSize - 1
  OBVIOUS
<1> QED BY <1>1, <1>2 DEF At, Address, Offsets

\* Every command leaves the driver's variables to the driver's calls.
LEMMA CommandKeeps ==
    ASSUME IInv, [CmdNext]_cvars
    PROVE  IInv'
<1>e. ASSUME NEW s \in SectorNos, NEW t \in SectorNos, flash_erase(s, t) PROVE IInv'
  BY <1>e, StepKeeps DEF SpiNext
<1>u. ASSUME UNCHANGED svars PROVE IInv'
  BY <1>u, StepKeeps
<1>s. 0 \in SectorNos /\ Sectors - 1 \in SectorNos
  BY DEF SectorNos
<1>1. CASE EraseAll \/ EraseSectors
  BY <1>1, <1>s, <1>e DEF EraseAll, EraseSectors, abbrev_spec, Erase
<1>2. ASSUME NEW first, NEW end, flash_sect_erase(first, end) PROVE IInv'
  BY <1>2, <1>e, <1>u DEF flash_sect_erase, flash_fill_sect_ranges, Erase, Refused
<1>3. CASE EraseRange
  BY <1>3, <1>2, <1>u DEF EraseRange, Refused
<1>4. CASE EraseLength
  BY <1>4, <1>2, <1>u DEF EraseLength, Refused
<1>5. CASE ProtectAll \/ ProtectSectors
  BY <1>5, <1>u DEF ProtectAll, ProtectSectors, Protect
<1>6. ASSUME NEW p, NEW first, NEW end, flash_sect_protect(p, first, end) PROVE IInv'
  BY <1>6, <1>u DEF flash_sect_protect, Protect, Refused
<1>7. CASE ProtectRange
  BY <1>7, <1>6, <1>u DEF ProtectRange, Refused
<1>8. CASE ProtectLength
  BY <1>8, <1>6, <1>u DEF ProtectLength, Refused
<1>9. ASSUME NEW addr \in Addrs, NEW cnt \in Lens, flash_write(addr, cnt) PROVE IInv'
  <2>1. addr \in Nat /\ cnt \in Nat
    BY FlashCmdAssumption
  <2>2. CASE Refused
    BY <2>2, <1>u DEF Refused
  <2>3. CASE Base <= addr /\ addr <= BankEnd /\ write_buff(At(addr), Clipped(addr, cnt))
    <3>1. At(addr) \in Address
      BY <2>1, <2>3, AtType
    <3>2. BankEnd \in Int
      BY FlashCmdAssumption DEF BankEnd, End, Start, SectorSize
    <3>3. Clipped(addr, cnt) \in Nat
      BY <2>1, <2>3, <3>2 DEF Clipped
    <3> QED BY <2>3, <3>1, <3>3, CallKeeps
  <2> QED BY <1>9, <2>2, <2>3 DEF flash_write, addr2info
<1>10. CASE Copy
  BY <1>10, <1>9 DEF Copy
<1>11. CASE Drive
  BY <1>11, StepKeeps DEF Drive, SpiNext
<1>12. CASE UNCHANGED cvars
  BY <1>12, <1>u DEF cvars
<1> QED BY <1>1, <1>3, <1>4, <1>5, <1>7, <1>8, <1>10, <1>11, <1>12 DEF CmdNext

\* The same for the flash commands of the command line (flash_write of cp).
THEOREM CommandsExact == CmdSpec => []WriteExact
<1>1. IInv /\ [CmdNext]_cvars => IInv'
  BY CommandKeeps
<1>2. CmdInit => IInv
  BY InitHolds DEF CmdInit
<1> QED BY <1>1, <1>2, IInvExact, PTL DEF CmdSpec
=============================================================================
