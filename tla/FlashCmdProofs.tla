--------------------------- MODULE FlashCmdProofs ---------------------------
(* Where the flash commands write, for every geometry of the flash and     *)
(* every address and length the user may type.                             *)
EXTENDS SpiFlashProofs

USE SpiFlashAssumption, FlashCmdAssumption

\* The address of a unit of the flash, as a number.
Linear(a) == Base + a.page * PageSize + a.off

\* flash_erase works on the sectors of the command.
EraseInv ==
    pc = "erase" =>
        /\ cmd.op = "erase"
        /\ i \in SectorNos /\ last \in SectorNos /\ i <= last
        /\ cmd.lo \in Int /\ cmd.hi \in Int
        /\ cmd.lo <= Start(i) /\ End(last) <= cmd.hi

\* write_buff is between the addresses of the command; when they are in order
\* what is left ends with the last of them, and no sector of theirs is protected.
CopyInv ==
    pc = "write" =>
        /\ cmd.op = "cp"
        /\ cmd.lo \in Int /\ cmd.hi \in Int
        /\ cmd.lo <= Linear(dst)
        /\ cmd.lo <= cmd.hi =>
              /\ Linear(dst) + left <= cmd.hi + 1
              /\ \A s \in SectorNos : Start(s) <= cmd.hi /\ cmd.lo <= End(s) => ~protect[s]

CInv == Types /\ EraseInv /\ CopyInv

-----------------------------------------------------------------------------
(* Addresses.                                                              *)

LEMMA ProductType ==
    ASSUME NEW a \in Nat, NEW b \in Nat
    PROVE  a * b \in Nat
OBVIOUS

LEMMA ProductMonotone ==
    ASSUME NEW a \in Nat, NEW b \in Nat, NEW c \in Nat, a <= b
    PROVE  a * c <= b * c
<1>1. PICK d \in Nat : b = a + d
  <2>1. b - a \in Nat /\ b = a + (b - a)
    OBVIOUS
  <2> QED BY <2>1
<1>2. b * c = a * c + d * c
  BY <1>1
<1>3. d * c \in Nat /\ a * c \in Nat
  BY <1>1, ProductType
<1> QED BY <1>2, <1>3

\* The sectors lie one behind the other.
LEMMA SectorBounds ==
    ASSUME NEW s \in SectorNos
    PROVE  /\ Start(s) \in Nat /\ End(s) \in Int /\ End(s) = Start(s) + SectorSize - 1
           /\ SectorSize \in Nat /\ Base <= Start(s)
           /\ \A t \in SectorNos : s <= t => Start(s) <= Start(t) /\ End(s) <= End(t)
<1>1. SectorSize \in Nat
  BY ProductType DEF SectorSize
<1>2. \A t \in SectorNos : t \in Nat /\ t * SectorSize \in Nat
  BY <1>1, ProductType DEF SectorNos
<1>3. \A t \in SectorNos : Start(t) = Base + t * SectorSize /\ End(t) = Base + t * SectorSize + SectorSize - 1
  BY DEF Start, End
<1>4. \A t \in SectorNos : s <= t => s * SectorSize <= t * SectorSize
  BY <1>1, <1>2, ProductMonotone
<1> QED BY <1>1, <1>2, <1>3, <1>4

\* A page lies within its sector.
LEMMA PageInSector ==
    ASSUME NEW p \in PageNos
    PROVE  /\ SectorOf(p) \in SectorNos
           /\ PageStart(p) \in Nat
           /\ Start(SectorOf(p)) <= PageStart(p)
           /\ PageStart(p) + PageSize - 1 <= End(SectorOf(p))
<1> DEFINE s == SectorOf(p)
           r == p % SectorPages
<1>1. p \in Nat /\ p < Sectors * SectorPages
  BY ProductType DEF PageNos
<1>2. s \in Nat /\ r \in 0 .. SectorPages - 1 /\ p = s * SectorPages + r
  <2>1. \A x \in Nat : \A m \in Nat \ {0} :
            x \div m \in Nat /\ x % m \in 0 .. m - 1 /\ x = (x \div m) * m + (x % m)
    OBVIOUS
  <2> QED BY <1>1, <2>1 DEF SectorOf
<1> HIDE DEF s, r
<1>3. s < Sectors
  <2> SUFFICES ASSUME Sectors <= s PROVE FALSE
    BY <1>2
  <2>1. Sectors * SectorPages <= s * SectorPages
    BY <1>2, ProductMonotone
  <2>2. s * SectorPages \in Nat /\ Sectors * SectorPages \in Nat
    BY <1>2, ProductType
  <2> QED BY <1>1, <1>2, <2>1, <2>2
<1>4. p * PageSize = s * SectorSize + r * PageSize
  <2>1. \A a, b, c, d \in Nat : (a * b + c) * d = a * (b * d) + c * d
    OBVIOUS
  <2> QED BY <1>2, <2>1 DEF SectorSize
<1>5. r * PageSize + PageSize <= SectorSize
  <2>1. (r + 1) * PageSize <= SectorPages * PageSize
    BY <1>2, ProductMonotone
  <2>2. (r + 1) * PageSize = r * PageSize + PageSize
    BY <1>2
  <2> QED BY <2>1, <2>2 DEF SectorSize
<1>6. s * SectorSize \in Nat /\ r * PageSize \in Nat /\ SectorSize \in Nat
  BY <1>2, ProductType DEF SectorSize
<1>7. PageStart(p) = Base + s * SectorSize + r * PageSize
  BY <1>4, <1>6 DEF PageStart
<1>8. Start(s) = Base + s * SectorSize /\ End(s) = Base + s * SectorSize + SectorSize - 1
  BY DEF Start, End
<1>9. s \in SectorNos
  BY <1>2, <1>3 DEF SectorNos
<1>10. /\ PageStart(p) \in Nat /\ Start(s) <= PageStart(p)
       /\ PageStart(p) + PageSize - 1 <= End(s)
  BY <1>5, <1>6, <1>7, <1>8
<1> QED BY <1>9, <1>10 DEF s

LEMMA LinearType ==
    ASSUME NEW a \in Address
    PROVE  /\ Linear(a) \in Nat
           /\ Linear(a) = PageStart(a.page) + a.off
           /\ a.off \in 0 .. PageSize - 1 /\ PageStart(a.page) \in Nat
<1>1. a.page \in Nat /\ a.off \in 0 .. PageSize - 1
  BY DEF Address, Offsets
<1>2. a.page * PageSize \in Nat
  BY <1>1, ProductType
<1> QED BY <1>1, <1>2 DEF Linear, PageStart

\* dst moves on by what has been written.
LEMMA LinearGrows ==
    ASSUME NEW a \in Address, NEW n \in 0 .. PageSize
    PROVE  Linear(Plus(a, n)) = Linear(a) + n
<1> DEFINE z == [page |-> 0, off |-> 0]
<1>1. z \in Address /\ z.page = 0 /\ z.off = 0
  BY DEF Address, Offsets
<1> HIDE DEF z
<1>2. PICK b \in Address : b = Plus(a, n)
  BY PlusType
<1>3. (b.page - 0) * PageSize + b.off - 0 = (a.page - 0) * PageSize + a.off - 0 + n
  BY <1>1, <1>2, LengthGrows
<1>4. /\ a.page \in Nat /\ b.page \in Nat /\ a.off \in Nat /\ b.off \in Nat
  BY DEF Address, Offsets
<1>5. a.page * PageSize \in Nat /\ b.page * PageSize \in Nat
  BY <1>4, ProductType
<1>6. a.page - 0 = a.page /\ b.page - 0 = b.page
  BY <1>4
<1>7. Linear(b) = Linear(a) + n
  BY <1>3, <1>4, <1>5, <1>6 DEF Linear
<1> QED BY <1>2, <1>7

-----------------------------------------------------------------------------
(* The commands.                                                           *)

\* An erase that starts with sectors in order starts with the invariant.
LEMMA EraseStarts ==
    ASSUME Types, NEW f \in SectorNos, NEW t \in SectorNos, f <= t,
           NEW lo \in Int, NEW hi \in Int, lo <= Start(f), End(t) <= hi, Erase(f, t, lo, hi)
    PROVE  CInv'
<1>1. /\ pc' = "erase" /\ i' = f /\ last' = t /\ start' = start /\ dst' = dst /\ left' = left
      /\ cmd' = [op |-> "erase", lo |-> lo, hi |-> hi]
  BY DEF Erase, flash_erase
<1>2. Types' /\ CopyInv'
  BY <1>1 DEF Types, CopyInv
<1>3. EraseInv'
  BY <1>1 DEF EraseInv, Start, End, SectorSize
<1> QED BY <1>2, <1>3 DEF CInv

\* The sectors of a range are in order and within its addresses, whatever was
\* typed (flash_fill_sect_ranges).
LEMMA RangeInside ==
    ASSUME NEW first \in Int, NEW end \in Int, NEW r \in flash_fill_sect_ranges(first, end)
    PROVE  /\ r[1] \in SectorNos /\ r[2] \in SectorNos /\ r[1] <= r[2]
           /\ first <= Start(r[1]) /\ End(r[2]) <= end
<1>1. /\ r[1] \in SectorNos /\ r[2] \in SectorNos /\ first <= end /\ Start(r[1]) = first
      /\ End(r[2]) = end \/ (end > BankEnd /\ r[2] = Sectors - 1)
  BY DEF flash_fill_sect_ranges
<1>2. BankEnd = End(Sectors - 1) /\ Sectors - 1 \in SectorNos
  BY DEF BankEnd, SectorNos
<1>3. End(r[2]) \in Int /\ BankEnd \in Int
  BY <1>1, <1>2, SectorBounds
<1>4. End(r[2]) <= end
  BY <1>1, <1>2, <1>3
<1>5. r[1] <= r[2]
  <2> SUFFICES ASSUME r[2] < r[1] PROVE FALSE
    BY <1>1 DEF SectorNos
  <2>1. End(r[2]) = end
    BY <1>1 DEF SectorNos
  <2>2. r[2] + 1 \in SectorNos /\ r[2] + 1 <= r[1]
    BY <1>1 DEF SectorNos
  <2>3. Start(r[2] + 1) <= Start(r[1])
    BY <1>1, <2>2, SectorBounds
  <2>4. Start(r[2] + 1) = End(r[2]) + 1
    <3>1. r[2] \in Int /\ SectorSize \in Int
      BY <1>1, SectorBounds DEF SectorNos
    <3>2. (r[2] + 1) * SectorSize = r[2] * SectorSize + SectorSize /\ r[2] * SectorSize \in Int
      BY <3>1
    <3> QED BY <3>1, <3>2 DEF Start, End
  <2>5. Start(r[2] + 1) \in Int /\ Start(r[1]) \in Int
    BY <1>1, <2>2, SectorBounds
  <2> QED BY <1>1, <1>3, <2>1, <2>3, <2>4, <2>5
<1> QED BY <1>1, <1>4, <1>5

\* A step that changes neither the driver nor the protection of sectors, and no
\* command while the driver works.
LEMMA IdleKeeps ==
    ASSUME Types, pc \in {"idle", "written"}, UNCHANGED svars
    PROVE  CInv'
BY DEF CInv, Types, EraseInv, CopyInv, svars

LEMMA EraseSectKeeps ==
    ASSUME Types, NEW first \in Int, NEW end \in Int, flash_sect_erase(first, end)
    PROVE  CInv'
<1>1. ASSUME NEW r \in flash_fill_sect_ranges(first, end), Erase(r[1], r[2], first, end)
      PROVE  CInv'
  BY <1>1, RangeInside, EraseStarts
<1>2. CASE Refused
  BY <1>2, IdleKeeps DEF Refused
<1> QED BY <1>1, <1>2 DEF flash_sect_erase

LEMMA TypedAddresses ==
    /\ \A a \in Addrs : a \in Nat /\ a < Ulong
    /\ \A n \in Lens : n \in Nat /\ n < Ulong
BY DEF FlashCmdAssumption

LEMMA AddrSpecType ==
    ASSUME NEW first, NEW len, NEW end \in addr_spec(first, len)
    PROVE  end \in Int
BY SectorBounds DEF addr_spec

LEMMA EraseKeeps ==
    ASSUME Types, EraseAll \/ EraseSectors \/ EraseRange \/ EraseLength
    PROVE  CInv'
<1>1. CASE EraseAll
  <2>1. 0 \in SectorNos /\ Sectors - 1 \in SectorNos /\ 0 <= Sectors - 1
    BY DEF SectorNos
  <2>2. Base = Start(0) /\ Base \in Int /\ BankEnd = End(Sectors - 1) /\ BankEnd \in Int
    <3>1. 0 * SectorSize = 0
      BY <2>1, SectorBounds
    <3>2. End(Sectors - 1) \in Int
      BY <2>1, SectorBounds
    <3> QED BY <3>1, <3>2 DEF Start, BankEnd
  <2>3. Erase(0, Sectors - 1, Base, BankEnd)
    BY <1>1 DEF EraseAll
  <2> QED BY <2>1, <2>2, <2>3, EraseStarts
<1>2. CASE EraseSectors
  <2>1. PICK r \in abbrev_spec : Erase(r[1], r[2], Start(r[1]), End(r[2]))
    BY <1>2 DEF EraseSectors
  <2>2. r[1] \in SectorNos /\ r[2] \in SectorNos /\ r[1] <= r[2]
    BY DEF abbrev_spec
  <2>3. Start(r[1]) \in Int /\ End(r[2]) \in Int
    BY <2>2, SectorBounds
  <2> QED BY <2>1, <2>2, <2>3, EraseStarts
<1>3. CASE EraseRange
  <2>1. PICK first, end \in Addrs : IF first >= end THEN Refused ELSE flash_sect_erase(first, end)
    BY <1>3 DEF EraseRange
  <2>2. first \in Int /\ end \in Int
    BY TypedAddresses
  <2> QED BY <2>1, <2>2, EraseSectKeeps, IdleKeeps DEF Refused
<1>4. CASE EraseLength
  <2>1. CASE Refused
    BY <2>1, IdleKeeps DEF Refused
  <2>2. ASSUME NEW first \in Addrs, NEW len \in Lens, NEW end \in addr_spec(first, len),
               flash_sect_erase(first, end)
        PROVE  CInv'
    BY <2>2, TypedAddresses, AddrSpecType, EraseSectKeeps
  <2> QED BY <1>4, <2>1, <2>2 DEF EraseLength
<1> QED BY <1>1, <1>2, <1>3, <1>4

LEMMA ProtectKeeps ==
    ASSUME Types, ProtectAll \/ ProtectSectors \/ ProtectRange \/ ProtectLength
    PROVE  CInv'
<1>1. pc \in {"idle", "written"} /\ UNCHANGED svars
  BY DEF ProtectAll, ProtectSectors, ProtectRange, ProtectLength, flash_sect_protect, Protect, Refused
<1> QED BY <1>1, IdleKeeps

-----------------------------------------------------------------------------
(* cp                                                                      *)

LEMMA LinearAt ==
    ASSUME NEW addr \in Int, Base <= addr
    PROVE  Linear(At(addr)) = addr
<1>1. PICK x \in Nat : x = addr - Base
  <2>1. addr - Base \in Nat
    OBVIOUS
  <2> QED BY <2>1
<1>2. \A y \in Nat : \A m \in Nat \ {0} :
          y \div m \in Nat /\ y % m \in Nat /\ y = (y \div m) * m + (y % m)
  OBVIOUS
<1>3. x = (x \div PageSize) * PageSize + (x % PageSize)
  BY <1>2
<1>4. At(addr).page = x \div PageSize /\ At(addr).off = x % PageSize
  BY <1>1 DEF At
<1>5. (x \div PageSize) * PageSize \in Nat /\ x % PageSize \in Nat
  BY <1>2, ProductType
<1>6. Linear(At(addr)) = Base + (x \div PageSize) * PageSize + (x % PageSize)
  BY <1>4 DEF Linear
<1> QED BY <1>1, <1>3, <1>5, <1>6

\* addr + cnt - 1 that has not wrapped is the sum.
LEMMA LastAddrSum ==
    ASSUME NEW addr \in Nat, addr < Ulong, NEW cnt \in Nat, cnt < Ulong, cnt > 0,
           addr <= LastAddr(addr, cnt)
    PROVE  LastAddr(addr, cnt) = addr + cnt - 1
<1>1. PICK x \in Nat : x = addr + cnt - 1
  <2>1. addr + cnt - 1 \in Nat
    OBVIOUS
  <2> QED BY <2>1
<1>2. LastAddr(addr, cnt) = x % Ulong
  BY <1>1 DEF LastAddr
<1>3. CASE x < Ulong
  <2>1. x % Ulong = x
    BY <1>3
  <2> QED BY <1>1, <1>2, <2>1
<1>4. CASE x >= Ulong
  <2>1. x - Ulong \in 0 .. Ulong - 1 /\ x - Ulong < addr
    BY <1>1, <1>4
  <2>2. x % Ulong = x - Ulong
    BY <1>1, <2>1
  <2> QED BY <1>2, <2>1, <2>2
<1> QED BY <1>3, <1>4

\* flash_write starts with the invariant (flash.c, 145-183).
LEMMA CopyStarts ==
    ASSUME Types, Copy
    PROVE  CInv'
<1>1. PICK addr \in Addrs, cnt \in Lens : flash_write(addr, cnt)
  BY DEF Copy
<1>2. addr \in Nat /\ addr < Ulong /\ cnt \in Nat /\ cnt < Ulong
  BY TypedAddresses
<1> DEFINE end == LastAddr(addr, cnt)
<1>3. CASE Refused
  BY <1>3, IdleKeeps DEF Refused
<1>4. CASE /\ cnt > 0 /\ addr2info(addr) /\ addr2info(end) /\ ~Hits(addr, end)
           /\ write_buff(At(addr), Clipped(addr, cnt))
           /\ cmd' = [op |-> "cp", lo |-> addr, hi |-> end]
           /\ UNCHANGED protect
  <2>1. BankEnd \in Int
    BY SectorBounds DEF BankEnd, SectorNos
  <2>2. Base <= addr /\ addr <= BankEnd /\ end <= BankEnd /\ end \in Int
    <3>1. end \in Int
      BY <1>2 DEF LastAddr
    <3> QED BY <1>4, <3>1 DEF addr2info
  <2>3. At(addr) \in Address /\ Linear(At(addr)) = addr
    BY <1>2, <2>2, AtType, LinearAt
  <2>4. Clipped(addr, cnt) \in Nat
    BY <1>2, <2>1, <2>2 DEF Clipped
  <2>5. addr <= end => addr + Clipped(addr, cnt) <= end + 1
    BY <1>2, <1>4, <2>1, <2>2, LastAddrSum DEF Clipped
  <2>6. \A s \in SectorNos : Start(s) <= end /\ addr <= End(s) => ~protect[s]
    BY <1>2, <1>4, <2>2, SectorBounds DEF Hits
  <2> HIDE DEF end
  <2>7. /\ pc' = "write" /\ start' = At(addr) /\ dst' = At(addr) /\ left' = Clipped(addr, cnt)
        /\ protect' = protect
    BY <1>4 DEF write_buff
  <2>8. Types' /\ EraseInv'
    BY <2>3, <2>4, <2>7 DEF Types, EraseInv
  <2>9. Linear(dst)' = addr
    BY <2>3, <2>7 DEF Linear
  <2>10. cmd'.op = "cp" /\ cmd'.lo = addr /\ cmd'.hi = end
    BY <1>4
  <2>11. CopyInv'
    <3>1. (\A s \in SectorNos : Start(s) <= cmd.hi /\ cmd.lo <= End(s) => ~protect[s])'
      BY <2>6, <2>7, <2>10 DEF Start, End, SectorSize
    <3> QED BY <1>2, <2>2, <2>5, <2>7, <2>9, <2>10, <3>1 DEF CopyInv
  <2> QED BY <2>8, <2>11 DEF CInv
<1> QED BY <1>1, <1>3, <1>4 DEF flash_write

-----------------------------------------------------------------------------
(* The driver.                                                             *)

LEMMA EraseSectorKeeps ==
    ASSUME CInv, EraseSector, UNCHANGED cmd
    PROVE  CInv'
<1>1. /\ pc = "erase" /\ last' = last /\ start' = start /\ dst' = dst /\ left' = left
      /\ \/ More(i) /\ pc' = "erase" /\ i' = i + 1
         \/ pc' = "idle"
  BY DEF EraseSector
<1>2. Types' /\ CopyInv'
  BY <1>1 DEF CInv, Types, CopyInv
<1>3. /\ cmd.op = "erase" /\ i \in SectorNos /\ last \in SectorNos /\ i <= last
      /\ cmd.lo \in Int /\ cmd.hi \in Int /\ cmd.lo <= Start(i) /\ End(last) <= cmd.hi
  BY <1>1 DEF CInv, EraseInv
<1>4. CASE More(i) /\ pc' = "erase" /\ i' = i + 1
  <2>1. i + 1 \in SectorNos /\ i + 1 <= last
    BY <1>3, <1>4 DEF More, SectorNos
  <2>2. i <= i + 1
    BY <1>3 DEF SectorNos
  <2>3. Start(i) <= Start(i + 1) /\ Start(i) \in Int /\ Start(i + 1) \in Int
    BY <1>3, <2>1, <2>2, SectorBounds
  <2>4. cmd.lo <= Start(i + 1)
    BY <1>3, <2>3
  <2>5. Start(i)' = Start(i + 1) /\ End(last)' = End(last)
    BY <1>1, <1>4 DEF Start, End, SectorSize
  <2>6. EraseInv'
    BY <1>1, <1>3, <1>4, <2>1, <2>4, <2>5 DEF EraseInv
  <2> QED BY <1>2, <2>6 DEF CInv
<1>5. CASE pc' = "idle"
  BY <1>2, <1>5 DEF CInv, EraseInv
<1> QED BY <1>1, <1>4, <1>5

LEMMA PageKeepsCopy ==
    ASSUME CInv, WritePage, UNCHANGED <<protect, cmd>>
    PROVE  CInv'
<1> DEFINE n == LenThisLp
<1>1. /\ pc = "write" /\ left > 0 /\ pc' = pc /\ start' = start
      /\ dst' = Plus(dst, n) /\ left' = left - n
  BY DEF WritePage
<1>2. Types
  BY DEF CInv
<1>3. n \in 0 .. PageSize /\ n <= left /\ left - n \in Nat
  BY <1>1, <1>2, LenType
<1> HIDE DEF n
<1>4. dst \in Address /\ left \in Nat
  BY <1>2 DEF Types
<1>5. Plus(dst, n) \in Address /\ Linear(Plus(dst, n)) = Linear(dst) + n /\ Linear(dst) \in Nat
  BY <1>3, <1>4, PlusType, LinearGrows, LinearType
<1>6. Types' /\ EraseInv'
  BY <1>1, <1>2, <1>3, <1>5 DEF Types, EraseInv
<1>7. Linear(dst)' = Linear(dst) + n
  BY <1>1, <1>5 DEF Linear
<1>8. /\ cmd.op = "cp" /\ cmd.lo \in Int /\ cmd.hi \in Int /\ cmd.lo <= Linear(dst)
      /\ cmd.lo <= cmd.hi =>
            /\ Linear(dst) + left <= cmd.hi + 1
            /\ \A s \in SectorNos : Start(s) <= cmd.hi /\ cmd.lo <= End(s) => ~protect[s]
  BY <1>1 DEF CInv, CopyInv
<1>9. CopyInv'
  <2>1. Linear(dst)' + left' = Linear(dst) + left /\ cmd.lo <= Linear(dst)'
    BY <1>1, <1>3, <1>4, <1>5, <1>7, <1>8
  <2>2. cmd.lo <= cmd.hi =>
            (\A s \in SectorNos : Start(s) <= cmd.hi /\ cmd.lo <= End(s) => ~protect[s])'
    BY <1>8 DEF Start, End, SectorSize
  <2> QED BY <1>1, <1>8, <2>1, <2>2 DEF CopyInv
<1> QED BY <1>6, <1>9 DEF CInv

LEMMA DriveKeeps ==
    ASSUME CInv, Drive
    PROVE  CInv'
<1>1. CASE EraseSector
  BY <1>1, EraseSectorKeeps DEF Drive, EraseSector
<1>2. CASE WritePage
  BY <1>2, PageKeepsCopy DEF Drive, WritePage
<1>3. CASE WriteDone
  BY <1>3 DEF WriteDone, CInv, Types, EraseInv, CopyInv
<1>4. CASE PowerLoss \/ PowerOn
  BY <1>4 DEF PowerLoss, PowerOn, CInv, Types, EraseInv, CopyInv
<1> QED BY <1>1, <1>2, <1>3, <1>4 DEF Drive, SpiStep

LEMMA CInvNext ==
    ASSUME CInv, [CmdNext]_cvars
    PROVE  CInv'
<1>1. Types
  BY DEF CInv
<1>2. CASE CmdNext
  BY <1>1, <1>2, EraseKeeps, ProtectKeeps, CopyStarts, DriveKeeps DEF CmdNext
<1>3. CASE UNCHANGED cvars
  BY <1>3 DEF cvars, svars, CInv, Types, EraseInv, CopyInv, Start, End, SectorSize, Linear
<1> QED BY <1>2, <1>3

\* The command line itself changes no cell.
LEMMA CommandsKeepMem ==
    ASSUME [CmdNext]_cvars
    PROVE  Drive \/ mem' = mem
<1>1. ASSUME NEW x, NEW y, flash_erase(x, y) PROVE mem' = mem
  BY <1>1 DEF flash_erase
<1>2. ASSUME Refused PROVE mem' = mem
  BY <1>2 DEF Refused, svars
<1>3. CASE EraseAll \/ EraseSectors \/ EraseRange \/ EraseLength
  BY <1>1, <1>2, <1>3 DEF EraseAll, EraseSectors, EraseRange, EraseLength, flash_sect_erase, Erase
<1>4. ASSUME ProtectAll \/ ProtectSectors \/ ProtectRange \/ ProtectLength PROVE mem' = mem
  <2>1. ASSUME NEW x, NEW y, NEW q, Protect(x, y, q) PROVE mem' = mem
    BY <2>1 DEF Protect, svars
  <2> QED BY <1>2, <1>4, <2>1 DEF ProtectAll, ProtectSectors, ProtectRange, ProtectLength, flash_sect_protect
<1>5. CASE Copy
  BY <1>2, <1>5 DEF Copy, flash_write, write_buff
<1>6. CASE UNCHANGED cvars
  BY <1>6 DEF cvars, svars
<1> QED BY <1>3, <1>4, <1>5, <1>6 DEF CmdNext

\* The pages are functions on their offsets, so that a page program of nothing
\* changes nothing.
Pages == \A p \in PageNos : mem[p] = [o \in Offsets |-> mem[p][o]]

LEMMA PagesNext ==
    ASSUME Pages, [CmdNext]_cvars
    PROVE  Pages'
<1>1. ASSUME NEW s, NEW cell, mem' = Fill(s, cell) PROVE Pages'
  BY <1>1 DEF Fill, Pages
<1>2. ASSUME NEW a, NEW ks, mem' = Programmed(a, ks) PROVE Pages'
  BY <1>2 DEF Programmed, Pages
<1>3. CASE mem' = mem
  BY <1>3 DEF Pages
<1>4. CASE Drive
  <2>1. \/ mem' = mem
        \/ \E s, cell : mem' = Fill(s, cell)
        \/ \E a, ks : mem' = Programmed(a, ks)
    BY <1>4 DEF Drive, SpiStep, EraseSector, WritePage, WriteDone, PowerLoss, PowerOn
  <2> QED BY <1>1, <1>2, <1>3, <2>1
<1>5. CASE [CmdNext]_cvars /\ ~Drive
  BY <1>3, <1>5, CommandsKeepMem
<1> QED BY <1>4, <1>5

LEMMA CInvHolds == CmdSpec => [](CInv /\ Pages)
<1>1. CmdInit => CInv /\ Pages
  BY InitHolds DEF CmdInit, SpiInit, CInv, IInv, EraseInv, CopyInv, Pages
<1>2. CInv /\ Pages /\ [CmdNext]_cvars => CInv' /\ Pages'
  BY CInvNext, PagesNext
<1> QED BY <1>1, <1>2, PTL DEF CmdSpec

-----------------------------------------------------------------------------
(* What a step changes.                                                    *)

\* Only the sector being erased and the page being programmed change, also
\* when the power fails.
LEMMA ChangedPage ==
    ASSUME CInv, Pages, [CmdNext]_cvars, NEW p \in PageNos, mem'[p] # mem[p]
    PROVE  \/ pc = "erase" /\ SectorOf(p) = i
           \/ pc = "write" /\ left > 0 /\ p = dst.page
<1>1. Drive
  BY CommandsKeepMem
<1>2. ASSUME NEW cell, mem' = Fill(i, cell) PROVE SectorOf(p) = i
  BY <1>2 DEF Fill
<1>3. ASSUME NEW ks, mem' = Programmed(dst, ks) PROVE p = dst.page /\ ks # {}
  <2>1. p = dst.page
    BY <1>3 DEF Programmed
  <2>2. ASSUME ks = {} PROVE FALSE
    <3>1. mem'[p] = [o \in Offsets |-> mem[p][o] \cup {Unit(Plus(dst, k)) : k \in {k \in {} : CellOf(dst, k) = o}}]
      BY <1>3, <2>1, <2>2 DEF Programmed
    <3>2. \A o \in Offsets : {Unit(Plus(dst, k)) : k \in {k \in {} : CellOf(dst, k) = o}} = {}
      OBVIOUS
    <3>3. mem'[p] = [o \in Offsets |-> mem[p][o]]
      BY <3>1, <3>2
    <3> QED BY <3>3 DEF Pages
  <2> QED BY <2>1, <2>2
<1>4. CASE EraseSector
  BY <1>2, <1>4 DEF EraseSector
<1>5. CASE WritePage
  BY <1>3, <1>5 DEF WritePage
<1>6. CASE PowerLoss
  <2>1. CASE pc = "erase" /\ mem' = Fill(i, {Old, Torn})
    BY <1>2, <2>1
  <2>2. ASSUME pc = "write", NEW ks \in SUBSET (0 .. LenThisLp - 1), mem' = Programmed(dst, ks)
        PROVE  pc = "write" /\ left > 0 /\ p = dst.page
    <3>1. p = dst.page /\ ks # {}
      BY <2>2, <1>3
    <3>2. LenThisLp > 0
      <4>1. LenThisLp \in Int
        BY DEF CInv, Types, LenThisLp, BytesThisPage, Address, Offsets
      <4>2. PICK k \in ks : TRUE
        BY <3>1
      <4>3. k \in 0 .. LenThisLp - 1
        BY <4>2
      <4> QED BY <4>1, <4>3
    <3>3. left > 0
      BY <3>2 DEF CInv, Types, LenThisLp, BytesThisPage, Address, Offsets
    <3> QED BY <2>2, <3>1, <3>3
  <2> QED BY <1>6, <2>1, <2>2 DEF PowerLoss
<1>7. CASE WriteDone \/ PowerOn
  BY <1>7 DEF WriteDone, PowerOn
<1> QED BY <1>1, <1>4, <1>5, <1>6, <1>7 DEF Drive, SpiStep

\* Where the page that changes lies.
LEMMA ChangedInside ==
    ASSUME CInv, Pages, [CmdNext]_cvars, NEW p \in PageNos, mem'[p] # mem[p]
    PROVE  /\ cmd.op = "erase" => cmd.lo <= Start(SectorOf(p))
           /\ cmd.op = "cp" => cmd.lo < PageStart(p) + PageSize
           /\ cmd.lo <= cmd.hi => PageStart(p) <= cmd.hi
           /\ cmd.op # "none"
           /\ cmd.op = "cp" /\ cmd.lo <= cmd.hi => ~protect[SectorOf(p)]
<1> DEFINE s == SectorOf(p)
<1>1. /\ s \in SectorNos /\ PageStart(p) \in Nat /\ Start(s) <= PageStart(p)
      /\ PageStart(p) + PageSize - 1 <= End(s)
  BY PageInSector
<1>2. Start(s) \in Int /\ End(s) \in Int
  BY <1>1, SectorBounds
<1>3. CASE pc = "erase" /\ s = i
  <2>1. /\ cmd.op = "erase" /\ last \in SectorNos /\ i <= last /\ cmd.lo \in Int /\ cmd.hi \in Int
        /\ cmd.lo <= Start(i) /\ End(last) <= cmd.hi
    BY <1>3 DEF CInv, EraseInv
  <2>2. End(i) <= End(last) /\ End(last) \in Int
    BY <1>1, <1>3, <2>1, SectorBounds
  <2> QED BY <1>1, <1>2, <1>3, <2>1, <2>2
<1>4. CASE pc = "write" /\ left > 0 /\ p = dst.page
  <2>1. /\ cmd.op = "cp" /\ cmd.lo \in Int /\ cmd.hi \in Int /\ cmd.lo <= Linear(dst)
        /\ cmd.lo <= cmd.hi =>
              /\ Linear(dst) + left <= cmd.hi + 1
              /\ \A t \in SectorNos : Start(t) <= cmd.hi /\ cmd.lo <= End(t) => ~protect[t]
    BY <1>4 DEF CInv, CopyInv
  <2>2. dst \in Address /\ left \in Nat
    BY DEF CInv, Types
  <2>3. Linear(dst) = PageStart(p) + dst.off /\ dst.off \in 0 .. PageSize - 1
    BY <1>4, <2>2, LinearType
  <2>4. cmd.lo < PageStart(p) + PageSize /\ cmd.lo <= End(s)
    BY <1>1, <1>2, <2>1, <2>3
  <2>5. cmd.lo <= cmd.hi => PageStart(p) <= cmd.hi /\ Start(s) <= cmd.hi
    BY <1>1, <1>2, <1>4, <2>1, <2>2, <2>3
  <2> QED BY <1>1, <2>1, <2>4, <2>5
<1> QED BY <1>3, <1>4, ChangedPage

\* No command touches a page outside the addresses it names, for every
\* geometry, range, length and power failure (cmd_flash.c, flash.c).
THEOREM CommandsInside == CmdSpec => Inside
<1>1. CInv /\ Pages /\ [CmdNext]_cvars =>
        [\A p \in PageNos :
          mem'[p] # mem[p] =>
              /\ cmd.op = "erase" => cmd.lo <= Start(SectorOf(p))
              /\ cmd.op = "cp" => cmd.lo < PageStart(p) + PageSize
              /\ cmd.lo <= cmd.hi => PageStart(p) <= cmd.hi
              /\ cmd.op # "none"]_cvars
  BY ChangedInside
<1> QED BY <1>1, CInvHolds, PTL DEF CmdSpec, Inside

\* cp never changes a protected sector (flash.c, 157-168).
THEOREM CopySparesProtected == CmdSpec => ProtectedKept
<1>1. CInv /\ Pages /\ [CmdNext]_cvars =>
        [\A p \in PageNos :
          cmd.op = "cp" /\ cmd.lo <= cmd.hi /\ mem'[p] # mem[p] => ~protect[SectorOf(p)]]_cvars
  BY ChangedInside
<1> QED BY <1>1, CInvHolds, PTL DEF CmdSpec, ProtectedKept
=============================================================================
