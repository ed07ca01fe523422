------------------------------ MODULE FlashCmd ------------------------------
(***************************************************************************)
(* The flash commands of the command line: erase and protect               *)
(* (common/cmd_flash.c), and cp to the flash (common/flash.c), over the    *)
(* driver of module SpiFlash.  There is one bank of flash, from Base on.   *)
(* Addresses are unsigned long and wrap at Ulong.                          *)
(*                                                                         *)
(* Left out: reading numbers from the command line, messages.              *)
(***************************************************************************)
EXTENDS SpiFlash

CONSTANTS
    Base,     \* CFG_FLASH_BASE
    Ulong,    \* 2^32
    Addrs,    \* addresses the user types
    Lens      \* lengths the user types

ASSUME FlashCmdAssumption ==
    /\ Base \in Nat /\ Ulong \in Nat
    /\ Base + Sectors * SectorPages * PageSize <= Ulong
    /\ Addrs \subseteq 0 .. Ulong - 1 /\ Lens \subseteq 0 .. Ulong - 1

VARIABLES
    protect,   \* info->protect
    cmd        \* the last command: what it does, the addresses it names

cvars == <<svars, protect, cmd>>

SectorSize == SectorPages * PageSize
Start(s) == Base + s * SectorSize
End(s) == Start(s) + SectorSize - 1
BankEnd == End(Sectors - 1)

NoCmd == [op |-> "none", lo |-> 0, hi |-> 0]
Unprotected == [s \in SectorNos |-> FALSE]

CmdInit == SpiInit /\ protect = Unprotected /\ cmd = NoCmd

\* The command is refused; nothing happens.
Refused ==
    /\ pc \in {"idle", "written"} /\ calls < MaxCalls
    /\ cmd' = NoCmd
    /\ UNCHANGED <<svars, protect>>

-----------------------------------------------------------------------------
(* Sector ranges.                                                          *)

\* abbrev_spec, "1:SF-SL"
abbrev_spec == {r \in SectorNos \X SectorNos : r[1] <= r[2]}

\* Mutant: the range need not begin on a sector.
RangesAny(first, end) ==
    {r \in SectorNos \X SectorNos :
        /\ first <= end
        /\ Start(r[1]) <= first /\ first <= End(r[1])
        /\ End(r[2]) = end \/ (end > BankEnd /\ r[2] = Sectors - 1)}

\* flash_fill_sect_ranges: the first and the last sector of the range; none
\* when it does not begin and end on sectors.
flash_fill_sect_ranges(first, end) ==
    {r \in SectorNos \X SectorNos :
        /\ first <= end
        /\ Start(r[1]) = first
        /\ End(r[2]) = end \/ (end > BankEnd /\ r[2] = Sectors - 1)}

\* addr_spec, "start +length": the end is moved to the end of its sector; none
\* when it is not in the flash.
LastAddr(first, len) == (first + len - 1) % Ulong
addr_spec(first, len) ==
    {End(s) : s \in {s \in SectorNos :
        Start(s) <= LastAddr(first, len) /\ LastAddr(first, len) <= End(s)}}

-----------------------------------------------------------------------------
(* erase                                                                   *)

Erase(s_first, s_last, lo, hi) ==
    /\ flash_erase(s_first, s_last)
    /\ cmd' = [op |-> "erase", lo |-> lo, hi |-> hi]
    /\ UNCHANGED protect

\* "all" and "bank 1"
EraseAll == Erase(0, Sectors - 1, Base, BankEnd)

\* "1:SF-SL"
EraseSectors == \E r \in abbrev_spec : Erase(r[1], r[2], Start(r[1]), End(r[2]))

flash_sect_erase(first, end) ==
    \/ \E r \in flash_fill_sect_ranges(first, end) : Erase(r[1], r[2], first, end)
    \/ flash_fill_sect_ranges(first, end) = {} /\ Refused

\* "start end"
EraseRange ==
    \E first, end \in Addrs :
        IF first >= end THEN Refused ELSE flash_sect_erase(first, end)

\* "start +length"
EraseLength ==
    \E first \in Addrs, len \in Lens :
        \/ addr_spec(first, len) = {} /\ Refused
        \/ \E end \in addr_spec(first, len) :
              IF first >= end THEN Refused ELSE flash_sect_erase(first, end)

-----------------------------------------------------------------------------
(* protect                                                                 *)

Protect(s_first, s_last, p) ==
    /\ pc \in {"idle", "written"} /\ calls < MaxCalls
    /\ protect' = [s \in SectorNos |-> IF s \in s_first .. s_last THEN p ELSE protect[s]]
    /\ cmd' = NoCmd
    /\ UNCHANGED svars

ProtectAll == \E p \in BOOLEAN : Protect(0, Sectors - 1, p)

ProtectSectors == \E r \in abbrev_spec, p \in BOOLEAN : Protect(r[1], r[2], p)

flash_sect_protect(p, first, end) ==
    \/ \E r \in flash_fill_sect_ranges(first, end) : Protect(r[1], r[2], p)
    \/ flash_fill_sect_ranges(first, end) = {} /\ Refused

ProtectRange ==
    \E first, end \in Addrs, p \in BOOLEAN :
        IF first >= end THEN Refused ELSE flash_sect_protect(p, first, end)

ProtectLength ==
    \E first \in Addrs, len \in Lens, p \in BOOLEAN :
        \/ addr_spec(first, len) = {} /\ Refused
        \/ \E end \in addr_spec(first, len) :
              IF first >= end THEN Refused ELSE flash_sect_protect(p, first, end)

-----------------------------------------------------------------------------
(* cp to the flash                                                         *)

addr2info(addr) == Base <= addr /\ addr <= BankEnd

\* Mutant: only the sector of the first address is looked at.
HitsFirst(addr, end) ==
    \E s \in SectorNos : addr >= Start(s) /\ addr <= End(s) /\ protect[s]

\* The range touches a protected sector.
Hits(addr, end) ==
    \E s \in SectorNos : end >= Start(s) /\ addr <= End(s) /\ protect[s]

At(addr) == [page |-> (addr - Base) \div PageSize, off |-> (addr - Base) % PageSize]

\* What is written ends with the bank.
Clipped(addr, cnt) == IF BankEnd + 1 - addr > cnt THEN cnt ELSE BankEnd + 1 - addr

flash_write(addr, cnt) ==
    LET end == LastAddr(addr, cnt)
    IN IF cnt > 0 /\ addr2info(addr) /\ addr2info(end) /\ ~Hits(addr, end)
       THEN /\ write_buff(At(addr), Clipped(addr, cnt))
            /\ cmd' = [op |-> "cp", lo |-> addr, hi |-> end]
            /\ UNCHANGED protect
       ELSE Refused

Copy == \E addr \in Addrs, cnt \in Lens : flash_write(addr, cnt)

-----------------------------------------------------------------------------
\* The driver goes on.  When the board starts flash_get_geom takes every
\* protection away.
Drive ==
    /\ SpiStep
    /\ IF pc = "off" THEN protect' = Unprotected /\ cmd' = NoCmd
       ELSE UNCHANGED <<protect, cmd>>

CmdNext ==
    \/ EraseAll \/ EraseSectors \/ EraseRange \/ EraseLength
    \/ ProtectAll \/ ProtectSectors \/ ProtectRange \/ ProtectLength
    \/ Copy
    \/ Drive

CmdSpec == CmdInit /\ [][CmdNext]_cvars
-----------------------------------------------------------------------------
(* Properties.                                                             *)

\* A command changes no page outside the addresses it names, and erase no
\* sector that begins before them, also when the power fails in the middle, when
\* the range is given with a length that wraps ("XXX watch out for the integer
\* overflow!", cmd_flash.c, 150) and when a write wraps in its page.  A cp whose
\* end wraps (hi < lo) goes on to the end of the bank.
PageStart(p) == Base + p * PageSize
Inside ==
    [][\A p \in PageNos :
          mem'[p] # mem[p] =>
              /\ cmd.op = "erase" => cmd.lo <= Start(SectorOf(p))
              /\ cmd.op = "cp" => cmd.lo < PageStart(p) + PageSize
              /\ cmd.lo <= cmd.hi => PageStart(p) <= cmd.hi
              /\ cmd.op # "none"]_cvars

\* flash_write never reaches a protected sector, however a write that does not
\* fit wraps in its page (flash.c, 157-168), if addr + cnt does not wrap.
ProtectedKept ==
    [][\A p \in PageNos :
          cmd.op = "cp" /\ cmd.lo <= cmd.hi /\ mem'[p] # mem[p] => ~protect[SectorOf(p)]]_cvars
=============================================================================
