------------------------------- MODULE UipArp -------------------------------
(***************************************************************************)
(* The ARP module of the recovery web server (httpd/uip_arp.c) as the loop *)
(* of httpd() drives it: every frame the Ethernet driver hands over is an  *)
(* IP packet (uip_arp_ipin, uip_input, uip_arp_out, send) or an ARP packet *)
(* (uip_arp_arpin, send); a round without a frame counts towards           *)
(* uip_arp_timer.                                                          *)
(*                                                                         *)
(* An IP address is the pair of its two 16-bit words, because the code     *)
(* tests the words one by one.  The server never retransmits, so an answer *)
(* that uip_arp_out replaces by an ARP request or sends to another host is *)
(* lost for good.                                                          *)
(***************************************************************************)
EXTENDS Integers, FiniteSets

CONSTANTS
    IPs,        \* the addresses frames come from
    Macs,       \* the Ethernet addresses frames come from
    ZeroMac,    \* 00:00:00:00:00:00
    Broadcast,  \* ff:ff:ff:ff:ff:ff
    HostAddr,   \* uip_hostaddr
    LocalNet,   \* the addresses that uip_arp_netmask does not tell from HostAddr
    Slots,      \* UIP_ARPTAB_SIZE
    Wrap,       \* 256, the modulus of arptime and of an entry's time
    MaxAge,     \* UIP_ARP_MAXAGE
    Polls,      \* rounds without a frame between two calls of uip_arp_timer
    MaxTicks    \* bound: calls of uip_arp_timer

Zero == <<0, 0>>

ASSUME ArpAssumption ==
    /\ IPs \subseteq Nat \X Nat /\ LocalNet \subseteq Nat \X Nat
    /\ Zero \in IPs /\ Zero \notin LocalNet /\ HostAddr \in LocalNet
    /\ ZeroMac \notin Macs /\ Broadcast \notin Macs /\ Macs # {}
    /\ Slots \in Nat \ {0} /\ Wrap \in Nat \ {0} /\ MaxAge \in Nat \ {0}
    /\ Polls \in Nat \ {0} /\ MaxTicks \in Nat

VARIABLES
    arp_table,
    arptime,
    arptimer,   \* the local variable of httpd()
    rcvd,       \* the last frame received
    sent,       \* the frame sent in this round
    ticks,      \* history: calls of uip_arp_timer
    stamp       \* history: the value of ticks when the entry was written

vars == <<arp_table, arptime, arptimer, rcvd, sent, ticks, stamp>>

Table == 0 .. Slots - 1
Entry == [ip: IPs, eth: Macs \cup {ZeroMac}, time: 0 .. Wrap - 1]

\* type: an IP packet, the opcode of an ARP packet, or an ARP packet shorter
\* than its header; ip, mac: its sender; forUs: its dipaddr is uip_hostaddr.
Frames ==
    [type: {"ip", "request", "reply", "other", "short"}, ip: IPs, mac: Macs,
     forUs: BOOLEAN]

\* kind: nothing, an IP packet, an ARP request or reply built here, or the
\* frame that was received; eth: the Ethernet destination of the first three.
Nothing == [kind |-> "none", eth |-> ZeroMac]
SentType ==
    [kind: {"none", "ip", "request", "reply", "echo"},
     eth: Macs \cup {ZeroMac, Broadcast}]

TypeOK ==
    /\ arp_table \in [Table -> Entry]
    /\ arptime \in 0 .. Wrap - 1
    /\ arptimer \in 0 .. Polls - 1
    /\ rcvd \in Frames
    /\ sent \in SentType
    /\ ticks \in 0 .. MaxTicks
    /\ stamp \in [Table -> 0 .. MaxTicks]

\* The table is zero when the board starts; uip_arp_init is never called.
Init ==
    /\ arp_table = [i \in Table |-> [ip |-> Zero, eth |-> ZeroMac, time |-> 0]]
    /\ arptime = 0 /\ arptimer = 0
    /\ rcvd = (CHOOSE f \in Frames : TRUE) /\ sent = Nothing
    /\ ticks = 0 /\ stamp = [i \in Table |-> 0]

-----------------------------------------------------------------------------
First(S) == CHOOSE i \in S : \A j \in S : i <= j

\* Both words differ from 0: what uip_arp_update takes for an entry in use.
Whole(ip) == ip[1] # 0 /\ ip[2] # 0

\* The entries uip_arp_update takes for one of ip, and for a free one.
EntriesOf(ip) == {i \in Table : Whole(arp_table[i].ip) /\ arp_table[i].ip = ip}
FreeEntries == {i \in Table : arp_table[i].ip = Zero}

\* Mutant of SlotFor: the walk for an old entry is left out.
SlotForNew(ip) == IF FreeEntries # {} THEN First(FreeEntries) ELSE Slots - 1

\* The entry uip_arp_update writes.  When no entry is free it looks for the
\* oldest one, but tabptr still points to the last one.
SlotFor(ip) ==
    IF EntriesOf(ip) # {} THEN First(EntriesOf(ip))
    ELSE IF FreeEntries # {} THEN First(FreeEntries)
    ELSE Slots - 1

uip_arp_update(ip, mac) ==
    /\ arp_table' = [arp_table EXCEPT ![SlotFor(ip)] = [ip |-> ip, eth |-> mac, time |-> arptime]]
    /\ stamp' = [stamp EXCEPT ![SlotFor(ip)] = ticks]

\* Mutant of uip_arp_ipin: a known host is not updated.
IpinNewOnly(ip, mac) ==
    IF ip \in LocalNet /\ EntriesOf(ip) = {} THEN uip_arp_update(ip, mac)
    ELSE UNCHANGED <<arp_table, stamp>>

\* A packet is learnt from only when it comes from the local network.
uip_arp_ipin(ip, mac) ==
    IF ip \in LocalNet THEN uip_arp_update(ip, mac) ELSE UNCHANGED <<arp_table, stamp>>

\* The address looked up for a packet to ip: uip_arp_draddr, the default
\* router, is never set and stays 0.0.0.0.
NextHop(ip) == IF ip \in LocalNet THEN ip ELSE Zero

\* The frame uip_arp_out makes of an IP packet to ip with table t.  It does not
\* ask whether an entry is in use.
uip_arp_out(t, ip) ==
    LET M == {i \in Table : t[i].ip = NextHop(ip)}
    IN IF M = {} THEN [kind |-> "request", eth |-> Broadcast]
       ELSE [kind |-> "ip", eth |-> t[First(M)].eth]

-----------------------------------------------------------------------------
(* The rounds of httpd().                                                  *)

\* An IP packet.  uip_input may answer, always to the sender.
IpIn(ip, mac) ==
    /\ rcvd' = [type |-> "ip", ip |-> ip, mac |-> mac, forUs |-> TRUE]
    /\ uip_arp_ipin(ip, mac)
    /\ sent' \in {Nothing, uip_arp_out(arp_table', ip)}
    /\ UNCHANGED <<arptime, arptimer, ticks>>

\* An ARP packet.  uip_len is not reset, so a packet that is not answered is
\* sent as it was received.
ArpIn(f) ==
    /\ f.type # "ip"
    /\ rcvd' = f
    /\ sent' = IF f.type = "short" THEN Nothing
               ELSE IF f.type = "request" /\ f.forUs THEN [kind |-> "reply", eth |-> f.mac]
               ELSE [kind |-> "echo", eth |-> ZeroMac]
    /\ IF f.type = "reply" /\ f.forUs THEN uip_arp_update(f.ip, f.mac)
       ELSE UNCHANGED <<arp_table, stamp>>
    /\ UNCHANGED <<arptime, arptimer, ticks>>

\* Mutant of Expired: off by one.
ExpiredEarly(e, now) == e.ip # Zero /\ now - e.time >= MaxAge - 1

\* arptime - tabptr->time is an int: it is negative when arptime has wrapped
\* since the entry was written.
Expired(e, now) == e.ip # Zero /\ now - e.time >= MaxAge

\* Mutant of Tick: the counter does not wrap.
TickWide(now) == now + 1

\* ++arptime, an unsigned byte.
Tick(now) == (now + 1) % Wrap

uip_arp_timer ==
    /\ ticks < MaxTicks
    /\ ticks' = ticks + 1
    /\ arptime' = Tick(arptime)
    /\ arp_table' = [i \in Table |->
                        IF Expired(arp_table[i], arptime') THEN [arp_table[i] EXCEPT !.ip = Zero]
                        ELSE arp_table[i]]
    /\ UNCHANGED stamp

\* A round without a frame.
Poll ==
    /\ sent' = Nothing
    /\ IF arptimer + 1 = Polls
       THEN arptimer' = 0 /\ uip_arp_timer
       ELSE arptimer' = arptimer + 1 /\ UNCHANGED <<arp_table, arptime, ticks, stamp>>
    /\ UNCHANGED rcvd

Next ==
    \/ \E ip \in IPs, mac \in Macs : IpIn(ip, mac)
    \/ \E f \in Frames : ArpIn(f)
    \/ Poll

Spec == Init /\ [][Next]_vars

-----------------------------------------------------------------------------
(* Properties.                                                             *)

\* An address with two words other than 0 has at most one entry, however
\* frames, expiry and eviction follow each other.  (uip_arp.c:159-217)
OneEntryPerHost ==
    \A i, j \in Table :
        Whole(arp_table[i].ip) /\ arp_table[i].ip = arp_table[j].ip => i = j

\* The answer to a packet from a host of the local network goes to the Ethernet
\* address that packet came from: the table may be full, the host may have
\* changed its interface, its entry may just have expired or been evicted, and
\* still the answer is not turned into an ARP request and not sent to another
\* interface.  (uip_arp.c:233-250, 350-416, httpd.c:745-768)
AnswerReachesSender ==
    sent.kind # "none" /\ rcvd.type = "ip" /\ rcvd.ip \in LocalNet /\ Whole(rcvd.ip)
        => sent = [kind |-> "ip", eth |-> rcvd.mac]

\* uip_arp_timer never takes an entry away before it is MaxAge ticks old, also
\* when arptime has wrapped between the two.  (uip_arp.c:142-155)
NoEarlyExpiry ==
    [][\A i \in Table :
          ticks' # ticks /\ arp_table'[i].ip # arp_table[i].ip
            => ticks' - stamp[i] >= MaxAge]_vars
=============================================================================
