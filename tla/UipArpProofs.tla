---------------------------- MODULE UipArpProofs ----------------------------
(***************************************************************************)
(* Proofs about UipArp for every table size, set of addresses, age and     *)
(* width of the tick counter.                                              *)
(*                                                                         *)
(* That the answer reaches the sender rests on OneEntryPerHost: the entry  *)
(* uip_arp_ipin has just written is then the only one uip_arp_out can      *)
(* find.  That no entry expires early rests on Aged: whether or not        *)
(* arptime has wrapped, an entry is at least as old as the int difference  *)
(* the timer computes.                                                     *)
(***************************************************************************)
EXTENDS UipArp, WellFoundedInduction, TLAPS

\* The difference the timer computes never exceeds the age of the entry.
Aged == \A i \in Table : arptime - arp_table[i].time <= ticks - stamp[i]

IInv == TypeOK /\ OneEntryPerHost /\ AnswerReachesSender /\ Aged

-----------------------------------------------------------------------------
\* A set of table positions that is not empty has a first one.
LEMMA FirstInSet ==
    ASSUME NEW T \in SUBSET Nat, T # {}
    PROVE  First(T) \in T
<1> DEFINE Less == OpToRel(<, Nat)
<1>1. PICK x \in T : \A y \in T : <<y, x>> \notin Less
  BY NatLessThanWellFounded, WFMin, Zenon
<1>2. \A a, b \in Nat : a < b => <<a, b>> \in Less
  BY Zenon DEF OpToRel
<1> HIDE DEF Less
<1>3. \A y \in T : ~(y < x)
  BY <1>1, <1>2, Zenon
<1>4. \A y \in T : x <= y
  BY <1>3
<1>5. \E i \in T : \A j \in T : i <= j
  BY <1>4
<1> QED BY <1>5, Zenon DEF First

\* uip_arp_update always writes an entry of the table.
LEMMA SlotInTable ==
    ASSUME NEW ip
    PROVE  SlotFor(ip) \in Table
<1>1. EntriesOf(ip) \in SUBSET Table /\ FreeEntries \in SUBSET Table
  BY DEF EntriesOf, FreeEntries
<1>2. Table \in SUBSET Nat /\ Slots - 1 \in Table
  BY ArpAssumption DEF Table
<1>3. EntriesOf(ip) # {} => First(EntriesOf(ip)) \in Table
  BY <1>1, <1>2, FirstInSet
<1>4. FreeEntries # {} => First(FreeEntries) \in Table
  BY <1>1, <1>2, FirstInSet
<1> QED BY <1>2, <1>3, <1>4 DEF SlotFor

\* No other entry holds the address that is written.
LEMMA SlotIsOnlyOne ==
    ASSUME OneEntryPerHost, NEW ip, Whole(ip),
           NEW i \in Table, arp_table[i].ip = ip
    PROVE  i = SlotFor(ip)
<1>1. i \in EntriesOf(ip)
  BY DEF EntriesOf
<1>2. EntriesOf(ip) \in SUBSET Nat
  BY ArpAssumption DEF EntriesOf, Table
<1>3. First(EntriesOf(ip)) \in EntriesOf(ip)
  BY <1>1, <1>2, FirstInSet
<1>4. First(EntriesOf(ip)) = i
  BY <1>1, <1>3 DEF EntriesOf, OneEntryPerHost
<1> QED BY <1>1, <1>4 DEF SlotFor

\* What uip_arp_update keeps and what it leaves behind.
LEMMA UpdateKeeps ==
    ASSUME IInv, NEW ip \in IPs, NEW mac \in Macs, uip_arp_update(ip, mac),
           UNCHANGED <<arptime, ticks>>
    PROVE  /\ arp_table' \in [Table -> Entry]
           /\ stamp' \in [Table -> 0 .. MaxTicks]
           /\ OneEntryPerHost' /\ Aged'
           /\ SlotFor(ip) \in Table
           /\ arp_table'[SlotFor(ip)] = [ip |-> ip, eth |-> mac, time |-> arptime]
<1> DEFINE s == SlotFor(ip)
           e == [ip |-> ip, eth |-> mac, time |-> arptime]
<1>1. s \in Table
  BY SlotInTable
<1>2. e \in Entry /\ e.ip = ip /\ e.time = arptime
  BY DEF Entry, IInv, TypeOK
<1>3. /\ arp_table \in [Table -> Entry] /\ stamp \in [Table -> 0 .. MaxTicks]
      /\ arptime \in 0 .. Wrap - 1 /\ ticks \in 0 .. MaxTicks
      /\ OneEntryPerHost /\ Aged
  BY DEF IInv, TypeOK
<1>4. arp_table' = [arp_table EXCEPT ![s] = e] /\ stamp' = [stamp EXCEPT ![s] = ticks]
  BY DEF uip_arp_update
<1>5. \A i \in Table : i # s /\ Whole(ip) => arp_table[i].ip # ip
  BY SlotIsOnlyOne, <1>3
<1> HIDE DEF s, e
<1>6. arp_table' \in [Table -> Entry] /\ stamp' \in [Table -> 0 .. MaxTicks]
  BY <1>1, <1>2, <1>3, <1>4
<1>7. \A i \in Table : /\ i = s => arp_table'[i] = e /\ stamp'[i] = ticks
                       /\ i # s => arp_table'[i] = arp_table[i] /\ stamp'[i] = stamp[i]
  BY <1>1, <1>3, <1>4
<1>8. OneEntryPerHost'
  <2> SUFFICES ASSUME NEW i \in Table, NEW j \in Table,
                      Whole(arp_table'[i].ip), arp_table'[i].ip = arp_table'[j].ip
               PROVE  i = j
    BY DEF OneEntryPerHost, Table
  <2>1. CASE i = s /\ j # s
    BY <1>2, <1>5, <1>7, <2>1
  <2>2. CASE j = s /\ i # s
    <3>1. Whole(ip) /\ arp_table[i].ip = ip
      BY <1>2, <1>7, <2>2
    <3> QED BY <1>5, <2>2, <3>1
  <2>3. CASE i # s /\ j # s
    <3>1. Whole(arp_table[i].ip) /\ arp_table[i].ip = arp_table[j].ip
      BY <1>7, <2>3
    <3> QED BY <1>3, <3>1 DEF OneEntryPerHost
  <2> QED BY <2>1, <2>2, <2>3
<1>9. Aged'
  BY <1>1, <1>2, <1>3, <1>7, ArpAssumption DEF Aged, Entry
<1> QED BY <1>1, <1>6, <1>7, <1>8, <1>9 DEF s, e

-----------------------------------------------------------------------------
LEMMA InitIInv == Init => IInv
<1> SUFFICES ASSUME Init PROVE IInv
  OBVIOUS
<1>1. \E f : f \in Frames
  <2>1. PICK m : m \in Macs
    BY ArpAssumption
  <2>2. [type |-> "ip", ip |-> Zero, mac |-> m, forUs |-> TRUE] \in Frames
    BY <2>1, ArpAssumption DEF Frames
  <2> QED BY <2>2
<1>2. rcvd \in Frames
  BY <1>1, Zenon DEF Init
<1>3. sent \in SentType /\ sent.kind = "none"
  BY DEF Init, Nothing, SentType
<1>4. arp_table \in [Table -> Entry] /\ stamp \in [Table -> 0 .. MaxTicks]
  BY ArpAssumption DEF Init, Entry, Table
<1>5. TypeOK
  BY <1>2, <1>3, <1>4, ArpAssumption DEF Init, TypeOK
<1>6. OneEntryPerHost
  BY DEF Init, OneEntryPerHost, Whole, Zero
<1>7. AnswerReachesSender
  BY <1>3 DEF AnswerReachesSender
<1>8. Aged
  BY DEF Init, Aged
<1> QED BY <1>5, <1>6, <1>7, <1>8 DEF IInv

\* A round with an IP packet keeps the invariant.
LEMMA IpInStep ==
    ASSUME IInv, NEW ip \in IPs, NEW mac \in Macs, IpIn(ip, mac)
    PROVE  IInv'
<1>1. rcvd' \in Frames /\ rcvd'.ip = ip /\ rcvd'.mac = mac
  BY DEF IpIn, Frames
<1>2. /\ arp_table' \in [Table -> Entry] /\ stamp' \in [Table -> 0 .. MaxTicks]
      /\ OneEntryPerHost' /\ Aged'
  <2>1. CASE ip \in LocalNet
    BY <2>1, UpdateKeeps DEF IpIn, uip_arp_ipin
  <2>2. CASE ip \notin LocalNet
    BY <2>2 DEF IpIn, uip_arp_ipin, IInv, TypeOK, OneEntryPerHost, Aged
  <2> QED BY <2>1, <2>2
<1> DEFINE M == {i \in Table : arp_table'[i].ip = NextHop(ip)}
<1>3. M # {} => First(M) \in M
  BY FirstInSet, ArpAssumption DEF Table
<1>4. uip_arp_out(arp_table', ip) \in SentType
  <2>1. CASE M = {}
    BY <2>1 DEF uip_arp_out, SentType
  <2>2. CASE M # {}
    <3>1. arp_table'[First(M)].eth \in Macs \cup {ZeroMac}
      BY <1>2, <1>3, <2>2 DEF Entry
    <3> HIDE DEF M
    <3>2. uip_arp_out(arp_table', ip) = [kind |-> "ip", eth |-> arp_table'[First(M)].eth]
      BY <2>2 DEF uip_arp_out, M
    <3> QED BY <3>1, <3>2 DEF SentType
  <2> QED BY <2>1, <2>2
<1>5. sent' \in SentType
  BY <1>4 DEF IpIn, Nothing, SentType
<1>6. TypeOK'
  BY <1>1, <1>2, <1>5 DEF TypeOK, IInv, IpIn
<1>7. AnswerReachesSender'
  <2> SUFFICES ASSUME sent'.kind # "none", ip \in LocalNet, Whole(ip)
               PROVE  sent' = [kind |-> "ip", eth |-> mac]
    BY <1>1 DEF AnswerReachesSender
  <2>1. sent' = uip_arp_out(arp_table', ip)
    BY DEF IpIn, Nothing
  <2>2. /\ SlotFor(ip) \in Table
        /\ arp_table'[SlotFor(ip)].ip = ip /\ arp_table'[SlotFor(ip)].eth = mac
    <3>1. uip_arp_update(ip, mac) /\ UNCHANGED <<arptime, ticks>>
      BY DEF IpIn, uip_arp_ipin
    <3>2. /\ SlotFor(ip) \in Table
          /\ arp_table'[SlotFor(ip)] = [ip |-> ip, eth |-> mac, time |-> arptime]
      BY <3>1, UpdateKeeps, Zenon
    <3> QED BY <3>2
  <2>3. SlotFor(ip) \in M /\ NextHop(ip) = ip
    BY <2>2 DEF NextHop
  <2>4. First(M) \in Table /\ arp_table'[First(M)].ip = ip
    BY <1>3, <2>3
  <2>5. First(M) = SlotFor(ip)
    BY <1>2, <2>2, <2>4 DEF OneEntryPerHost
  <2> HIDE DEF M
  <2>6. uip_arp_out(arp_table', ip) = [kind |-> "ip", eth |-> arp_table'[First(M)].eth]
    BY <2>3 DEF uip_arp_out, M
  <2> QED BY <2>1, <2>2, <2>5, <2>6
<1> QED BY <1>2, <1>6, <1>7 DEF IInv

\* So does a round with an ARP packet.
LEMMA ArpInStep ==
    ASSUME IInv, NEW f \in Frames, ArpIn(f)
    PROVE  IInv'
<1>1. f.type # "ip" /\ f.ip \in IPs /\ f.mac \in Macs /\ rcvd' = f
  BY DEF ArpIn, Frames
<1>2. /\ arp_table' \in [Table -> Entry] /\ stamp' \in [Table -> 0 .. MaxTicks]
      /\ OneEntryPerHost' /\ Aged'
  <2>1. CASE f.type = "reply" /\ f.forUs
    BY <1>1, <2>1, UpdateKeeps DEF ArpIn
  <2>2. CASE ~(f.type = "reply" /\ f.forUs)
    BY <2>2 DEF ArpIn, IInv, TypeOK, OneEntryPerHost, Aged
  <2> QED BY <2>1, <2>2
<1>3. sent' \in SentType
  BY <1>1 DEF ArpIn, Nothing, SentType
<1>4. TypeOK'
  BY <1>1, <1>2, <1>3 DEF TypeOK, IInv, ArpIn
<1>5. AnswerReachesSender'
  BY <1>1 DEF AnswerReachesSender
<1> QED BY <1>2, <1>4, <1>5 DEF IInv

\* And the timer: an entry it does not take away keeps its address and time.
LEMMA TimerStep ==
    ASSUME IInv, uip_arp_timer
    PROVE  /\ arp_table' \in [Table -> Entry] /\ arptime' \in 0 .. Wrap - 1
           /\ ticks' \in 0 .. MaxTicks /\ ticks' = ticks + 1 /\ stamp' = stamp
           /\ OneEntryPerHost' /\ Aged'
           /\ \A i \in Table : arp_table'[i].ip # arp_table[i].ip
                                 => arptime' - arp_table[i].time >= MaxAge
<1>1. /\ arp_table \in [Table -> Entry] /\ arptime \in 0 .. Wrap - 1
      /\ ticks \in 0 .. MaxTicks /\ stamp \in [Table -> 0 .. MaxTicks]
      /\ OneEntryPerHost /\ Aged
  BY DEF IInv, TypeOK
<1>2. /\ ticks' \in 0 .. MaxTicks /\ ticks' = ticks + 1 /\ stamp' = stamp
      /\ arptime' \in 0 .. Wrap - 1 /\ arptime' <= arptime + 1
  <2>1. /\ ticks < MaxTicks /\ ticks' = ticks + 1 /\ stamp' = stamp
        /\ arptime' = (arptime + 1) % Wrap
    BY DEF uip_arp_timer, Tick
  <2>2. (arptime + 1) % Wrap \in 0 .. Wrap - 1 /\ (arptime + 1) % Wrap <= arptime + 1
    BY <1>1, ArpAssumption
  <2> QED BY <1>1, <2>1, <2>2, ArpAssumption
<1>3. \A i \in Table :
        \/ arp_table'[i] = arp_table[i]
        \/ /\ arp_table'[i] = [arp_table[i] EXCEPT !.ip = Zero]
           /\ arptime' - arp_table[i].time >= MaxAge
  BY DEF uip_arp_timer, Expired
<1>4. \A i \in Table :
        /\ arp_table'[i] \in Entry /\ arp_table'[i].time = arp_table[i].time
        /\ \/ arp_table'[i].ip = arp_table[i].ip
           \/ arp_table'[i].ip = Zero /\ arptime' - arp_table[i].time >= MaxAge
  <2> TAKE i \in Table
  <2>1. arp_table[i] \in Entry
    BY <1>1
  <2>2. CASE arp_table'[i] = arp_table[i]
    BY <2>1, <2>2
  <2>3. CASE /\ arp_table'[i] = [arp_table[i] EXCEPT !.ip = Zero]
             /\ arptime' - arp_table[i].time >= MaxAge
    BY <2>1, <2>3, ArpAssumption DEF Entry
  <2> QED BY <1>3, <2>2, <2>3
<1>5. arp_table' \in [Table -> Entry]
  <2>1. arp_table' = [i \in Table |-> arp_table'[i]]
    BY DEF uip_arp_timer
  <2> QED BY <1>4, <2>1
<1>6. OneEntryPerHost'
  <2> SUFFICES ASSUME NEW i \in Table, NEW j \in Table,
                      Whole(arp_table'[i].ip), arp_table'[i].ip = arp_table'[j].ip
               PROVE  i = j
    BY DEF OneEntryPerHost, Table
  <2>1. arp_table'[i].ip # Zero
    BY DEF Whole, Zero
  <2> QED BY <1>1, <1>4, <2>1, Zenon DEF OneEntryPerHost
<1>7. Aged'
  <2> SUFFICES ASSUME NEW i \in Table
               PROVE  arptime' - arp_table'[i].time <= ticks' - stamp'[i]
    BY DEF Aged, Table
  <2>1. arptime - arp_table[i].time <= ticks - stamp[i]
    BY <1>1 DEF Aged
  <2>2. arp_table[i].time \in Int /\ stamp[i] \in Int /\ arptime' \in Int
    BY <1>1, <1>2 DEF Entry
  <2>3. arp_table'[i].time = arp_table[i].time
    BY <1>4
  <2> QED BY <1>1, <1>2, <2>1, <2>2, <2>3
<1> QED BY <1>2, <1>4, <1>5, <1>6, <1>7

\* A round without a frame keeps the invariant.
LEMMA PollStep == IInv /\ Poll => IInv'
<1> SUFFICES ASSUME IInv, Poll PROVE IInv'
  OBVIOUS
<1>1. sent' \in SentType /\ sent'.kind = "none" /\ rcvd' = rcvd
  BY DEF Poll, Nothing, SentType
<1>2. AnswerReachesSender'
  BY <1>1 DEF AnswerReachesSender
<1>3. CASE arptimer + 1 = Polls
  <2>1. uip_arp_timer /\ arptimer' = 0
    BY <1>3 DEF Poll
  <2> QED BY <1>1, <1>2, <2>1, TimerStep, ArpAssumption DEF IInv, TypeOK
<1>4. CASE arptimer + 1 # Polls
  <2>1. arptimer' = arptimer + 1 /\ UNCHANGED <<arp_table, arptime, ticks, stamp>>
    BY <1>4 DEF Poll
  <2>2. TypeOK'
    BY <1>1, <1>4, <2>1, ArpAssumption DEF IInv, TypeOK
  <2>3. OneEntryPerHost' /\ Aged'
    BY <2>1 DEF IInv, OneEntryPerHost, Aged
  <2> QED BY <1>2, <2>2, <2>3 DEF IInv
<1> QED BY <1>3, <1>4

\* The inductive invariant holds in every reachable state.
THEOREM Invariant == Spec => []IInv
<1>1. IInv /\ [Next]_vars => IInv'
  <2> SUFFICES ASSUME IInv, [Next]_vars PROVE IInv'
    OBVIOUS
  <2>1. CASE UNCHANGED vars
    BY <2>1 DEF vars, IInv, TypeOK, OneEntryPerHost, AnswerReachesSender, Aged
  <2>2. CASE Next
    BY <2>2, IpInStep, ArpInStep, PollStep DEF Next
  <2> QED BY <2>1, <2>2
<1> QED BY <1>1, InitIInv, PTL DEF Spec

\* The ARP module's variables keep their types.  (uip_arp.c:92-112)
THEOREM TypeCorrect == Spec => []TypeOK
<1>1. IInv => TypeOK
  BY DEF IInv
<1> QED BY <1>1, Invariant, PTL

\* An address has at most one entry in the ARP table.  (uip_arp.c:159-217)
THEOREM OneEntry == Spec => []OneEntryPerHost
<1>1. IInv => OneEntryPerHost
  BY DEF IInv
<1> QED BY <1>1, Invariant, PTL

\* Every answer to a host of the local network is sent to the interface the
\* packet came from; none is replaced by an ARP request.
\* (uip_arp.c:233-250, 350-416)
THEOREM AnswersArrive == Spec => []AnswerReachesSender
<1>1. IInv => AnswerReachesSender
  BY DEF IInv
<1> QED BY <1>1, Invariant, PTL

\* The timer takes no entry away before its time, whatever the width of the
\* tick counter.  (uip_arp.c:142-155)
THEOREM ExpiryNotEarly == Spec => NoEarlyExpiry
<1> DEFINE Late == \A i \in Table :
                      ticks' # ticks /\ arp_table'[i].ip # arp_table[i].ip
                        => ticks' - stamp[i] >= MaxAge
<1>1. IInv /\ [Next]_vars => [Late]_vars
  <2> SUFFICES ASSUME IInv, [Next]_vars, NEW i \in Table,
                      ticks' # ticks, arp_table'[i].ip # arp_table[i].ip
               PROVE  ticks' - stamp[i] >= MaxAge
    BY Zenon
  <2>1. uip_arp_timer
    BY DEF Next, vars, IpIn, ArpIn, Poll, TypeOK, IInv
  <2>2. Aged' /\ stamp' = stamp /\ ticks' \in Int /\ arptime' - arp_table[i].time >= MaxAge
    BY <2>1, TimerStep
  <2>3. stamp[i] \in Int /\ arp_table[i].time \in Int /\ arptime' \in Int
    BY <2>1, TimerStep DEF IInv, TypeOK, Entry
  <2>4. arp_table'[i].time = arp_table[i].time
    BY <2>1 DEF uip_arp_timer, IInv, TypeOK, Entry
  <2>5. arptime' - arp_table[i].time <= ticks' - stamp[i]
    BY <2>2, <2>4 DEF Aged, Table
  <2> QED BY <2>2, <2>3, <2>5, ArpAssumption
<1> QED BY <1>1, Invariant, PTL DEF Spec, NoEarlyExpiry
=============================================================================
