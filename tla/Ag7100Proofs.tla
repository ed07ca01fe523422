---------------------------- MODULE Ag7100Proofs ----------------------------
(* Proofs about Ag7100, for every size of the rings.                       *)
EXTENDS Ag7100, TLAPS

USE Ag7100Assumption

N == NO_OF_RX_FIFOS

\* Frames whose descriptors the driver has given back, and full descriptors.
Given == IF pc = "give" THEN taken - 1 ELSE taken
Full == arrived - Given

\* The distance of descriptor i from next_rx, along the ring.
Off(i) == IF i >= next_rx THEN i - next_rx ELSE i - next_rx + N

PCs == {"loop", "check", "copy", "give", "ctrl", "restart", "handle", "wait", "cli"}

Types ==
    /\ is_empty \in [RxRing -> BOOLEAN] /\ packets \in [RxRing -> Nat]
    /\ next_rx \in RxRing /\ rx_desc \in RxRing /\ rx_ctrl \in BOOLEAN
    /\ arrived \in Nat /\ taken \in Nat /\ pc \in PCs

\* The full descriptors are the ones from next_rx on, in the order of arrival,
\* and the engine stands behind the last.
Ring ==
    /\ Full \in 0 .. N
    /\ \A i \in RxRing : is_empty[i] <=> Off(i) >= Full
    /\ \A i \in RxRing : Off(i) < Full => packets[i] = Given + Off(i) + 1
    /\ rx_desc = IF next_rx + Full >= N THEN next_rx + Full - N ELSE next_rx + Full

\* Where reception may be started again, the engine stands at next_rx.
Places ==
    /\ pc \in {"copy", "give"} => Full > 0
    /\ pc = "ctrl" /\ ~rx_ctrl => Full \in {0, N}
    /\ pc = "restart" => ~rx_ctrl /\ Full \in {0, N}

RxInv == Types /\ Ring /\ Places

\* The engine only works for the send that is waiting, or for one given up.
TxInv ==
    /\ tx_owned \in [TxRing -> BOOLEAN] /\ next_tx \in TxRing
    /\ \A d \in TxRing \ late : tx_owned[d] => pc = "wait" /\ d = next_tx
    /\ pc = "wait" => uip_buf = handled

-----------------------------------------------------------------------------
LEMMA SuccType ==
    ASSUME NEW n \in Nat \ {0}, NEW d \in 0 .. n - 1
    PROVE  Succ(d, n) \in 0 .. n - 1
BY DEF Succ

LEMMA RxInit == Init => RxInv
<1> SUFFICES ASSUME Init PROVE RxInv
  OBVIOUS
<1>1. Types
  BY DEF Init, Types, RxRing, PCs
<1>2. Given = 0 /\ Full = 0
  BY DEF Init, Given, Full
<1>3. \A i \in RxRing : Off(i) = i /\ is_empty[i]
  BY DEF Init, Off, RxRing
<1>4. Ring
  BY <1>2, <1>3 DEF Init, Ring, RxRing, N
<1>5. Places
  BY DEF Init, Places
<1> QED BY <1>1, <1>4, <1>5 DEF RxInv

\* What the ring depends on is left alone.
LEMMA RxSame ==
    ASSUME RxInv, UNCHANGED <<is_empty, packets, next_rx, arrived>>,
           Given' = Given, taken' \in Nat, pc' \in PCs
    PROVE  /\ Full' = Full
           /\ \A i \in RxRing : Off(i)' = Off(i)
           /\ rx_desc' = rx_desc => Ring'
           /\ (rx_desc' = rx_desc /\ rx_ctrl' \in BOOLEAN) => Types'
<1>1. Full' = Full
  BY DEF Full
<1>2. \A i \in RxRing : Off(i)' = Off(i)
  BY DEF Off
<1>3. rx_desc' = rx_desc => Ring'
  BY <1>1, <1>2 DEF RxInv, Ring
<1>4. (rx_desc' = rx_desc /\ rx_ctrl' \in BOOLEAN) => Types'
  BY DEF RxInv, Types
<1> QED BY <1>1, <1>2, <1>3, <1>4

LEMMA RxReceive == RxInv /\ DmaReceive => RxInv'
<1> SUFFICES ASSUME RxInv, DmaReceive PROVE RxInv'
  OBVIOUS
<1>1. /\ next_rx \in 0 .. N - 1 /\ rx_desc \in 0 .. N - 1 /\ N \in Nat \ {0}
      /\ Full \in 0 .. N /\ arrived \in Nat /\ Given \in Int
  BY DEF RxInv, Types, RxRing, N, Ring, Given
<1>2. /\ Given' = Given /\ Full' = Full + 1
  BY <1>1 DEF DmaReceive, Given, Full, bufvars
<1>3. Off(rx_desc) >= Full
  BY DEF DmaReceive, RxInv, Types, Ring
<1>4. rx_desc = IF next_rx + Full >= N THEN next_rx + Full - N ELSE next_rx + Full
  BY DEF RxInv, Ring
<1>5. Full < N /\ Off(rx_desc) = Full
  BY <1>1, <1>3, <1>4 DEF Off
<1>6. \A i \in RxRing : Off(i) \in 0 .. N - 1 /\ (Off(i) = Full => i = rx_desc) /\ Off(i)' = Off(i)
  BY <1>1, <1>4 DEF Off, RxRing, N, DmaReceive
<1>7. Types'
  <2>1. rx_desc' \in RxRing
    BY <1>1, SuccType DEF DmaReceive, RxRing, N
  <2> QED BY <2>1 DEF DmaReceive, RxInv, Types, bufvars
<1>8. Ring'
  <2>1. Full' \in 0 .. N
    BY <1>1, <1>2, <1>5
  <2>2. ASSUME NEW i \in RxRing PROVE is_empty'[i] <=> Off(i)' >= Full'
    <3>1. CASE i = rx_desc
      BY <1>1, <1>2, <1>5, <1>6, <3>1 DEF DmaReceive, RxInv, Types
    <3>2. CASE i # rx_desc
      <4>1. is_empty'[i] = is_empty[i] /\ (is_empty[i] <=> Off(i) >= Full)
        BY <3>2 DEF DmaReceive, RxInv, Types, Ring
      <4>2. Off(i) >= Full <=> Off(i)' >= Full'
        BY <1>1, <1>2, <1>6, <3>2
      <4> QED BY <4>1, <4>2
    <3> QED BY <3>1, <3>2
  <2>3. ASSUME NEW i \in RxRing, Off(i)' < Full' PROVE packets'[i] = Given' + Off(i)' + 1
    <3>1. CASE i = rx_desc
      <4>1. packets'[i] = arrived + 1
        BY <3>1 DEF DmaReceive, RxInv, Types
      <4>2. arrived = Given + Full
        BY <1>1 DEF Full
      <4> QED BY <1>1, <1>2, <1>5, <1>6, <3>1, <4>1, <4>2
    <3>2. CASE i # rx_desc
      <4>1. packets'[i] = packets[i] /\ (Off(i) < Full => packets[i] = Given + Off(i) + 1)
        BY <3>2 DEF DmaReceive, RxInv, Types, Ring
      <4>2. Off(i) < Full
        BY <1>1, <1>2, <1>6, <2>3, <3>2
      <4> QED BY <1>2, <1>6, <4>1, <4>2
    <3> QED BY <3>1, <3>2
  <2>4. rx_desc' = IF next_rx' + Full' >= N THEN next_rx' + Full' - N ELSE next_rx' + Full'
    BY <1>1, <1>2, <1>4, <1>5 DEF DmaReceive, Succ, N
  <2> QED BY <2>1, <2>2, <2>3, <2>4 DEF Ring, N
<1>9. Places'
  BY <1>1, <1>2, <1>5 DEF DmaReceive, RxInv, Places
<1> QED BY <1>7, <1>8, <1>9 DEF RxInv

\* The engine stops only when the ring is full.
LEMMA RxStops == RxInv /\ DmaStops => RxInv'
<1> SUFFICES ASSUME RxInv, DmaStops PROVE RxInv'
  OBVIOUS
<1>1. /\ next_rx \in 0 .. N - 1 /\ rx_desc \in 0 .. N - 1 /\ N \in Nat \ {0}
      /\ Full \in 0 .. N
  BY DEF RxInv, Types, RxRing, N, Ring
<1>2. Given' = Given
  BY DEF DmaStops, Given, bufvars
<1>3. Full' = Full /\ Ring' /\ Types'
  BY <1>2, RxSame DEF DmaStops, RxInv, Types, bufvars
<1>4. Off(rx_desc) < Full
  <2>1. rx_desc \in RxRing /\ Off(rx_desc) \in Int
    BY <1>1 DEF RxRing, N, Off
  <2>2. is_empty[rx_desc] <=> Off(rx_desc) >= Full
    BY <2>1 DEF RxInv, Ring
  <2> QED BY <1>1, <2>1, <2>2 DEF DmaStops
<1>5. rx_desc = IF next_rx + Full >= N THEN next_rx + Full - N ELSE next_rx + Full
  BY DEF RxInv, Ring
<1>6. Full = N
  BY <1>1, <1>4, <1>5 DEF Off
<1>7. Places'
  BY <1>1, <1>3, <1>6 DEF DmaStops, RxInv, Places
<1> QED BY <1>3, <1>7 DEF RxInv

LEMMA RxGive == RxInv /\ Give => RxInv'
<1> SUFFICES ASSUME RxInv, Give PROVE RxInv'
  OBVIOUS
<1>1. /\ next_rx \in 0 .. N - 1 /\ rx_desc \in 0 .. N - 1 /\ N \in Nat \ {0}
      /\ Full \in 1 .. N /\ taken \in Nat /\ arrived \in Nat
  BY DEF RxInv, Types, RxRing, N, Ring, Places, Give, Goto
<1>2. Given = taken - 1 /\ Given' = taken /\ Full' = Full - 1
  BY <1>1 DEF Give, Goto, Given, Full, bufvars
<1>3. next_rx' = (IF next_rx + 1 >= N THEN 0 ELSE next_rx + 1) /\ next_rx' \in 0 .. N - 1
  BY <1>1 DEF Give, Succ, N
<1>4. \A i \in RxRing :
        /\ Off(i) \in 0 .. N - 1
        /\ i = next_rx => Off(i) = 0 /\ Off(i)' = N - 1
        /\ i # next_rx => Off(i)' = Off(i) - 1
  BY <1>1, <1>3 DEF Off, RxRing, N
<1>5. Types'
  BY <1>1, <1>3 DEF Give, Goto, RxInv, Types, PCs, RxRing, N, bufvars
<1>6. Ring'
  <2>1. Full' \in 0 .. N
    BY <1>1, <1>2
  <2>2. ASSUME NEW i \in RxRing PROVE is_empty'[i] <=> Off(i)' >= Full'
    <3>1. CASE i = next_rx
      BY <1>1, <1>2, <1>4, <3>1 DEF Give, RxInv, Types
    <3>2. CASE i # next_rx
      <4>1. is_empty'[i] = is_empty[i] /\ (is_empty[i] <=> Off(i) >= Full)
        BY <3>2 DEF Give, RxInv, Types, Ring
      <4>2. Off(i) >= Full <=> Off(i)' >= Full'
        BY <1>1, <1>2, <1>4, <3>2
      <4> QED BY <4>1, <4>2
    <3> QED BY <3>1, <3>2
  <2>3. ASSUME NEW i \in RxRing, Off(i)' < Full' PROVE packets'[i] = Given' + Off(i)' + 1
    <3>1. i # next_rx
      BY <1>1, <1>2, <1>4, <2>3
    <3>2. packets'[i] = packets[i] /\ (Off(i) < Full => packets[i] = Given + Off(i) + 1)
      BY DEF Give, RxInv, Ring
    <3> QED BY <1>1, <1>2, <1>4, <2>3, <3>1, <3>2
  <2>4. rx_desc' = rx_desc /\ rx_desc = IF next_rx + Full >= N THEN next_rx + Full - N ELSE next_rx + Full
    BY DEF Give, RxInv, Ring
  <2>5. rx_desc' = IF next_rx' + Full' >= N THEN next_rx' + Full' - N ELSE next_rx' + Full'
    BY <1>1, <1>2, <1>3, <2>4
  <2> QED BY <2>1, <2>2, <2>3, <2>5 DEF Ring, N
<1>7. Places'
  BY DEF Give, Goto, Places
<1> QED BY <1>5, <1>6, <1>7 DEF RxInv

LEMMA RxClean == RxInv /\ CleanRx => RxInv'
<1> SUFFICES ASSUME RxInv, CleanRx PROVE RxInv'
  OBVIOUS
<1>1. Types'
  BY DEF CleanRx, Goto, RxInv, Types, RxRing, PCs
<1>2. Given' = arrived /\ Full' = 0
  BY DEF CleanRx, Goto, Given, Full, RxInv, Types
<1>3. \A i \in RxRing : Off(i)' = i /\ is_empty'[i]
  BY DEF CleanRx, Off, RxRing
<1>4. Ring'
  BY <1>2, <1>3 DEF CleanRx, Ring, RxRing, N
<1>5. Places'
  BY DEF CleanRx, Goto, Places
<1> QED BY <1>1, <1>4, <1>5 DEF RxInv

\* Reception starts again where the engine stands.
LEMMA RxRestart == RxInv /\ Restart => RxInv'
<1> SUFFICES ASSUME RxInv, Restart PROVE RxInv'
  OBVIOUS
<1>1. next_rx \in 0 .. N - 1 /\ N \in Nat \ {0} /\ Full \in {0, N}
  BY DEF Restart, Goto, RxInv, Types, Places, RxRing, N
<1>2. rx_desc' = rx_desc
  BY <1>1 DEF Restart, RxInv, Ring
<1>3. Given' = Given
  BY DEF Restart, Goto, Given, bufvars
<1>4. Ring' /\ Types'
  BY <1>2, <1>3, RxSame DEF Restart, Goto, RxInv, Types, PCs, bufvars
<1>5. Places'
  BY DEF Restart, Goto, Places
<1> QED BY <1>4, <1>5 DEF RxInv

\* Check looks at the descriptor at distance 0.
LEMMA RxCheck == RxInv /\ Check => RxInv'
<1> SUFFICES ASSUME RxInv, Check PROVE RxInv'
  OBVIOUS
<1>1. next_rx \in 0 .. N - 1 /\ N \in Nat \ {0} /\ Full \in 0 .. N
  BY DEF RxInv, Types, RxRing, N, Ring
<1>2. Given' = Given
  BY DEF Check, Goto, Given, bufvars
<1>3. Full' = Full /\ Ring' /\ Types'
  BY <1>2, RxSame DEF Check, Goto, RxInv, Types, PCs, rxvars, bufvars
<1>4. is_empty[next_rx] <=> 0 >= Full
  <2>1. next_rx \in RxRing /\ Off(next_rx) = 0
    BY <1>1 DEF RxRing, N, Off
  <2> QED BY <2>1 DEF RxInv, Ring
<1>5. Places'
  BY <1>1, <1>3, <1>4 DEF Check, Goto, Places
<1> QED BY <1>3, <1>5 DEF RxInv

LEMMA RxCopy == RxInv /\ Copy => RxInv'
<1> SUFFICES ASSUME RxInv, Copy PROVE RxInv'
  OBVIOUS
<1>1. taken \in Nat
  BY DEF RxInv, Types
<1>2. Given' = Given
  BY <1>1 DEF Copy, Goto, Given
<1>3. Full' = Full /\ Ring' /\ Types'
  BY <1>1, <1>2, RxSame DEF Copy, Goto, RxInv, Types, PCs, rxvars
<1>4. Places'
  BY <1>3 DEF Copy, Goto, RxInv, Places
<1> QED BY <1>3, <1>4 DEF RxInv

LEMMA RxNext == RxInv /\ [Next]_vars => RxInv'
<1> SUFFICES ASSUME RxInv, [Next]_vars PROVE RxInv'
  OBVIOUS
<1>1. CASE DmaReceive
  BY <1>1, RxReceive
<1>2. CASE DmaStops
  BY <1>2, RxStops
<1>3. CASE Check
  BY <1>3, RxCheck
<1>4. CASE Copy
  BY <1>4, RxCopy
<1>5. CASE Give
  BY <1>5, RxGive
<1>6. CASE Restart
  BY <1>6, RxRestart
<1>7. CASE CleanRx
  BY <1>7, RxClean
<1>8. CASE ReadCtrl
  <2>1. Given' = Given
    BY <1>8 DEF ReadCtrl, Goto, Given, bufvars
  <2>2. Full' = Full /\ Ring' /\ Types'
    BY <1>8, <2>1, RxSame DEF ReadCtrl, Goto, RxInv, Types, PCs, rxvars, bufvars
  <2>3. Places'
    BY <1>8, <2>2 DEF ReadCtrl, Goto, RxInv, Places, rxvars
  <2> QED BY <2>2, <2>3 DEF RxInv
<1>9. CASE DmaSends \/ EthRx \/ NoAnswer \/ Send \/ Sent \/ Halt \/ UNCHANGED vars
  <2>1. /\ UNCHANGED <<is_empty, packets, next_rx, rx_desc, arrived, taken>> /\ rx_ctrl' \in BOOLEAN
        /\ UNCHANGED <<rx_ctrl, pc>> \/ pc' \in {"loop", "check", "wait", "cli"}
        /\ pc = "give" <=> pc' = "give"
    BY <1>9 DEF DmaSends, EthRx, NoAnswer, Send, Sent, Halt, vars, Goto, RxInv, Types, rxvars, bufvars
  <2>2. pc' \in PCs /\ Given' = Given
    BY <2>1 DEF RxInv, Types, PCs, Given
  <2>3. Full' = Full /\ Ring' /\ Types'
    BY <2>1, <2>2, RxSame DEF RxInv, Types
  <2>4. Places'
    BY <2>1, <2>3 DEF RxInv, Places
  <2> QED BY <2>3, <2>4 DEF RxInv
<1> QED BY <1>1, <1>2, <1>3, <1>4, <1>5, <1>6, <1>7, <1>8, <1>9 DEF Next, Dma, Recv

\* The driver takes every frame once, in the order of arrival, for every ring
\* size and every interleaving with the DMA engine.
THEOREM FramesInOrder == Spec => []TakesNext
<1>1. RxInv => TakesNext
  <2> SUFFICES ASSUME RxInv, pc = "copy" PROVE ~is_empty[next_rx] /\ packets[next_rx] = taken + 1
    BY DEF TakesNext
  <2>1. Full > 0 /\ Given = taken /\ taken \in Nat /\ Full \in 0 .. N
    BY DEF RxInv, Places, Given, Types, Ring
  <2>2. next_rx \in RxRing /\ Off(next_rx) = 0
    BY DEF RxInv, Types, RxRing, Off
  <2>3. is_empty[next_rx] <=> 0 >= Full
    BY <2>2 DEF RxInv, Ring
  <2>4. packets[next_rx] = Given + 0 + 1
    BY <2>1, <2>2 DEF RxInv, Ring
  <2> QED BY <2>1, <2>3, <2>4
<1> QED BY <1>1, RxInit, RxNext, PTL DEF Spec

-----------------------------------------------------------------------------
LEMMA TxInit == Init => TxInv
BY DEF Init, TxInv, TxRing

LEMMA TxNext == TxInv /\ [Next]_vars => TxInv'
<1> SUFFICES ASSUME TxInv, [Next]_vars PROVE TxInv'
  OBVIOUS
<1>1. CASE DmaSends
  BY <1>1 DEF DmaSends, TxInv, bufvars
<1>2. CASE Send
  BY <1>2 DEF Send, Goto, TxInv
<1>3. CASE Sent
  <2>1. next_tx' \in TxRing
    BY <1>3, SuccType DEF Sent, TxInv, TxRing
  <2>2. \A d \in TxRing \ late' : ~tx_owned'[d]
    BY <1>3 DEF Sent, TxInv
  <2> QED BY <1>3, <2>1, <2>2 DEF Sent, Goto, TxInv
<1>4. CASE DmaReceive \/ DmaStops \/ UNCHANGED vars
  BY <1>4 DEF DmaReceive, DmaStops, vars, TxInv, txvars, bufvars
<1>5. CASE Recv \/ NoAnswer \/ Halt \/ CleanRx
  <2>1. UNCHANGED <<tx_owned, next_tx, late>> /\ pc # "wait" /\ pc' # "wait"
    BY <1>5 DEF Recv, EthRx, Check, Copy, Give, ReadCtrl, Restart, NoAnswer, Halt, CleanRx, Goto, txvars
  <2> QED BY <2>1 DEF TxInv
<1> QED BY <1>1, <1>2, <1>3, <1>4, <1>5 DEF Next, Dma

LEMMA SendsStep ==
    TxInv /\ [Next]_vars
      => [\A d \in TxRing \ late : tx_owned[d] /\ ~tx_owned'[d] => wire' = handled]_vars
<1> SUFFICES ASSUME TxInv, [Next]_vars, NEW d \in TxRing \ late, tx_owned[d], ~tx_owned'[d]
             PROVE  wire' = handled
  OBVIOUS
<1>1. CASE DmaSends
  <2>1. PICK e \in TxRing : /\ tx_owned' = [tx_owned EXCEPT ![e] = FALSE]
                            /\ wire' \in IF e \in late THEN {0, uip_buf} ELSE {uip_buf}
    BY <1>1 DEF DmaSends
  <2>2. d = e
    BY <2>1 DEF TxInv
  <2>3. uip_buf = handled
    BY DEF TxInv
  <2> QED BY <2>1, <2>2, <2>3
<1>2. CASE Send
  BY <1>2 DEF Send, TxInv
<1>3. CASE DmaReceive \/ DmaStops \/ UNCHANGED vars \/ Sent
  BY <1>3 DEF DmaReceive, DmaStops, vars, txvars, Sent
<1>5. CASE Recv \/ NoAnswer \/ Halt \/ CleanRx
  BY <1>5 DEF Recv, EthRx, Check, Copy, Give, ReadCtrl, Restart, NoAnswer, Halt, CleanRx, txvars
<1> QED BY <1>1, <1>2, <1>3, <1>5 DEF Next, Dma

\* What the engine sends for a send that is not given up is its answer,
\* though frames are received in the buffer it is sent from.
THEOREM AnswersSent == Spec => SendsAnswer
BY TxInit, TxNext, SendsStep, PTL DEF Spec, SendsAnswer
=============================================================================
