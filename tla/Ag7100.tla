------------------------------- MODULE Ag7100 -------------------------------
(***************************************************************************)
(* The Ethernet driver (cpu/mips/ar9100/ag7100.c) under the loop of        *)
(* httpd(): the processor and the DMA engine share the rings of            *)
(* descriptors and run side by side.  The DMA engine is modelled from how  *)
(* the driver uses it: it fills the descriptors it owns in ring order and  *)
(* clears AG7100_DMA_RX_CTRL when it meets one it does not own.            *)
(*                                                                         *)
(* A frame is the number of its arrival; the answer to it has its number.  *)
(* Left out: cache flushes, the PHY, frames that come while reception is   *)
(* off (they are lost).                                                    *)
(***************************************************************************)
EXTENDS Integers

CONSTANTS
    NO_OF_RX_FIFOS, NO_OF_TX_FIFOS,
    MaxFrames,    \* bound: frames that arrive
    MaxAborts     \* bound: Ctrl-C

ASSUME Ag7100Assumption ==
    /\ NO_OF_RX_FIFOS \in Nat \ {0} /\ NO_OF_TX_FIFOS \in Nat \ {0}
    /\ MaxFrames \in Nat /\ MaxAborts \in Nat

VARIABLES
    is_empty,   \* of each receive descriptor: the DMA engine owns it
    packets,    \* NetRxPackets: the frame in each receive buffer
    next_rx,
    rx_desc,    \* the descriptor the DMA engine fills next
    rx_ctrl,    \* AG7100_DMA_RX_CTRL: reception is on
    arrived,    \* frames that have arrived
    tx_owned,   \* of each transmit descriptor: the DMA engine owns it
    next_tx,
    late,       \* transmit descriptors given up by a send that timed out
    wire,       \* the last frame sent
    pc,         \* where the processor is
    uip_buf,    \* the frame in the buffer uip_buf
    uip_len,    \* there is a frame to handle: uip_len # 0
    taken,      \* frames copied to uip_buf, or discarded by ag7100_clean_rx
    handled,    \* the last frame handled
    aborts      \* how often Ctrl-C has come

rxvars == <<is_empty, packets, next_rx, rx_desc, rx_ctrl, arrived>>
txvars == <<tx_owned, next_tx, late, wire>>
bufvars == <<uip_buf, uip_len, taken, handled>>
vars == <<rxvars, txvars, bufvars, pc, aborts>>

RxRing == 0 .. NO_OF_RX_FIFOS - 1
TxRing == 0 .. NO_OF_TX_FIFOS - 1

\* ag7100_setup_fifos and ag7100_clean_rx have run.
Init ==
    /\ is_empty = [d \in RxRing |-> TRUE]
    /\ packets = [d \in RxRing |-> 0]
    /\ next_rx = 0 /\ rx_desc = 0 /\ rx_ctrl = TRUE /\ arrived = 0
    /\ tx_owned = [d \in TxRing |-> FALSE]
    /\ next_tx = 0 /\ late = {} /\ wire = 0
    /\ pc = "loop"
    /\ uip_buf = 0 /\ uip_len = FALSE /\ taken = 0 /\ handled = 0
    /\ aborts = 0

Succ(d, n) == IF d + 1 >= n THEN 0 ELSE d + 1
Goto(here, there) == pc = here /\ pc' = there

-----------------------------------------------------------------------------
(* The DMA engine.                                                         *)

DmaReceive ==
    /\ rx_ctrl /\ is_empty[rx_desc]
    /\ arrived < MaxFrames
    /\ arrived' = arrived + 1
    /\ packets' = [packets EXCEPT ![rx_desc] = arrived + 1]
    /\ is_empty' = [is_empty EXCEPT ![rx_desc] = FALSE]
    /\ rx_desc' = Succ(rx_desc, NO_OF_RX_FIFOS)
    /\ UNCHANGED <<next_rx, rx_ctrl, txvars, bufvars, pc, aborts>>

DmaStops ==
    /\ rx_ctrl /\ ~is_empty[rx_desc]
    /\ rx_ctrl' = FALSE
    /\ UNCHANGED <<is_empty, packets, next_rx, rx_desc, arrived, txvars, bufvars, pc, aborts>>

\* What is in the buffer at this moment goes out; from a descriptor that has
\* been given up, and its address cleared, anything may.
DmaSends ==
    \E d \in TxRing :
        /\ tx_owned[d]
        /\ tx_owned' = [tx_owned EXCEPT ![d] = FALSE]
        /\ wire' \in IF d \in late THEN {0, uip_buf} ELSE {uip_buf}
        /\ late' = late \ {d}
        /\ UNCHANGED <<rxvars, next_tx, bufvars, pc, aborts>>

-----------------------------------------------------------------------------
(* ag7100_recv, called by eth_rx() in the loop of httpd().                 *)

\* uip_len = 0
EthRx ==
    /\ Goto("loop", "check")
    /\ uip_len' = FALSE
    /\ UNCHANGED <<rxvars, txvars, uip_buf, taken, handled, aborts>>

Check ==
    /\ IF is_empty[next_rx] THEN Goto("check", "ctrl") ELSE Goto("check", "copy")
    /\ UNCHANGED <<rxvars, txvars, bufvars, aborts>>

\* Mutant: the first frame of a burst is kept.
CopyFirst ==
    /\ Goto("copy", "give")
    /\ uip_buf' = IF uip_len THEN uip_buf ELSE packets[next_rx]
    /\ uip_len' = TRUE
    /\ taken' = taken + 1
    /\ UNCHANGED <<rxvars, txvars, handled, aborts>>

\* The frame overwrites the one before it.
Copy ==
    /\ Goto("copy", "give")
    /\ uip_buf' = packets[next_rx] /\ uip_len' = TRUE
    /\ taken' = taken + 1
    /\ UNCHANGED <<rxvars, txvars, handled, aborts>>

Give ==
    /\ Goto("give", "check")
    /\ is_empty' = [is_empty EXCEPT ![next_rx] = TRUE]
    /\ next_rx' = Succ(next_rx, NO_OF_RX_FIFOS)
    /\ UNCHANGED <<packets, rx_desc, rx_ctrl, arrived, txvars, bufvars, aborts>>

ReadCtrl ==
    /\ IF rx_ctrl THEN Goto("ctrl", "handle") ELSE Goto("ctrl", "restart")
    /\ UNCHANGED <<rxvars, txvars, bufvars, aborts>>

\* Mutant: reception starts again at the head of the ring.
RestartHead ==
    /\ Goto("restart", "handle")
    /\ rx_desc' = 0 /\ rx_ctrl' = TRUE
    /\ UNCHANGED <<is_empty, packets, next_rx, arrived, txvars, bufvars, aborts>>

\* Mutant: the engine gets its descriptor and is not switched on.
RestartOff ==
    /\ Goto("restart", "handle")
    /\ rx_desc' = next_rx
    /\ UNCHANGED <<is_empty, packets, next_rx, rx_ctrl, arrived, txvars, bufvars, aborts>>

\* f is the descriptor at which the loop has ended.
Restart ==
    /\ Goto("restart", "handle")
    /\ rx_desc' = next_rx /\ rx_ctrl' = TRUE
    /\ UNCHANGED <<is_empty, packets, next_rx, arrived, txvars, bufvars, aborts>>

-----------------------------------------------------------------------------
(* The rest of the loop of httpd(), and ag7100_send.                       *)

\* There is no frame, or it has no answer.
NoAnswer ==
    /\ Goto("handle", "loop")
    /\ handled' = IF uip_len THEN uip_buf ELSE handled
    /\ UNCHANGED <<rxvars, txvars, uip_buf, uip_len, taken, aborts>>

\* Mutant: the driver does not wait for the engine.
SendOnly ==
    /\ Goto("handle", "loop")
    /\ uip_len /\ handled' = uip_buf
    /\ tx_owned' = [tx_owned EXCEPT ![next_tx] = TRUE]
    /\ late' = late \ {next_tx}
    /\ next_tx' = Succ(next_tx, NO_OF_TX_FIFOS)
    /\ UNCHANGED <<rxvars, wire, uip_buf, uip_len, taken, aborts>>

\* The answer has taken the frame's place in uip_buf; ag7100_send gives the
\* descriptor to the DMA engine.
Send ==
    /\ Goto("handle", "wait")
    /\ uip_len /\ handled' = uip_buf
    /\ tx_owned' = [tx_owned EXCEPT ![next_tx] = TRUE]
    /\ late' = late \ {next_tx}
    /\ UNCHANGED <<rxvars, next_tx, wire, uip_buf, uip_len, taken, aborts>>

\* The wait ends: the engine has given the descriptor back, or MAX_WAIT rounds
\* have passed and the driver goes on while the engine still has it.
Sent ==
    /\ Goto("wait", "loop")
    /\ late' = late \cup {d \in {next_tx} : tx_owned[d]}
    /\ next_tx' = Succ(next_tx, NO_OF_TX_FIFOS)
    /\ UNCHANGED <<rxvars, tx_owned, wire, bufvars, aborts>>

-----------------------------------------------------------------------------
(* Ctrl-C and the way back.                                                *)

\* httpd() looks for Ctrl-C before it handles the frame; ag7100_halt.
Halt ==
    /\ Goto("handle", "cli")
    /\ aborts < MaxAborts /\ aborts' = aborts + 1
    /\ rx_ctrl' = FALSE
    /\ UNCHANGED <<is_empty, packets, next_rx, rx_desc, arrived, txvars, bufvars>>

\* backup_mode_handle: eth_init runs ag7100_clean_rx, then httpd() starts.  With
\* one MII ag7100_check_link finds the link up always.
CleanRx ==
    /\ Goto("cli", "loop")
    /\ next_rx' = 0
    /\ is_empty' = [d \in RxRing |-> TRUE]
    /\ rx_desc' = 0 /\ rx_ctrl' = TRUE
    /\ taken' = arrived
    /\ UNCHANGED <<packets, arrived, txvars, uip_buf, uip_len, handled, aborts>>

-----------------------------------------------------------------------------
Recv == EthRx \/ Check \/ Copy \/ Give \/ ReadCtrl \/ Restart
Dma == DmaReceive \/ DmaStops \/ DmaSends

Next ==
    \/ Dma
    \/ Recv \/ NoAnswer \/ Send \/ Sent
    \/ Halt \/ CleanRx

\* The loop of httpd() blocks nowhere.  Nothing is assumed of the wire, of the
\* DMA engine or of the user at the console.
Fairness == WF_vars(Recv \/ NoAnswer \/ Send \/ Sent)

Spec == Init /\ [][Next]_vars /\ Fairness

-----------------------------------------------------------------------------
(* Properties.                                                             *)

\* The driver takes the frames in the order of their arrival, each once: the
\* processor's place in the ring and the engine's stay together, however they
\* overtake each other, also when the ring runs over and reception is started
\* again at a descriptor the engine has filled meanwhile (ag7100.c, 252-255),
\* and when httpd() is left and entered again.
TakesNext == pc = "copy" => ~is_empty[next_rx] /\ packets[next_rx] = taken + 1

\* Of a burst the last frame is handled, though the copies of the others are
\* overwritten in uip_buf (ag7100.c, 222-227): a peer that waits for the answer
\* before it sends again loses nothing.  Only Ctrl-C lets go of a frame.
LastHandled ==
    \A n \in 1 .. MaxFrames :
        (arrived = n /\ taken < n /\ pc # "cli") ~> (handled = n \/ arrived > n \/ pc = "cli")

\* The ring never stays dead: reception that is off because the ring ran over
\* comes back, wherever in ag7100_recv the processor was when the engine stopped
\* (ag7100.c, 253-256), unless httpd() is left.
Revives == (~rx_ctrl /\ pc # "cli") ~> (rx_ctrl \/ pc = "cli")

\* What goes out is the answer that was handed to ag7100_send, though the next
\* frame is received in the same buffer, unless the send has been given up
\* (ag7100.c, 142-147).
SendsAnswer ==
    [][\A d \in TxRing \ late : tx_owned[d] /\ ~tx_owned'[d] => wire' = handled]_vars
=============================================================================
