------------------------------- MODULE UipTcp -------------------------------
(***************************************************************************)
(* The TCP input processing of uip_process (httpd/uip.c) as httpd() uses   *)
(* it: passive opens only, no timer calls (uip_periodic is never called),  *)
(* one listening port.  Peers and network are any: a step takes any        *)
(* segment of any peer, so lost, repeated, reordered and stale segments    *)
(* are all included.  Sequence numbers are naturals; what a segment        *)
(* carries is determined by its sequence number.                           *)
(*                                                                         *)
(* Left out: segments that fail the checksum or name another port touch no *)
(* connection; urgent data; timer fields, which only the timer call and    *)
(* the choice among connections in TIME_WAIT (all with timer 0) read.      *)
(***************************************************************************)
EXTENDS Integers

CONSTANTS
    UIP_CONNS,   \* number of connections
    Peers,       \* address and port of the other end
    iss,         \* initial sequence number, which only the timer call changes
    MaxSeq,      \* bound: largest sequence number of a peer
    MaxLen,      \* bound: units of data in a segment
    Acks,        \* acknowledgement numbers of the peers' segments
    FlagSets     \* combinations of control bits the peers send

ASSUME UipTcpAssumption ==
    /\ UIP_CONNS \in Nat \ {0}
    /\ iss \in Nat
    /\ MaxSeq \in Nat /\ MaxLen \in Nat
    /\ Acks \subseteq Nat
    /\ FlagSets \subseteq SUBSET {"SYN", "ACK", "FIN", "RST"}

VARIABLES
    uip_conns,   \* the connections
    call,        \* the call of the application this segment led to, if any
    out          \* the answer to this segment, if any

vars == <<uip_conns, call, out>>

Slots == 1 .. UIP_CONNS

States == {"CLOSED", "SYN_RCVD", "ESTABLISHED", "FIN_WAIT_1", "FIN_WAIT_2",
           "CLOSING", "TIME_WAIT", "LAST_ACK"}

\* struct uip_conn; len is the length of what is sent and not acknowledged.
Connection == [state: States, peer: Peers, snd_nxt: Nat, rcv_nxt: Nat, len: Nat]

\* What a peer may send.
Segments ==
    {s \in [peer: Peers, flags: FlagSets, seq: 0 .. MaxSeq, ack: Acks, len: 0 .. MaxLen] :
        s.seq + s.len < MaxSeq}

\* What the application may do when it is called: send slen units (what the
\* window allows of them), close or abort.
Acts == [does: {"send"}, slen: 0 .. MaxLen] \cup [does: {"close", "abort"}, slen: {0}]

NoCall == [conn |-> 0, flags |-> {}, data |-> {}]
Init ==
    /\ uip_conns \in [Slots -> [state: {"CLOSED"}, peer: Peers, snd_nxt: {0}, rcv_nxt: {0}, len: {0}]]
    /\ call = NoCall
    /\ out = {}

-----------------------------------------------------------------------------
\* tcp_send: the answer carries the connection's numbers.
Answer(c, flags, n) ==
    {[peer |-> c.peer, flags |-> flags, seq |-> c.snd_nxt, ack |-> c.rcv_nxt, len |-> n]}

\* Connection i becomes c, the application is called, answer is sent.
Become(i, c, appcall, answer) ==
    /\ uip_conns' = [uip_conns EXCEPT ![i] = c]
    /\ call' = appcall
    /\ out' = answer

Call(i, flags, s) ==
    [conn |-> i, flags |-> flags \cup (IF s.len > 0 THEN {"NEWDATA"} ELSE {}),
     data |-> s.seq .. s.seq + s.len - 1]
CallOnly(i, flag) == [conn |-> i, flags |-> {flag}, data |-> {}]

-----------------------------------------------------------------------------
(* Demultiplexing.                                                         *)

\* Mutant: a half open connection is not found.
MatchesOpen(s) ==
    {i \in Slots : uip_conns[i].state \notin {"CLOSED", "SYN_RCVD"} /\ uip_conns[i].peer = s.peer}

Matches(s) == {i \in Slots : uip_conns[i].state # "CLOSED" /\ uip_conns[i].peer = s.peer}
Found(s, i) == i \in Matches(s) /\ \A j \in Matches(s) : i <= j

\* An old packet, or no SYN: answered with a RST unless it is one.
Unknown(s) ==
    /\ s.flags # {"SYN"}
    /\ out' = IF "RST" \in s.flags THEN {}
              ELSE {[peer |-> s.peer, flags |-> {"RST", "ACK"}, seq |-> s.ack,
                     ack |-> s.seq + 1, len |-> 0]}
    /\ call' = NoCall
    /\ UNCHANGED uip_conns

\* The first connection that is CLOSED, else the first in TIME_WAIT.
InState(st) == {i \in Slots : uip_conns[i].state = st}
Unused(i) ==
    \/ i \in InState("CLOSED") /\ \A j \in InState("CLOSED") : i <= j
    \/ InState("CLOSED") = {} /\ i \in InState("TIME_WAIT") /\ \A j \in InState("TIME_WAIT") : i <= j

Listen(s, i) ==
    /\ s.flags = {"SYN"}
    /\ Unused(i)
    /\ LET c == [state |-> "SYN_RCVD", peer |-> s.peer, snd_nxt |-> iss,
                 rcv_nxt |-> s.seq + 1, len |-> 1]
       IN Become(i, c, NoCall, Answer(c, {"SYN", "ACK"}, 0))

\* All connections are used: the SYN is dropped.
NoRoom(s) ==
    /\ s.flags = {"SYN"}
    /\ InState("CLOSED") = {} /\ InState("TIME_WAIT") = {}
    /\ call' = NoCall /\ out' = {}
    /\ UNCHANGED uip_conns

-----------------------------------------------------------------------------
(* Input of a segment that belongs to connection i.                        *)

\* Any RST ends the connection.
PeerReset(s, i) ==
    /\ "RST" \in s.flags
    /\ Become(i, [uip_conns[i] EXCEPT !.state = "CLOSED"], CallOnly(i, "ABORT"), {})

\* Mutant: a segment out of sequence is dropped without an answer.
OutOfSequenceSilent(s, i) ==
    /\ "RST" \notin s.flags
    /\ s.len > 0 /\ s.seq # uip_conns[i].rcv_nxt
    /\ Become(i, uip_conns[i], NoCall, {})

\* Only a segment with data must be in sequence; the answer tells what is.
OutOfSequence(s, i) ==
    /\ "RST" \notin s.flags
    /\ s.len > 0 /\ s.seq # uip_conns[i].rcv_nxt
    /\ Become(i, uip_conns[i], NoCall, Answer(uip_conns[i], {"ACK"}, 0))

\* Mutant: sequence numbers are not compared.
AcceptsAny(s, i, state) ==
    /\ "RST" \notin s.flags
    /\ uip_conns[i].state = state

\* The segment is in sequence, or has no data.
Accepts(s, i, state) ==
    /\ "RST" \notin s.flags
    /\ s.len > 0 => s.seq = uip_conns[i].rcv_nxt
    /\ uip_conns[i].state = state

\* Mutant: any ACK acknowledges what is outstanding.
AckDataAny(s, i) == "ACK" \in s.flags /\ uip_conns[i].len > 0

\* The segment acknowledges all that is outstanding (UIP_ACKDATA).
AckData(s, i) ==
    /\ "ACK" \in s.flags
    /\ uip_conns[i].len > 0
    /\ s.ack = uip_conns[i].snd_nxt + uip_conns[i].len

\* The connection after the acknowledgement, its state and len as they were.
Taken(s, i) == [uip_conns[i] EXCEPT !.snd_nxt = IF AckData(s, i) THEN s.ack ELSE @]
WithData(s, i) == [Taken(s, i) EXCEPT !.rcv_nxt = @ + s.len]
\* A FIN takes a sequence number.
Finished(c, st, n) == [c EXCEPT !.rcv_nxt = @ + 1, !.state = st, !.len = n]

\* Mutant: what is sent again counts twice.
OutstandingTwice(len, act) == IF act.slen = 0 THEN 0 ELSE len + act.slen

\* appsend: what the application asked for is done.  len: what is outstanding.
Outstanding(len, act) == IF act.slen = 0 THEN 0 ELSE IF len = 0 THEN act.slen ELSE len
Aborting(c) == [c EXCEPT !.state = "CLOSED"]
Closing(c) == [c EXCEPT !.state = "FIN_WAIT_1", !.len = 1]
Sending(c, len, act) == [c EXCEPT !.len = Outstanding(len, act)]

AppSend(i, c, len, act, appcall) ==
    \/ /\ act.does = "abort"
       /\ Become(i, Aborting(c), appcall, Answer(c, {"RST", "ACK"}, 0))
    \/ /\ act.does = "close"
       /\ Become(i, Closing(c), appcall, Answer(c, {"FIN", "ACK"}, 0))
    \/ /\ act.does = "send"
       /\ Become(i, Sending(c, len, act), appcall,
                 IF act.slen > 0 THEN Answer(c, {"ACK"}, Outstanding(len, act))
                 ELSE IF appcall.data # {} THEN Answer(c, {"ACK"}, 0) ELSE {})

\* SYN_RCVD: our SYN is acknowledged.
SynRcvd(s, i, act) ==
    /\ Accepts(s, i, "SYN_RCVD") /\ AckData(s, i)
    /\ AppSend(i, [WithData(s, i) EXCEPT !.state = "ESTABLISHED", !.len = 0], 0, act,
               Call(i, {"CONNECTED"}, s))

\* ESTABLISHED, FIN: refused while anything is outstanding, even if this very
\* segment acknowledges it.
Fin(s, i) ==
    /\ Accepts(s, i, "ESTABLISHED") /\ "FIN" \in s.flags
    /\ uip_conns[i].len = 0
    /\ LET c == Finished(WithData(s, i), "LAST_ACK", 1)
       IN Become(i, c, Call(i, {"CLOSE"}, s), Answer(c, {"FIN", "ACK"}, 0))

\* ESTABLISHED: new data or an acknowledgement, which the application is told.
Established(s, i, act) ==
    /\ Accepts(s, i, "ESTABLISHED") /\ "FIN" \notin s.flags
    /\ s.len > 0 \/ AckData(s, i)
    /\ AppSend(i, WithData(s, i), IF AckData(s, i) THEN 0 ELSE uip_conns[i].len, act,
               Call(i, IF AckData(s, i) THEN {"ACKDATA"} ELSE {}, s))

\* LAST_ACK: our FIN is acknowledged.
LastAck(s, i) ==
    /\ Accepts(s, i, "LAST_ACK") /\ AckData(s, i)
    /\ Become(i, [Taken(s, i) EXCEPT !.state = "CLOSED"], CallOnly(i, "CLOSE"), {})

\* Mutant: in FIN_WAIT_2 too the peer's FIN must acknowledge ours.
PeerFinClosing(s, i) ==
    /\ Accepts(s, i, "FIN_WAIT_1") \/ Accepts(s, i, "FIN_WAIT_2")
    /\ "FIN" \in s.flags
    /\ LET st == IF AckData(s, i) THEN "TIME_WAIT" ELSE "CLOSING"
           n == IF AckData(s, i) THEN 0 ELSE uip_conns[i].len
           c == Finished(WithData(s, i), st, n)
       IN Become(i, c, CallOnly(i, "CLOSE"), Answer(c, {"ACK"}, 0))

\* FIN_WAIT_1 and FIN_WAIT_2: data is acknowledged and thrown away.
PeerFin(s, i) ==
    /\ Accepts(s, i, "FIN_WAIT_1") \/ Accepts(s, i, "FIN_WAIT_2")
    /\ "FIN" \in s.flags
    /\ LET st == IF uip_conns[i].state = "FIN_WAIT_2" \/ AckData(s, i) THEN "TIME_WAIT" ELSE "CLOSING"
           n == IF AckData(s, i) THEN 0 ELSE uip_conns[i].len
           c == Finished(WithData(s, i), st, n)
       IN Become(i, c, CallOnly(i, "CLOSE"), Answer(c, {"ACK"}, 0))

FinAcked(s, i) ==
    /\ Accepts(s, i, "FIN_WAIT_1") /\ "FIN" \notin s.flags
    /\ AckData(s, i)
    /\ Become(i, [WithData(s, i) EXCEPT !.state = "FIN_WAIT_2", !.len = 0], NoCall, {})

LateData(s, i) ==
    /\ \/ Accepts(s, i, "FIN_WAIT_1") /\ ~AckData(s, i)
       \/ Accepts(s, i, "FIN_WAIT_2")
    /\ "FIN" \notin s.flags /\ s.len > 0
    /\ Become(i, WithData(s, i), NoCall, Answer(WithData(s, i), {"ACK"}, 0))

TimeWait(s, i) ==
    /\ Accepts(s, i, "TIME_WAIT")
    /\ Become(i, Taken(s, i), NoCall, Answer(Taken(s, i), {"ACK"}, 0))

ClosingAcked(s, i) ==
    /\ Accepts(s, i, "CLOSING") /\ AckData(s, i)
    /\ Become(i, [Taken(s, i) EXCEPT !.state = "TIME_WAIT"], NoCall, {})

\* Everything else is dropped, after the acknowledgement has been taken.
Drop(s, i) ==
    /\ \/ \E st \in {"SYN_RCVD", "LAST_ACK", "CLOSING"} : Accepts(s, i, st) /\ ~AckData(s, i)
       \/ /\ Accepts(s, i, "ESTABLISHED")
          /\ IF "FIN" \in s.flags THEN uip_conns[i].len > 0 ELSE s.len = 0 /\ ~AckData(s, i)
       \/ /\ \/ Accepts(s, i, "FIN_WAIT_1") /\ ~AckData(s, i)
             \/ Accepts(s, i, "FIN_WAIT_2")
          /\ "FIN" \notin s.flags /\ s.len = 0
    /\ Become(i, Taken(s, i), NoCall, {})

-----------------------------------------------------------------------------
\* The segment belongs to connection i.  acts: what the application may do.
Input(s, i, acts) ==
    \/ PeerReset(s, i) \/ OutOfSequence(s, i)
    \/ \E act \in acts : SynRcvd(s, i, act) \/ Established(s, i, act)
    \/ Fin(s, i) \/ LastAck(s, i)
    \/ PeerFin(s, i) \/ FinAcked(s, i) \/ LateData(s, i) \/ TimeWait(s, i)
    \/ ClosingAcked(s, i) \/ Drop(s, i)

uip_process(s, acts) ==
    \/ /\ Matches(s) = {}
       /\ Unknown(s) \/ NoRoom(s) \/ \E i \in Slots : Listen(s, i)
    \/ \E i \in Slots : Found(s, i) /\ Input(s, i, acts)

Next == \E s \in Segments : uip_process(s, Acts)

Spec == Init /\ [][Next]_vars
-----------------------------------------------------------------------------
(* Properties.                                                             *)

TypeOK ==
    /\ uip_conns \in [Slots -> Connection]
    /\ call.conn \in Slots \cup {0}
    /\ \A r \in out : r.seq \in Nat /\ r.ack \in Nat /\ r.len \in 0 .. MaxLen

\* A peer has one connection at most, whatever it repeats: were there two, the
\* demultiplexing (uip.c, 830) would hide the second for ever, since nothing
\* but a segment of its peer moves a connection.
OnePerPeer ==
    \A i, j \in Slots :
        /\ uip_conns[i].state # "CLOSED" /\ uip_conns[j].state # "CLOSED"
        /\ uip_conns[i].peer = uip_conns[j].peer
        => i = j

\* uIP as the application sees it.
Status(c) ==
    IF c.state = "CLOSED" THEN "idle"
    ELSE IF c.state = "SYN_RCVD" THEN "half"
    ELSE IF c.state = "ESTABLISHED" THEN "open" ELSE "ending"
NextUnit(c) == IF c.state \in {"SYN_RCVD", "ESTABLISHED"} THEN c.rcv_nxt ELSE 0

Stream == INSTANCE TcpStream WITH
    Conns <- Slots,
    status <- [i \in Slots |-> Status(uip_conns[i])],
    next <- [i \in Slots |-> NextUnit(uip_conns[i])]

\* Whatever the network loses, repeats or reorders, the application is handed
\* each stream in order and without repetition, from the unit after the SYN on
\* (the checks at uip.c 1055 and the additions to rcv_nxt).
InOrder == Stream!Spec
=============================================================================
