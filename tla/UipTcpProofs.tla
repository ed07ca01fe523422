---------------------------- MODULE UipTcpProofs ----------------------------
(* Proofs about UipTcp, for every number of connections, set of peers and  *)
(* segments.                                                               *)
EXTENDS UipTcp, TLAPS

USE UipTcpAssumption DEF Slots

\* len is what an answer carries when it is sent again, so while a connection
\* is ESTABLISHED it must be the length of a segment; the 1 that stands for a
\* SYN or FIN in other states need not be.
LenOK == \A i \in Slots : uip_conns[i].state = "ESTABLISHED" => uip_conns[i].len \in 0 .. MaxLen

ConnsOK == uip_conns \in [Slots -> Connection]
AnswerOK(o) == \A r \in o : r.seq \in Nat /\ r.ack \in Nat /\ r.len \in 0 .. MaxLen
CallOK(a) == a.conn \in Slots \cup {0}

IInv == ConnsOK /\ LenOK /\ AnswerOK(out) /\ CallOK(call)

-----------------------------------------------------------------------------
(* What the steps write is well formed.                                    *)

\* A step that rewrites one connection keeps the invariant when what it writes
\* is well formed (the assignments through uip_connr in uip_process).
LEMMA BecomeKeeps ==
    ASSUME IInv, NEW i \in Slots, NEW c \in Connection, NEW a, NEW o,
           Become(i, c, a, o), CallOK(a), AnswerOK(o),
           c.state = "ESTABLISHED" => c.len \in 0 .. MaxLen
    PROVE  IInv'
<1>1. uip_conns' = [uip_conns EXCEPT ![i] = c] /\ call' = a /\ out' = o
  BY DEF Become
<1>2. ConnsOK'
  BY <1>1 DEF IInv, ConnsOK
<1>3. LenOK'
  BY <1>1 DEF IInv, ConnsOK, LenOK
<1>4. CallOK(call)' /\ AnswerOK(out)'
  BY <1>1 DEF CallOK, AnswerOK
<1> QED BY <1>2, <1>3, <1>4 DEF IInv

\* tcp_send fills in numbers of the connection.
LEMMA AnswerType ==
    ASSUME NEW c \in Connection, NEW flags, NEW n \in 0 .. MaxLen
    PROVE  AnswerOK(Answer(c, flags, n))
<1>1. c.snd_nxt \in Nat /\ c.rcv_nxt \in Nat BY DEF Connection
<1> QED BY <1>1 DEF AnswerOK, Answer

\* A segment as the network may bring it: any numbers, but the first unit of a
\* stream and the units of a segment stay within the bound of the stream.
Arriving(s) ==
    /\ s.peer \in Peers /\ s.seq \in Nat /\ s.ack \in Nat /\ s.len \in 0 .. MaxSeq
    /\ s.flags = {"SYN"} => s.seq + 1 \in 0 .. MaxSeq

\* The segments of UipTcp are such.
LEMMA SegmentArriving ==
    ASSUME NEW s \in Segments
    PROVE  Arriving(s)
<1>1. s \in [peer: Peers, flags: FlagSets, seq: 0 .. MaxSeq, ack: Acks, len: 0 .. MaxLen]
  BY DEF Segments
<1>2. s.seq + s.len < MaxSeq
  BY DEF Segments
<1>3. s.peer \in Peers /\ s.seq \in 0 .. MaxSeq /\ s.ack \in Acks /\ s.len \in 0 .. MaxLen
  BY <1>1
<1>4. s.ack \in Nat
  BY <1>3, Zenon
<1>5. s.seq \in Nat /\ s.len \in 0 .. MaxSeq /\ s.seq + 1 \in 0 .. MaxSeq
  BY <1>2, <1>3
<1> QED BY <1>3, <1>4, <1>5 DEF Arriving

\* Taking the acknowledgement and the data of a segment keeps the connection
\* well formed and its peer, state and len as they were.
LEMMA TakenType ==
    ASSUME ConnsOK, NEW s, Arriving(s), NEW i \in Slots
    PROVE  /\ Taken(s, i) \in Connection
           /\ WithData(s, i) \in Connection
           /\ Taken(s, i).state = uip_conns[i].state /\ Taken(s, i).len = uip_conns[i].len
           /\ Taken(s, i).peer = uip_conns[i].peer /\ Taken(s, i).rcv_nxt = uip_conns[i].rcv_nxt
           /\ WithData(s, i).state = uip_conns[i].state /\ WithData(s, i).len = uip_conns[i].len
           /\ WithData(s, i).peer = uip_conns[i].peer
           /\ WithData(s, i).rcv_nxt = uip_conns[i].rcv_nxt + s.len
<1>1. uip_conns[i] \in Connection BY DEF ConnsOK
<1>2. s.ack \in Nat /\ s.len \in Nat BY DEF Arriving
<1>3. Taken(s, i) \in Connection
  BY <1>1, <1>2 DEF Taken, Connection
<1>4. /\ Taken(s, i).state = uip_conns[i].state /\ Taken(s, i).len = uip_conns[i].len
      /\ Taken(s, i).peer = uip_conns[i].peer /\ Taken(s, i).rcv_nxt = uip_conns[i].rcv_nxt
  BY <1>1 DEF Taken, Connection
<1>5. WithData(s, i) \in Connection
  BY <1>2, <1>3 DEF WithData, Connection
<1>6. /\ WithData(s, i).state = Taken(s, i).state /\ WithData(s, i).len = Taken(s, i).len
      /\ WithData(s, i).peer = Taken(s, i).peer
      /\ WithData(s, i).rcv_nxt = Taken(s, i).rcv_nxt + s.len
  BY <1>3 DEF WithData, Connection
<1> QED BY <1>3, <1>4, <1>5, <1>6

\* A FIN takes one sequence number and moves the connection on.
LEMMA FinType ==
    ASSUME NEW d \in Connection, NEW st \in States, NEW n \in Nat
    PROVE  /\ Finished(d, st, n) \in Connection
           /\ Finished(d, st, n).state = st /\ Finished(d, st, n).peer = d.peer
<1> DEFINE d1 == [d EXCEPT !.rcv_nxt = @ + 1]
           d2 == [d1 EXCEPT !.state = st]
           d3 == [d2 EXCEPT !.len = n]
<1>1. d1 \in Connection /\ d1.peer = d.peer
  BY DEF Connection
<1>2. d2 \in Connection /\ d2.peer = d1.peer /\ d2.state = st
  <2> HIDE DEF d1
  <2> QED BY <1>1 DEF Connection
<1>3. d3 \in Connection /\ d3.peer = d2.peer /\ d3.state = d2.state
  <2> HIDE DEF d2
  <2> QED BY <1>2 DEF Connection
<1>4. Finished(d, st, n) = d3
  BY DEF Finished
<1> HIDE DEF d1, d2, d3
<1> QED BY <1>1, <1>2, <1>3, <1>4

LEMMA CallType ==
    ASSUME NEW i \in Slots, NEW flags, NEW flag, NEW s
    PROVE  CallOK(Call(i, flags, s)) /\ CallOK(CallOnly(i, flag)) /\ CallOK(NoCall)
BY DEF CallOK, Call, CallOnly, NoCall

\* appsend writes a well formed connection and answer.
LEMMA AppSendKeeps ==
    ASSUME IInv, NEW i \in Slots, NEW c \in Connection, NEW len \in 0 .. MaxLen,
           NEW act \in Acts, NEW a, CallOK(a), AppSend(i, c, len, act, a)
    PROVE  IInv'
<1>1. act.slen \in 0 .. MaxLen
  BY DEF Acts
<1>2. Outstanding(len, act) \in 0 .. MaxLen
  BY <1>1 DEF Outstanding
<1>3. CASE act.does = "abort" /\ Become(i, Aborting(c), a, Answer(c, {"RST", "ACK"}, 0))
  <2>1. Aborting(c) \in Connection /\ Aborting(c).state = "CLOSED"
    BY DEF Aborting, Connection, States
  <2> QED BY <1>3, <2>1, AnswerType, BecomeKeeps
<1>4. CASE act.does = "close" /\ Become(i, Closing(c), a, Answer(c, {"FIN", "ACK"}, 0))
  <2>1. Closing(c) \in Connection /\ Closing(c).state = "FIN_WAIT_1"
    BY DEF Closing, Connection, States
  <2> QED BY <1>4, <2>1, AnswerType, BecomeKeeps
<1>5. CASE /\ act.does = "send"
           /\ Become(i, Sending(c, len, act), a,
                     IF act.slen > 0 THEN Answer(c, {"ACK"}, Outstanding(len, act))
                     ELSE IF a.data # {} THEN Answer(c, {"ACK"}, 0) ELSE {})
  <2>1. Sending(c, len, act) \in Connection /\ Sending(c, len, act).len \in 0 .. MaxLen
    BY <1>2 DEF Sending, Connection
  <2>2. AnswerOK({})
    BY DEF AnswerOK
  <2>3. AnswerOK(IF act.slen > 0 THEN Answer(c, {"ACK"}, Outstanding(len, act))
                 ELSE IF a.data # {} THEN Answer(c, {"ACK"}, 0) ELSE {})
    BY <1>2, <2>2, AnswerType
  <2> QED BY <1>5, <2>1, <2>3, BecomeKeeps
<1> QED BY <1>3, <1>4, <1>5 DEF AppSend

-----------------------------------------------------------------------------
(* Type correctness.                                                       *)

\* Every way uip_process ends for a segment of connection i (uip.c from label
\* found on) keeps the invariant.
LEMMA InputKeeps ==
    ASSUME IInv, NEW s, Arriving(s), NEW i \in Slots, Input(s, i, Acts)
    PROVE  IInv'
<1>a. uip_conns[i] \in Connection
  BY DEF IInv, ConnsOK
<1>b. ConnsOK /\ LenOK
  BY DEF IInv
<1>d. AnswerOK({}) /\ 0 \in 0 .. MaxLen
  BY DEF AnswerOK
<1>t. /\ Taken(s, i) \in Connection /\ WithData(s, i) \in Connection
      /\ Taken(s, i).state = uip_conns[i].state /\ Taken(s, i).len = uip_conns[i].len
      /\ WithData(s, i).state = uip_conns[i].state /\ WithData(s, i).len = uip_conns[i].len
  BY <1>b, TakenType
<1>e. uip_conns[i].state = "ESTABLISHED" => uip_conns[i].len \in 0 .. MaxLen
  BY <1>b DEF LenOK
<1>1. CASE PeerReset(s, i)
  <2> DEFINE c == [uip_conns[i] EXCEPT !.state = "CLOSED"]
  <2>1. c \in Connection /\ c.state = "CLOSED"
    BY <1>a DEF Connection, States
  <2>2. Become(i, c, CallOnly(i, "ABORT"), {})
    BY <1>1 DEF PeerReset
  <2> HIDE DEF c
  <2> QED BY <2>1, <2>2, <1>d, CallType, BecomeKeeps
<1>2. CASE OutOfSequence(s, i)
  <2>1. Become(i, uip_conns[i], NoCall, Answer(uip_conns[i], {"ACK"}, 0))
    BY <1>2 DEF OutOfSequence
  <2> QED BY <2>1, <1>a, <1>d, <1>e, AnswerType, CallType, BecomeKeeps
<1>3. ASSUME NEW act \in Acts, SynRcvd(s, i, act) PROVE IInv'
  <2> DEFINE c == [WithData(s, i) EXCEPT !.state = "ESTABLISHED", !.len = 0]
  <2>1. c \in Connection
    BY <1>t DEF Connection, States
  <2>2. AppSend(i, c, 0, act, Call(i, {"CONNECTED"}, s))
    BY <1>3 DEF SynRcvd
  <2> HIDE DEF c
  <2> QED BY <2>1, <2>2, <1>d, CallType, AppSendKeeps
<1>4. ASSUME NEW act \in Acts, Established(s, i, act) PROVE IInv'
  <2> DEFINE n == IF AckData(s, i) THEN 0 ELSE uip_conns[i].len
             a == Call(i, IF AckData(s, i) THEN {"ACKDATA"} ELSE {}, s)
  <2>1. AppSend(i, WithData(s, i), n, act, a)
    BY <1>4 DEF Established
  <2>2. n \in 0 .. MaxLen
    BY <1>4, <1>d, <1>e DEF Established, Accepts
  <2>3. CallOK(a)
    BY CallType
  <2> HIDE DEF n, a
  <2> QED BY <2>1, <2>2, <2>3, <1>t, AppSendKeeps
<1>5. CASE Fin(s, i)
  <2> DEFINE c == Finished(WithData(s, i), "LAST_ACK", 1)
  <2>0. "LAST_ACK" \in States /\ 1 \in Nat
    BY DEF States
  <2>1. c \in Connection /\ c.state = "LAST_ACK"
    BY <1>t, <2>0, FinType
  <2>2. Become(i, c, Call(i, {"CLOSE"}, s), Answer(c, {"FIN", "ACK"}, 0))
    BY <1>5 DEF Fin
  <2> HIDE DEF c
  <2> QED BY <2>1, <2>2, <1>d, AnswerType, CallType, BecomeKeeps
<1>6. CASE LastAck(s, i)
  <2> DEFINE c == [Taken(s, i) EXCEPT !.state = "CLOSED"]
  <2>1. c \in Connection /\ c.state = "CLOSED"
    BY <1>t DEF Connection, States
  <2>2. Become(i, c, CallOnly(i, "CLOSE"), {})
    BY <1>6 DEF LastAck
  <2> HIDE DEF c
  <2> QED BY <2>1, <2>2, <1>d, CallType, BecomeKeeps
<1>7. CASE PeerFin(s, i)
  <2> DEFINE st == IF uip_conns[i].state = "FIN_WAIT_2" \/ AckData(s, i) THEN "TIME_WAIT" ELSE "CLOSING"
             n == IF AckData(s, i) THEN 0 ELSE uip_conns[i].len
             c == Finished(WithData(s, i), st, n)
  <2>1. Become(i, c, CallOnly(i, "CLOSE"), Answer(c, {"ACK"}, 0))
    BY <1>7 DEF PeerFin
  <2>2. st \in {"TIME_WAIT", "CLOSING"} /\ n \in Nat
    BY <1>a DEF Connection
  <2>f. st \in States
    BY <2>2 DEF States
  <2> HIDE DEF st, n
  <2>3. c \in Connection /\ c.state # "ESTABLISHED"
    BY <1>t, <2>2, <2>f, FinType
  <2> HIDE DEF c
  <2> QED BY <2>1, <2>3, <1>d, AnswerType, CallType, BecomeKeeps
<1>8. CASE FinAcked(s, i)
  <2> DEFINE c == [WithData(s, i) EXCEPT !.state = "FIN_WAIT_2", !.len = 0]
  <2>1. c \in Connection /\ c.state = "FIN_WAIT_2"
    BY <1>t DEF Connection, States
  <2>2. Become(i, c, NoCall, {})
    BY <1>8 DEF FinAcked
  <2> HIDE DEF c
  <2> QED BY <2>1, <2>2, <1>d, CallType, BecomeKeeps
<1>9. CASE LateData(s, i)
  <2>1. Become(i, WithData(s, i), NoCall, Answer(WithData(s, i), {"ACK"}, 0))
    BY <1>9 DEF LateData
  <2> QED BY <2>1, <1>t, <1>d, <1>e, AnswerType, CallType, BecomeKeeps
<1>10. CASE TimeWait(s, i)
  <2>1. Become(i, Taken(s, i), NoCall, Answer(Taken(s, i), {"ACK"}, 0))
    BY <1>10 DEF TimeWait
  <2> QED BY <2>1, <1>t, <1>d, <1>e, AnswerType, CallType, BecomeKeeps
<1>11. CASE ClosingAcked(s, i)
  <2> DEFINE c == [Taken(s, i) EXCEPT !.state = "TIME_WAIT"]
  <2>1. c \in Connection /\ c.state = "TIME_WAIT"
    BY <1>t DEF Connection, States
  <2>2. Become(i, c, NoCall, {})
    BY <1>11 DEF ClosingAcked
  <2> HIDE DEF c
  <2> QED BY <2>1, <2>2, <1>d, CallType, BecomeKeeps
<1>12. CASE Drop(s, i)
  <2>1. Become(i, Taken(s, i), NoCall, {})
    BY <1>12 DEF Drop
  <2> QED BY <2>1, <1>t, <1>d, <1>e, CallType, BecomeKeeps
<1> QED BY <1>1, <1>2, <1>3, <1>4, <1>5, <1>6, <1>7, <1>8, <1>9, <1>10, <1>11, <1>12 DEF Input

\* A segment of no connection: a new one, a RST or nothing (uip.c 840-1029).
LEMMA NoConnKeeps ==
    ASSUME IInv, NEW s, Arriving(s),
           Unknown(s) \/ NoRoom(s) \/ \E i \in Slots : Listen(s, i)
    PROVE  IInv'
<1>s. s.peer \in Peers /\ s.seq \in Nat /\ s.ack \in Nat
  BY DEF Arriving
<1>1. CASE Unknown(s)
  <2>1. uip_conns' = uip_conns /\ call' = NoCall
    BY <1>1 DEF Unknown
  <2>2. ConnsOK' /\ LenOK' /\ CallOK(call)'
    BY <2>1 DEF IInv, ConnsOK, LenOK, CallOK, NoCall
  <2>3. AnswerOK(out)'
    BY <1>1, <1>s DEF Unknown, AnswerOK
  <2> QED BY <2>2, <2>3 DEF IInv
<1>2. CASE NoRoom(s)
  BY <1>2 DEF NoRoom, IInv, ConnsOK, LenOK, CallOK, NoCall, AnswerOK
<1>3. ASSUME NEW i \in Slots, Listen(s, i) PROVE IInv'
  <2> DEFINE c == [state |-> "SYN_RCVD", peer |-> s.peer, snd_nxt |-> iss, rcv_nxt |-> s.seq + 1, len |-> 1]
  <2>1. c \in Connection /\ c.state = "SYN_RCVD"
    BY <1>s DEF Connection, States
  <2>2. Become(i, c, NoCall, Answer(c, {"SYN", "ACK"}, 0))
    BY <1>3 DEF Listen
  <2>3. 0 \in 0 .. MaxLen
    OBVIOUS
  <2> HIDE DEF c
  <2> QED BY <2>1, <2>2, <2>3, AnswerType, CallType, BecomeKeeps
<1> QED BY <1>1, <1>2, <1>3

\* The invariant holds at the start, and uip_process keeps it.
LEMMA InitKeeps ==
    ASSUME Init
    PROVE  IInv
<1>1. ConnsOK
  BY DEF Init, ConnsOK, Connection, States
<1>2. LenOK
  BY DEF Init, LenOK
<1>3. AnswerOK(out) /\ CallOK(call)
  BY DEF Init, AnswerOK, CallOK, NoCall
<1> QED BY <1>1, <1>2, <1>3 DEF IInv

LEMMA ProcessKeeps ==
    ASSUME IInv, NEW s, Arriving(s), uip_process(s, Acts)
    PROVE  IInv'
BY InputKeeps, NoConnKeeps DEF uip_process

LEMMA IInvInductive == Spec => []IInv
<1>1. Init => IInv
  BY InitKeeps
<1>2. IInv /\ [Next]_vars => IInv'
  <2> SUFFICES ASSUME IInv, [Next]_vars PROVE IInv'
    OBVIOUS
  <2>1. CASE Next
    <3>1. PICK s \in Segments : uip_process(s, Acts)
      BY <2>1 DEF Next
    <3> QED BY <3>1, SegmentArriving, ProcessKeeps
  <2>2. CASE UNCHANGED vars
    BY <2>2 DEF vars, IInv, ConnsOK, LenOK, AnswerOK, CallOK
  <2> QED BY <2>1, <2>2
<1> QED BY <1>1, <1>2, PTL DEF Spec

\* uIP's connections, answers and calls keep their types whatever segments
\* arrive; in particular no answer is longer than a segment may be, also when
\* old data is sent again (uip.c, 1320-1330).
THEOREM TypeCorrect == Spec => []TypeOK
<1>1. IInv => TypeOK
  BY DEF IInv, TypeOK, ConnsOK, AnswerOK, CallOK
<1> QED BY <1>1, IInvInductive, PTL

-----------------------------------------------------------------------------
(* Steps as the application sees them.                                     *)

StatusMap == [j \in Slots |-> Status(uip_conns[j])]
NextMap == [j \in Slots |-> NextUnit(uip_conns[j])]

\* A step that makes c of connection i moves i alone to the status of c.
LEMMA GoOnMap ==
    ASSUME ConnsOK, NEW i \in Slots, NEW c \in Connection, NEW a, NEW o, Become(i, c, a, o),
           NEW k, c.state \in {"SYN_RCVD", "ESTABLISHED"} => k = c.rcv_nxt
    PROVE  Stream!GoOn(i, Status(c), k)
<1>1. uip_conns' = [uip_conns EXCEPT ![i] = c]
  BY DEF Become
<1>2. \A j \in Slots : uip_conns'[j] = IF j = i THEN c ELSE uip_conns[j]
  BY <1>1 DEF ConnsOK
<1>3. StatusMap' = [StatusMap EXCEPT ![i] = Status(c)]
  BY <1>2 DEF StatusMap
<1>4. NextUnit(c) = IF Status(c) \in {"half", "open"} THEN k ELSE 0
  BY DEF NextUnit, Status
<1>5. NextMap' = [NextMap EXCEPT ![i] = NextUnit(c)]
  BY <1>2 DEF NextMap
<1> QED BY <1>3, <1>4, <1>5 DEF Stream!GoOn, StatusMap, NextMap

\* A step without a call that keeps the connection's status is silent.
LEMMA SilentMap ==
    ASSUME ConnsOK, NEW i \in Slots, NEW c \in Connection, NEW o, Become(i, c, NoCall, o),
           Status(c) = Status(uip_conns[i]), NextUnit(c) = NextUnit(uip_conns[i])
    PROVE  Stream!Silent
<1>1. uip_conns' = [uip_conns EXCEPT ![i] = c] /\ call' = NoCall
  BY DEF Become
<1>2. \A j \in Slots : uip_conns'[j] = IF j = i THEN c ELSE uip_conns[j]
  BY <1>1 DEF ConnsOK
<1>3. \A j \in Slots : Status(uip_conns'[j]) = Status(uip_conns[j])
  BY <1>2
<1>4. \A j \in Slots : NextUnit(uip_conns'[j]) = NextUnit(uip_conns[j])
  BY <1>2
<1>5. StatusMap' = StatusMap /\ NextMap' = NextMap
  BY <1>3, <1>4 DEF StatusMap, NextMap
<1> QED BY <1>1, <1>5 DEF Stream!Silent, Stream!NoCall, NoCall, StatusMap, NextMap

\* The units a segment in sequence hands over are the next ones of the stream.
LEMMA CallMap ==
    ASSUME NEW i, NEW why, NEW s, Arriving(s), NEW k \in Nat, s.len > 0 => s.seq = k
    PROVE  Call(i, why, s) = Stream!Call(i, Stream!Flags(s.len, why), k, s.len)
<1>1. s.seq \in Nat /\ s.len \in Nat
  BY DEF Arriving
<1>2. s.seq .. s.seq + s.len - 1 = k .. k + s.len - 1
  <2>1. CASE s.len > 0
    BY <2>1
  <2>2. CASE s.len = 0
    BY <1>1, <2>2
  <2> QED BY <1>1, <2>1, <2>2
<1> QED BY <1>2 DEF Call, Stream!Call, Stream!Flags

LEMMA CallOnlyMap ==
    ASSUME NEW i, NEW flag
    PROVE  CallOnly(i, flag) = Stream!Call(i, {flag}, 0, 0)
<1>1. 0 .. 0 + 0 - 1 = {}
  OBVIOUS
<1> QED BY <1>1 DEF CallOnly, Stream!Call

\* appsend leaves a connection open, ending or idle, with what was handed over
\* counted.
LEMMA AppSendMap ==
    ASSUME ConnsOK, NEW i \in Slots, NEW c \in Connection, c.state = "ESTABLISHED",
           NEW len, NEW act \in Acts, NEW a, AppSend(i, c, len, act, a),
           Outstanding(len, act) \in Nat
    PROVE  call' = a /\ \E st \in {"open", "ending", "idle"} : Stream!GoOn(i, st, c.rcv_nxt)
<1>0. act.does \in {"send", "close", "abort"}
  BY DEF Acts
<1>1. CASE act.does = "abort"
  <2>1. Become(i, Aborting(c), a, Answer(c, {"RST", "ACK"}, 0))
    BY <1>1 DEF AppSend
  <2>2. Aborting(c) \in Connection /\ Aborting(c).state = "CLOSED"
    BY DEF Aborting, Connection, States
  <2>3. Stream!GoOn(i, Status(Aborting(c)), c.rcv_nxt)
    BY <2>1, <2>2, GoOnMap
  <2>4. Status(Aborting(c)) = "idle"
    BY <2>2 DEF Status
  <2> QED BY <2>1, <2>3, <2>4 DEF Become
<1>2. CASE act.does = "close"
  <2>1. Become(i, Closing(c), a, Answer(c, {"FIN", "ACK"}, 0))
    BY <1>2 DEF AppSend
  <2>2. Closing(c) \in Connection /\ Closing(c).state = "FIN_WAIT_1"
    BY DEF Closing, Connection, States
  <2>3. Stream!GoOn(i, Status(Closing(c)), c.rcv_nxt)
    BY <2>1, <2>2, GoOnMap
  <2>4. Status(Closing(c)) = "ending"
    BY <2>2 DEF Status
  <2> QED BY <2>1, <2>3, <2>4 DEF Become
<1>3. CASE act.does = "send"
  <2> DEFINE d == Sending(c, len, act)
             o == IF act.slen > 0 THEN Answer(c, {"ACK"}, Outstanding(len, act))
                  ELSE IF a.data # {} THEN Answer(c, {"ACK"}, 0) ELSE {}
  <2>1. Become(i, d, a, o)
    BY <1>3 DEF AppSend
  <2>2. d \in Connection /\ d.state = "ESTABLISHED" /\ d.rcv_nxt = c.rcv_nxt
    BY DEF Sending, Connection
  <2> HIDE DEF d, o
  <2>3. Stream!GoOn(i, Status(d), c.rcv_nxt)
    BY <2>1, <2>2, GoOnMap
  <2>4. Status(d) = "open"
    BY <2>2 DEF Status
  <2> QED BY <2>1, <2>3, <2>4 DEF Become
<1> QED BY <1>0, <1>1, <1>2, <1>3

\* Every way uip_process ends for a segment of connection i is a step of the
\* abstract stream.
LEMMA InputRefines ==
    ASSUME IInv, NEW s, Arriving(s), NEW i \in Slots,
           uip_conns[i].state # "CLOSED", Input(s, i, Acts)
    PROVE  Stream!Next
<1>a. uip_conns[i] \in Connection /\ ConnsOK /\ LenOK
  BY DEF IInv, ConnsOK
<1>s. s.len \in Nat /\ s.len \in 0 .. MaxSeq /\ s.seq \in Nat
  BY DEF Arriving
<1>c. uip_conns[i].state \in States /\ uip_conns[i].rcv_nxt \in Nat /\ uip_conns[i].len \in Nat
  BY <1>a DEF Connection
<1>t. /\ Taken(s, i) \in Connection /\ WithData(s, i) \in Connection
      /\ Taken(s, i).state = uip_conns[i].state /\ Taken(s, i).rcv_nxt = uip_conns[i].rcv_nxt
      /\ WithData(s, i).state = uip_conns[i].state
      /\ WithData(s, i).rcv_nxt = uip_conns[i].rcv_nxt + s.len
  BY <1>a, TakenType
<1>m. /\ StatusMap[i] = Status(uip_conns[i])
      /\ NextMap[i] = NextUnit(uip_conns[i])
  BY DEF StatusMap, NextMap
<1>q. Taken(s, i).state = uip_conns[i].state => /\ Status(Taken(s, i)) = Status(uip_conns[i])
                                              /\ NextUnit(Taken(s, i)) = NextUnit(uip_conns[i])
  BY <1>t DEF Status, NextUnit
<1>1. CASE PeerReset(s, i)
  <2> DEFINE c == [uip_conns[i] EXCEPT !.state = "CLOSED"]
  <2>1. c \in Connection /\ c.state = "CLOSED"
    BY <1>a DEF Connection, States
  <2>2. Become(i, c, CallOnly(i, "ABORT"), {})
    BY <1>1 DEF PeerReset
  <2> HIDE DEF c
  <2>3. Stream!GoOn(i, "idle", 0)
    BY <2>1, <2>2, <1>a, GoOnMap DEF Status
  <2>4. call' = Stream!Call(i, {"ABORT"}, 0, 0)
    BY <2>2, CallOnlyMap DEF Become
  <2>5. StatusMap[i] # "idle"
    BY <1>m DEF Status
  <2> QED BY <2>3, <2>4, <2>5 DEF Stream!Next, Stream!Aborted, StatusMap
<1>2. CASE OutOfSequence(s, i)
  <2>1. Become(i, uip_conns[i], NoCall, Answer(uip_conns[i], {"ACK"}, 0))
    BY <1>2 DEF OutOfSequence
  <2> QED BY <2>1, <1>a, SilentMap DEF Stream!Next
<1>3. ASSUME NEW act \in Acts, SynRcvd(s, i, act) PROVE Stream!Next
  <2> DEFINE c == [WithData(s, i) EXCEPT !.state = "ESTABLISHED", !.len = 0]
  <2>1. c \in Connection /\ c.state = "ESTABLISHED" /\ c.rcv_nxt = uip_conns[i].rcv_nxt + s.len
    BY <1>t DEF Connection, States
  <2>2. AppSend(i, c, 0, act, Call(i, {"CONNECTED"}, s))
    BY <1>3 DEF SynRcvd
  <2>3. Outstanding(0, act) \in Nat
    BY DEF Outstanding, Acts
  <2> HIDE DEF c
  <2>4. /\ call' = Call(i, {"CONNECTED"}, s)
        /\ \E st \in {"open", "ending", "idle"} : Stream!GoOn(i, st, uip_conns[i].rcv_nxt + s.len)
    BY <2>1, <2>2, <2>3, <1>a, AppSendMap
  <2>5. uip_conns[i].state = "SYN_RCVD" /\ (s.len > 0 => s.seq = uip_conns[i].rcv_nxt)
    BY <1>3 DEF SynRcvd, Accepts
  <2>6. StatusMap[i] = "half" /\ NextMap[i] = uip_conns[i].rcv_nxt
    BY <2>5, <1>m DEF Status, NextUnit
  <2>7. call' = Stream!Call(i, Stream!Flags(s.len, {"CONNECTED"}), NextMap[i], s.len)
    BY <2>4, <2>5, <2>6, <1>c, CallMap
  <2>8. Stream!Hand(i, {"CONNECTED"}, {"open", "ending", "idle"})
    BY <2>4, <2>6, <2>7, <1>s DEF Stream!Hand, NextMap
  <2> QED BY <2>6, <2>8 DEF Stream!Next, Stream!Connected, StatusMap
<1>4. ASSUME NEW act \in Acts, Established(s, i, act) PROVE Stream!Next
  <2> DEFINE n == IF AckData(s, i) THEN 0 ELSE uip_conns[i].len
             why == IF AckData(s, i) THEN {"ACKDATA"} ELSE {}
  <2>1. AppSend(i, WithData(s, i), n, act, Call(i, why, s))
    BY <1>4 DEF Established
  <2>2. uip_conns[i].state = "ESTABLISHED" /\ (s.len > 0 => s.seq = uip_conns[i].rcv_nxt)
    BY <1>4 DEF Established, Accepts
  <2>3. n \in Nat /\ why \in {{}, {"ACKDATA"}}
    BY <1>c
  <2> HIDE DEF n, why
  <2>4. Outstanding(n, act) \in Nat
    BY <2>3 DEF Outstanding, Acts
  <2>5. /\ call' = Call(i, why, s)
        /\ \E st \in {"open", "ending", "idle"} : Stream!GoOn(i, st, uip_conns[i].rcv_nxt + s.len)
    BY <2>1, <2>2, <2>4, <1>a, <1>t, AppSendMap
  <2>6. StatusMap[i] = "open" /\ NextMap[i] = uip_conns[i].rcv_nxt
    BY <2>2, <1>m DEF Status, NextUnit
  <2>7. call' = Stream!Call(i, Stream!Flags(s.len, why), NextMap[i], s.len)
    BY <2>2, <2>5, <2>6, <1>c, CallMap
  <2>8. Stream!Hand(i, why, {"open", "ending", "idle"})
    BY <2>5, <2>6, <2>7, <1>s DEF Stream!Hand, NextMap
  <2>9. \E w \in {{}, {"ACKDATA"}} : Stream!Hand(i, w, {"open", "ending", "idle"})
    BY <2>3, <2>8, Zenon
  <2>10. Stream!Data(i)
    BY <2>6, <2>9 DEF Stream!Data, StatusMap
  <2> QED BY <2>10 DEF Stream!Next
<1>5. CASE Fin(s, i)
  <2> DEFINE c == Finished(WithData(s, i), "LAST_ACK", 1)
  <2>0. "LAST_ACK" \in States /\ 1 \in Nat
    BY DEF States
  <2>1. c \in Connection /\ c.state = "LAST_ACK"
    BY <1>t, <2>0, FinType
  <2>2. Become(i, c, Call(i, {"CLOSE"}, s), Answer(c, {"FIN", "ACK"}, 0))
    BY <1>5 DEF Fin
  <2>3. uip_conns[i].state = "ESTABLISHED" /\ (s.len > 0 => s.seq = uip_conns[i].rcv_nxt)
    BY <1>5 DEF Fin, Accepts
  <2> HIDE DEF c
  <2>4. Status(c) = "ending"
    BY <2>1 DEF Status
  <2>5. Stream!GoOn(i, "ending", uip_conns[i].rcv_nxt + s.len)
    BY <2>1, <2>2, <2>4, <1>a, GoOnMap
  <2>6. StatusMap[i] = "open" /\ NextMap[i] = uip_conns[i].rcv_nxt
    BY <2>3, <1>m DEF Status, NextUnit
  <2>7. call' = Stream!Call(i, Stream!Flags(s.len, {"CLOSE"}), NextMap[i], s.len)
    BY <2>2, <2>3, <2>6, <1>c, CallMap DEF Become
  <2>8. Stream!Hand(i, {"CLOSE"}, {"ending"})
    BY <2>5, <2>6, <2>7, <1>s DEF Stream!Hand, NextMap
  <2> QED BY <2>6, <2>8 DEF Stream!Next, Stream!Finish, StatusMap
<1>6. CASE LastAck(s, i)
  <2> DEFINE c == [Taken(s, i) EXCEPT !.state = "CLOSED"]
  <2>1. c \in Connection /\ c.state = "CLOSED"
    BY <1>t DEF Connection, States
  <2>2. Become(i, c, CallOnly(i, "CLOSE"), {}) /\ uip_conns[i].state = "LAST_ACK"
    BY <1>6 DEF LastAck, Accepts
  <2> HIDE DEF c
  <2>3. Status(c) = "idle"
    BY <2>1 DEF Status
  <2>4. Stream!GoOn(i, "idle", 0)
    BY <2>1, <2>2, <2>3, <1>a, GoOnMap
  <2>5. call' = Stream!Call(i, {"CLOSE"}, 0, 0)
    BY <2>2, CallOnlyMap DEF Become
  <2>6. StatusMap[i] = "ending"
    BY <2>2, <1>m DEF Status
  <2> QED BY <2>4, <2>5, <2>6 DEF Stream!Next, Stream!Closed, StatusMap
<1>7. CASE PeerFin(s, i)
  <2> DEFINE st == IF uip_conns[i].state = "FIN_WAIT_2" \/ AckData(s, i) THEN "TIME_WAIT" ELSE "CLOSING"
             n == IF AckData(s, i) THEN 0 ELSE uip_conns[i].len
             c == Finished(WithData(s, i), st, n)
  <2>1. Become(i, c, CallOnly(i, "CLOSE"), Answer(c, {"ACK"}, 0))
    BY <1>7 DEF PeerFin
  <2>2. st \in {"TIME_WAIT", "CLOSING"} /\ n \in Nat
    BY <1>c
  <2>3. uip_conns[i].state \in {"FIN_WAIT_1", "FIN_WAIT_2"}
    BY <1>7 DEF PeerFin, Accepts
  <2>f. st \in States
    BY <2>2 DEF States
  <2> HIDE DEF st, n
  <2>4. c \in Connection /\ c.state \in {"TIME_WAIT", "CLOSING"}
    BY <1>t, <2>2, <2>f, FinType
  <2> HIDE DEF c
  <2>5. Status(c) = "ending"
    BY <2>4 DEF Status
  <2>6. Stream!GoOn(i, "ending", 0)
    BY <2>1, <2>4, <2>5, <1>a, GoOnMap
  <2>7. call' = Stream!Call(i, {"CLOSE"}, 0, 0)
    BY <2>1, CallOnlyMap DEF Become
  <2>8. StatusMap[i] = "ending"
    BY <2>3, <1>m DEF Status
  <2> QED BY <2>6, <2>7, <2>8 DEF Stream!Next, Stream!Closed, StatusMap
<1>8. CASE FinAcked(s, i)
  <2> DEFINE c == [WithData(s, i) EXCEPT !.state = "FIN_WAIT_2", !.len = 0]
  <2>1. c \in Connection /\ c.state = "FIN_WAIT_2"
    BY <1>t DEF Connection, States
  <2>2. Become(i, c, NoCall, {}) /\ uip_conns[i].state = "FIN_WAIT_1"
    BY <1>8 DEF FinAcked, Accepts
  <2> HIDE DEF c
  <2>3. Status(c) = Status(uip_conns[i]) /\ NextUnit(c) = NextUnit(uip_conns[i])
    BY <2>1, <2>2 DEF Status, NextUnit
  <2> QED BY <2>1, <2>2, <2>3, <1>a, SilentMap DEF Stream!Next
<1>9. CASE LateData(s, i)
  <2>1. /\ Become(i, WithData(s, i), NoCall, Answer(WithData(s, i), {"ACK"}, 0))
        /\ uip_conns[i].state \in {"FIN_WAIT_1", "FIN_WAIT_2"}
    BY <1>9 DEF LateData, Accepts
  <2>2. Status(WithData(s, i)) = Status(uip_conns[i]) /\ NextUnit(WithData(s, i)) = NextUnit(uip_conns[i])
    BY <2>1, <1>t DEF Status, NextUnit
  <2> QED BY <2>1, <2>2, <1>a, <1>t, SilentMap DEF Stream!Next
<1>10. CASE TimeWait(s, i)
  <2>1. Become(i, Taken(s, i), NoCall, Answer(Taken(s, i), {"ACK"}, 0))
    BY <1>10 DEF TimeWait
  <2> QED BY <2>1, <1>a, <1>t, <1>q, SilentMap DEF Stream!Next
<1>11. CASE ClosingAcked(s, i)
  <2> DEFINE c == [Taken(s, i) EXCEPT !.state = "TIME_WAIT"]
  <2>1. c \in Connection /\ c.state = "TIME_WAIT"
    BY <1>t DEF Connection, States
  <2>2. Become(i, c, NoCall, {}) /\ uip_conns[i].state = "CLOSING"
    BY <1>11 DEF ClosingAcked, Accepts
  <2> HIDE DEF c
  <2>3. Status(c) = Status(uip_conns[i]) /\ NextUnit(c) = NextUnit(uip_conns[i])
    BY <2>1, <2>2 DEF Status, NextUnit
  <2> QED BY <2>1, <2>2, <2>3, <1>a, SilentMap DEF Stream!Next
<1>12. CASE Drop(s, i)
  <2>1. Become(i, Taken(s, i), NoCall, {})
    BY <1>12 DEF Drop
  <2> QED BY <2>1, <1>a, <1>t, <1>q, SilentMap DEF Stream!Next
<1> QED BY <1>1, <1>2, <1>3, <1>4, <1>5, <1>6, <1>7, <1>8, <1>9, <1>10, <1>11, <1>12 DEF Input

\* A segment of no connection starts one or is not seen by the application.
LEMMA NoConnRefines ==
    ASSUME IInv, NEW s, Arriving(s),
           Unknown(s) \/ NoRoom(s) \/ \E i \in Slots : Listen(s, i)
    PROVE  Stream!Next
<1>a. ConnsOK
  BY DEF IInv
<1>s. s.peer \in Peers /\ s.seq \in Nat
  BY DEF Arriving
<1>1. CASE Unknown(s) \/ NoRoom(s)
  <2>1. uip_conns' = uip_conns /\ call' = NoCall
    BY <1>1 DEF Unknown, NoRoom
  <2> QED BY <2>1 DEF Stream!Next, Stream!Silent, Stream!NoCall, NoCall
<1>2. ASSUME NEW i \in Slots, Listen(s, i) PROVE Stream!Next
  <2> DEFINE c == [state |-> "SYN_RCVD", peer |-> s.peer, snd_nxt |-> iss, rcv_nxt |-> s.seq + 1, len |-> 1]
  <2>1. c \in Connection /\ c.state = "SYN_RCVD" /\ c.rcv_nxt = s.seq + 1
    BY <1>s DEF Connection, States
  <2>2. Become(i, c, NoCall, Answer(c, {"SYN", "ACK"}, 0)) /\ s.seq + 1 \in 0 .. MaxSeq
    BY <1>2 DEF Listen, Arriving
  <2>3. uip_conns[i].state \in {"CLOSED", "TIME_WAIT"}
    BY <1>2 DEF Listen, Unused, InState
  <2> HIDE DEF c
  <2>4. Status(c) = "half"
    BY <2>1 DEF Status
  <2>5. Stream!GoOn(i, "half", s.seq + 1)
    BY <2>1, <2>2, <2>4, <1>a, GoOnMap
  <2>6. StatusMap[i] \in {"idle", "ending"}
    BY <2>3 DEF StatusMap, Status
  <2>7. call' = Stream!NoCall
    BY <2>2 DEF Become, NoCall, Stream!NoCall
  <2> QED BY <2>2, <2>5, <2>6, <2>7 DEF Stream!Next, Stream!Start, StatusMap
<1> QED BY <1>1, <1>2

\* What a frame does is a step of the abstract stream.
LEMMA ProcessRefines ==
    ASSUME IInv, NEW s, Arriving(s), uip_process(s, Acts)
    PROVE  Stream!Next
<1>1. CASE Unknown(s) \/ NoRoom(s) \/ \E i \in Slots : Listen(s, i)
  BY <1>1, NoConnRefines
<1>2. ASSUME NEW i \in Slots, Found(s, i), Input(s, i, Acts) PROVE Stream!Next
  <2>1. uip_conns[i].state # "CLOSED"
    BY <1>2 DEF Found, Matches
  <2> QED BY <1>2, <2>1, InputRefines
<1> QED BY <1>1, <1>2 DEF uip_process

\* Without connections there is no stream.
LEMMA InitRefines ==
    ASSUME Init
    PROVE  Stream!Init
<1>1. \A i \in Slots : uip_conns[i].state = "CLOSED"
  BY DEF Init
<1>2. \A i \in Slots : Status(uip_conns[i]) = "idle" /\ NextUnit(uip_conns[i]) = 0
  BY <1>1 DEF Status, NextUnit
<1> QED BY <1>2 DEF Init, Stream!Init, NoCall, Stream!NoCall

\* uIP implements the abstract stream: over any network the application is
\* handed what the peer sent in order, every unit once, and is told of the
\* beginning and the end of a connection in the order TcpStream allows.
THEOREM Refines == Spec => InOrder
<1>1. Init => Stream!Init
  BY InitRefines
<1>2. IInv /\ [Next]_vars => [Stream!Next]_(Stream!svars)
  <2> SUFFICES ASSUME IInv, [Next]_vars PROVE [Stream!Next]_(Stream!svars)
    OBVIOUS
  <2>1. CASE Next
    <3>1. PICK s \in Segments : uip_process(s, Acts)
      BY <2>1 DEF Next
    <3> QED BY <3>1, SegmentArriving, ProcessRefines
  <2>2. CASE UNCHANGED vars
    BY <2>2 DEF vars, Stream!svars
  <2> QED BY <2>1, <2>2
<1> QED BY <1>1, <1>2, IInvInductive, PTL DEF Spec, InOrder, Stream!Spec

-----------------------------------------------------------------------------
(* One connection for each peer.                                           *)

\* A step that closes a connection or keeps its peer adds no connection.
LEMMA KeepsOnePerPeer ==
    ASSUME ConnsOK, OnePerPeer, NEW i \in Slots, NEW c, NEW a, NEW o, Become(i, c, a, o),
           uip_conns[i].state # "CLOSED", c.state # "CLOSED" => c.peer = uip_conns[i].peer
    PROVE  OnePerPeer'
<1>1. \A j \in Slots : uip_conns'[j] = IF j = i THEN c ELSE uip_conns[j]
  BY DEF Become, ConnsOK
<1> QED BY <1>1 DEF OnePerPeer

LEMMA InputOnePerPeer ==
    ASSUME IInv, OnePerPeer, NEW s, Arriving(s), NEW i \in Slots,
           uip_conns[i].state # "CLOSED", Input(s, i, Acts)
    PROVE  OnePerPeer'
<1>a. uip_conns[i] \in Connection /\ ConnsOK
  BY DEF IInv, ConnsOK
<1>t. /\ Taken(s, i) \in Connection /\ WithData(s, i) \in Connection
      /\ Taken(s, i).peer = uip_conns[i].peer /\ WithData(s, i).peer = uip_conns[i].peer
  BY <1>a, TakenType
<1>k. ASSUME NEW c, NEW a, NEW o, Become(i, c, a, o), c.peer = uip_conns[i].peer
      PROVE  OnePerPeer'
  BY <1>a, <1>k, KeepsOnePerPeer
<1>p. ASSUME NEW c \in Connection, c.peer = uip_conns[i].peer, NEW len, NEW act, NEW a,
             AppSend(i, c, len, act, a)
      PROVE  OnePerPeer'
  <2>1. Aborting(c).peer = c.peer
    BY DEF Aborting, Connection
  <2>2. Closing(c).peer = c.peer
    BY DEF Closing, Connection
  <2>3. Sending(c, len, act).peer = c.peer
    BY DEF Sending, Connection
  <2>4. \E d, o : Become(i, d, a, o) /\ d.peer = uip_conns[i].peer
    BY <1>p, <2>1, <2>2, <2>3 DEF AppSend
  <2> QED BY <2>4, <1>k
<1>1. CASE PeerReset(s, i)
  <2>1. [uip_conns[i] EXCEPT !.state = "CLOSED"].peer = uip_conns[i].peer
    BY <1>a DEF Connection
  <2> QED BY <2>1, <1>1, <1>k DEF PeerReset
<1>2. CASE OutOfSequence(s, i)
  BY <1>2, <1>k DEF OutOfSequence
<1>3. ASSUME NEW act \in Acts, SynRcvd(s, i, act) PROVE OnePerPeer'
  <2> DEFINE c == [WithData(s, i) EXCEPT !.state = "ESTABLISHED", !.len = 0]
  <2>1. c \in Connection /\ c.peer = uip_conns[i].peer
    BY <1>t DEF Connection, States
  <2>2. AppSend(i, c, 0, act, Call(i, {"CONNECTED"}, s))
    BY <1>3 DEF SynRcvd
  <2> HIDE DEF c
  <2> QED BY <2>1, <2>2, <1>p
<1>4. ASSUME NEW act \in Acts, Established(s, i, act) PROVE OnePerPeer'
  BY <1>4, <1>t, <1>p DEF Established
<1>5. CASE Fin(s, i)
  <2> DEFINE c == Finished(WithData(s, i), "LAST_ACK", 1)
  <2>0. "LAST_ACK" \in States /\ 1 \in Nat
    BY DEF States
  <2>1. c.peer = uip_conns[i].peer
    BY <1>t, <2>0, FinType
  <2>2. Become(i, c, Call(i, {"CLOSE"}, s), Answer(c, {"FIN", "ACK"}, 0))
    BY <1>5 DEF Fin
  <2> HIDE DEF c
  <2> QED BY <2>1, <2>2, <1>k
<1>6. CASE LastAck(s, i)
  <2>1. [Taken(s, i) EXCEPT !.state = "CLOSED"].peer = uip_conns[i].peer
    BY <1>t DEF Connection
  <2> QED BY <2>1, <1>6, <1>k DEF LastAck
<1>7. CASE PeerFin(s, i)
  <2> DEFINE st == IF uip_conns[i].state = "FIN_WAIT_2" \/ AckData(s, i) THEN "TIME_WAIT" ELSE "CLOSING"
             n == IF AckData(s, i) THEN 0 ELSE uip_conns[i].len
             c == Finished(WithData(s, i), st, n)
  <2>1. Become(i, c, CallOnly(i, "CLOSE"), Answer(c, {"ACK"}, 0))
    BY <1>7 DEF PeerFin
  <2>2. st \in States /\ n \in Nat
    BY <1>a DEF Connection, States
  <2> HIDE DEF st, n
  <2>3. c.peer = uip_conns[i].peer
    BY <1>t, <2>2, FinType
  <2> HIDE DEF c
  <2> QED BY <2>1, <2>3, <1>k
<1>8. CASE FinAcked(s, i)
  <2>1. [WithData(s, i) EXCEPT !.state = "FIN_WAIT_2", !.len = 0].peer = uip_conns[i].peer
    BY <1>t DEF Connection
  <2> QED BY <2>1, <1>8, <1>k DEF FinAcked
<1>9. CASE LateData(s, i)
  BY <1>9, <1>t, <1>k DEF LateData
<1>10. CASE TimeWait(s, i)
  BY <1>10, <1>t, <1>k DEF TimeWait
<1>11. CASE ClosingAcked(s, i)
  <2>1. [Taken(s, i) EXCEPT !.state = "TIME_WAIT"].peer = uip_conns[i].peer
    BY <1>t DEF Connection
  <2> QED BY <2>1, <1>11, <1>k DEF ClosingAcked
<1>12. CASE Drop(s, i)
  BY <1>12, <1>t, <1>k DEF Drop
<1> QED BY <1>1, <1>2, <1>3, <1>4, <1>5, <1>6, <1>7, <1>8, <1>9, <1>10, <1>11, <1>12 DEF Input

\* A frame gives its peer at most the one connection it was looked up for.
LEMMA ProcessOnePerPeer ==
    ASSUME IInv, OnePerPeer, NEW s, Arriving(s), uip_process(s, Acts)
    PROVE  OnePerPeer'
<1>1. CASE Unknown(s) \/ NoRoom(s)
  BY <1>1 DEF Unknown, NoRoom, OnePerPeer
<1>2. ASSUME NEW i \in Slots, Matches(s) = {}, Listen(s, i) PROVE OnePerPeer'
  <2>1. \A j \in Slots : uip_conns[j].state # "CLOSED" => uip_conns[j].peer # s.peer
    BY <1>2 DEF Matches
  <2>2. PICK c : c.peer = s.peer /\ uip_conns' = [uip_conns EXCEPT ![i] = c]
    BY <1>2 DEF Listen, Become
  <2>3. \A j \in Slots : uip_conns'[j] = IF j = i THEN c ELSE uip_conns[j]
    BY <2>2 DEF IInv, ConnsOK
  <2> QED BY <2>1, <2>2, <2>3 DEF OnePerPeer
<1>3. ASSUME NEW i \in Slots, Found(s, i), Input(s, i, Acts) PROVE OnePerPeer'
  <2>1. uip_conns[i].state # "CLOSED"
    BY <1>3 DEF Found, Matches
  <2> QED BY <1>3, <2>1, InputOnePerPeer
<1> QED BY <1>1, <1>2, <1>3 DEF uip_process

\* No peer ever has two connections: a SYN opens one only when the scan of the
\* connections (uip.c, 830-838) found none for its address and port.
THEOREM OneConnection == Spec => []OnePerPeer
<1>1. Init => OnePerPeer
  BY DEF Init, OnePerPeer
<1>2. IInv /\ OnePerPeer /\ [Next]_vars => OnePerPeer'
  <2> SUFFICES ASSUME IInv, OnePerPeer, [Next]_vars PROVE OnePerPeer'
    OBVIOUS
  <2>1. CASE Next
    <3>1. PICK s \in Segments : uip_process(s, Acts)
      BY <2>1 DEF Next
    <3> QED BY <3>1, SegmentArriving, ProcessOnePerPeer
  <2>2. CASE UNCHANGED vars
    BY <2>2 DEF vars, OnePerPeer
  <2> QED BY <2>1, <2>2
<1> QED BY <1>1, <1>2, IInvInductive, PTL DEF Spec
=============================================================================
