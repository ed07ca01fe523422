---------------------------- MODULE UipLinkProofs ----------------------------
(* Proofs about UipLink: what is acknowledged has been handed over, the     *)
(* answer stays in step with its sequence numbers, and uIP's promise holds  *)
(* among these browsers, for any number of connections, browsers and faults *)
(* and any lengths of request and page.                                     *)
EXTENDS UipLink, UipTcpProofs

USE UipTcpAssumption, UipLinkAssumption DEF Slots

Segment == [peer: Peers, flags: SUBSET {"SYN", "ACK", "FIN", "RST"}, seq: Nat, ack: Nat, len: Nat]
Browser == [st: {"idle", "syn", "est", "half", "fin", "done", "reset", "gone"},
            una: Nat, nxt: Nat, rcv: Nat]
HttpState == [state: {"NOGET", "FUNC", "FILE"}, count: Nat]

Types ==
    /\ uip_conns \in [Slots -> Connection]
    /\ client \in [Peers -> Browser]
    /\ hs \in [Slots -> HttpState]
    /\ up \subseteq Segment /\ down \subseteq Segment
    /\ handed \in [Peers -> SUBSET Int]

-----------------------------------------------------------------------------
(* The invariant behind AckedIsHanded.                                     *)

\* The units of p's request before unit n have been handed over.
Handed(p, n) == \A k \in 1 .. ReqLen : k < n => k \in handed[p]
AllHanded(p) == \A k \in 1 .. ReqLen : k \in handed[p]

\* A connection acknowledges what has been handed over; one that is closing,
\* which hands over nothing any more, has seen the whole request.
SlotHanded(c, h) ==
    c.state # "CLOSED" =>
        /\ Handed(c.peer, c.rcv_nxt)
        /\ c.state \notin {"SYN_RCVD", "ESTABLISHED"} => AllHanded(c.peer)
        /\ c.state = "ESTABLISHED" /\ h.state = "FILE" => AllHanded(c.peer)

HandedInv ==
    /\ \A j \in Slots : SlotHanded(uip_conns[j], hs[j])
    /\ \A s \in up : /\ "FIN" \in s.flags => AllHanded(s.peer)
                     /\ s.flags = {"SYN"} => s.seq = 0
    /\ \A r \in down : /\ "RST" \notin r.flags => Handed(r.peer, r.ack)
                       /\ "FIN" \in r.flags => AllHanded(r.peer)
    /\ \A p \in Peers : /\ Handed(p, client[p].una)
                        /\ client[p].st \in {"half", "fin"} => AllHanded(p)

-----------------------------------------------------------------------------
(* The invariant behind AnswerExact.                                       *)

Ended == {"fin", "done", "reset", "gone"}

\* The place in the page and the sequence number; no more is outstanding than
\* is left of the page.
SlotExact(c, h) ==
    /\ c.state = "SYN_RCVD" => c.snd_nxt = iss /\ c.len = 1
    /\ c.state = "ESTABLISHED" =>
          IF h.state = "FILE" THEN c.snd_nxt + h.count = iss + 1 + PageLen /\ c.len <= h.count
          ELSE c.snd_nxt = iss + 1 /\ c.len = 0

\* A FIN of a browser that does not close early acknowledges the board's, which
\* comes after the whole page: it acknowledges nothing of a page under way.
ExactInv ==
    /\ ~EarlyFin
    /\ \A j \in Slots : SlotExact(uip_conns[j], hs[j])
    /\ \A s \in up : "FIN" \in s.flags => s.ack >= iss + PageLen + 2 /\ client[s.peer].st \in Ended
    /\ \A r \in down : "FIN" \in r.flags => r.seq >= iss + PageLen + 1 \/ client[r.peer].st \in Ended
    /\ \A p \in Peers : client[p].st \in {"half", "fin"} => client[p].rcv >= iss + PageLen + 2

-----------------------------------------------------------------------------
(* What a segment of connection i leaves behind.                           *)

\* The answers carry the numbers of the connection.
AnswersOf(d) ==
    \A r \in out' : /\ r \in Segment /\ r.peer = d.peer
                    /\ "RST" \in r.flags \/ r.ack = d.rcv_nxt
NoFin == \A r \in out' : "FIN" \notin r.flags

Becomes(i, d) ==
    /\ d \in Connection /\ d.peer = uip_conns[i].peer
    /\ uip_conns' = [uip_conns EXCEPT ![i] = d]
    /\ AnswersOf(d)

\* The application is not called and nothing is taken, but perhaps an
\* acknowledgement: of an ESTABLISHED connection, only that of a refused FIN.
Quiet(s, i, d) ==
    /\ call' = NoCall /\ NoFin
    /\ d.rcv_nxt = uip_conns[i].rcv_nxt /\ d.len = uip_conns[i].len
    /\ \/ d.state = uip_conns[i].state
       \/ uip_conns[i].state = "CLOSING" /\ d.state = "TIME_WAIT"
    /\ \/ d.snd_nxt = uip_conns[i].snd_nxt
       \/ /\ AckData(s, i) /\ uip_conns[i].state # "SYN_RCVD"
          /\ uip_conns[i].state = "ESTABLISHED" => "FIN" \in s.flags

\* The connection was closing and goes on with it.
Late(i, d) ==
    /\ uip_conns[i].state \in {"FIN_WAIT_1", "FIN_WAIT_2"}
    /\ d.state \in {"FIN_WAIT_1", "FIN_WAIT_2", "CLOSING", "TIME_WAIT"}
    /\ call'.data = {} /\ NoFin

\* The connection is over.
Over(i, d) ==
    /\ d.state = "CLOSED" /\ d.rcv_nxt = uip_conns[i].rcv_nxt
    /\ call'.data = {} /\ NoFin

\* The data of the segment is handed over.
HandsOver(s, i, d) ==
    /\ call'.data = s.seq .. s.seq + s.len - 1
    /\ s.len > 0 => s.seq = uip_conns[i].rcv_nxt
    /\ d.rcv_nxt = uip_conns[i].rcv_nxt + s.len

\* tcp_send answers with the numbers of the connection.
LEMMA AnswerNumbers ==
    ASSUME NEW c \in Connection, NEW flags \in SUBSET {"SYN", "ACK", "FIN", "RST"}, NEW n \in Nat,
           NEW r \in Answer(c, flags, n)
    PROVE  /\ r \in Segment /\ r.peer = c.peer /\ r.flags = flags
           /\ r.seq = c.snd_nxt /\ r.ack = c.rcv_nxt
<1>1. c.snd_nxt \in Nat /\ c.rcv_nxt \in Nat /\ c.peer \in Peers
  BY DEF Connection
<1>2. r = [peer |-> c.peer, flags |-> flags, seq |-> c.snd_nxt, ack |-> c.rcv_nxt, len |-> n]
  BY DEF Answer
<1> QED BY <1>1, <1>2 DEF Segment

LEMMA SegmentNumbers ==
    ASSUME NEW s \in Segment
    PROVE  s.peer \in Peers /\ s.seq \in Nat /\ s.ack \in Nat /\ s.len \in Nat
BY DEF Segment

\* The connection after the acknowledgement and the data of a segment.
LEMMA TakenNumbers ==
    ASSUME NEW i \in Slots, uip_conns[i] \in Connection, NEW s \in Segment
    PROVE  /\ Taken(s, i) \in Connection
           /\ Taken(s, i).state = uip_conns[i].state /\ Taken(s, i).len = uip_conns[i].len
           /\ Taken(s, i).peer = uip_conns[i].peer /\ Taken(s, i).rcv_nxt = uip_conns[i].rcv_nxt
           /\ Taken(s, i).snd_nxt = IF AckData(s, i) THEN s.ack ELSE uip_conns[i].snd_nxt
           /\ WithData(s, i) \in Connection
           /\ WithData(s, i).state = uip_conns[i].state /\ WithData(s, i).len = uip_conns[i].len
           /\ WithData(s, i).peer = uip_conns[i].peer
           /\ WithData(s, i).rcv_nxt = uip_conns[i].rcv_nxt + s.len
           /\ WithData(s, i).snd_nxt = IF AckData(s, i) THEN s.ack ELSE uip_conns[i].snd_nxt
<1>1. s.ack \in Nat /\ s.len \in Nat
  BY SegmentNumbers
<1>2. Taken(s, i) \in Connection
  BY <1>1 DEF Taken, Connection
<1>3. /\ Taken(s, i).state = uip_conns[i].state /\ Taken(s, i).len = uip_conns[i].len
      /\ Taken(s, i).peer = uip_conns[i].peer /\ Taken(s, i).rcv_nxt = uip_conns[i].rcv_nxt
      /\ Taken(s, i).snd_nxt = IF AckData(s, i) THEN s.ack ELSE uip_conns[i].snd_nxt
  BY DEF Taken, Connection
<1>4. WithData(s, i) \in Connection
  BY <1>1, <1>2 DEF WithData, Connection
<1>5. /\ WithData(s, i).state = Taken(s, i).state /\ WithData(s, i).len = Taken(s, i).len
      /\ WithData(s, i).peer = Taken(s, i).peer /\ WithData(s, i).snd_nxt = Taken(s, i).snd_nxt
      /\ WithData(s, i).rcv_nxt = Taken(s, i).rcv_nxt + s.len
  BY <1>2 DEF WithData, Connection
<1> QED BY <1>2, <1>3, <1>4, <1>5

LEMMA FinishedType ==
    ASSUME NEW c \in Connection, NEW st \in States, NEW n \in Nat
    PROVE  /\ Finished(c, st, n) \in Connection
           /\ Finished(c, st, n).state = st /\ Finished(c, st, n).peer = c.peer
<1> DEFINE d1 == [c EXCEPT !.rcv_nxt = @ + 1]
           d2 == [d1 EXCEPT !.state = st]
           d3 == [d2 EXCEPT !.len = n]
<1>1. d1 \in Connection /\ d1.peer = c.peer
  BY DEF Connection
<1>2. d2 \in Connection /\ d2.peer = d1.peer /\ d2.state = st
  <2> HIDE DEF d1
  <2> QED BY <1>1 DEF Connection
<1>3. d3 \in Connection /\ d3.peer = d2.peer /\ d3.state = d2.state
  <2> HIDE DEF d2
  <2> QED BY <1>2 DEF Connection
<1>4. Finished(c, st, n) = d3
  BY DEF Finished
<1> HIDE DEF d1, d2, d3
<1> QED BY <1>1, <1>2, <1>3, <1>4

LEMMA SetStateType ==
    ASSUME NEW c \in Connection, NEW st \in States, NEW d, d = [c EXCEPT !.state = st]
    PROVE  /\ d \in Connection /\ d.state = st /\ d.peer = c.peer /\ d.rcv_nxt = c.rcv_nxt
           /\ d.len = c.len /\ d.snd_nxt = c.snd_nxt
BY DEF Connection

\* Connection i becomes d, and the answer, if any, is d's.
LEMMA BecomeType ==
    ASSUME Types, NEW i \in Slots, NEW d \in Connection, d.peer = uip_conns[i].peer,
           NEW a, NEW o, Become(i, d, a, o),
           NEW flags \in SUBSET {"SYN", "ACK", "FIN", "RST"}, NEW n \in Nat,
           o = {} \/ o = Answer(d, flags, n)
    PROVE  /\ Becomes(i, d) /\ call' = a
           /\ "FIN" \notin flags => NoFin
<1>1. uip_conns' = [uip_conns EXCEPT ![i] = d] /\ call' = a /\ out' = o
  BY DEF Become
<1>2. \A r \in out' : /\ r \in Segment /\ r.peer = d.peer /\ r.flags = flags /\ r.ack = d.rcv_nxt
  BY <1>1, AnswerNumbers
<1> QED BY <1>1, <1>2 DEF Becomes, AnswersOf, NoFin

\* The same for the plain acknowledgement and for none.
LEMMA BecomeQuietly ==
    ASSUME Types, NEW i \in Slots, NEW d \in Connection, d.peer = uip_conns[i].peer,
           NEW a, NEW o, Become(i, d, a, o), o = {} \/ o = Answer(d, {"ACK"}, 0)
    PROVE  Becomes(i, d) /\ call' = a /\ NoFin
<1>1. {"ACK"} \in SUBSET {"SYN", "ACK", "FIN", "RST"} /\ 0 \in Nat /\ "FIN" \notin {"ACK"}
  OBVIOUS
<1> QED BY <1>1, BecomeType

\* Every way uip_process ends for a segment of connection i without handing
\* over anything (uip.c, 1035-1500).
Silent(s, i) ==
    \/ PeerReset(s, i) \/ OutOfSequence(s, i) \/ LastAck(s, i) \/ PeerFin(s, i)
    \/ FinAcked(s, i) \/ LateData(s, i) \/ TimeWait(s, i) \/ ClosingAcked(s, i) \/ Drop(s, i)

LEMMA SilentOutcome ==
    ASSUME Types, NEW i \in Slots, NEW s \in Segment, Silent(s, i)
    PROVE  \E d \in Connection : Becomes(i, d) /\ (Quiet(s, i, d) \/ Late(i, d) \/ Over(i, d))
<1> DEFINE c == uip_conns[i]
<1>a. c \in Connection
  BY DEF Types
<1>s. /\ "CLOSED" \in States /\ "TIME_WAIT" \in States /\ "CLOSING" \in States
      /\ "FIN_WAIT_1" \in States /\ "FIN_WAIT_2" \in States
  BY DEF States
<1>t. /\ Taken(s, i) \in Connection /\ Taken(s, i).state = c.state /\ Taken(s, i).len = c.len
      /\ Taken(s, i).peer = c.peer /\ Taken(s, i).rcv_nxt = c.rcv_nxt
      /\ Taken(s, i).snd_nxt = IF AckData(s, i) THEN s.ack ELSE c.snd_nxt
      /\ WithData(s, i) \in Connection /\ WithData(s, i).peer = c.peer
      /\ WithData(s, i).state = c.state
  BY <1>a, TakenNumbers
<1>c. NoCall.data = {} /\ \A flag : CallOnly(i, flag).data = {}
  BY DEF NoCall, CallOnly
<1>1. CASE PeerReset(s, i)
  <2> DEFINE d == [c EXCEPT !.state = "CLOSED"]
  <2>1. d \in Connection /\ d.state = "CLOSED" /\ d.peer = c.peer /\ d.rcv_nxt = c.rcv_nxt
    BY <1>a, <1>s, SetStateType
  <2>2. Become(i, d, CallOnly(i, "ABORT"), {})
    BY <1>1 DEF PeerReset
  <2> HIDE DEF d
  <2>3. Becomes(i, d) /\ call' = CallOnly(i, "ABORT") /\ NoFin
    BY <2>1, <2>2, BecomeQuietly
  <2> QED BY <1>c, <2>1, <2>3 DEF Over
<1>2. CASE OutOfSequence(s, i)
  <2>1. Become(i, c, NoCall, Answer(c, {"ACK"}, 0))
    BY <1>2 DEF OutOfSequence
  <2>2. Becomes(i, c) /\ call' = NoCall /\ NoFin
    BY <1>a, <2>1, BecomeQuietly
  <2>3. Quiet(s, i, c)
    BY <2>2 DEF Quiet
  <2> QED BY <1>a, <2>2, <2>3
<1>3. CASE LastAck(s, i)
  <2> DEFINE d == [Taken(s, i) EXCEPT !.state = "CLOSED"]
  <2>1. d \in Connection /\ d.state = "CLOSED" /\ d.peer = c.peer /\ d.rcv_nxt = c.rcv_nxt
    BY <1>t, <1>s, SetStateType
  <2>2. Become(i, d, CallOnly(i, "CLOSE"), {})
    BY <1>3 DEF LastAck
  <2> HIDE DEF d
  <2>3. Becomes(i, d) /\ call' = CallOnly(i, "CLOSE") /\ NoFin
    BY <2>1, <2>2, BecomeQuietly
  <2> QED BY <1>c, <2>1, <2>3 DEF Over
<1>4. CASE PeerFin(s, i)
  <2> DEFINE st == IF c.state = "FIN_WAIT_2" \/ AckData(s, i) THEN "TIME_WAIT" ELSE "CLOSING"
             n == IF AckData(s, i) THEN 0 ELSE c.len
             d == Finished(WithData(s, i), st, n)
  <2>1. Become(i, d, CallOnly(i, "CLOSE"), Answer(d, {"ACK"}, 0))
    BY <1>4 DEF PeerFin
  <2>2. st \in {"TIME_WAIT", "CLOSING"} /\ st \in States /\ n \in Nat
    BY <1>a, <1>s DEF Connection
  <2>3. c.state \in {"FIN_WAIT_1", "FIN_WAIT_2"}
    BY <1>4 DEF PeerFin, Accepts
  <2> HIDE DEF st, n
  <2>4. d \in Connection /\ d.state = st /\ d.peer = c.peer
    BY <1>t, <2>2, FinishedType
  <2> HIDE DEF d
  <2>5. Becomes(i, d) /\ call' = CallOnly(i, "CLOSE") /\ NoFin
    BY <2>1, <2>4, BecomeQuietly
  <2> QED BY <1>c, <2>2, <2>3, <2>4, <2>5 DEF Late
<1>5. CASE FinAcked(s, i)
  <2> DEFINE e == WithData(s, i)
             d == [e EXCEPT !.state = "FIN_WAIT_2", !.len = 0]
  <2>0. e \in Connection /\ e.peer = c.peer
    BY <1>t
  <2>1. d \in Connection /\ d.state = "FIN_WAIT_2" /\ d.peer = c.peer
    <3>1. d = [e EXCEPT !.state = "FIN_WAIT_2", !.len = 0]
      OBVIOUS
    <3> HIDE DEF d, e
    <3> QED BY <2>0, <3>1, <1>s DEF Connection
  <2>2. Become(i, d, NoCall, {}) /\ c.state = "FIN_WAIT_1"
    BY <1>5 DEF FinAcked, Accepts
  <2> HIDE DEF d
  <2>3. Becomes(i, d) /\ call' = NoCall /\ NoFin
    BY <2>1, <2>2, BecomeQuietly
  <2> QED BY <1>c, <2>1, <2>2, <2>3 DEF Late
<1>6. CASE LateData(s, i)
  <2> DEFINE d == WithData(s, i)
  <2>1. Become(i, d, NoCall, Answer(d, {"ACK"}, 0)) /\ c.state \in {"FIN_WAIT_1", "FIN_WAIT_2"}
    BY <1>6 DEF LateData, Accepts
  <2>2. d \in Connection /\ d.state = c.state /\ d.peer = c.peer
    BY <1>t
  <2> HIDE DEF d
  <2>3. Becomes(i, d) /\ call' = NoCall /\ NoFin
    BY <2>1, <2>2, BecomeQuietly
  <2> QED BY <1>c, <2>1, <2>2, <2>3 DEF Late
<1>7. CASE TimeWait(s, i)
  <2>1. Become(i, Taken(s, i), NoCall, Answer(Taken(s, i), {"ACK"}, 0)) /\ c.state = "TIME_WAIT"
    BY <1>7 DEF TimeWait, Accepts
  <2>2. Becomes(i, Taken(s, i)) /\ call' = NoCall /\ NoFin
    BY <1>t, <2>1, BecomeQuietly
  <2>3. Quiet(s, i, Taken(s, i))
    BY <1>t, <2>1, <2>2 DEF Quiet
  <2> QED BY <1>t, <2>2, <2>3
<1>8. CASE ClosingAcked(s, i)
  <2> DEFINE d == [Taken(s, i) EXCEPT !.state = "TIME_WAIT"]
  <2>1. /\ d \in Connection /\ d.state = "TIME_WAIT" /\ d.peer = c.peer
        /\ d.rcv_nxt = c.rcv_nxt /\ d.len = c.len
    BY <1>t, <1>s, SetStateType
  <2>2. Become(i, d, NoCall, {}) /\ c.state = "CLOSING" /\ AckData(s, i)
    BY <1>8 DEF ClosingAcked, Accepts
  <2> HIDE DEF d
  <2>3. Becomes(i, d) /\ call' = NoCall /\ NoFin
    BY <2>1, <2>2, BecomeQuietly
  <2>4. Quiet(s, i, d)
    BY <2>1, <2>2, <2>3 DEF Quiet
  <2> QED BY <2>1, <2>3, <2>4
<1>9. CASE Drop(s, i)
  <2>1. Become(i, Taken(s, i), NoCall, {})
    BY <1>9 DEF Drop
  <2>2. Becomes(i, Taken(s, i)) /\ call' = NoCall /\ NoFin
    BY <1>t, <2>1, BecomeQuietly
  <2>3. AckData(s, i) => c.state # "SYN_RCVD" /\ (c.state = "ESTABLISHED" => "FIN" \in s.flags)
    BY <1>9 DEF Drop, Accepts
  <2>4. Quiet(s, i, Taken(s, i))
    BY <1>t, <2>2, <2>3 DEF Quiet
  <2> QED BY <1>t, <2>2, <2>4
<1> QED BY <1>1, <1>2, <1>3, <1>4, <1>5, <1>6, <1>7, <1>8, <1>9 DEF Silent

-----------------------------------------------------------------------------
(* What the application makes of a segment.                                *)

\* appsend does what the application asked for.
LEMMA AppSendOutcome ==
    ASSUME Types, NEW i \in Slots, NEW c \in Connection, c.peer = uip_conns[i].peer,
           NEW len \in Nat, NEW act \in Acts, NEW a, AppSend(i, c, len, act, a)
    PROVE  \E d \in Connection :
              /\ Becomes(i, d) /\ call' = a /\ d.rcv_nxt = c.rcv_nxt /\ d.snd_nxt = c.snd_nxt
              /\ \/ act.does = "abort" /\ d.state = "CLOSED" /\ NoFin
                 \/ act.does = "close" /\ d.state = "FIN_WAIT_1" /\ \A r \in out' : r.seq = d.snd_nxt
                 \/ act.does = "send" /\ d.state = c.state /\ d.len = Outstanding(len, act) /\ NoFin
<1>1. act.slen \in Nat /\ Outstanding(len, act) \in Nat
  BY DEF Acts, Outstanding
<1>2. ASSUME NEW d \in Connection, d.peer = c.peer, d.snd_nxt = c.snd_nxt, d.rcv_nxt = c.rcv_nxt,
             NEW flags, NEW n
      PROVE  Answer(c, flags, n) = Answer(d, flags, n)
  BY <1>2 DEF Answer
<1>3. CASE act.does = "abort" /\ Become(i, Aborting(c), a, Answer(c, {"RST", "ACK"}, 0))
  <2> DEFINE d == Aborting(c)
  <2>1. /\ d \in Connection /\ d.peer = c.peer /\ d.snd_nxt = c.snd_nxt /\ d.rcv_nxt = c.rcv_nxt
        /\ d.state = "CLOSED"
    BY DEF Aborting, Connection, States
  <2>2. Become(i, d, a, Answer(c, {"RST", "ACK"}, 0))
    BY <1>3
  <2> HIDE DEF d
  <2>3. Answer(c, {"RST", "ACK"}, 0) = Answer(d, {"RST", "ACK"}, 0)
    BY <1>2, <2>1
  <2>4. {"RST", "ACK"} \in SUBSET {"SYN", "ACK", "FIN", "RST"} /\ "FIN" \notin {"RST", "ACK"} /\ 0 \in Nat
    OBVIOUS
  <2>5. Becomes(i, d) /\ call' = a /\ NoFin
    <3>1. Become(i, d, a, Answer(d, {"RST", "ACK"}, 0)) /\ d.peer = uip_conns[i].peer
      BY <2>1, <2>2, <2>3
    <3> DEFINE flags == {"RST", "ACK"}
    <3>2. flags \in SUBSET {"SYN", "ACK", "FIN", "RST"} /\ "FIN" \notin flags
      BY <2>4
    <3>3. Become(i, d, a, Answer(d, flags, 0))
      BY <3>1
    <3> HIDE DEF flags
    <3> QED BY <2>1, <2>4, <3>1, <3>2, <3>3, BecomeType
  <2> QED BY <1>3, <2>1, <2>5
<1>4. CASE act.does = "close" /\ Become(i, Closing(c), a, Answer(c, {"FIN", "ACK"}, 0))
  <2> DEFINE d == Closing(c)
  <2>1. /\ d \in Connection /\ d.peer = c.peer /\ d.snd_nxt = c.snd_nxt /\ d.rcv_nxt = c.rcv_nxt
        /\ d.state = "FIN_WAIT_1"
    BY DEF Closing, Connection, States
  <2>2. Become(i, d, a, Answer(c, {"FIN", "ACK"}, 0))
    BY <1>4
  <2> HIDE DEF d
  <2>3. Answer(c, {"FIN", "ACK"}, 0) = Answer(d, {"FIN", "ACK"}, 0)
    BY <1>2, <2>1
  <2>4. {"FIN", "ACK"} \in SUBSET {"SYN", "ACK", "FIN", "RST"} /\ 0 \in Nat
    OBVIOUS
  <2>5. Becomes(i, d) /\ call' = a
    BY <2>1, <2>2, <2>3, <2>4, BecomeType
  <2>6. \A r \in out' : r.seq = d.snd_nxt
    BY <2>1, <2>2, <2>3, <2>4, AnswerNumbers DEF Become
  <2> QED BY <1>4, <2>1, <2>5, <2>6
<1>5. CASE /\ act.does = "send"
           /\ Become(i, Sending(c, len, act), a,
                     IF act.slen > 0 THEN Answer(c, {"ACK"}, Outstanding(len, act))
                     ELSE IF a.data # {} THEN Answer(c, {"ACK"}, 0) ELSE {})
  <2> DEFINE d == Sending(c, len, act)
             o == IF act.slen > 0 THEN Answer(c, {"ACK"}, Outstanding(len, act))
                  ELSE IF a.data # {} THEN Answer(c, {"ACK"}, 0) ELSE {}
  <2>1. /\ d \in Connection /\ d.peer = c.peer /\ d.snd_nxt = c.snd_nxt /\ d.rcv_nxt = c.rcv_nxt
        /\ d.state = c.state /\ d.len = Outstanding(len, act)
    BY <1>1 DEF Sending, Connection
  <2>2. Become(i, d, a, o)
    BY <1>5
  <2> HIDE DEF d
  <2>3. \E n \in Nat : o = {} \/ o = Answer(d, {"ACK"}, n)
    <3>1. o = {} \/ o = Answer(c, {"ACK"}, 0) \/ o = Answer(c, {"ACK"}, Outstanding(len, act))
      OBVIOUS
    <3>2. \A n : Answer(c, {"ACK"}, n) = Answer(d, {"ACK"}, n)
      BY <1>2, <2>1
    <3> HIDE DEF o
    <3> QED BY <1>1, <3>1, <3>2
  <2> HIDE DEF o
  <2>4. {"ACK"} \in SUBSET {"SYN", "ACK", "FIN", "RST"} /\ "FIN" \notin {"ACK"}
    OBVIOUS
  <2>5. Becomes(i, d) /\ call' = a /\ NoFin
    BY <2>1, <2>2, <2>3, <2>4, BecomeType
  <2> QED BY <1>5, <2>1, <2>5
<1> QED BY <1>3, <1>4, <1>5 DEF AppSend

\* The handshake is complete; data that came with it counts as handed over.
Opened(s, i, d) ==
    /\ Becomes(i, d) /\ HandsOver(s, i, d) /\ NoFin
    /\ uip_conns[i].state = "SYN_RCVD" /\ AckData(s, i)
    /\ d.state = "ESTABLISHED" /\ d.snd_nxt = s.ack /\ d.len = 0
    /\ hs' = [hs EXCEPT ![i] = [state |-> "NOGET", count |-> 0]]

LEMMA OpenedOutcome ==
    ASSUME Types, NEW i \in Slots, NEW s \in Segment, NEW act \in Acts,
           SynRcvd(s, i, act), httpd_appcall(i, act)
    PROVE  \E d \in Connection : Opened(s, i, d)
<1> DEFINE e == WithData(s, i)
           c == [e EXCEPT !.state = "ESTABLISHED", !.len = 0]
           a == Call(i, {"CONNECTED"}, s)
<1>1. /\ e \in Connection /\ e.peer = uip_conns[i].peer /\ e.rcv_nxt = uip_conns[i].rcv_nxt + s.len
      /\ e.snd_nxt = IF AckData(s, i) THEN s.ack ELSE uip_conns[i].snd_nxt
  BY TakenNumbers DEF Types
<1>2. /\ Accepts(s, i, "SYN_RCVD") /\ AckData(s, i) /\ AppSend(i, c, 0, act, a)
  BY DEF SynRcvd
<1>3. /\ c \in Connection /\ c.peer = e.peer /\ c.rcv_nxt = e.rcv_nxt /\ c.snd_nxt = e.snd_nxt
      /\ c.state = "ESTABLISHED"
  <2> HIDE DEF e
  <2> QED BY <1>1 DEF Connection, States
<1>4. "CONNECTED" \in a.flags /\ "CLOSE" \notin a.flags /\ "ABORT" \notin a.flags
      /\ a.data = s.seq .. s.seq + s.len - 1
  BY DEF Call
<1> HIDE DEF c, a, e
<1>5. PICK d \in Connection :
              /\ Becomes(i, d) /\ call' = a /\ d.rcv_nxt = c.rcv_nxt /\ d.snd_nxt = c.snd_nxt
              /\ \/ act.does = "abort" /\ d.state = "CLOSED" /\ NoFin
                 \/ act.does = "close" /\ d.state = "FIN_WAIT_1" /\ \A r \in out' : r.seq = d.snd_nxt
                 \/ act.does = "send" /\ d.state = c.state /\ d.len = Outstanding(0, act) /\ NoFin
  BY <1>1, <1>2, <1>3, 0 \in Nat, AppSendOutcome
<1>6. HttpdConnected(i, act)
  BY <1>4, <1>5 DEF httpd_appcall, HttpdData, HttpdFile, HttpdIdle
<1>7. act.does = "send" /\ act.slen = 0 /\ hs' = [hs EXCEPT ![i] = [state |-> "NOGET", count |-> 0]]
  BY <1>6 DEF HttpdConnected, Nothing
<1>8. HandsOver(s, i, d)
  BY <1>1, <1>2, <1>3, <1>4, <1>5 DEF HandsOver, Accepts
<1>9. Opened(s, i, d)
  BY <1>1, <1>2, <1>3, <1>5, <1>7, <1>8 DEF Opened, Accepts, Outstanding
<1> QED BY <1>9

\* An ESTABLISHED connection whose data or acknowledgement the application is
\* told of: it aborts, closes at the end of the page, or goes on, beginning the
\* page (first line), without one (second), or in the middle of it (third).
Outst(s, i) == IF AckData(s, i) THEN 0 ELSE uip_conns[i].len

GoesOn(s, i, d, h) ==
    \/ /\ hs[i].state # "FILE" /\ ReqLen \in call'.data
       /\ h.state = "FILE" /\ h.count = PageLen /\ d.len = Outstanding(Outst(s, i), Piece(PageLen))
    \/ hs[i].state # "FILE" /\ h.state # "FILE" /\ d.len = 0
    \/ /\ hs[i].state = "FILE" /\ h.state = "FILE"
       /\ h.count = IF AckData(s, i) THEN Left(i) ELSE hs[i].count
       /\ d.len = Outstanding(Outst(s, i), Piece(h.count))

Served(s, i, d, h) ==
    /\ Becomes(i, d) /\ HandsOver(s, i, d)
    /\ uip_conns[i].state = "ESTABLISHED"
    /\ d.snd_nxt = IF AckData(s, i) THEN s.ack ELSE uip_conns[i].snd_nxt
    /\ hs' = [hs EXCEPT ![i] = h]
    /\ \/ d.state = "CLOSED" /\ NoFin
       \/ /\ d.state = "FIN_WAIT_1" /\ hs[i].state = "FILE" /\ AckData(s, i) /\ Left(i) = 0
          /\ \A r \in out' : r.seq = d.snd_nxt
       \/ d.state = "ESTABLISHED" /\ NoFin /\ GoesOn(s, i, d, h)

LEMMA PieceType ==
    ASSUME NEW n \in Nat
    PROVE  Piece(n) \in Acts /\ Piece(n).does = "send" /\ Piece(n).slen \in Nat /\ Piece(n).slen <= n
BY DEF Piece, Acts

\* What httpd_appcall does with the call of an ESTABLISHED connection.
LEMMA AppcallEstablished ==
    ASSUME Types, NEW i \in Slots, NEW s \in Segment, NEW act \in Acts,
           call' = Call(i, IF AckData(s, i) THEN {"ACKDATA"} ELSE {}, s), httpd_appcall(i, act)
    PROVE  \E h \in HttpState :
              /\ hs' = [hs EXCEPT ![i] = h]
              /\ \/ act.does = "abort"
                 \/ act.does = "close" /\ hs[i].state = "FILE" /\ AckData(s, i) /\ Left(i) = 0
                 \/ /\ hs[i].state # "FILE" /\ ReqLen \in call'.data
                    /\ h.state = "FILE" /\ h.count = PageLen /\ act = Piece(PageLen)
                 \/ hs[i].state # "FILE" /\ h.state # "FILE" /\ act = Nothing
                 \/ /\ hs[i].state = "FILE" /\ h.state = "FILE" /\ act = Piece(h.count)
                    /\ h.count = IF AckData(s, i) THEN Left(i) ELSE hs[i].count
<1>1. hs[i] \in HttpState /\ hs = [hs EXCEPT ![i] = hs[i]]
  BY DEF Types
<1>2. /\ "CONNECTED" \notin call'.flags /\ "CLOSE" \notin call'.flags /\ "ABORT" \notin call'.flags
      /\ "ACKDATA" \in call'.flags <=> AckData(s, i)
  BY DEF Call
<1>3. Left(i) \in Nat
  BY <1>1 DEF Left, HttpState, Types, Connection
<1>4. CASE HttpdData(i, act)
  <2>1. CASE act = Abort /\ UNCHANGED hs
    BY <1>1, <2>1 DEF Abort
  <2>2. CASE Serve(i, Request, act)
    <3>1. Request \in HttpState
      BY DEF Request, HttpState
    <3>2. Request.state = "FILE" => ReqLen \in call'.data /\ Request.count = PageLen
      BY DEF Request
    <3>3. hs' = [hs EXCEPT ![i] = Request] /\ act = IF Request.state = "FILE" THEN Piece(Request.count) ELSE Nothing
      BY <2>2 DEF Serve
    <3>4. hs[i].state # "FILE"
      BY <1>4 DEF HttpdData
    <3> QED BY <3>1, <3>2, <3>3, <3>4
  <2> QED BY <1>4, <2>1, <2>2 DEF HttpdData
<1>5. CASE HttpdFile(i, act)
  <2>0. hs[i].state = "FILE"
    BY <1>5 DEF HttpdFile
  <2>1. CASE ~AckData(s, i) /\ Serve(i, hs[i], act)
    BY <1>1, <2>0, <2>1 DEF Serve
  <2>2. CASE AckData(s, i) /\ Left(i) = 0 /\ hs' = [hs EXCEPT ![i].count = 0] /\ act = Close
    <3>1. [hs[i] EXCEPT !.count = 0] \in HttpState
      BY <1>1 DEF HttpState
    <3>2. hs' = [hs EXCEPT ![i] = [hs[i] EXCEPT !.count = 0]]
      BY <2>2
    <3> QED BY <2>0, <2>2, <3>1, <3>2 DEF Close
  <2>3. CASE AckData(s, i) /\ Serve(i, [hs[i] EXCEPT !.count = Left(i)], act)
    <3> DEFINE h == [hs[i] EXCEPT !.count = Left(i)]
    <3>1. h \in HttpState /\ h.state = "FILE" /\ h.count = Left(i)
      BY <1>1, <1>3, <2>0 DEF HttpState
    <3>2. Serve(i, h, act)
      BY <2>3
    <3> HIDE DEF h
    <3>3. hs' = [hs EXCEPT ![i] = h] /\ act = Piece(h.count)
      BY <3>1, <3>2 DEF Serve
    <3> QED BY <2>0, <2>3, <3>1, <3>3
  <2> QED BY <1>2, <1>5, <2>1, <2>2, <2>3 DEF HttpdFile
<1>6. CASE HttpdIdle(i, act)
  <2>1. hs[i].state # "FILE" /\ act = Nothing /\ hs' = hs
    BY <1>2, <1>6 DEF HttpdIdle
  <2> QED BY <1>1, <2>1
<1> QED BY <1>2, <1>4, <1>5, <1>6 DEF httpd_appcall, HttpdConnected

LEMMA ServedOutcome ==
    ASSUME Types, NEW i \in Slots, NEW s \in Segment, NEW act \in Acts,
           Established(s, i, act), httpd_appcall(i, act)
    PROVE  \E d \in Connection, h \in HttpState : Served(s, i, d, h)
<1> DEFINE e == WithData(s, i)
           n == IF AckData(s, i) THEN 0 ELSE uip_conns[i].len
           a == Call(i, IF AckData(s, i) THEN {"ACKDATA"} ELSE {}, s)
<1>1. /\ e \in Connection /\ e.peer = uip_conns[i].peer /\ e.rcv_nxt = uip_conns[i].rcv_nxt + s.len
      /\ e.snd_nxt = IF AckData(s, i) THEN s.ack ELSE uip_conns[i].snd_nxt
      /\ e.state = uip_conns[i].state
  BY TakenNumbers DEF Types
<1>2. Accepts(s, i, "ESTABLISHED") /\ AppSend(i, e, n, act, a)
  BY DEF Established
<1>3. n \in Nat /\ n = Outst(s, i)
  BY DEF Types, Connection, Outst
<1>4. a.data = s.seq .. s.seq + s.len - 1
  BY DEF Call
<1>a. a = Call(i, IF AckData(s, i) THEN {"ACKDATA"} ELSE {}, s)
  OBVIOUS
<1> HIDE DEF a, e, n
<1>5. PICK d \in Connection :
              /\ Becomes(i, d) /\ call' = a /\ d.rcv_nxt = e.rcv_nxt /\ d.snd_nxt = e.snd_nxt
              /\ \/ act.does = "abort" /\ d.state = "CLOSED" /\ NoFin
                 \/ act.does = "close" /\ d.state = "FIN_WAIT_1" /\ \A r \in out' : r.seq = d.snd_nxt
                 \/ act.does = "send" /\ d.state = e.state /\ d.len = Outstanding(n, act) /\ NoFin
  BY <1>1, <1>2, <1>3, AppSendOutcome
<1>6. PICK h \in HttpState :
              /\ hs' = [hs EXCEPT ![i] = h]
              /\ \/ act.does = "abort"
                 \/ act.does = "close" /\ hs[i].state = "FILE" /\ AckData(s, i) /\ Left(i) = 0
                 \/ /\ hs[i].state # "FILE" /\ ReqLen \in call'.data
                    /\ h.state = "FILE" /\ h.count = PageLen /\ act = Piece(PageLen)
                 \/ hs[i].state # "FILE" /\ h.state # "FILE" /\ act = Nothing
                 \/ /\ hs[i].state = "FILE" /\ h.state = "FILE" /\ act = Piece(h.count)
                    /\ h.count = IF AckData(s, i) THEN Left(i) ELSE hs[i].count
  BY <1>5, <1>a, AppcallEstablished
<1>7. HandsOver(s, i, d)
  BY <1>1, <1>2, <1>4, <1>5 DEF HandsOver, Accepts
<1>8. uip_conns[i].state = "ESTABLISHED"
  BY <1>2 DEF Accepts
<1>9. CASE act.does = "abort"
  <2>1. Served(s, i, d, h)
    BY <1>1, <1>5, <1>6, <1>7, <1>8, <1>9 DEF Served
  <2> QED BY <2>1
<1>10. CASE act.does = "close"
  <2>0. hs[i].state = "FILE" /\ AckData(s, i) /\ Left(i) = 0
    <3>1. Nothing.does = "send" /\ \A m : Piece(m).does = "send"
      BY DEF Nothing, Piece
    <3> QED BY <1>6, <1>10, <3>1
  <2>1. Served(s, i, d, h)
    BY <1>1, <1>5, <1>6, <1>7, <1>8, <1>10, <2>0 DEF Served
  <2> QED BY <2>1
<1>11. CASE act.does = "send"
  <2>1. d.state = "ESTABLISHED" /\ d.len = Outstanding(n, act) /\ NoFin
    BY <1>1, <1>5, <1>8, <1>11
  <2>2. Outstanding(n, Nothing) = 0
    BY DEF Outstanding, Nothing
  <2>3. GoesOn(s, i, d, h)
    BY <1>3, <1>6, <1>11, <2>1, <2>2 DEF GoesOn
  <2>4. Served(s, i, d, h)
    BY <1>1, <1>5, <1>6, <1>7, <1>8, <2>1, <2>3 DEF Served
  <2> QED BY <2>4
<1> QED BY <1>5, <1>9, <1>10, <1>11

\* A FIN that is taken.
LastOnes(s, i, d) ==
    /\ Becomes(i, d) /\ "FIN" \in s.flags
    /\ uip_conns[i].state = "ESTABLISHED" /\ d.state = "LAST_ACK"

LEMMA FinOutcome ==
    ASSUME Types, NEW i \in Slots, NEW s \in Segment, Fin(s, i)
    PROVE  \E d \in Connection : LastOnes(s, i, d)
<1> DEFINE d == Finished(WithData(s, i), "LAST_ACK", 1)
           flags == {"FIN", "ACK"}
<1>1. WithData(s, i) \in Connection /\ WithData(s, i).peer = uip_conns[i].peer
  BY TakenNumbers DEF Types
<1>2. d \in Connection /\ d.state = "LAST_ACK" /\ d.peer = uip_conns[i].peer
  <2>1. "LAST_ACK" \in States /\ 1 \in Nat
    BY DEF States
  <2> QED BY <1>1, <2>1, FinishedType
<1>3. Become(i, d, Call(i, {"CLOSE"}, s), Answer(d, flags, 0)) /\ "FIN" \in s.flags /\ uip_conns[i].state = "ESTABLISHED"
  BY DEF Fin, Accepts
<1>4. flags \in SUBSET {"SYN", "ACK", "FIN", "RST"} /\ 0 \in Nat
  OBVIOUS
<1> HIDE DEF d, flags
<1>5. Becomes(i, d)
  BY <1>2, <1>3, <1>4, BecomeType
<1> QED BY <1>2, <1>3, <1>5 DEF LastOnes

\* Whatever the application is told, only its state of this connection changes.
LEMMA AppcallLocal ==
    ASSUME Types, NEW i \in Slots, NEW act, httpd_appcall(i, act)
    PROVE  \E h \in HttpState : hs' = [hs EXCEPT ![i] = h]
<1>1. hs[i] \in HttpState /\ hs = [hs EXCEPT ![i] = hs[i]]
  BY DEF Types
<1>2. Left(i) \in Nat
  BY <1>1 DEF Left, HttpState, Types, Connection
<1>3. Request \in HttpState
  BY DEF Request, HttpState
<1>4. /\ [hs[i] EXCEPT !.count = Left(i)] \in HttpState
      /\ [hs[i] EXCEPT !.count = 0] \in HttpState
      /\ [state |-> "NOGET", count |-> 0] \in HttpState
  BY <1>1, <1>2 DEF HttpState
<1>5. hs' = [hs EXCEPT ![i].count = 0] => hs' = [hs EXCEPT ![i] = [hs[i] EXCEPT !.count = 0]]
  OBVIOUS
<1>6. CASE HttpdConnected(i, act)
  BY <1>4, <1>6 DEF HttpdConnected
<1>7. CASE HttpdData(i, act)
  BY <1>1, <1>3, <1>7 DEF HttpdData, Serve
<1>8. CASE HttpdFile(i, act)
  BY <1>1, <1>4, <1>5, <1>8 DEF HttpdFile, Serve
<1>9. CASE HttpdIdle(i, act)
  BY <1>1, <1>9 DEF HttpdIdle
<1> QED BY <1>6, <1>7, <1>8, <1>9 DEF httpd_appcall

\* The call a segment of connection i leads to is of that connection.
LEMMA CallOfConnection ==
    ASSUME NEW i \in Slots, NEW s \in Segment, NEW act, Input(s, i, {act})
    PROVE  call' = NoCall \/ (call'.conn = i /\ call' # NoCall /\ call'.data \subseteq Int)
<1>1. s.seq \in Nat /\ s.len \in Nat
  BY SegmentNumbers
<1>2. \A flags : /\ Call(i, flags, s).conn = i /\ Call(i, flags, s) # NoCall
                 /\ Call(i, flags, s).data \subseteq Int
  BY <1>1 DEF Call, NoCall
<1>3. \A flag : /\ CallOnly(i, flag).conn = i /\ CallOnly(i, flag) # NoCall
                /\ CallOnly(i, flag).data \subseteq Int
  BY DEF CallOnly, NoCall
<1>4. CASE Silent(s, i)
  <2>1. call' = NoCall \/ \E flag : call' = CallOnly(i, flag)
    BY <1>4 DEF Silent, PeerReset, OutOfSequence, LastAck, PeerFin, FinAcked, LateData, TimeWait,
                ClosingAcked, Drop, Become
  <2> QED BY <1>3, <2>1
<1>5. CASE SynRcvd(s, i, act) \/ Established(s, i, act) \/ Fin(s, i)
  <2>1. \E flags : call' = Call(i, flags, s)
    BY <1>5 DEF SynRcvd, Established, Fin, AppSend, Become
  <2> QED BY <1>2, <2>1
<1> QED BY <1>4, <1>5 DEF Input, Silent

\* The application's side of a frame.
Told(act) ==
    IF call' = NoCall THEN act = Nothing /\ UNCHANGED <<hs, seen>>
    ELSE httpd_appcall(call'.conn, act)

\* All that can become of a segment of connection i.
Outcome(s, i, d, h) ==
    /\ Becomes(i, d) /\ hs' = [hs EXCEPT ![i] = h] /\ call'.data \subseteq Int
    /\ \/ Quiet(s, i, d) /\ h = hs[i]
       \/ Late(i, d) \/ Over(i, d)
       \/ Opened(s, i, d) \/ Served(s, i, d, h) \/ LastOnes(s, i, d)

LEMMA InputOutcome ==
    ASSUME Types, NEW i \in Slots, NEW s \in Segment, NEW act \in Acts,
           Input(s, i, {act}), Told(act)
    PROVE  \E d \in Connection, h \in HttpState : Outcome(s, i, d, h)
<1>1. hs[i] \in HttpState /\ hs = [hs EXCEPT ![i] = hs[i]]
  BY DEF Types
<1>2. call' = NoCall \/ (call'.conn = i /\ call' # NoCall /\ call'.data \subseteq Int)
  BY CallOfConnection
<1>3. call' # NoCall => httpd_appcall(i, act)
  BY <1>2 DEF Told
<1>4. call' = NoCall => hs' = hs /\ call'.data = {}
  BY DEF Told, NoCall
<1>5. call'.data \subseteq Int
  BY <1>2, <1>4
<1>6. PICK g \in HttpState : hs' = [hs EXCEPT ![i] = g] /\ (call' = NoCall => g = hs[i])
  BY <1>1, <1>3, <1>4, AppcallLocal
<1>7. CASE Silent(s, i)
  <2>1. PICK d \in Connection : Becomes(i, d) /\ (Quiet(s, i, d) \/ Late(i, d) \/ Over(i, d))
    BY <1>7, SilentOutcome
  <2>2. Outcome(s, i, d, g)
    BY <1>5, <1>6, <2>1 DEF Outcome, Quiet
  <2> QED BY <2>2
<1>8. ASSUME SynRcvd(s, i, act) \/ Established(s, i, act) \/ Fin(s, i)
      PROVE  call' # NoCall
  <2>1. \A flags : Call(i, flags, s) # NoCall
    BY DEF Call, NoCall
  <2>2. \E flags : call' = Call(i, flags, s)
    BY <1>8 DEF SynRcvd, Established, Fin, AppSend, Become
  <2> QED BY <2>1, <2>2
<1>9. CASE SynRcvd(s, i, act)
  <2>1. PICK d \in Connection : Opened(s, i, d)
    BY <1>3, <1>8, <1>9, OpenedOutcome
  <2>2. Outcome(s, i, d, g)
    BY <1>5, <1>6, <2>1 DEF Outcome, Opened
  <2> QED BY <2>2
<1>10. CASE Established(s, i, act)
  <2>1. PICK d \in Connection, h \in HttpState : Served(s, i, d, h)
    BY <1>3, <1>8, <1>10, ServedOutcome
  <2>2. Outcome(s, i, d, h)
    BY <1>5, <2>1 DEF Outcome, Served
  <2> QED BY <2>2
<1>11. CASE Fin(s, i)
  <2>1. PICK d \in Connection : LastOnes(s, i, d)
    BY <1>11, FinOutcome
  <2>2. Outcome(s, i, d, g)
    BY <1>5, <1>6, <2>1 DEF Outcome, LastOnes
  <2> QED BY <2>2
<1> QED BY <1>7, <1>9, <1>10, <1>11 DEF Input, Silent

-----------------------------------------------------------------------------
(* What the board makes of a frame.                                        *)

\* No connection: nothing changes, and the answer, if any, is a RST.
Rejects ==
    /\ UNCHANGED <<uip_conns, hs>> /\ call'.data = {}
    /\ \A r \in out' : r \in Segment /\ "RST" \in r.flags /\ "FIN" \notin r.flags

\* A SYN takes connection i.
Listens(s, i, d) ==
    /\ s.flags = {"SYN"}
    /\ d.state = "SYN_RCVD" /\ d.peer = s.peer /\ d.snd_nxt = iss /\ d.rcv_nxt = s.seq + 1 /\ d.len = 1
    /\ uip_conns' = [uip_conns EXCEPT ![i] = d] /\ UNCHANGED hs
    /\ call'.data = {} /\ AnswersOf(d) /\ NoFin

\* The segment belongs to connection i.
Handles(s, i, d, h) ==
    /\ uip_conns[i].state # "CLOSED" /\ uip_conns[i].peer = s.peer
    /\ Outcome(s, i, d, h)

LEMMA ReceiveOutcome ==
    ASSUME Types, NEW s \in Segment, Receive(s)
    PROVE  /\ handed' = [handed EXCEPT ![s.peer] = @ \cup call'.data]
           /\ down' = down \cup out' /\ client' = client
           /\ \/ Rejects
              \/ \E i \in Slots : \E d \in Connection :
                    Listens(s, i, d) \/ \E h \in HttpState : Handles(s, i, d, h)
<1>1. /\ handed' = [handed EXCEPT ![s.peer] = @ \cup call'.data]
      /\ down' = down \cup out' /\ client' = client
  BY DEF Receive
<1>2. PICK act \in Acts : uip_process(s, {act}) /\ Told(act)
  BY DEF Receive, Told
<1>3. s.peer \in Peers /\ s.seq \in Nat /\ s.ack \in Nat /\ s.len \in Nat
  BY SegmentNumbers
<1>4. call' = NoCall => hs' = hs /\ call'.data = {}
  BY <1>2 DEF Told, NoCall
<1>5. CASE Unknown(s)
  <2>1. uip_conns' = uip_conns /\ hs' = hs /\ call'.data = {}
    BY <1>4, <1>5 DEF Unknown
  <2>2. \A r \in out' : r = [peer |-> s.peer, flags |-> {"RST", "ACK"}, seq |-> s.ack,
                             ack |-> s.seq + 1, len |-> 0]
    BY <1>5 DEF Unknown
  <2>3. \A r \in out' : r \in Segment /\ "RST" \in r.flags /\ "FIN" \notin r.flags
    BY <1>3, <2>2 DEF Segment
  <2> QED BY <1>1, <2>1, <2>3 DEF Rejects
<1>6. CASE NoRoom(s)
  BY <1>1, <1>4, <1>6 DEF NoRoom, Rejects
<1>7. ASSUME NEW i \in Slots, Listen(s, i)
      PROVE  \E d \in Connection : Listens(s, i, d)
  <2> DEFINE d == [state |-> "SYN_RCVD", peer |-> s.peer, snd_nxt |-> iss,
                   rcv_nxt |-> s.seq + 1, len |-> 1]
             flags == {"SYN", "ACK"}
  <2>1. /\ d \in Connection /\ d.state = "SYN_RCVD" /\ d.peer = s.peer /\ d.snd_nxt = iss
        /\ d.rcv_nxt = s.seq + 1 /\ d.len = 1
    BY <1>3 DEF Connection, States
  <2>2. Become(i, d, NoCall, Answer(d, flags, 0)) /\ s.flags = {"SYN"}
    BY <1>7 DEF Listen
  <2>3. flags \in SUBSET {"SYN", "ACK", "FIN", "RST"} /\ "FIN" \notin flags /\ 0 \in Nat
    OBVIOUS
  <2> HIDE DEF d, flags
  <2>4. uip_conns' = [uip_conns EXCEPT ![i] = d] /\ call' = NoCall /\ out' = Answer(d, flags, 0)
    BY <2>2 DEF Become
  <2>5. AnswersOf(d) /\ NoFin
    BY <2>1, <2>3, <2>4, AnswerNumbers DEF AnswersOf, NoFin
  <2>6. Listens(s, i, d)
    BY <1>4, <2>1, <2>2, <2>4, <2>5 DEF Listens
  <2> QED BY <2>1, <2>6
<1>8. ASSUME NEW i \in Slots, Found(s, i), Input(s, i, {act})
      PROVE  \E d \in Connection, h \in HttpState : Handles(s, i, d, h)
  <2>1. uip_conns[i].state # "CLOSED" /\ uip_conns[i].peer = s.peer
    BY <1>8 DEF Found, Matches
  <2>2. PICK d \in Connection, h \in HttpState : Outcome(s, i, d, h)
    BY <1>2, <1>8, InputOutcome
  <2> QED BY <2>1, <2>2 DEF Handles
<1>9. CASE \E i \in Slots : Listen(s, i)
  BY <1>1, <1>7, <1>9
<1>10. CASE \E i \in Slots : Found(s, i) /\ Input(s, i, {act})
  BY <1>1, <1>8, <1>10
<1> QED BY <1>2, <1>5, <1>6, <1>9, <1>10 DEF uip_process

-----------------------------------------------------------------------------
(* Nothing that has been handed over is taken back.                        *)

Grows == \A p \in Peers : handed[p] \subseteq handed'[p]

LEMMA HandedGrows ==
    ASSUME Grows, NEW p \in Peers
    PROVE  /\ \A n \in Nat : Handed(p, n) => Handed(p, n)'
           /\ AllHanded(p) => AllHanded(p)'
BY DEF Grows, Handed, AllHanded

LEMMA AllIsHanded ==
    ASSUME NEW p, NEW n
    PROVE  /\ AllHanded(p) => Handed(p, n)
           /\ AllHanded(p)' => Handed(p, n)'
BY DEF Handed, AllHanded

\* The types, for the board's part and for the rest.
LEMMA ReceiveTypes ==
    ASSUME Types, NEW s \in Segment, Receive(s)
    PROVE  /\ uip_conns' \in [Slots -> Connection] /\ hs' \in [Slots -> HttpState]
           /\ down' \subseteq Segment /\ client' = client
           /\ handed' \in [Peers -> SUBSET Int] /\ Grows
<1>1. /\ handed' = [handed EXCEPT ![s.peer] = @ \cup call'.data]
      /\ down' = down \cup out' /\ client' = client
      /\ \/ Rejects
         \/ \E i \in Slots : \E d \in Connection :
               Listens(s, i, d) \/ \E h \in HttpState : Handles(s, i, d, h)
  BY ReceiveOutcome
<1>2. ASSUME call'.data \subseteq Int, out' \subseteq Segment
      PROVE  /\ down' \subseteq Segment /\ handed' \in [Peers -> SUBSET Int] /\ Grows
  BY <1>1, <1>2 DEF Types, Grows
<1>3. CASE Rejects
  BY <1>1, <1>2, <1>3 DEF Rejects, Types
<1>4. ASSUME NEW i \in Slots, NEW d \in Connection, Listens(s, i, d)
      PROVE  /\ uip_conns' \in [Slots -> Connection] /\ hs' \in [Slots -> HttpState]
             /\ call'.data \subseteq Int /\ out' \subseteq Segment
  BY <1>4 DEF Listens, Types, AnswersOf
<1>5. ASSUME NEW i \in Slots, NEW d \in Connection, NEW h \in HttpState, Handles(s, i, d, h)
      PROVE  /\ uip_conns' \in [Slots -> Connection] /\ hs' \in [Slots -> HttpState]
             /\ call'.data \subseteq Int /\ out' \subseteq Segment
  BY <1>5 DEF Handles, Outcome, Becomes, Types, AnswersOf
<1> QED BY <1>1, <1>2, <1>3, <1>4, <1>5

-----------------------------------------------------------------------------
(* AckedIsHanded: the board's steps.                                       *)

\* What the connection and its answers acknowledge after a segment of its own.
LEMMA HandlesHanded ==
    ASSUME Types, HandedInv, Grows, NEW s \in up, NEW i \in Slots, NEW d \in Connection,
           NEW h \in HttpState, Handles(s, i, d, h),
           handed' = [handed EXCEPT ![s.peer] = @ \cup call'.data]
    PROVE  /\ Handed(d.peer, d.rcv_nxt)'
           /\ d.state \notin {"CLOSED", "SYN_RCVD", "ESTABLISHED"} => AllHanded(d.peer)'
           /\ d.state = "ESTABLISHED" /\ h.state = "FILE" => AllHanded(d.peer)'
           /\ \A r \in out' : "FIN" \in r.flags => AllHanded(d.peer)'
<1> DEFINE c == uip_conns[i]
           p == s.peer
<1>1. s \in Segment /\ p \in Peers /\ s.seq \in Nat /\ s.len \in Nat
  BY SegmentNumbers DEF Types
<1>2. c \in Connection /\ c.peer = p /\ c.state # "CLOSED" /\ Outcome(s, i, d, h)
  BY DEF Types, Handles
<1>3. d.peer = p /\ d.rcv_nxt \in Nat /\ c.rcv_nxt \in Nat /\ d.state \in States /\ c.state \in States
  BY <1>2 DEF Outcome, Becomes, Connection
<1>4. /\ Handed(p, c.rcv_nxt)
      /\ c.state \notin {"SYN_RCVD", "ESTABLISHED"} => AllHanded(p)
      /\ c.state = "ESTABLISHED" /\ hs[i].state = "FILE" => AllHanded(p)
  BY <1>2 DEF HandedInv, SlotHanded
<1>n. PICK n \in Nat : n = c.rcv_nxt
  BY <1>3
<1>5. Handed(p, n)' /\ (AllHanded(p) => AllHanded(p)')
  BY <1>1, <1>n, <1>4, HandedGrows
<1>6. AllHanded(p)' => Handed(p, d.rcv_nxt)'
  BY AllIsHanded
<1>7. handed'[p] = handed[p] \cup call'.data
  BY <1>1 DEF Types
<1>8. ASSUME HandsOver(s, i, d)
      PROVE  Handed(p, d.rcv_nxt)' /\ (ReqLen \in call'.data => AllHanded(p)')
  <2>1. \A k \in 1 .. ReqLen : k < c.rcv_nxt => k \in handed'[p]
    BY <1>n, <1>5 DEF Handed
  <2>2. \A k \in 1 .. ReqLen : k < d.rcv_nxt => k \in handed'[p]
    BY <1>1, <1>3, <1>7, <1>8, <2>1 DEF HandsOver
  <2>3. ReqLen \in call'.data => ReqLen < d.rcv_nxt
    BY <1>1, <1>3, <1>8 DEF HandsOver
  <2>4. ReqLen < d.rcv_nxt => \A k \in 1 .. ReqLen : k < d.rcv_nxt
    BY <1>3
  <2> QED BY <2>2, <2>3, <2>4 DEF Handed, AllHanded
<1>9. CASE Quiet(s, i, d) /\ h = hs[i]
  BY <1>3, <1>n, <1>4, <1>5, <1>6, <1>9 DEF Quiet, NoFin
<1>10. CASE Late(i, d)
  BY <1>3, <1>4, <1>5, <1>6, <1>10 DEF Late, NoFin
<1>11. CASE Over(i, d)
  BY <1>3, <1>n, <1>5, <1>11 DEF Over, NoFin
<1>12. CASE Opened(s, i, d)
  <2>1. hs'[i] = [state |-> "NOGET", count |-> 0] /\ hs'[i] = h
    BY <1>2, <1>12 DEF Opened, Outcome, Types
  <2>2. h.state = "NOGET"
    BY <2>1
  <2> QED BY <1>3, <1>8, <1>12, <2>2 DEF Opened, NoFin
<1>13. CASE Served(s, i, d, h)
  <2>1. Handed(p, d.rcv_nxt)' /\ (ReqLen \in call'.data => AllHanded(p)') /\ c.state = "ESTABLISHED"
    BY <1>8, <1>13 DEF Served
  <2>2. CASE d.state = "CLOSED" /\ NoFin
    BY <1>3, <2>1, <2>2 DEF NoFin
  <2>3. CASE d.state = "FIN_WAIT_1" /\ hs[i].state = "FILE"
    BY <1>3, <1>4, <1>5, <2>1, <2>3
  <2>4. CASE d.state = "ESTABLISHED" /\ NoFin /\ GoesOn(s, i, d, h)
    BY <1>3, <1>4, <1>5, <2>1, <2>4 DEF NoFin, GoesOn
  <2> QED BY <1>13, <2>2, <2>3, <2>4 DEF Served
<1>14. CASE LastOnes(s, i, d)
  <2>1. AllHanded(p)
    BY <1>14 DEF LastOnes, HandedInv
  <2> QED BY <1>3, <1>5, <1>6, <1>14, <2>1 DEF LastOnes
<1> QED BY <1>2, <1>9, <1>10, <1>11, <1>12, <1>13, <1>14 DEF Outcome

LEMMA ReceiveHanded ==
    ASSUME Types, HandedInv, NEW s \in up, Receive(s), up' \subseteq up
    PROVE  HandedInv'
<1>1. s \in Segment /\ s.peer \in Peers
  BY SegmentNumbers DEF Types
<1>2. /\ uip_conns' \in [Slots -> Connection] /\ hs' \in [Slots -> HttpState]
      /\ down' \subseteq Segment /\ client' = client /\ Grows
  BY <1>1, ReceiveTypes
<1>3. /\ handed' = [handed EXCEPT ![s.peer] = @ \cup call'.data]
      /\ down' = down \cup out'
      /\ \/ Rejects
         \/ \E i \in Slots : \E d \in Connection :
               Listens(s, i, d) \/ \E h \in HttpState : Handles(s, i, d, h)
  BY <1>1, ReceiveOutcome
<1>4. ASSUME NEW j \in Slots, uip_conns'[j] = uip_conns[j], hs'[j] = hs[j]
      PROVE  SlotHanded(uip_conns[j], hs[j])'
  <2>1. uip_conns[j].peer \in Peers /\ uip_conns[j].rcv_nxt \in Nat
    BY DEF Types, Connection
  <2>2. SlotHanded(uip_conns[j], hs[j])
    BY DEF HandedInv
  <2> QED BY <1>2, <1>4, <2>1, <2>2, HandedGrows DEF SlotHanded
<1>5. \A t \in up' : /\ "FIN" \in t.flags => AllHanded(t.peer)'
                     /\ t.flags = {"SYN"} => t.seq = 0
  <2>1. \A t \in up : /\ "FIN" \in t.flags => AllHanded(t.peer)
                      /\ t.flags = {"SYN"} => t.seq = 0
    BY DEF HandedInv
  <2>2. \A t \in up : t.peer \in Peers
    BY SegmentNumbers DEF Types
  <2> QED BY <1>2, <2>1, <2>2, HandedGrows
<1>6. \A p \in Peers : /\ Handed(p, client[p].una)'
                       /\ client'[p].st \in {"half", "fin"} => AllHanded(p)'
  <2>1. \A p \in Peers : client[p].una \in Nat
    BY DEF Types, Browser
  <2>2. \A p \in Peers : /\ Handed(p, client[p].una)
                         /\ client[p].st \in {"half", "fin"} => AllHanded(p)
    BY DEF HandedInv
  <2>3. \A p \in Peers : Handed(p, client[p].una)' <=> \A k \in 1 .. ReqLen : k < client[p].una => k \in handed'[p]
    BY <1>2 DEF Handed
  <2>4. \A p \in Peers : Handed(p, client[p].una)'
    BY <1>2, <2>1, <2>2, <2>3 DEF Grows, Handed
  <2> QED BY <1>2, <2>2, <2>4, HandedGrows
<1>7. ASSUME \A r \in out' : /\ "RST" \notin r.flags => Handed(r.peer, r.ack)'
                             /\ "FIN" \in r.flags => AllHanded(r.peer)'
      PROVE  \A r \in down' : /\ "RST" \notin r.flags => Handed(r.peer, r.ack)'
                              /\ "FIN" \in r.flags => AllHanded(r.peer)'
  <2>1. \A r \in down : /\ "RST" \notin r.flags => Handed(r.peer, r.ack)
                        /\ "FIN" \in r.flags => AllHanded(r.peer)
    BY DEF HandedInv
  <2>2. \A r \in down : r.peer \in Peers /\ r.ack \in Nat
    BY SegmentNumbers DEF Types
  <2>3. \A r \in down : /\ "RST" \notin r.flags => Handed(r.peer, r.ack)'
                        /\ "FIN" \in r.flags => AllHanded(r.peer)'
    <3> TAKE r \in down
    <3>1. r.peer \in Peers /\ r.ack \in Nat
      BY <2>2
    <3>2. Handed(r.peer, r.ack) => Handed(r.peer, r.ack)'
      BY <1>2, <3>1 DEF Grows, Handed
    <3>3. AllHanded(r.peer) => AllHanded(r.peer)'
      BY <1>2, <3>1, HandedGrows
    <3> QED BY <2>1, <3>2, <3>3
  <2> QED BY <1>3, <1>7, <2>3
<1>8. ASSUME \A j \in Slots : SlotHanded(uip_conns[j], hs[j])',
             \A r \in out' : /\ "RST" \notin r.flags => Handed(r.peer, r.ack)'
                             /\ "FIN" \in r.flags => AllHanded(r.peer)'
      PROVE  HandedInv'
  BY <1>5, <1>6, <1>7, <1>8 DEF HandedInv
<1>9. CASE Rejects
  <2>1. \A j \in Slots : SlotHanded(uip_conns[j], hs[j])'
    BY <1>4, <1>9 DEF Rejects
  <2>2. \A r \in out' : /\ "RST" \notin r.flags => Handed(r.peer, r.ack)'
                        /\ "FIN" \in r.flags => AllHanded(r.peer)'
    BY <1>9 DEF Rejects
  <2> QED BY <1>8, <2>1, <2>2
<1>10. ASSUME NEW i \in Slots, NEW d \in Connection, Listens(s, i, d)
       PROVE  HandedInv'
  <2>1. d.rcv_nxt = 1 /\ d.state = "SYN_RCVD"
    BY <1>10 DEF Listens, HandedInv
  <2>2. Handed(d.peer, d.rcv_nxt)'
    BY <2>1 DEF Handed
  <2>3. uip_conns'[i] = d /\ \A j \in Slots \ {i} : uip_conns'[j] = uip_conns[j]
    BY <1>10 DEF Listens, Types
  <2>4. hs' = hs /\ AnswersOf(d) /\ NoFin
    BY <1>10 DEF Listens
  <2>5. SlotHanded(uip_conns[i], hs[i])'
    BY <2>1, <2>2, <2>3 DEF SlotHanded, Handed
  <2>6. \A j \in Slots : SlotHanded(uip_conns[j], hs[j])'
    BY <1>4, <2>3, <2>4, <2>5
  <2>7. \A r \in out' : /\ "RST" \notin r.flags => Handed(r.peer, r.ack)'
                        /\ "FIN" \in r.flags => AllHanded(r.peer)'
    BY <2>2, <2>4 DEF AnswersOf, NoFin, Handed
  <2> QED BY <1>8, <2>6, <2>7
<1>11. ASSUME NEW i \in Slots, NEW d \in Connection, NEW h \in HttpState, Handles(s, i, d, h)
       PROVE  HandedInv'
  <2>1. /\ Handed(d.peer, d.rcv_nxt)'
        /\ d.state \notin {"CLOSED", "SYN_RCVD", "ESTABLISHED"} => AllHanded(d.peer)'
        /\ d.state = "ESTABLISHED" /\ h.state = "FILE" => AllHanded(d.peer)'
        /\ \A r \in out' : "FIN" \in r.flags => AllHanded(d.peer)'
    BY <1>2, <1>3, <1>11, HandlesHanded
  <2>2. AnswersOf(d) /\ uip_conns' = [uip_conns EXCEPT ![i] = d] /\ hs' = [hs EXCEPT ![i] = h]
    BY <1>11 DEF Handles, Outcome, Becomes
  <2>3. /\ uip_conns'[i] = d /\ \A j \in Slots \ {i} : uip_conns'[j] = uip_conns[j]
        /\ hs'[i] = h /\ \A j \in Slots \ {i} : hs'[j] = hs[j]
    BY <2>2 DEF Types
  <2>4. SlotHanded(uip_conns[i], hs[i])'
    BY <2>1, <2>3 DEF SlotHanded, Handed, AllHanded
  <2>5. \A j \in Slots : SlotHanded(uip_conns[j], hs[j])'
    BY <1>4, <2>3, <2>4
  <2>6. \A r \in out' : /\ "RST" \notin r.flags => Handed(r.peer, r.ack)'
                        /\ "FIN" \in r.flags => AllHanded(r.peer)'
    BY <2>1, <2>2 DEF AnswersOf, Handed, AllHanded
  <2> QED BY <1>8, <2>5, <2>6
<1> QED BY <1>3, <1>9, <1>10, <1>11

-----------------------------------------------------------------------------
(* The steps of the browsers and of the network.                           *)

LEMMA BrowserType ==
    ASSUME NEW b \in Browser
    PROVE  /\ b.una \in Nat /\ b.nxt \in Nat /\ b.rcv \in Nat
           /\ b.st \in {"idle", "syn", "est", "half", "fin", "done", "reset", "gone"}
BY DEF Browser

\* What is sent is new: a SYN that starts at 0, or neither SYN nor FIN.
Harmless(t) == t \in Segment /\ "FIN" \notin t.flags /\ (t.flags = {"SYN"} => t.seq = 0)

\* Nothing is sent or taken.
Loses == client' = client /\ up' \subseteq up

\* Browser p becomes b without taking or closing anything.
Plain(p, b) ==
    /\ b.una = client[p].una /\ b.rcv = client[p].rcv
    /\ \/ b.st = client[p].st \/ b.st = "gone"
       \/ client[p].st = "idle" /\ b.st = "syn"
    /\ \A t \in up' \ up : Harmless(t)

\* It closes.
Closes(p, b) ==
    /\ b.una = client[p].una /\ b.rcv = client[p].rcv /\ b.st = "fin"
    /\ \/ client[p].st \in {"half", "fin"}
       \/ EarlyFin /\ client[p].una > ReqLen
    /\ \A t \in up' \ up : /\ t \in Segment /\ t.flags = {"FIN", "ACK"} /\ t.peer = p
                           /\ t.ack = client[p].rcv

\* It takes a segment of the board.
Takes(p, b) ==
    /\ \E r \in down : r.peer = p /\ b = After(client[p], r)
    /\ client[p].st \in {"syn", "est", "half", "fin", "done"}
    /\ \A t \in up' \ up : Harmless(t)

Elsewhere ==
    /\ UNCHANGED <<uip_conns, hs, handed>> /\ down' \subseteq down
    /\ \/ Loses
       \/ \E p \in Peers : \E b \in Browser :
             /\ client' = [client EXCEPT ![p] = b]
             /\ Plain(p, b) \/ Closes(p, b) \/ Takes(p, b)

LEMMA AfterType ==
    ASSUME NEW c \in Browser, NEW r \in Segment
    PROVE  After(c, r) \in Browser
<1>1. /\ r.seq \in Nat /\ r.ack \in Nat /\ r.len \in Nat
      /\ r.seq + 1 \in Nat /\ r.seq + r.len + (IF "FIN" \in r.flags THEN 1 ELSE 0) \in Nat
  BY SegmentNumbers
<1>2. /\ c.una \in Nat /\ c.nxt \in Nat /\ c.rcv \in Nat
      /\ c.st \in {"idle", "syn", "est", "half", "fin", "done", "reset", "gone"}
  BY BrowserType
<1>3. CASE "RST" \in r.flags
  BY <1>3 DEF After, Browser
<1>4. CASE "RST" \notin r.flags /\ c.st = "syn"
  BY <1>1, <1>4 DEF After, Browser
<1>5. CASE "RST" \notin r.flags /\ c.st # "syn"
  <2> DEFINE una == IF r.ack > c.una THEN r.ack ELSE c.una
             rcv == IF r.seq = c.rcv THEN r.seq + r.len + (IF "FIN" \in r.flags THEN 1 ELSE 0) ELSE c.rcv
             st == IF c.st = "fin" /\ r.ack > ReqLen + 1 THEN "done"
                   ELSE IF c.st = "est" /\ "FIN" \in r.flags /\ r.seq = c.rcv THEN "half" ELSE c.st
  <2>1. una \in Nat /\ rcv \in Nat /\ st \in {"idle", "syn", "est", "half", "fin", "done", "reset", "gone"}
    BY <1>1, <1>2
  <2>2. After(c, r) = [nxt |-> c.nxt, una |-> una, rcv |-> rcv, st |-> st]
    BY <1>5 DEF After
  <2> HIDE DEF una, rcv, st
  <2> QED BY <1>2, <2>1, <2>2 DEF Browser
<1> QED BY <1>3, <1>4, <1>5

LEMMA ElsewhereOutcome ==
    ASSUME Types, LinkNext, ~\E s \in up : DeliverUp(s)
    PROVE  Elsewhere
<1> USE DEF vars
<1>0. \A p \in Peers : client[p] \in Browser
  BY DEF Types
<1>1. ASSUME NEW r \in down, DeliverDown(r)
      PROVE  Elsewhere
  <2> DEFINE p == r.peer
             b == After(client[p], r)
  <2>1. r \in Segment /\ p \in Peers
    BY SegmentNumbers DEF Types
  <2>2. b \in Browser
    BY <1>0, <2>1, AfterType
  <2>3. /\ client[p].st \in {"syn", "est", "half", "fin", "done"} /\ client' = [client EXCEPT ![p] = b]
        /\ up' \subseteq up \cup {AckOf(p, b)}
        /\ UNCHANGED <<uip_conns, hs, handed>> /\ down' \subseteq down
    BY <1>1 DEF DeliverDown, ClientReceive
  <2> HIDE DEF b
  <2>4. Harmless(AckOf(p, b))
    <3>1. b.una \in Nat /\ b.rcv \in Nat
      BY <2>2, BrowserType
    <3>2. AckOf(p, b) \in Segment /\ AckOf(p, b).flags = {"ACK"}
      BY <2>1, <3>1 DEF AckOf, Segment
    <3> QED BY <3>2 DEF Harmless
  <2>5. Takes(p, b)
    BY <2>3, <2>4 DEF Takes, b
  <2> HIDE DEF p
  <2> QED BY <2>1, <2>2, <2>3, <2>5 DEF Elsewhere
<1>2. ASSUME NEW r \in down, Ignored(r)
      PROVE  Elsewhere
  BY <1>2 DEF Ignored, Elsewhere, Loses
<1>3. CASE Lose
  BY <1>3 DEF Lose, Elsewhere, Loses
<1>4. ASSUME NEW p \in Peers, NEW b, client' = [client EXCEPT ![p] = b], b \in Browser,
             UNCHANGED <<uip_conns, hs, handed, down>>, Plain(p, b) \/ Closes(p, b)
      PROVE  Elsewhere
  BY <1>4 DEF Elsewhere
<1>5. ASSUME NEW p \in Peers, NEW b, b \in Browser, client' = [client EXCEPT ![p] = b], NEW t, Send(t)
      PROVE  /\ UNCHANGED <<uip_conns, hs, handed, down>>
             /\ \A u \in up' \ up : u = t
  BY <1>5 DEF Send
<1>6. ASSUME NEW p \in Peers, ClientSyn(p)
      PROVE  Elsewhere
  <2> DEFINE b == [client[p] EXCEPT !.st = "syn"]
  <2>1. b \in Browser /\ b.una = client[p].una /\ b.rcv = client[p].rcv /\ b.st = "syn"
    BY <1>0 DEF Browser
  <2>2. client' = [client EXCEPT ![p] = b] /\ Send(Syn(p)) /\ client[p].st \in {"idle", "syn"}
    BY <1>6 DEF ClientSyn
  <2> HIDE DEF b
  <2>3. Harmless(Syn(p))
    BY DEF Harmless, Syn, Segment
  <2>4. Plain(p, b)
    BY <1>5, <2>1, <2>2, <2>3 DEF Plain
  <2> QED BY <1>4, <1>5, <2>1, <2>2, <2>4
<1>7. ASSUME NEW p \in Peers, NEW k \in Nat
      PROVE  Harmless(Unit(p, k))
  <2>1. client[p].rcv \in Nat
    BY <1>0, BrowserType
  <2> QED BY <2>1 DEF Harmless, Unit, Segment
<1>8. ASSUME NEW p \in Peers, ClientData(p)
      PROVE  Elsewhere
  <2> DEFINE b == [client[p] EXCEPT !.nxt = @ + 1]
  <2>1. b \in Browser /\ b.una = client[p].una /\ b.rcv = client[p].rcv /\ b.st = client[p].st
    BY <1>0 DEF Browser
  <2>2. client' = [client EXCEPT ![p] = b] /\ Send(Unit(p, client[p].nxt))
    BY <1>8 DEF ClientData
  <2> HIDE DEF b
  <2>3. Harmless(Unit(p, client[p].nxt))
    BY <1>0, <1>7, BrowserType
  <2>4. Plain(p, b)
    BY <1>5, <2>1, <2>2, <2>3 DEF Plain
  <2> QED BY <1>4, <1>5, <2>1, <2>2, <2>4
<1>9. ASSUME NEW p \in Peers, ClientRepeat(p)
      PROVE  Elsewhere
  <2>0. client' = client /\ Send(Unit(p, client[p].una))
    BY <1>9 DEF ClientRepeat
  <2>1. client' = [client EXCEPT ![p] = client[p]]
    BY <2>0 DEF Types
  <2>2. Harmless(Unit(p, client[p].una))
    BY <1>0, <1>7, BrowserType
  <2>3. \A t \in up' \ up : t = Unit(p, client[p].una)
    BY <2>0 DEF Send
  <2>4. Plain(p, client[p])
    BY <2>2, <2>3 DEF Plain
  <2>5. UNCHANGED <<uip_conns, hs, handed, down>>
    BY <2>0 DEF Send
  <2>6. client[p] \in Browser
    BY <1>0
  <2> QED BY <2>1, <2>4, <2>5, <2>6 DEF Elsewhere
<1>10. ASSUME NEW p \in Peers, ClientFin(p)
       PROVE  Elsewhere
  <2> DEFINE b == [client[p] EXCEPT !.st = "fin"]
  <2>1. b \in Browser /\ b.una = client[p].una /\ b.rcv = client[p].rcv /\ b.st = "fin"
    BY <1>0 DEF Browser
  <2>2. /\ client' = [client EXCEPT ![p] = b] /\ Send(FinSeg(p))
        /\ client[p].st \in {"half", "fin"} \/ (EarlyFin /\ client[p].una > ReqLen)
    BY <1>10 DEF ClientFin
  <2> HIDE DEF b
  <2>3. /\ FinSeg(p) \in Segment /\ FinSeg(p).flags = {"FIN", "ACK"} /\ FinSeg(p).peer = p
        /\ FinSeg(p).ack = client[p].rcv
    <3>1. client[p].rcv \in Nat
      BY <1>0, BrowserType
    <3> QED BY <3>1 DEF FinSeg, Segment
  <2>4. /\ \A t \in up' \ up : t = FinSeg(p)
        /\ UNCHANGED <<uip_conns, hs, handed, down>>
    BY <2>2 DEF Send
  <2>5. Closes(p, b)
    <3>1. \A t \in up' \ up : /\ t \in Segment /\ t.flags = {"FIN", "ACK"} /\ t.peer = p
                               /\ t.ack = client[p].rcv
      BY <2>3, <2>4
    <3> QED BY <2>1, <2>2, <3>1 DEF Closes
  <2> QED BY <1>4, <2>1, <2>2, <2>4, <2>5
<1>11. ASSUME NEW p \in Peers, Vanish(p)
       PROVE  Elsewhere
  <2> DEFINE b == [client[p] EXCEPT !.st = "gone"]
  <2>1. b \in Browser /\ b.una = client[p].una /\ b.rcv = client[p].rcv /\ b.st = "gone"
    BY <1>0 DEF Browser
  <2>2. client' = [client EXCEPT ![p] = b] /\ UNCHANGED <<uip_conns, hs, handed, down>> /\ up' = up
    BY <1>11 DEF Vanish
  <2> HIDE DEF b
  <2>3. Plain(p, b)
    BY <2>1, <2>2 DEF Plain
  <2> QED BY <1>4, <2>1, <2>2, <2>3
<1> QED BY <1>1, <1>2, <1>3, <1>6, <1>8, <1>9, <1>10, <1>11 DEF LinkNext

LEMMA ElsewhereTypes ==
    ASSUME Types, Elsewhere
    PROVE  /\ UNCHANGED <<uip_conns, hs, handed>> /\ down' \subseteq Segment
           /\ client' \in [Peers -> Browser] /\ up' \subseteq Segment
<1>1. UNCHANGED <<uip_conns, hs, handed>> /\ down' \subseteq Segment
  BY DEF Elsewhere, Types
<1>2. CASE Loses
  BY <1>1, <1>2 DEF Loses, Types
<1>3. ASSUME NEW p \in Peers, NEW b \in Browser, client' = [client EXCEPT ![p] = b],
             Plain(p, b) \/ Closes(p, b) \/ Takes(p, b)
      PROVE  client' \in [Peers -> Browser] /\ up' \subseteq Segment
  <2>1. \A t \in up' \ up : t \in Segment
    BY <1>3 DEF Plain, Closes, Takes, Harmless
  <2> QED BY <1>3, <2>1 DEF Types
<1> QED BY <1>1, <1>2, <1>3 DEF Elsewhere

\* The program keeps to its types.
LEMMA TypesStep ==
    ASSUME Types, [LinkNext]_lvars
    PROVE  Types'
<1>1. ASSUME NEW s \in up, DeliverUp(s)
      PROVE  Types'
  <2>1. s \in Segment /\ Receive(s) /\ up' \subseteq up
    BY <1>1 DEF DeliverUp, Types
  <2>2. /\ uip_conns' \in [Slots -> Connection] /\ hs' \in [Slots -> HttpState]
        /\ down' \subseteq Segment /\ client' = client /\ handed' \in [Peers -> SUBSET Int]
    BY <2>1, ReceiveTypes
  <2> QED BY <2>1, <2>2 DEF Types
<1>2. CASE LinkNext /\ ~\E s \in up : DeliverUp(s)
  <2>1. Elsewhere
    BY <1>2, ElsewhereOutcome
  <2> QED BY <2>1, ElsewhereTypes DEF Types
<1>3. CASE UNCHANGED lvars
  BY <1>3 DEF Types, lvars, vars
<1> QED BY <1>1, <1>2, <1>3

-----------------------------------------------------------------------------
(* AckedIsHanded: the other steps.                                         *)

\* What a browser learns from a segment of the board.
LEMMA AfterHanded ==
    ASSUME Types, HandedInv, NEW r \in down, NEW p, p = r.peer, NEW b, b = After(client[p], r)
    PROVE  /\ Handed(p, b.una)
           /\ b.st \in {"half", "fin"} => AllHanded(p)
<1> DEFINE c == client[p]
<1>1. r \in Segment /\ p \in Peers /\ c \in Browser
  BY SegmentNumbers DEF Types
<1>2. Handed(p, c.una) /\ (c.st \in {"half", "fin"} => AllHanded(p))
  BY <1>1 DEF HandedInv
<1>3. ("RST" \notin r.flags => Handed(p, r.ack)) /\ ("FIN" \in r.flags => AllHanded(p))
  BY DEF HandedInv
<1>4. CASE "RST" \in r.flags
  <2>1. b = [c EXCEPT !.st = "reset"]
    BY <1>4 DEF After
  <2>2. b.una = c.una /\ b.st = "reset"
    BY <1>1, <2>1 DEF Browser
  <2> QED BY <1>2, <2>2
<1>5. CASE "RST" \notin r.flags /\ c.st = "syn" /\ "SYN" \in r.flags
  <2>1. b = [c EXCEPT !.st = "est", !.una = r.ack, !.rcv = r.seq + 1]
    BY <1>5 DEF After
  <2>2. b.una = r.ack /\ b.st = "est"
    <3> HIDE DEF c
    <3> QED BY <1>1, <2>1 DEF Browser
  <2> QED BY <1>3, <1>5, <2>2
<1>6. CASE "RST" \notin r.flags /\ c.st = "syn" /\ "SYN" \notin r.flags
  <2>1. b = c
    BY <1>6 DEF After
  <2> QED BY <1>2, <1>6, <2>1
<1>7. CASE "RST" \notin r.flags /\ c.st # "syn"
  <2>1. /\ b.una = IF r.ack > c.una THEN r.ack ELSE c.una
        /\ b.st = IF c.st = "fin" /\ r.ack > ReqLen + 1 THEN "done"
                  ELSE IF c.st = "est" /\ "FIN" \in r.flags /\ r.seq = c.rcv THEN "half" ELSE c.st
    BY <1>7 DEF After
  <2> HIDE DEF c
  <2>2. b.una = r.ack \/ b.una = c.una
    BY <2>1
  <2>3. b.st \in {"half", "fin"} => "FIN" \in r.flags \/ c.st \in {"half", "fin"}
    BY <2>1
  <2> QED BY <1>2, <1>3, <1>7, <2>2, <2>3
<1> QED BY <1>4, <1>5, <1>6, <1>7

LEMMA ElsewhereHanded ==
    ASSUME Types, HandedInv, Elsewhere
    PROVE  HandedInv'
<1>1. UNCHANGED <<uip_conns, hs, handed>> /\ down' \subseteq down
  BY DEF Elsewhere
<1>2. /\ \A p, n : Handed(p, n)' <=> Handed(p, n)
      /\ \A p : AllHanded(p)' <=> AllHanded(p)
  BY <1>1 DEF Handed, AllHanded
<1>3. \A j \in Slots : SlotHanded(uip_conns[j], hs[j])'
  BY <1>1, <1>2 DEF HandedInv, SlotHanded, Handed, AllHanded
<1>4. \A r \in down' : /\ "RST" \notin r.flags => Handed(r.peer, r.ack)'
                       /\ "FIN" \in r.flags => AllHanded(r.peer)'
  BY <1>1, <1>2 DEF HandedInv
<1>5. ASSUME \A t \in up' \ up : /\ "FIN" \in t.flags => AllHanded(t.peer)
                                 /\ t.flags = {"SYN"} => t.seq = 0
      PROVE  \A t \in up' : /\ "FIN" \in t.flags => AllHanded(t.peer)'
                            /\ t.flags = {"SYN"} => t.seq = 0
  BY <1>2, <1>5 DEF HandedInv
<1>6. ASSUME \A p \in Peers : /\ Handed(p, client'[p].una)
                              /\ client'[p].st \in {"half", "fin"} => AllHanded(p)
      PROVE  \A p \in Peers : /\ Handed(p, client[p].una)'
                              /\ client'[p].st \in {"half", "fin"} => AllHanded(p)'
  BY <1>1, <1>6 DEF Handed, AllHanded
<1>7. \A p \in Peers : /\ Handed(p, client[p].una)
                       /\ client[p].st \in {"half", "fin"} => AllHanded(p)
  BY DEF HandedInv
<1>8. CASE Loses
  <2>1. client' = client /\ up' \subseteq up
    BY <1>8 DEF Loses
  <2> QED BY <1>3, <1>4, <1>5, <1>6, <1>7, <2>1 DEF HandedInv
<1>9. ASSUME NEW p \in Peers, NEW b \in Browser, client' = [client EXCEPT ![p] = b],
             Plain(p, b) \/ Closes(p, b) \/ Takes(p, b)
      PROVE  HandedInv'
  <2>1. client'[p] = b /\ \A q \in Peers \ {p} : client'[q] = client[q]
    BY <1>9 DEF Types
  <2>2. CASE Plain(p, b)
    <3>1. Handed(p, b.una) /\ (b.st \in {"half", "fin"} => AllHanded(p))
      BY <1>7, <2>2 DEF Plain
    <3>2. \A t \in up' \ up : /\ "FIN" \in t.flags => AllHanded(t.peer)
                              /\ t.flags = {"SYN"} => t.seq = 0
      BY <2>2 DEF Plain, Harmless
    <3> QED BY <1>3, <1>4, <1>5, <1>6, <1>7, <2>1, <3>1, <3>2 DEF HandedInv
  <2>3. CASE Closes(p, b)
    <3>1. AllHanded(p)
      <4>1. CASE client[p].st \in {"half", "fin"}
        BY <1>7, <4>1
      <4>2. CASE client[p].una > ReqLen
        <5>1. client[p].una \in Nat /\ Handed(p, client[p].una)
          BY <1>7, BrowserType DEF Types
        <5> QED BY <4>2, <5>1 DEF Handed, AllHanded
      <4> QED BY <2>3, <4>1, <4>2 DEF Closes
    <3>2. Handed(p, b.una) /\ (b.st \in {"half", "fin"} => AllHanded(p))
      BY <1>7, <2>3, <3>1 DEF Closes
    <3>3. \A t \in up' \ up : /\ "FIN" \in t.flags => AllHanded(t.peer)
                              /\ t.flags = {"SYN"} => t.seq = 0
      <4>1. {"FIN", "ACK"} # {"SYN"}
        OBVIOUS
      <4> QED BY <2>3, <3>1, <4>1 DEF Closes
    <3> QED BY <1>3, <1>4, <1>5, <1>6, <1>7, <2>1, <3>2, <3>3 DEF HandedInv
  <2>4. CASE Takes(p, b)
    <3>1. Handed(p, b.una) /\ (b.st \in {"half", "fin"} => AllHanded(p))
      BY <2>4, AfterHanded DEF Takes
    <3>2. \A t \in up' \ up : /\ "FIN" \in t.flags => AllHanded(t.peer)
                              /\ t.flags = {"SYN"} => t.seq = 0
      BY <2>4 DEF Takes, Harmless
    <3> QED BY <1>3, <1>4, <1>5, <1>6, <1>7, <2>1, <3>1, <3>2 DEF HandedInv
  <2> QED BY <1>9, <2>2, <2>3, <2>4
<1> QED BY <1>8, <1>9 DEF Elsewhere

LEMMA HandedStep ==
    ASSUME Types, HandedInv, [LinkNext]_lvars
    PROVE  HandedInv'
<1>1. ASSUME NEW s \in up, DeliverUp(s)
      PROVE  HandedInv'
  <2>1. Receive(s) /\ up' \subseteq up
    BY <1>1 DEF DeliverUp
  <2> QED BY <2>1, ReceiveHanded
<1>2. CASE LinkNext /\ ~\E s \in up : DeliverUp(s)
  BY <1>2, ElsewhereOutcome, ElsewhereHanded
<1>3. CASE UNCHANGED lvars
  BY <1>3 DEF HandedInv, SlotHanded, Handed, AllHanded, lvars, vars
<1> QED BY <1>1, <1>2, <1>3

LEMMA LinkInitTypes ==
    ASSUME LinkInit
    PROVE  Types /\ HandedInv
<1>1. uip_conns \in [Slots -> Connection]
  BY DEF LinkInit, Init, Connection, States
<1>2. \A j \in Slots : uip_conns[j].state = "CLOSED"
  BY DEF LinkInit, Init
<1>3. client \in [Peers -> Browser]
  BY DEF LinkInit, Browser
<1>4. \A p \in Peers : client[p].una = 0 /\ client[p].st = "idle"
  BY DEF LinkInit
<1>5. hs \in [Slots -> HttpState] /\ up = {} /\ down = {} /\ handed \in [Peers -> SUBSET Int]
  BY DEF LinkInit, HttpState
<1>6. Types
  BY <1>1, <1>3, <1>5 DEF Types
<1>7. \A p \in Peers : Handed(p, client[p].una)
  BY <1>4 DEF Handed
<1>8. HandedInv
  BY <1>2, <1>4, <1>5, <1>7 DEF HandedInv, SlotHanded
<1> QED BY <1>6, <1>8

\* Whatever the network loses, repeats or reorders, in whatever order browsers
\* open, close and vanish, a unit the board has acknowledged (rcv_nxt, uip.c
\* 1055-1061, 1120, 1202 and 1244) has been handed to httpd_appcall.
THEOREM AckedHanded == LinkSpec => []AckedIsHanded
<1>1. LinkInit => Types /\ HandedInv
  BY LinkInitTypes
<1>2. Types /\ HandedInv /\ [LinkNext]_lvars => (Types /\ HandedInv)'
  BY TypesStep, HandedStep
<1>3. HandedInv => AckedIsHanded
  BY DEF HandedInv, Handed, AckedIsHanded
<1> QED BY <1>1, <1>2, <1>3, PTL DEF LinkSpec

-----------------------------------------------------------------------------
(* AnswerExact.                                                            *)

\* The connection stays in step over a segment of its own; the board's FIN
\* comes after the page, or answers one.
LEMMA HandlesExact ==
    ASSUME Types, ExactInv, NEW s \in up, NEW i \in Slots, NEW d \in Connection,
           NEW h \in HttpState, Handles(s, i, d, h)
    PROVE  /\ SlotExact(d, h)
           /\ \A r \in out' : "FIN" \in r.flags =>
                 r.seq >= iss + PageLen + 1 \/ client[r.peer].st \in Ended
<1> DEFINE c == uip_conns[i]
           g == hs[i]
<1>1. s \in Segment /\ s.seq \in Nat /\ s.len \in Nat /\ s.ack \in Nat
  BY SegmentNumbers DEF Types
<1>2. c \in Connection /\ g \in HttpState /\ c.peer = s.peer /\ Outcome(s, i, d, h)
  BY DEF Types, Handles
<1>3. /\ c.snd_nxt \in Nat /\ c.len \in Nat /\ d.snd_nxt \in Nat /\ d.len \in Nat
      /\ g.count \in Nat /\ h.count \in Nat /\ d.peer = s.peer
  BY <1>2 DEF Outcome, Becomes, Connection, HttpState
<1>4. SlotExact(c, g)
  BY DEF ExactInv
<1>5. "FIN" \in s.flags => s.ack >= iss + PageLen + 2 /\ client[s.peer].st \in Ended
  BY DEF ExactInv
<1>6. AckData(s, i) => c.len > 0 /\ s.ack = c.snd_nxt + c.len
  BY DEF AckData
<1>7. CASE Quiet(s, i, d) /\ h = g
  <2>1. /\ NoFin /\ d.len = c.len
        /\ d.state = c.state \/ (c.state = "CLOSING" /\ d.state = "TIME_WAIT")
        /\ \/ d.snd_nxt = c.snd_nxt
           \/ /\ AckData(s, i) /\ c.state # "SYN_RCVD"
              /\ c.state = "ESTABLISHED" => "FIN" \in s.flags
    BY <1>7 DEF Quiet
  <2>2. c.state = "ESTABLISHED" => d.snd_nxt = c.snd_nxt
    <3>1. CASE c.state = "ESTABLISHED" /\ AckData(s, i) /\ "FIN" \in s.flags
      <4>1. c.snd_nxt + c.len <= iss + 1 + PageLen
        BY <1>3, <1>4, <1>6, <3>1 DEF SlotExact
      <4> QED BY <1>1, <1>3, <1>5, <1>6, <3>1, <4>1
    <3> QED BY <2>1, <3>1
  <2>3. SlotExact(d, h)
    <3>1. c.state = "SYN_RCVD" => d.snd_nxt = c.snd_nxt
      BY <2>1
    <3> QED BY <1>4, <1>7, <2>1, <2>2, <3>1 DEF SlotExact
  <2> QED BY <2>1, <2>3 DEF NoFin
<1>8. CASE Late(i, d)
  BY <1>8 DEF Late, SlotExact, NoFin
<1>9. CASE Over(i, d)
  BY <1>9 DEF Over, SlotExact, NoFin
<1>10. CASE Opened(s, i, d)
  <2>1. hs'[i] = [state |-> "NOGET", count |-> 0] /\ hs'[i] = h
    BY <1>2, <1>10 DEF Opened, Outcome, Types
  <2>2. h.state = "NOGET"
    BY <2>1
  <2>3. d.snd_nxt = iss + 1
    BY <1>4, <1>6, <1>10 DEF Opened, SlotExact
  <2> QED BY <1>10, <2>2, <2>3 DEF Opened, SlotExact, NoFin
<1>11. CASE Served(s, i, d, h)
  <2>0. /\ c.state = "ESTABLISHED" /\ AnswersOf(d)
        /\ d.snd_nxt = IF AckData(s, i) THEN s.ack ELSE c.snd_nxt
    BY <1>11 DEF Served, Becomes
  <2>1. CASE d.state = "CLOSED" /\ NoFin
    BY <2>1 DEF SlotExact, NoFin
  <2>2. CASE /\ d.state = "FIN_WAIT_1" /\ g.state = "FILE" /\ AckData(s, i) /\ Left(i) = 0
             /\ \A r \in out' : r.seq = d.snd_nxt
    <3>1. g.count = c.len
      BY <1>3, <1>4, <2>0, <2>2 DEF SlotExact, Left
    <3>2. d.snd_nxt = iss + 1 + PageLen
      BY <1>3, <1>4, <1>6, <2>0, <2>2, <3>1 DEF SlotExact
    <3> QED BY <2>2, <3>2 DEF SlotExact
  <2>3. CASE d.state = "ESTABLISHED" /\ NoFin /\ GoesOn(s, i, d, h)
    <3>1. ASSUME NEW n \in Nat, NEW len \in Nat, len <= n
          PROVE  Outstanding(len, Piece(n)) \in Nat /\ Outstanding(len, Piece(n)) <= n
      BY <3>1, PieceType DEF Outstanding
    <3>2. ASSUME g.state # "FILE"
          PROVE  c.snd_nxt = iss + 1 /\ c.len = 0 /\ d.snd_nxt = iss + 1 /\ Outst(s, i) = 0
      BY <1>3, <1>4, <1>6, <2>0, <3>2 DEF SlotExact, Outst
    <3>3. CASE /\ g.state # "FILE"
               /\ h.state = "FILE" /\ h.count = PageLen /\ d.len = Outstanding(Outst(s, i), Piece(PageLen))
      <4>1. d.len <= PageLen
        BY <3>1, <3>2, <3>3
      <4> QED BY <1>3, <2>3, <3>2, <3>3, <4>1 DEF SlotExact, NoFin
    <3>4. CASE g.state # "FILE" /\ h.state # "FILE" /\ d.len = 0
      BY <2>3, <3>2, <3>4 DEF SlotExact, NoFin
    <3>5. CASE /\ g.state = "FILE" /\ h.state = "FILE"
               /\ h.count = IF AckData(s, i) THEN Left(i) ELSE g.count
               /\ d.len = Outstanding(Outst(s, i), Piece(h.count))
      <4>1. c.snd_nxt + g.count = iss + 1 + PageLen /\ c.len <= g.count
        BY <1>4, <2>0, <3>5 DEF SlotExact
      <4>2. d.snd_nxt + h.count = iss + 1 + PageLen /\ Outst(s, i) \in Nat /\ Outst(s, i) <= h.count
        BY <1>1, <1>3, <1>6, <2>0, <3>5, <4>1 DEF Left, Outst
      <4>3. d.len <= h.count
        BY <1>3, <3>1, <3>5, <4>2
      <4> QED BY <2>3, <3>5, <4>2, <4>3 DEF SlotExact, NoFin
    <3> QED BY <2>3, <3>3, <3>4, <3>5 DEF GoesOn
  <2> QED BY <1>11, <2>1, <2>2, <2>3 DEF Served
<1>12. CASE LastOnes(s, i, d)
  <2>1. client[s.peer].st \in Ended /\ AnswersOf(d)
    BY <1>5, <1>12 DEF LastOnes, Becomes
  <2> QED BY <1>3, <1>12, <2>1 DEF LastOnes, SlotExact, AnswersOf
<1> QED BY <1>2, <1>7, <1>8, <1>9, <1>10, <1>11, <1>12 DEF Outcome

LEMMA ReceiveExact ==
    ASSUME Types, ExactInv, NEW s \in up, Receive(s), up' \subseteq up
    PROVE  ExactInv'
<1>1. s \in Segment
  BY DEF Types
<1>2. /\ down' = down \cup out' /\ client' = client
      /\ \/ Rejects
         \/ \E i \in Slots : \E d \in Connection :
               Listens(s, i, d) \/ \E h \in HttpState : Handles(s, i, d, h)
  BY <1>1, ReceiveOutcome
<1>3. ASSUME \A j \in Slots : SlotExact(uip_conns'[j], hs'[j]),
             \A r \in out' : "FIN" \in r.flags =>
                r.seq >= iss + PageLen + 1 \/ client[r.peer].st \in Ended
      PROVE  ExactInv'
  BY <1>2, <1>3 DEF ExactInv, SlotExact
<1>4. \A j \in Slots : SlotExact(uip_conns[j], hs[j])
  BY DEF ExactInv
<1>5. CASE Rejects
  BY <1>3, <1>4, <1>5 DEF Rejects
<1>6. ASSUME NEW i \in Slots, NEW d \in Connection, Listens(s, i, d)
      PROVE  ExactInv'
  <2>1. /\ uip_conns'[i] = d /\ \A j \in Slots \ {i} : uip_conns'[j] = uip_conns[j]
        /\ hs' = hs
    BY <1>6 DEF Listens, Types
  <2>2. SlotExact(d, hs[i])
    BY <1>6 DEF Listens, SlotExact
  <2>3. \A j \in Slots : SlotExact(uip_conns'[j], hs'[j])
    BY <1>4, <2>1, <2>2
  <2> QED BY <1>3, <1>6, <2>3 DEF Listens, NoFin
<1>7. ASSUME NEW i \in Slots, NEW d \in Connection, NEW h \in HttpState, Handles(s, i, d, h)
      PROVE  ExactInv'
  <2>1. /\ SlotExact(d, h)
        /\ \A r \in out' : "FIN" \in r.flags =>
              r.seq >= iss + PageLen + 1 \/ client[r.peer].st \in Ended
    BY <1>7, HandlesExact
  <2>2. uip_conns' = [uip_conns EXCEPT ![i] = d] /\ hs' = [hs EXCEPT ![i] = h]
    BY <1>7 DEF Handles, Outcome, Becomes
  <2>3. /\ uip_conns'[i] = d /\ \A j \in Slots \ {i} : uip_conns'[j] = uip_conns[j]
        /\ hs'[i] = h /\ \A j \in Slots \ {i} : hs'[j] = hs[j]
    BY <2>2 DEF Types
  <2>4. \A j \in Slots : SlotExact(uip_conns'[j], hs'[j])
    BY <1>4, <2>1, <2>3
  <2> QED BY <1>3, <2>1, <2>4
<1> QED BY <1>2, <1>5, <1>6, <1>7

\* A browser is told of the end of the page by the FIN that follows it.
LEMMA AfterExact ==
    ASSUME Types, ExactInv, NEW r \in down, NEW p, p = r.peer, NEW b, b = After(client[p], r),
           client[p].st \in {"syn", "est", "half", "fin", "done"}
    PROVE  /\ b.st \in {"half", "fin"} => b.rcv >= iss + PageLen + 2
           /\ client[p].st \in Ended => b.st \in Ended
<1> DEFINE c == client[p]
<1>1. r \in Segment /\ p \in Peers /\ c \in Browser
  BY SegmentNumbers DEF Types
<1>2. c.rcv \in Nat /\ r.seq \in Nat /\ r.len \in Nat
  BY <1>1, SegmentNumbers, BrowserType
<1>3. c.st \in {"half", "fin"} => c.rcv >= iss + PageLen + 2
  BY <1>1 DEF ExactInv
<1>4. "FIN" \in r.flags => r.seq >= iss + PageLen + 1 \/ c.st \in Ended
  BY DEF ExactInv
<1>5. CASE "RST" \in r.flags
  <2>1. b = [c EXCEPT !.st = "reset"]
    BY <1>5 DEF After
  <2>2. b.st = "reset"
    BY <1>1, <2>1 DEF Browser
  <2> QED BY <2>2 DEF Ended
<1>6. CASE "RST" \notin r.flags /\ c.st = "syn"
  <2>1. b = c \/ b = [c EXCEPT !.st = "est", !.una = r.ack, !.rcv = r.seq + 1]
    BY <1>6 DEF After
  <2>2. b.st \in {"syn", "est"}
    <3>1. c.st = "syn"
      BY <1>6
    <3> HIDE DEF c
    <3> QED BY <1>1, <2>1, <3>1 DEF Browser
  <2> QED BY <1>6, <2>2 DEF Ended
<1>7. CASE "RST" \notin r.flags /\ c.st # "syn"
  <2>1. /\ b.rcv = IF r.seq = c.rcv THEN r.seq + r.len + (IF "FIN" \in r.flags THEN 1 ELSE 0) ELSE c.rcv
        /\ b.st = IF c.st = "fin" /\ r.ack > ReqLen + 1 THEN "done"
                  ELSE IF c.st = "est" /\ "FIN" \in r.flags /\ r.seq = c.rcv THEN "half" ELSE c.st
    BY <1>7 DEF After
  <2>2. c.st \in {"est", "half", "fin", "done"}
    BY <1>7
  <2> HIDE DEF c
  <2>3. b.rcv >= c.rcv
    BY <1>2, <2>1
  <2>4. CASE b.st = c.st
    <3>1. b.st \in {"half", "fin"} => b.rcv >= iss + PageLen + 2
      BY <1>2, <1>3, <2>1, <2>3, <2>4
    <3> QED BY <2>4, <3>1 DEF c
  <2>5. CASE b.st = "done"
    BY <2>5 DEF Ended
  <2>6. CASE b.st = "half" /\ c.st = "est" /\ "FIN" \in r.flags /\ r.seq = c.rcv
    <3>1. c.st \notin Ended
      BY <2>6 DEF Ended
    <3>2. b.rcv >= iss + PageLen + 2
      BY <1>2, <1>4, <2>1, <2>6, <3>1
    <3> QED BY <3>1, <3>2 DEF c
  <2> QED BY <2>1, <2>4, <2>5, <2>6
<1> QED BY <1>5, <1>6, <1>7

LEMMA ElsewhereExact ==
    ASSUME Types, ExactInv, Elsewhere
    PROVE  ExactInv'
<1>1. UNCHANGED <<uip_conns, hs>> /\ down' \subseteq down
  BY DEF Elsewhere
<1>2. \A j \in Slots : SlotExact(uip_conns[j], hs[j])'
  BY <1>1 DEF ExactInv, SlotExact
<1>3. /\ \A s \in up : "FIN" \in s.flags => s.ack >= iss + PageLen + 2 /\ client[s.peer].st \in Ended
      /\ \A r \in down : "FIN" \in r.flags => r.seq >= iss + PageLen + 1 \/ client[r.peer].st \in Ended
      /\ \A p \in Peers : client[p].st \in {"half", "fin"} => client[p].rcv >= iss + PageLen + 2
      /\ ~EarlyFin
  BY DEF ExactInv
<1>4. CASE Loses
  BY <1>1, <1>2, <1>3, <1>4 DEF Loses, ExactInv
<1>5. ASSUME NEW p \in Peers, NEW b \in Browser, client' = [client EXCEPT ![p] = b],
             Plain(p, b) \/ Closes(p, b) \/ Takes(p, b)
      PROVE  ExactInv'
  <2>1. client'[p] = b /\ \A q \in Peers \ {p} : client'[q] = client[q]
    BY <1>5 DEF Types
  <2>2. ASSUME client[p].st \in Ended => b.st \in Ended,
               b.st \in {"half", "fin"} => b.rcv >= iss + PageLen + 2,
               \A t \in up' \ up : "FIN" \in t.flags =>
                  t.ack >= iss + PageLen + 2 /\ client'[t.peer].st \in Ended
        PROVE  ExactInv'
    <3>1. \A q \in Peers : client[q].st \in Ended => client'[q].st \in Ended
      BY <2>1, <2>2
    <3>2. \A q \in Peers : client'[q].st \in {"half", "fin"} => client'[q].rcv >= iss + PageLen + 2
      BY <1>3, <2>1, <2>2
    <3>3. \A t \in up \cup down : t.peer \in Peers
      BY SegmentNumbers DEF Types
    <3>4. \A t \in up' : "FIN" \in t.flags => t.ack >= iss + PageLen + 2 /\ client'[t.peer].st \in Ended
      BY <1>3, <2>2, <3>1, <3>3
    <3>5. \A r \in down' : "FIN" \in r.flags => r.seq >= iss + PageLen + 1 \/ client'[r.peer].st \in Ended
      BY <1>1, <1>3, <3>1, <3>3
    <3> QED BY <1>2, <1>3, <3>2, <3>4, <3>5 DEF ExactInv
  <2>3. CASE Plain(p, b)
    <3>1. client[p].st \in Ended => b.st \in Ended
      BY <2>3 DEF Plain, Ended
    <3>2. b.st \in {"half", "fin"} => b.rcv >= iss + PageLen + 2
      BY <1>3, <2>3 DEF Plain
    <3>3. \A t \in up' \ up : "FIN" \notin t.flags
      BY <2>3 DEF Plain, Harmless
    <3> QED BY <2>2, <3>1, <3>2, <3>3
  <2>4. CASE Closes(p, b)
    <3>1. client[p].rcv >= iss + PageLen + 2
      BY <1>3, <2>4 DEF Closes
    <3>2. b.st \in Ended /\ b.rcv = client[p].rcv
      BY <2>4 DEF Closes, Ended
    <3>3. \A t \in up' \ up : t.ack >= iss + PageLen + 2 /\ client'[t.peer].st \in Ended
      BY <2>1, <2>4, <3>1, <3>2 DEF Closes
    <3> QED BY <2>2, <3>1, <3>2, <3>3
  <2>5. CASE Takes(p, b)
    <3>1. /\ b.st \in {"half", "fin"} => b.rcv >= iss + PageLen + 2
          /\ client[p].st \in Ended => b.st \in Ended
      BY <2>5, AfterExact DEF Takes
    <3>2. \A t \in up' \ up : "FIN" \notin t.flags
      BY <2>5 DEF Takes, Harmless
    <3> QED BY <2>2, <3>1, <3>2
  <2> QED BY <1>5, <2>3, <2>4, <2>5
<1> QED BY <1>4, <1>5 DEF Elsewhere

LEMMA ExactStep ==
    ASSUME Types, ExactInv, [LinkNext]_lvars
    PROVE  ExactInv'
<1>1. ASSUME NEW s \in up, DeliverUp(s)
      PROVE  ExactInv'
  <2>1. Receive(s) /\ up' \subseteq up
    BY <1>1 DEF DeliverUp
  <2> QED BY <2>1, ReceiveExact
<1>2. CASE LinkNext /\ ~\E s \in up : DeliverUp(s)
  BY <1>2, ElsewhereOutcome, ElsewhereExact
<1>3. CASE UNCHANGED lvars
  BY <1>3 DEF ExactInv, SlotExact, lvars, vars
<1> QED BY <1>1, <1>2, <1>3

\* With browsers that close only after the board, whatever is lost, repeated or
\* reordered, the place in the page httpd_appcall sends from (hs->count,
\* httpd.c) and the sequence number uIP sends with (snd_nxt, uip.c) stay
\* together.  With browsers that close earlier they do not: run early_fin.
THEOREM AnswerInStep == LinkSpec /\ ~EarlyFin => []AnswerExact
<1>1. LinkInit /\ ~EarlyFin => Types /\ ExactInv
  <2> SUFFICES ASSUME LinkInit, ~EarlyFin PROVE Types /\ ExactInv
    OBVIOUS
  <2>1. Types
    BY LinkInitTypes
  <2>2. \A j \in Slots : uip_conns[j].state = "CLOSED"
    BY DEF LinkInit, Init
  <2>3. up = {} /\ down = {} /\ \A p \in Peers : client[p].st = "idle"
    BY DEF LinkInit
  <2> QED BY <2>1, <2>2, <2>3 DEF ExactInv, SlotExact
<1>2. Types /\ ExactInv /\ [LinkNext]_lvars => (Types /\ ExactInv)'
  BY TypesStep, ExactStep
<1>3. Types /\ ExactInv => AnswerExact
  <2> SUFFICES ASSUME Types, ExactInv, NEW i \in Slots,
                      uip_conns[i].state = "ESTABLISHED", hs[i].state = "FILE"
               PROVE  uip_conns[i].snd_nxt - (iss + 1) = PageLen - hs[i].count
    BY DEF AnswerExact
  <2>1. uip_conns[i].snd_nxt \in Nat /\ hs[i].count \in Nat
    BY DEF Types, Connection, HttpState
  <2>2. uip_conns[i].snd_nxt + hs[i].count = iss + 1 + PageLen
    BY DEF ExactInv, SlotExact
  <2> QED BY <2>1, <2>2
<1> QED BY <1>1, <1>2, <1>3, PTL DEF LinkSpec

-----------------------------------------------------------------------------
(* The promise of uIP, with these browsers and this network around it.     *)

\* What the browsers send is short, and a stream begins at 0.
Short(s) == s.len \in {0, 1} /\ (s.flags = {"SYN"} => s.seq = 0)

\* Every step that sends, sends such a segment.
LEMMA SentShort ==
    ASSUME [LinkNext]_lvars
    PROVE  \A s \in up' \ up : Short(s)
<1>1. ASSUME NEW p, NEW c, NEW k
      PROVE  Short(Syn(p)) /\ Short(Unit(p, k)) /\ Short(FinSeg(p)) /\ Short(AckOf(p, c))
  <2>1. {"ACK"} # {"SYN"} /\ {"FIN", "ACK"} # {"SYN"}
    OBVIOUS
  <2> QED BY <2>1 DEF Short, Syn, Unit, FinSeg, AckOf
<1>2. ASSUME NEW s \in up, DeliverUp(s)
      PROVE  up' \subseteq up
  BY <1>2 DEF DeliverUp
<1>3. ASSUME NEW r \in down, DeliverDown(r)
      PROVE  \A s \in up' \ up : Short(s)
  <2>1. \A s \in up' \ up : s = AckOf(r.peer, After(client[r.peer], r))
    BY <1>3 DEF DeliverDown, ClientReceive
  <2> QED BY <2>1, <1>1
<1>4. ASSUME NEW r \in down, Ignored(r)
      PROVE  up' = up
  BY <1>4 DEF Ignored
<1>5. ASSUME NEW p \in Peers, ClientSyn(p) \/ ClientData(p) \/ ClientRepeat(p) \/ ClientFin(p)
      PROVE  \A s \in up' \ up : Short(s)
  <2>1. \E t : Short(t) /\ up' = up \cup {t}
    BY <1>1, <1>5 DEF ClientSyn, ClientData, ClientRepeat, ClientFin, Send
  <2> QED BY <2>1
<1>6. ASSUME NEW p \in Peers, Vanish(p)
      PROVE  up' = up
  BY <1>6 DEF Vanish
<1>7. CASE Lose
  BY <1>7 DEF Lose
<1>8. CASE UNCHANGED lvars
  BY <1>8 DEF lvars
<1> QED BY <1>2, <1>3, <1>4, <1>5, <1>6, <1>7, <1>8 DEF LinkNext

\* uIP's own invariant, one connection for each browser, and segments that
\* respect the bound of TcpStream.
Promise ==
    /\ MaxSeq > 0
    /\ IInv /\ OnePerPeer
    /\ \A s \in up : Short(s)

\* A step of the link is a frame that uIP takes, or leaves uIP alone.
LEMMA LinkProcess ==
    ASSUME Types, Promise, [LinkNext]_lvars
    PROVE  \/ \E s \in up : Arriving(s) /\ uip_process(s, Acts)
           \/ UNCHANGED vars
<1>1. ASSUME NEW s \in up, DeliverUp(s)
      PROVE  Arriving(s) /\ uip_process(s, Acts)
  <2>1. s \in Segment /\ Short(s) /\ MaxSeq > 0
    BY DEF Types, Promise
  <2>2. s.peer \in Peers /\ s.seq \in Nat /\ s.ack \in Nat
    BY <2>1, SegmentNumbers
  <2>3. Arriving(s)
    BY <2>1, <2>2 DEF Short, Arriving
  <2>4. PICK act \in Acts : uip_process(s, {act})
    BY <1>1 DEF DeliverUp, Receive
  <2>5. \A i \in Slots : Input(s, i, {act}) => Input(s, i, Acts)
    BY DEF Input
  <2>6. uip_process(s, Acts)
    BY <2>4, <2>5 DEF uip_process
  <2> QED BY <2>3, <2>6
<1>2. ASSUME NEW r \in down, DeliverDown(r) \/ Ignored(r)
      PROVE  UNCHANGED vars
  BY <1>2 DEF DeliverDown, ClientReceive, Ignored
<1>3. ASSUME NEW p \in Peers,
             ClientSyn(p) \/ ClientData(p) \/ ClientRepeat(p) \/ ClientFin(p) \/ Vanish(p)
      PROVE  UNCHANGED vars
  BY <1>3 DEF ClientSyn, ClientData, ClientRepeat, ClientFin, Vanish, Send
<1>4. CASE Lose
  BY <1>4 DEF Lose
<1>5. CASE UNCHANGED lvars
  BY <1>5 DEF lvars
<1> QED BY <1>1, <1>2, <1>3, <1>4, <1>5 DEF LinkNext

\* Each step keeps the promise.
LEMMA PromiseStep ==
    ASSUME Types, Promise, [LinkNext]_lvars
    PROVE  Promise'
<1>1. \A s \in up' : Short(s)
  BY SentShort DEF Promise
<1>2. IInv' /\ OnePerPeer'
  <2>1. ASSUME NEW s \in up, Arriving(s), uip_process(s, Acts)
        PROVE  IInv' /\ OnePerPeer'
    BY <2>1, ProcessKeeps, ProcessOnePerPeer DEF Promise
  <2>2. CASE UNCHANGED vars
    BY <2>2 DEF Promise, vars, IInv, ConnsOK, LenOK, AnswerOK, CallOK, OnePerPeer
  <2> QED BY <2>1, <2>2, LinkProcess
<1> QED BY <1>1, <1>2 DEF Promise, Short

LEMMA LinkPromise == LinkSpec /\ MaxSeq > 0 => [](Types /\ Promise)
<1>1. LinkInit /\ MaxSeq > 0 => Types /\ Promise
  <2> SUFFICES ASSUME LinkInit, MaxSeq > 0 PROVE Types /\ Promise
    OBVIOUS
  <2>1. Types /\ IInv /\ up = {}
    BY LinkInitTypes, InitKeeps DEF LinkInit
  <2>2. OnePerPeer
    BY DEF LinkInit, Init, OnePerPeer
  <2> QED BY <2>1, <2>2 DEF Promise
<1>2. Types /\ Promise /\ [LinkNext]_lvars => (Types /\ Promise)'
  BY TypesStep, PromiseStep
<1> QED BY <1>1, <1>2, PTL DEF LinkSpec

\* Under httpd_appcall and with browsers that repeat, overtake themselves,
\* close early or vanish, the calls of the application are a behaviour of
\* TcpStream: what Recovery takes for granted of its segments.  (uip.c,
\* 815-1500; MaxSeq bounds the numbers of TcpStream, and 0 leaves it no stream.)
THEOREM LinkInOrder == LinkSpec /\ MaxSeq > 0 => InOrder
<1>1. LinkInit => Stream!Init
  BY InitRefines DEF LinkInit
<1>2. Types /\ Promise /\ [LinkNext]_lvars => [Stream!Next]_(Stream!svars)
  <2> SUFFICES ASSUME Types, Promise, [LinkNext]_lvars
               PROVE  [Stream!Next]_(Stream!svars)
    OBVIOUS
  <2>1. ASSUME NEW s \in up, Arriving(s), uip_process(s, Acts)
        PROVE  Stream!Next
    BY <2>1, ProcessRefines DEF Promise
  <2>2. CASE UNCHANGED vars
    BY <2>2 DEF vars, Stream!svars
  <2> QED BY <2>1, <2>2, LinkProcess
<1> QED BY <1>1, <1>2, LinkPromise, PTL DEF LinkSpec, InOrder, Stream!Spec

\* No browser comes to have two connections, however often its SYN is repeated
\* and whenever it arrives.  (uip.c, 830-838)
THEOREM LinkOneConnection == LinkSpec /\ MaxSeq > 0 => []OnePerPeer
<1>1. Promise => OnePerPeer
  BY DEF Promise
<1> QED BY <1>1, LinkPromise, PTL
=============================================================================
