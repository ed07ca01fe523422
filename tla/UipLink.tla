------------------------------ MODULE UipLink ------------------------------
(***************************************************************************)
(* Browsers, the network, uIP and the connection states of httpd_appcall   *)
(* together.  A browser opens a connection, sends a request, repeats what  *)
(* is not acknowledged, and reads the page; the network loses, repeats and *)
(* reorders.  The board repeats nothing of its own accord.                 *)
(***************************************************************************)
EXTENDS UipTcp

CONSTANTS
    ReqLen,      \* units of a request
    PageLen,     \* units of the page that answers it
    EarlyFin,    \* browsers may close before the board does
    MaxFaults    \* bound: segments lost or repeated, browsers that vanish

ASSUME UipLinkAssumption ==
    /\ ReqLen \in Nat \ {0} /\ PageLen \in Nat \ {0}
    /\ EarlyFin \in BOOLEAN /\ MaxFaults \in Nat

VARIABLES
    client,  \* the browsers
    hs,      \* struct httpd_state of each connection
    up,      \* segments on the way to the board
    down,    \* segments on the way to the browsers
    handed,  \* units of each browser's request handed to the application
    seen,    \* units httpd_appcall has looked at
    faults

lvars == <<vars, client, hs, up, down, handed, seen, faults>>

LinkInit ==
    /\ Init
    \* una: the oldest unit not acknowledged; nxt: the next one to send; rcv: the
    \* next unit of the board.
    /\ client = [p \in Peers |-> [st |-> "idle", una |-> 0, nxt |-> 1, rcv |-> 0]]
    /\ hs = [i \in Slots |-> [state |-> "NOGET", count |-> 0]]
    /\ up = {} /\ down = {}
    /\ handed = [p \in Peers |-> {}] /\ seen = [p \in Peers |-> {}]
    /\ faults = 0

-----------------------------------------------------------------------------
(* httpd_appcall, for a connection whose request is an upload.             *)

Nothing == [does |-> "send", slen |-> 0]
Close == [does |-> "close", slen |-> 0]
Abort == [does |-> "abort", slen |-> 0]
Piece(count) == [does |-> "send", slen |-> IF count < MaxLen THEN count ELSE MaxLen]

\* The page starts when the last unit of the request has been looked at.
Request ==
    IF ReqLen \in call'.data THEN [state |-> "FILE", count |-> PageLen]
    ELSE [state |-> "FUNC", count |-> 0]

\* What is left of the page after an acknowledgement.
Left(i) ==
    IF hs[i].count >= uip_conns[i].len THEN hs[i].count - uip_conns[i].len ELSE 0

\* The connection goes on in state h; uip_send in state HTTP_FILE.
Serve(i, h, act) ==
    /\ hs' = [hs EXCEPT ![i] = h]
    /\ act = IF h.state = "FILE" THEN Piece(h.count) ELSE Nothing

\* uip_connected() is asked first: data that comes with it is not looked at.
HttpdConnected(i, act) ==
    /\ "CONNECTED" \in call'.flags
    /\ hs' = [hs EXCEPT ![i] = [state |-> "NOGET", count |-> 0]]
    /\ act = Nothing
    /\ UNCHANGED seen

\* Data in state HTTP_NOGET must begin with the request; in state HTTP_FUNC it
\* goes to the CGI.
HttpdData(i, act) ==
    /\ "CONNECTED" \notin call'.flags
    /\ hs[i].state # "FILE" /\ "NEWDATA" \in call'.flags
    /\ IF hs[i].state = "NOGET" /\ 1 \notin call'.data
       THEN act = Abort /\ UNCHANGED hs
       ELSE Serve(i, Request, act)
    /\ seen' = [seen EXCEPT ![uip_conns[i].peer] = @ \cup call'.data]

\* Mutant: the connection is left open at the end of the page.
HttpdFileOpen(i, act) ==
    /\ "CONNECTED" \notin call'.flags /\ call'.flags \cap {"CLOSE", "ABORT"} = {}
    /\ hs[i].state = "FILE"
    /\ Serve(i, IF "ACKDATA" \in call'.flags THEN [hs[i] EXCEPT !.count = Left(i)] ELSE hs[i], act)
    /\ UNCHANGED seen

\* State HTTP_FILE: the piece just acknowledged is passed over.
HttpdFile(i, act) ==
    /\ "CONNECTED" \notin call'.flags /\ call'.flags \cap {"CLOSE", "ABORT"} = {}
    /\ hs[i].state = "FILE"
    /\ IF "ACKDATA" \notin call'.flags THEN Serve(i, hs[i], act)
       ELSE IF Left(i) = 0 THEN hs' = [hs EXCEPT ![i].count = 0] /\ act = Close
       ELSE Serve(i, [hs[i] EXCEPT !.count = Left(i)], act)
    /\ UNCHANGED seen

\* Told of the end, or with nothing to do.
HttpdIdle(i, act) ==
    /\ IF hs[i].state = "FILE" THEN call'.flags \cap {"CLOSE", "ABORT"} # {}
       ELSE call'.flags \cap {"CONNECTED", "NEWDATA"} = {}
    /\ act = Nothing
    /\ UNCHANGED <<hs, seen>>

httpd_appcall(i, act) ==
    HttpdConnected(i, act) \/ HttpdData(i, act) \/ HttpdFile(i, act) \/ HttpdIdle(i, act)

-----------------------------------------------------------------------------
(* The board takes a frame.                                                *)

Receive(s) ==
    /\ \E act \in Acts :
          /\ uip_process(s, {act})
          /\ IF call' = NoCall THEN act = Nothing /\ UNCHANGED <<hs, seen>>
             ELSE httpd_appcall(call'.conn, act)
    /\ handed' = [handed EXCEPT ![s.peer] = @ \cup call'.data]
    /\ down' = down \cup out'
    /\ UNCHANGED client

-----------------------------------------------------------------------------
(* Browsers.                                                               *)

Syn(p) == [peer |-> p, flags |-> {"SYN"}, seq |-> 0, ack |-> 0, len |-> 0]
Unit(p, k) == [peer |-> p, flags |-> {"ACK"}, seq |-> k, ack |-> client[p].rcv, len |-> 1]
FinSeg(p) == [peer |-> p, flags |-> {"FIN", "ACK"}, seq |-> ReqLen + 1, ack |-> client[p].rcv, len |-> 0]
AckOf(p, c) == [peer |-> p, flags |-> {"ACK"}, seq |-> c.una, ack |-> c.rcv, len |-> 0]

Send(s) ==
    /\ up' = up \cup {s}
    /\ UNCHANGED <<vars, hs, down, handed, seen, faults>>

\* The browser's timer runs out when nothing is on the way any more; that it
\* may run out earlier is one of the faults of the network, a repetition.
Timeout(p) == \A s \in up \cup down : s.peer # p

ClientSyn(p) ==
    /\ \/ client[p].st = "idle"
       \/ client[p].st = "syn" /\ Timeout(p)
    /\ client' = [client EXCEPT ![p].st = "syn"]
    /\ Send(Syn(p))

\* The next unit of the request.
ClientData(p) ==
    /\ client[p].st = "est" /\ client[p].nxt <= ReqLen
    /\ Send(Unit(p, client[p].nxt))
    /\ client' = [client EXCEPT ![p].nxt = @ + 1]

\* The oldest unit that is not acknowledged, once more.
ClientRepeat(p) ==
    /\ client[p].st = "est" /\ client[p].una < client[p].nxt
    /\ Timeout(p)
    /\ Send(Unit(p, client[p].una))
    /\ UNCHANGED client

\* The browser closes: after the board has (st "half"), or earlier.
ClientFin(p) ==
    /\ \/ client[p].st = "half"
       \/ EarlyFin /\ client[p].st = "est" /\ client[p].una > ReqLen
       \/ client[p].st = "fin" /\ Timeout(p)
    /\ client' = [client EXCEPT ![p].st = "fin"]
    /\ Send(FinSeg(p))

\* The browser takes a segment of the board.
After(c, r) ==
    IF "RST" \in r.flags THEN [c EXCEPT !.st = "reset"]
    ELSE IF c.st = "syn"
    THEN IF "SYN" \in r.flags THEN [c EXCEPT !.st = "est", !.una = r.ack, !.rcv = r.seq + 1] ELSE c
    ELSE [nxt |-> c.nxt,
          una |-> IF r.ack > c.una THEN r.ack ELSE c.una,
          rcv |-> IF r.seq = c.rcv THEN r.seq + r.len + (IF "FIN" \in r.flags THEN 1 ELSE 0) ELSE c.rcv,
          st |-> IF c.st = "fin" /\ r.ack > ReqLen + 1 THEN "done"
                 ELSE IF c.st = "est" /\ "FIN" \in r.flags /\ r.seq = c.rcv THEN "half" ELSE c.st]

ClientReceive(r) ==
    LET p == r.peer
        c == After(client[p], r)
    IN /\ client[p].st \in {"syn", "est", "half", "fin", "done"}
       /\ client' = [client EXCEPT ![p] = c]
       /\ up' = IF c.st # "reset" /\ (r.len > 0 \/ r.flags \cap {"SYN", "FIN"} # {})
                THEN up \cup {AckOf(p, c)} ELSE up
       /\ UNCHANGED <<vars, hs, handed, seen>>

-----------------------------------------------------------------------------
(* The network.                                                            *)

Fault == faults < MaxFaults /\ faults' = faults + 1

DeliverUp(s) ==
    /\ s \in up /\ Receive(s)
    /\ \/ up' = up \ {s} /\ UNCHANGED faults
       \/ up' = up /\ Fault

DeliverDown(r) ==
    /\ r \in down /\ ClientReceive(r)
    /\ \/ down' = down \ {r} /\ UNCHANGED faults
       \/ down' = down /\ Fault

\* Nobody is there any more to take it.
Ignored(r) ==
    /\ r \in down /\ client[r.peer].st \in {"idle", "gone", "reset"}
    /\ down' = down \ {r}
    /\ UNCHANGED <<vars, client, hs, up, handed, seen, faults>>

Lose ==
    /\ Fault
    /\ \/ \E s \in up : up' = up \ {s} /\ UNCHANGED down
       \/ \E r \in down : down' = down \ {r} /\ UNCHANGED up
    /\ UNCHANGED <<vars, client, hs, handed, seen>>

\* A browser is switched off or unplugged.
Vanish(p) ==
    /\ client[p].st \in {"syn", "est", "half", "fin"}
    /\ Fault
    /\ client' = [client EXCEPT ![p].st = "gone"]
    /\ UNCHANGED <<vars, hs, up, down, handed, seen>>

LinkNext ==
    \/ \E s \in up : DeliverUp(s)
    \/ \E r \in down : DeliverDown(r) \/ Ignored(r)
    \/ \E p \in Peers : ClientSyn(p) \/ ClientData(p) \/ ClientRepeat(p)
                        \/ ClientFin(p) \/ Vanish(p)
    \/ Lose

LinkSpec == LinkInit /\ [][LinkNext]_lvars

(* Fairness: what is on the way arrives (losses are bounded), the board's  *)
(* loop takes it, and a browser repeats what is not acknowledged.          *)
LinkFairness ==
    \A p \in Peers :
        /\ \A k \in 0 .. ReqLen + 1 : WF_lvars(\E s \in up : s.peer = p /\ s.seq = k /\ DeliverUp(s))
        /\ WF_lvars(\E r \in down : r.peer = p /\ (DeliverDown(r) \/ Ignored(r)))
        /\ WF_lvars(ClientSyn(p)) /\ WF_lvars(ClientData(p)) /\ WF_lvars(ClientRepeat(p)) /\ WF_lvars(ClientFin(p))

FairLink == LinkSpec /\ LinkFairness
-----------------------------------------------------------------------------
(* Properties.                                                             *)

\* A unit the browser need not send again has been handed to the application:
\* the board acknowledges nothing it has not taken (uip.c, rcv_nxt), however
\* segments and acknowledgements are repeated or overtake each other.
AckedIsHanded ==
    \A p \in Peers : \A k \in 1 .. ReqLen : k < client[p].una => k \in handed[p]

\* The place in the page httpd_appcall sends from (hs->count) and the sequence
\* number uIP sends with (snd_nxt) stay together: otherwise a browser gets the
\* wrong piece of the page for a sequence number, or no acknowledgement of its
\* is the one the board waits for and the page is never finished
\* (uip.c:1067-1101, 1198-1200, httpd.c:360-383).
AnswerExact ==
    \A i \in Slots :
        uip_conns[i].state = "ESTABLISHED" /\ hs[i].state = "FILE"
        => uip_conns[i].snd_nxt - (iss + 1) = PageLen - hs[i].count

\* A request that begins arrives: whatever is lost, the browser's own
\* repetitions bring every unit to the application, or it learns of the end.
RequestArrives ==
    \A p \in Peers :
        client[p].st = "est" ~> 1 .. ReqLen \subseteq handed[p] \/ client[p].st \in {"reset", "gone"}

\* Without faults both ends finish: the browser has the whole page and its FIN
\* is acknowledged, unless a unit has overtaken the handshake and httpd_appcall
\* has aborted the connection.  No step of the close waits for a timer.
Completes ==
    [](faults = 0) =>
        \A p \in Peers :
            client[p].st = "est" ~>
                (client[p].st = "reset" \/ (client[p].st = "done" /\ client[p].rcv = iss + PageLen + 2))

\* A unit that is acknowledged has been looked at by httpd_appcall, which is
\* told of a connection and of data by one call (httpd.c, 248-255).
AckedIsSeen ==
    \A p \in Peers : \A k \in 1 .. ReqLen : k < client[p].una => k \in seen[p]

\* Without faults a connection does not stay in the pool: when the browser is
\* done, its slot can be used for another (uip.c, 925-936), with no timer to
\* clean up behind it.
SlotFreed ==
    [](faults = 0) =>
        \A p \in Peers :
            client[p].st = "est" ~>
                \A i \in Slots : uip_conns[i].peer = p => uip_conns[i].state \in {"CLOSED", "TIME_WAIT"}
=============================================================================
