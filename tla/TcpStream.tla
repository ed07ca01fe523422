----------------------------- MODULE TcpStream -----------------------------
(***************************************************************************)
(* What uIP promises to an application, as the calls of UIP_APPCALL: each  *)
(* connection is announced, then its stream is handed over from the first  *)
(* unit on, every unit once and in order, until the peer, the application  *)
(* or a reset ends it.  Nothing is said about the network.                 *)
(***************************************************************************)
EXTENDS Integers

CONSTANTS
    Conns,    \* connections
    MaxSeq    \* bound: largest sequence number

VARIABLES
    status,  \* of each connection
    next,    \* the first unit not yet handed over
    call     \* the last call: the connection, the flags, the units handed over

svars == <<status, next, call>>

Statuses == {"idle", "half", "open", "ending"}
NoCall == [conn |-> 0, flags |-> {}, data |-> {}]

Flags(n, why) == why \cup (IF n > 0 THEN {"NEWDATA"} ELSE {})
Call(c, flags, from, n) == [conn |-> c, flags |-> flags, data |-> from .. from + n - 1]

Init ==
    /\ status = [c \in Conns |-> "idle"]
    /\ next = [c \in Conns |-> 0]
    /\ call = NoCall

\* The connection goes on in status st with unit n next; only an open or half
\* open connection has a next unit.
GoOn(c, st, n) ==
    /\ status' = [status EXCEPT ![c] = st]
    /\ next' = [next EXCEPT ![c] = IF st \in {"half", "open"} THEN n ELSE 0]

\* A peer starts a connection; a connection that is ending may be forgotten.
Start(c) ==
    /\ call' = NoCall
    /\ status[c] \in {"idle", "ending"}
    /\ \E first \in 0 .. MaxSeq : GoOn(c, "half", first)

\* The application is called for c with the next n units.  After the call the
\* connection is open, unless the application has closed or aborted it.
Hand(c, why, sts) ==
    \E n \in 0 .. MaxSeq :
        /\ call' = Call(c, Flags(n, why), next[c], n)
        /\ \E st \in sts : GoOn(c, st, next[c] + n)

\* It is told of the connection.
Connected(c) ==
    /\ status[c] = "half"
    /\ Hand(c, {"CONNECTED"}, {"open", "ending", "idle"})

\* It is handed units or told that what it sent has arrived.
Data(c) ==
    /\ status[c] = "open"
    /\ \E why \in {{}, {"ACKDATA"}} : Hand(c, why, {"open", "ending", "idle"})

\* It is handed the last units and told that the peer has closed.
Finish(c) ==
    /\ status[c] = "open"
    /\ Hand(c, {"CLOSE"}, {"ending"})

\* It is told once more when the connection is about to be gone.
Closed(c) ==
    /\ status[c] = "ending"
    /\ call' = Call(c, {"CLOSE"}, 0, 0)
    /\ \E st \in {"ending", "idle"} : GoOn(c, st, 0)

\* The peer resets the connection.
Aborted(c) ==
    /\ status[c] # "idle"
    /\ call' = Call(c, {"ABORT"}, 0, 0)
    /\ GoOn(c, "idle", 0)

\* uIP works without calling the application.
Silent == call' = NoCall /\ UNCHANGED <<status, next>>

Next ==
    \/ Silent
    \/ \E c \in Conns :
          Start(c) \/ Connected(c) \/ Data(c) \/ Finish(c) \/ Closed(c) \/ Aborted(c)

Spec == Init /\ [][Next]_svars
=============================================================================
