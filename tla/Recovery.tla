------------------------------ MODULE Recovery ------------------------------
(***************************************************************************)
(* Recovery mode: the web server U-Boot runs when the firmware in flash    *)
(* cannot be booted (httpd/httpd.c with cgi.c and the SPI flash driver).   *)
(* One loop polls the Ethernet driver, feeds uIP, which calls              *)
(* httpd_appcall for a connection, and writes the flash when upgrade_cgi   *)
(* has armed it.  Clients, time, the console and the power supply are the  *)
(* environment.                                                            *)
(*                                                                         *)
(* uIP is represented by the calls it makes: what it hands over is in      *)
(* order and without repetition per connection.                            *)
(***************************************************************************)
EXTENDS UpgradeCgi

CONSTANTS
    Conns,          \* TCP connections (slots of uip_conns)
    Sectors,        \* number of flash sectors
    SectorUnits,    \* units of an image in a sector
    MaxOpens,       \* bound: connections opened between two boots
    MaxBoots        \* bound: times recovery mode is entered

ASSUME RecoveryAssumption ==
    /\ Sectors \in Nat /\ NormalEnd <= Sectors
    /\ SectorUnits \in Nat \ {0}
    /\ MaxOpens \in Nat /\ MaxBoots \in Nat \ {0}

VARIABLES
    g,       \* the globals of cgi.c
    conn,    \* the connections
    flash,   \* what is in each flash sector
    pc,      \* where httpd() is
    sector,  \* the loop variable of flash_erase_t and write_buff
    opens, boots

vars == <<g, conn, flash, pc, sector, opens, boots>>

\* tcp: uIP's state of the connection as far as calls depend on it.
\* hs: the state of struct httpd_state.  req, seg, at: the request, the number
\* of its segments and units handed to httpd.
ConnType ==
    [tcp: {"closed", "established", "last_ack", "fin_wait"},
     hs: {"NOGET", "FILE", "FUNC"}, req: Requests, seg: Nat, at: Nat]

SectorStates == {"old", "erased", "image", "mixed"}

TypeOK ==
    /\ g \in Globals
    /\ conn \in [Conns -> ConnType]
    /\ flash \in [0 .. Sectors - 1 -> SectorStates]
    /\ pc \in {"loop", "erase", "write", "tail", "cli", "boot", "hang"}
    /\ sector \in Nat
    /\ opens \in 0 .. MaxOpens
    /\ boots \in 0 .. MaxBoots

ClosedConns ==
    [c \in Conns |-> [tcp |-> "closed", hs |-> "NOGET",
                      req |-> CHOOSE r \in Requests : TRUE, seg |-> 0, at |-> 0]]

Init ==
    /\ g = InitGlobals
    /\ conn = ClosedConns
    /\ flash = [s \in 0 .. Sectors - 1 |-> "old"]
    /\ pc = "loop"
    /\ sector = 0
    /\ opens = 0 /\ boots = 1

-----------------------------------------------------------------------------
(* httpd_appcall                                                           *)

\* What an invocation leaves: the globals, the state of the connection and
\* whether it asked uIP to abort the connection.
Reply(g2, hs, abort) == [g |-> g2, hs |-> hs, abort |-> abort]

\* State HTTP_FUNC: a finished upload is answered with the countdown or the
\* error page, sent in state HTTP_FILE.
FuncReply(o) == Reply(o.g, IF o.ret = 0 THEN "FUNC" ELSE "FILE", FALSE)
FuncCall(g1, p, stack) == FuncReply(UpgradeCgi(g1, p, {}, stack))

\* The first segment of a request for "/cgi/index": next_scriptstate calls
\* upgrade_cgi, then httpd_appcall calls it again for the same segment.  When
\* that finishes an upload, the answer page is run as a script because the
\* segment still names "/cgi/": its first letter is no command, so uip_abort
\* is called, the state stays HTTP_FUNC and upgrade_cgi is called once more.
\* If it again reports the end, the jump back to send_error never ends.
ScriptThird(o) ==
    IF o.ret = 0 THEN Reply(o.g, "FUNC", TRUE)
    ELSE Reply([o.g EXCEPT !.fatal = TRUE], "FUNC", FALSE)

ScriptSecond(o, p, stack) ==
    IF o.ret = 0 THEN Reply(o.g, "FUNC", FALSE)
    ELSE ScriptThird(UpgradeCgi(o.g, p, o.nul, stack))

ScriptFirst(o, p, stack) ==
    IF o.g.fatal THEN Reply(o.g, "FUNC", FALSE)
    ELSE ScriptSecond(UpgradeCgi(o.g, p, o.nul, stack), p, stack)

ScriptCall(g1, p, stack) == ScriptFirst(UpgradeCgi(g1, p, {}, stack), p, stack)

\* The first data of a connection must be a GET or a POST.
FirstCall(g1, p, stack) ==
    IF Kind(p, 0) \notin {"GET", "POST"} THEN Reply(g1, "NOGET", TRUE)
    ELSE IF p.req.path = "cgi" THEN ScriptCall(g1, p, stack)
    ELSE Reply([g1 EXCEPT !.httpd_no_hwid = @ \/ p.req.path = "nohwid"],
               "FILE", FALSE)

\* uip_newdata(), uip_closed() or uip_aborted(): only uip_newdata() is tested,
\* so a connection in state HTTP_FUNC also runs the CGI when it goes away.
Appcall(g1, hs, newdata, p, stack) ==
    IF newdata /\ hs = "NOGET" THEN FirstCall(g1, p, stack)
    ELSE IF hs = "FUNC" THEN FuncCall(g1, p, stack)
    ELSE Reply(g1, hs, FALSE)

-----------------------------------------------------------------------------
(* The loop of httpd().  In one round the loop reads a frame, resets the   *)
(* board if the upgrade is done, writes the flash if it is armed and the   *)
(* second for the FIN has passed, and only then processes the frame.       *)

ReadyForFrame ==
    \/ pc = "loop" /\ ~g.finishflag /\ ~(g.flashwrite /\ g.due)
    \/ pc = "tail"

\* The frame made uIP call httpd_appcall for c, which returned reply.
HandleFrame(c, reply, tcp, seg, at) ==
    /\ g' = reply.g
    /\ conn' = [conn EXCEPT ![c].tcp = IF reply.abort THEN "closed" ELSE tcp,
                            ![c].hs = reply.hs, ![c].seg = seg, ![c].at = at]
    /\ pc' = IF reply.g.fatal THEN "hang" ELSE "loop"
    /\ UNCHANGED <<flash, sector, opens, boots>>

Segment(c, len) == [req |-> conn[c].req, from |-> conn[c].at, len |-> len]
NextCut(c) == conn[c].req.cuts[conn[c].seg + 1]
MoreData(c) == conn[c].seg < Len(conn[c].req.cuts)

\* The handshake completes.  uip_connected() makes httpd_appcall return at
\* once: the data that came with the client's ACK is acknowledged and lost.
Connect(c, r, n) ==
    /\ ReadyForFrame
    /\ conn[c].tcp = "closed"
    /\ n <= Len(r.cuts)
    /\ opens < MaxOpens
    /\ opens' = opens + 1
    /\ conn' = [conn EXCEPT ![c] = [tcp |-> "established", hs |-> "NOGET", req |-> r,
                                    seg |-> n, at |-> IF n = 0 THEN 0 ELSE r.cuts[1]]]
    /\ pc' = "loop"
    /\ UNCHANGED <<g, flash, sector, boots>>

\* A segment of the client's request.  fin: the client also closes, which uIP
\* only accepts while nothing it sent is unacknowledged.
NewData(c, fin, stack) ==
    /\ ReadyForFrame
    /\ conn[c].tcp = "established" /\ MoreData(c)
    /\ fin => conn[c].hs # "FILE"
    /\ LET p == Segment(c, NextCut(c))
       IN HandleFrame(c, [Appcall(g, conn[c].hs, TRUE, p, stack) EXCEPT !.abort = @ /\ ~fin],
                      IF fin THEN "last_ack" ELSE "established",
                      conn[c].seg + 1, conn[c].at + p.len)

\* The client closes without further data; in state LAST_ACK it acknowledges
\* the server's FIN.  Either way httpd_appcall runs with an empty segment.
PeerClose(c, stack) ==
    /\ ReadyForFrame
    /\ \/ conn[c].tcp = "established" /\ conn[c].hs # "FILE"
       \/ conn[c].tcp = "last_ack"
    /\ HandleFrame(c, Appcall(g, conn[c].hs, FALSE, Segment(c, 0), stack),
                   IF conn[c].tcp = "established" THEN "last_ack" ELSE "closed",
                   conn[c].seg, conn[c].at)

\* The client acknowledges the page: all of it is sent, uip_close().
PageAcked(c) ==
    /\ ReadyForFrame
    /\ conn[c].tcp = "established" /\ conn[c].hs = "FILE"
    /\ HandleFrame(c, Reply(g, "FILE", FALSE), "fin_wait", conn[c].seg, conn[c].at)

\* The client closes its side of a connection the server has closed.
PeerFin(c) ==
    /\ ReadyForFrame
    /\ conn[c].tcp = "fin_wait"
    /\ HandleFrame(c, Reply(g, conn[c].hs, FALSE), "closed", conn[c].seg, conn[c].at)

\* A RST: uIP drops the connection and calls httpd_appcall before it has
\* reduced uip_len to the length of the data, so the CGI sees 40 bytes that
\* are no data of this connection.
PeerReset(c, stack) ==
    /\ ReadyForFrame
    /\ conn[c].tcp # "closed"
    /\ HandleFrame(c, Appcall(g, conn[c].hs, FALSE,
                              [req |-> Noise, from |-> 0, len |-> 1], stack),
                   "closed", conn[c].seg, conn[c].at)

-----------------------------------------------------------------------------
(* Time, the flash write and the reset.                                    *)

\* fin.delay passes.
FinDelay ==
    /\ pc = "loop" /\ g.flashwrite /\ ~g.due
    /\ g' = [g EXCEPT !.due = TRUE]
    /\ UNCHANGED <<conn, flash, pc, sector, opens, boots>>

\* upgrade_firmware is called.
StartUpgrade ==
    /\ pc = "loop" /\ ~g.finishflag
    /\ g.flashwrite /\ g.due
    /\ pc' = "erase"
    /\ sector' = g.startSector
    /\ UNCHANGED <<g, conn, flash, opens, boots>>

\* flash_erase_t: do { erase i } while (++i < s_last)
EraseSector ==
    /\ pc = "erase"
    /\ flash' = [flash EXCEPT ![sector] = "erased"]
    /\ IF sector + 1 < g.endSector
       THEN pc' = "erase" /\ sector' = sector + 1
       ELSE pc' = "write" /\ sector' = 0
    /\ UNCHANGED <<g, conn, opens, boots>>

\* write_buff: while (total < len), a sector's worth of pages at a time.
\* Programming a sector that is not erased leaves neither content.
WriteSector ==
    /\ pc = "write"
    /\ sector * SectorUnits < g.total_filesize
    /\ LET s == g.flash_base + sector
       IN flash' = [flash EXCEPT ![s] = IF flash[s] = "erased" THEN "image" ELSE "mixed"]
    /\ sector' = sector + 1
    /\ UNCHANGED <<g, conn, pc, opens, boots>>

\* upgrade_firmware returns; the frame of this round is still to be handled.
FinishUpgrade ==
    /\ pc = "write"
    /\ sector * SectorUnits >= g.total_filesize
    /\ g' = [g EXCEPT !.finishflag = TRUE]
    /\ pc' = "tail"
    /\ UNCHANGED <<conn, flash, sector, opens, boots>>

\* There was no frame in the round of the upgrade.
NoFrame ==
    /\ pc = "tail" /\ pc' = "loop"
    /\ UNCHANGED <<g, conn, flash, sector, opens, boots>>

\* do_reset
Reset ==
    /\ pc = "loop" /\ g.finishflag
    /\ pc' = "boot"
    /\ UNCHANGED <<g, conn, flash, sector, opens, boots>>

\* Ctrl-C on the console leaves httpd().
CtrlC ==
    /\ pc = "loop"
    /\ pc' = "cli"
    /\ UNCHANGED <<g, conn, flash, sector, opens, boots>>

\* The command line runs bootm again, which enters httpd() again: uip_init
\* drops the connections, the globals of cgi.c stay as they are.
Reenter ==
    /\ pc = "cli"
    /\ boots < MaxBoots
    /\ conn' = ClosedConns
    /\ pc' = "loop"
    /\ boots' = boots + 1
    /\ UNCHANGED <<g, flash, sector, opens>>

\* The power fails.
PowerLoss ==
    /\ pc # "boot"
    /\ pc' = "boot"
    /\ UNCHANGED <<g, conn, flash, sector, opens, boots>>

\* The board starts and comes to recovery mode again.
EnterRecovery ==
    /\ pc = "boot"
    /\ boots < MaxBoots
    /\ g' = InitGlobals
    /\ conn' = ClosedConns
    /\ pc' = "loop" /\ sector' = 0
    /\ boots' = boots + 1
    /\ UNCHANGED <<flash, opens>>

-----------------------------------------------------------------------------
Frame(c) ==
    \/ \E r \in Requests : \E n \in {0, 1} : Connect(c, r, n)
    \/ \E stack \in Stacks :
          \/ \E fin \in BOOLEAN : NewData(c, fin, stack)
          \/ PeerClose(c, stack)
          \/ PeerReset(c, stack)
    \/ PageAcked(c)
    \/ PeerFin(c)

Upgrade ==
    StartUpgrade \/ EraseSector \/ WriteSector \/ FinishUpgrade \/ NoFrame \/ Reset

Next ==
    \/ \E c \in Conns : Frame(c)
    \/ FinDelay \/ Upgrade
    \/ CtrlC \/ Reenter \/ PowerLoss \/ EnterRecovery

Spec == Init /\ [][Next]_vars

(* For liveness the console and the power supply are left out.  Fairness:  *)
(* the loop of httpd() goes round (it blocks nowhere), time passes, and a  *)
(* client sends the rest of its request, reads the answer and closes.      *)

Serve == (\E c \in Conns : Frame(c)) \/ FinDelay \/ Upgrade

\* The steps of a client that behaves like a browser with one user: it starts
\* no upload in the second in which the server waits to write the flash.
BrowserFrame(c) ==
    \/ ~g.flashwrite /\ \E r \in Requests : Connect(c, r, 0)
    \/ \E stack \in Stacks : NewData(c, FALSE, stack)
    \/ PageAcked(c)
    \/ PeerFin(c)

Browse == (\E c \in Conns : BrowserFrame(c)) \/ FinDelay \/ Upgrade

ClientCanGoOn(c) ==
    /\ ReadyForFrame
    /\ \/ conn[c].tcp = "established" /\ (MoreData(c) \/ conn[c].hs = "FILE")
       \/ conn[c].tcp = "fin_wait"

Fairness ==
    /\ WF_vars(FinDelay) /\ WF_vars(Upgrade)
    /\ \A c \in Conns : []<>~ClientCanGoOn(c) \/ []<><<conn'[c] # conn[c]>>_vars

BusySpec == Init /\ [][Serve]_vars /\ Fairness
BrowserSpec == Init /\ [][Browse]_vars /\ Fairness
-----------------------------------------------------------------------------
(* Properties.                                                             *)

Writing == pc \in {"erase", "write"}

\* Between the check that arms the write (flashwrite = 1) and the end of the
\* write, a second in which frames of every connection are still handled, no
\* step changes the image that was checked, its size or the flash region it
\* goes to; only a restart of the board disarms the write.  An image so short
\* that its ID was read after its end (residue) is the exception.
\* (cgi.c:472-597, 255-280, httpd.c:706-713)
CheckedImageFrozen ==
    [][g.flashwrite /\ ~g.residue /\ pc # "boot" =>
        /\ g'.flashwrite
        /\ g'.total_filesize = g.total_filesize
        /\ \A k \in 0 .. BufSize - 1 : k < g.total_filesize => g'.buf[k] = g.buf[k]
        /\ <<g'.startSector, g'.endSector, g'.flash_base>>
              = <<g.startSector, g.endSector, g.flash_base>>]_vars

\* An image the flash may be written with: the unit at the place of the
\* hardware ID is this board's, or the check was switched off by the
\* "/test_nohwid.html" page; the region is the one for its size, and a loader
\* fits the loader partition.
Acceptable(q) ==
    LET loader == q.total_filesize <= LoaderMax
    IN /\ loader => q.total_filesize <= BootBound
       /\ q.flash_base = IF loader THEN 0 ELSE KernelSector
       /\ q.startSector = q.flash_base
       /\ q.endSector = IF loader THEN BackupEnd ELSE NormalEnd
       /\ q.httpd_no_hwid \/ HwidMatches(q, HwidPlace(q))

\* Whenever the flash is being written the staged image is acceptable for the
\* region that is written, whatever other connections have sent since it was
\* checked.  (cgi.c:500-594)
WritesAcceptable == Writing /\ ~g.residue => Acceptable(g)

\* The sectors of the boot loader and its configuration change only in a
\* loader upgrade: no run of uploads, aborts, restarts and power failures
\* makes a runtime upgrade erase or program them.  (bsp.h:28-31, cgi.c:543-589)
LoaderSectorsSafe ==
    [][\A s \in 0 .. KernelSector - 1 :
          flash'[s] # flash[s] => Writing /\ g.flash_base = 0]_vars

\* write_buff's own assumption: "Caller has already erased the appropriate
\* sectors" (ar7100_flash.c:105).
ProgramsErased == \A s \in DOMAIN flash : flash[s] # "mixed"

\* What is written is one client's image, from its first unit to its last:
\* nothing is missing, repeated, changed or mixed in.  It holds for the first
\* client (the globals of cgi.c outlive a connection, and Ctrl-C), not for every
\* cut of the header, the part header and the image into segments nor for every
\* value the stack may hold: see WellCut, Tame and run full_segment.
\* (cgi.c:193-199, 308-498)
OneUpload ==
    Writing /\ opens = 1 =>
        LET r == g.buf[0][1] IN
        /\ r \in Requests
        /\ g.total_filesize = r.size
        /\ \A k \in 0 .. g.total_filesize - 1 : g.buf[k] = <<r, ImageStart(r) + k>>

\* The uploads upgrade_cgi is made for: the header is in the first segment, the
\* part header is whole in the same or in the next one, not a full one, and the
\* first segment is too short to be taken for the rest of the image when
\* upgrade_cgi is called for it again.  Chrome must not send both in one segment:
\* its boundary is not met at the start of a line then, and the size is wrong.
\* The image reaches beyond the place of a loader's ID and fits the staging
\* buffer.  (cgi.c:357-498, httpd.c:373-399)
WellCut(r) ==
    r.method = "POST" /\ r.path = "cgi" =>
        /\ r.ua # "Safari"
        /\ LoaderHwidAt < r.size /\ r.size <= BufSize /\ ContentLength(r) < Ulong
        /\ r.cuts # <<>>
        /\ \/ /\ r.cuts[1] = Len(HeaderLines(r))
              /\ Len(r.cuts) > 1 => r.cuts[2] >= Len(MimeLines) /\ r.cuts[2] # Mss
           \/ /\ r.ua # "Chrome"
              /\ r.cuts[1] >= ImageStart(r) /\ r.cuts[1] # Mss
              /\ r.cuts[1] + (r.cuts[1] - ImageStart(r)) < r.size

\* What the stack may hold when the part header comes in a later segment: no
\* line is read with it, or a line of the part header other than the type line,
\* and the boundary not from behind its start.  At the type line upgrade_cgi
\* would swallow it, in the image it would write a NUL over a CR or LF.
\* (cgi.c:193-199, 364-380)
Tame(s) ==
    \/ s.len <= s.idx
    \/ s.idx = 0 /\ s.text # "dashes"
    \/ s.idx \in {1, 3}

\* No client resets its connection when nothing but the last unit of its image
\* is missing: the header of the RST would be staged for it.  (uip.c:1037)
NoLateReset ==
    \A c \in Conns :
        conn[c].at + 1 = ImageStart(conn[c].req) + conn[c].req.size
            => ~\E stack \in Stacks : PeerReset(c, stack)

\* An image for this board that fits its region.
Good(r) ==
    /\ r.method = "POST" /\ r.hwid = {"start", "end"}
    /\ ~(BootBound < r.size /\ r.size <= LoaderMax)

\* What upgrade_cgi never forgets leaves an upload with r possible: no GET of the
\* CGI has counted as a packet, no loader was refused for its size, no browser
\* of another kind has been seen and, for Safari, whose image is not staged from
\* the buffer's start but from buffer_ptr on, no other image.
\* (cgi.c:144-145, 354, 389-393, 496, 511-514)
Usable(r) ==
    /\ g.total_packets # 1
    /\ ~(g.total_packets = 3 /\ BootBound < g.total_filesize /\ g.total_filesize <= LoaderMax)
    /\ g.browser \subseteq {r.ua}
    /\ r.ua = "Safari" => g.buffer_ptr = g.total_size


\* "1 second to reply FIN" (cgi.c:592): once the write is armed it takes place
\* when the second has passed, whatever clients do in that second.
ArmedIsWritten == g.flashwrite ~> g.finishflag
=============================================================================
