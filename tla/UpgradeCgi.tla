----------------------------- MODULE UpgradeCgi -----------------------------
(***************************************************************************)
(* The CGI behind "POST /cgi/index" of the recovery web server             *)
(* (httpd/cgi.c, upgrade_cgi): it reassembles a firmware image out of the  *)
(* TCP segments of a multipart/form-data upload, checks its hardware ID    *)
(* and arms the flash write.  It is called once per TCP segment and keeps  *)
(* all of its state in global variables, one set for all connections.      *)
(*                                                                         *)
(* A request is a stream of UNITS.  A line of the HTTP header or of the    *)
(* MIME part header is one unit, with its line end; the image is `size'    *)
(* units, some of which hold a CR or LF byte; the closing boundary         *)
(* (content_length + 6 bytes in the code) is one unit.  Offsets, lengths   *)
(* and sizes count units.  What upgrade_cgi tells apart is the kind of a   *)
(* line, the length of a segment and the unit at the place of the hardware *)
(* ID.  No text in the image or behind the segment in uip_buf looks like   *)
(* one of the lines upgrade_cgi looks for.                                 *)
(***************************************************************************)
EXTENDS Integers, Sequences, FiniteSets

CONSTANTS
    Requests,      \* the requests clients may send, see RequestType
    Noise,         \* the source of bytes that belong to no request
    BufSize,       \* units of the staging buffer (BUFFER_SIZE)
    Mss,           \* UIP_TCP_MSS, the length of a full segment
    Ulong,         \* 2^32, the modulus of unsigned long
    BootBound,     \* BOOT_IMG_UPPER_BOUND
    LoaderMax,     \* 512K, the largest image taken for a boot loader
    LoaderHwidAt,  \* place of the hardware ID in a loader image (0x400)
    KernelSector,  \* NORMAL_ERASE_START_SECTOR, also the sector of KERNEL_LOCATION
    NormalEnd,     \* NORMAL_ERASE_END_SECTOR
    BackupEnd,     \* BACKUP_ERASE_END_SECTOR
    Stacks         \* what the stack may hold for request_idx and request_len

UserAgents == {"IE", "Chrome", "Safari", "Firefox"}

\* path: the file asked for.  cuts: the lengths of the client's segments.
\* hwid: where the image carries this board's hardware ID, at the place of a
\* loader's ("start"), of a runtime image's ("end"), both (a dump of the whole
\* flash) or nowhere.  eols: the units of the image that hold a CR or LF.
RequestType ==
    [method: {"GET", "POST"}, path: {"/", "nohwid", "cgi"}, ua: UserAgents,
     size: Nat, hwid: SUBSET {"start", "end"}, eols: SUBSET Nat,
     cuts: Seq(0 .. Ulong - 1)]

\* The locals of upgrade_cgi that name a line: request_idx, request_len, and
\* where in its unit request_idx is: at the start, further on with ten dashes
\* of a boundary still ahead, or further on.  An index between a CR and its LF
\* is left out; a negative one reads the line at 0 from further on, or none.
StackType == [idx: Nat, len: Nat, text: {"whole", "dashes", "tail"}]

ASSUME ConstantsAssumption ==
    /\ Requests \subseteq RequestType /\ Requests # {}
    /\ Noise \notin Requests
    /\ BufSize \in Nat /\ Mss \in Nat /\ Ulong \in Nat \ {0, 1}
    /\ BootBound \in Nat /\ LoaderMax \in Nat /\ BootBound <= LoaderMax
    /\ LoaderHwidAt \in Nat
    /\ KernelSector \in Nat /\ NormalEnd \in Nat /\ BackupEnd \in Nat
    /\ BackupEnd <= KernelSector /\ KernelSector < NormalEnd /\ 0 < BackupEnd
    /\ Stacks \subseteq StackType /\ Stacks # {}

-----------------------------------------------------------------------------
(* The request stream.                                                     *)

\* The header lines in the order the browsers send them.  HCT is the header's
\* "Content-Type: multipart/form-data", CLEN is "Content-Length:".
HeaderLines(r) ==
    IF r.method = "GET" THEN <<"GET", "UA", "BLANK">>
    ELSE IF r.ua = "Firefox" THEN <<"POST", "UA", "REF", "HCT", "CLEN", "BLANK">>
    ELSE <<"POST", "UA", "HCT", "CLEN", "BLANK">>

\* The boundary, Content-Disposition, Content-Type and an empty line.
MimeLines == <<"BND", "CDISP", "CTYPE", "BLANK">>

ImageStart(r) == Len(HeaderLines(r)) + Len(MimeLines)

\* Content-Length: the MIME part header, the image and the closing boundary.
ContentLength(r) == Len(MimeLines) + r.size + 1

StreamLen(r) ==
    IF r.method = "GET" THEN Len(HeaderLines(r))
    ELSE Len(HeaderLines(r)) + ContentLength(r)

\* The kind of unit i (from 0) of the stream of r.
KindAt(r, i) ==
    IF r = Noise THEN "RAW"
    ELSE LET h == Len(HeaderLines(r)) IN
         IF i < h THEN HeaderLines(r)[i + 1]
         ELSE IF i < ImageStart(r) THEN MimeLines[i - h + 1]
         ELSE IF i >= ImageStart(r) + r.size THEN "TRL"
         ELSE IF i - ImageStart(r) \in r.eols THEN "EOL" ELSE "IMG"

\* Unit i of r carries this board's hardware ID.
IsHwid(r, i) ==
    /\ r # Noise
    /\ \/ "start" \in r.hwid /\ LoaderHwidAt < r.size /\ i = ImageStart(r) + LoaderHwidAt
       \/ "end" \in r.hwid /\ i = ImageStart(r) + r.size - 1

\* A segment: units from .. from + len - 1 of req.
Packets == [req: Requests \cup {Noise}, from: Nat, len: 0 .. Ulong - 1]

Kind(p, j) == KindAt(p.req, p.from + j)

-----------------------------------------------------------------------------
(* get_request_line: it replaces the line end it finds by a NUL, so a line *)
(* is found once; nul holds the units of the segment whose line end is     *)
(* gone.  The text of a line is the unit it starts at.                     *)

LineKinds == {"GET", "POST", "UA", "REF", "HCT", "CLEN", "BLANK", "BND", "CDISP",
              "CTYPE", "EOL", "TRL"}

\* Line ends left in p from unit idx on.
LineEnds(p, nul, idx) ==
    {e \in idx .. p.len - 1 : Kind(p, e) \in LineKinds /\ e \notin nul}

\* The least element of S, or d if S is empty.
LeastOr(S, d) == IF S = {} THEN d ELSE CHOOSE e \in S : \A f \in S : e <= f

\* Where successive calls of get_request_line from idx on find a line.
LineStarts(p, nul, idx) ==
    LET E == LineEnds(p, nul, idx)
    IN {s \in {idx} \cup {e + 1 : e \in E} : \E e \in E : s <= e}

\* request_idx after the line that starts at s has been read.
NextIdx(p, nul, s) == LeastOr(LineEnds(p, nul, s), p.len - 1) + 1

\* The line ends consumed when the lines from idx up to request_idx = stop
\* have been read.
Consumed(p, nul, idx, stop) == nul \cup {e \in LineEnds(p, nul, idx) : e < stop}

\* line[0] == '\0': an empty line; the closing boundary begins with CR LF.
Empty(k) == k \in {"BLANK", "EOL", "TRL"}

-----------------------------------------------------------------------------
(* The globals of cgi.c.  buf is the memory at ptr; browser the set of     *)
(* supportFireFox and supportSafari that are 1; fatal is set when the call *)
(* does not return (a fault or an endless loop); due says that fin.delay   *)
(* has passed.  residue is a history variable, no variable of the code: an *)
(* image was accepted by an ID that is no part of it, see Finish.          *)

Buffers == [0 .. BufSize - 1 -> (Requests \cup {Noise}) \X Nat]

Globals ==
    [total_size: Nat, total_filesize: Nat, total_packets: {0, 1, 2, 3},
     buffer_ptr: Nat, content_length: {0, 1}, shift: Nat,
     browser: SUBSET {"Safari", "Firefox"},
     buf: Buffers,
     httpd_no_hwid: BOOLEAN, hwiderror: BOOLEAN,
     flashwrite: BOOLEAN, due: BOOLEAN, finishflag: BOOLEAN,
     startSector: Nat, endSector: Nat, flash_base: Nat, fatal: BOOLEAN,
     residue: BOOLEAN]

InitGlobals ==
    [total_size |-> 0, total_filesize |-> 0, total_packets |-> 0,
     buffer_ptr |-> 0, content_length |-> 0, shift |-> 0, browser |-> {},
     buf |-> [k \in 0 .. BufSize - 1 |-> <<Noise, 0>>],
     httpd_no_hwid |-> FALSE, hwiderror |-> FALSE,
     flashwrite |-> FALSE, due |-> FALSE, finishflag |-> FALSE,
     startSector |-> 0, endSector |-> 0, flash_base |-> KernelSector,
     fatal |-> FALSE, residue |-> FALSE]

\* Unit j of segment p as it is in uip_buf: a line end that get_request_line
\* has replaced is no longer what the client sent.
UnitAt(p, nul, j) == <<IF j \in nul THEN Noise ELSE p.req, p.from + j>>

\* memcpy(ptr + at, &uip_appdata[start], len)
Memcpy(buf, at, p, nul, start, len) ==
    [k \in DOMAIN buf |->
        IF at <= k /\ k < at + len THEN UnitAt(p, nul, start + (k - at)) ELSE buf[k]]

\* The outcome of a call: the globals, the line ends gone, the return value.
Outcome(g, nul, ret) == [g |-> g, nul |-> nul, ret |-> ret]
Fault(g, nul) == Outcome([g EXCEPT !.fatal = TRUE], nul, 0)

-----------------------------------------------------------------------------
\* total_packets == 0: read the HTTP header.  Returns the globals, nul and
\* request_idx.
ParseHeader(g, p, nul) ==
    LET S     == LineStarts(p, nul, 0)
        ffAt(s) == \/ "Firefox" \in g.browser
                   \/ \E t \in S : t < s /\ Kind(p, t) = "UA" /\ p.req.ua = "Firefox"
        stops == {s \in S : Empty(Kind(p, s)) \/ (Kind(p, s) = "REF" /\ ffAt(s))}
        stop  == LeastOr(stops, p.len)
        idx   == IF stops = {} THEN p.len ELSE NextIdx(p, nul, stop)
        seen(k) == \E s \in S : s < stop /\ Kind(p, s) = k
    IN [g |-> [g EXCEPT
                !.total_size = IF seen("POST") THEN 0 ELSE @,
                !.total_filesize = IF seen("CLEN") THEN ContentLength(p.req) % Ulong
                                   ELSE IF seen("POST") THEN 0 ELSE @,
                !.total_packets = IF seen("POST") THEN 2 ELSE 1,
                !.browser = IF seen("UA") THEN @ \cup ({p.req.ua} \cap {"Safari", "Firefox"})
                            ELSE @],
        nul |-> Consumed(p, nul, 0, idx), idx |-> idx]

\* Mutant of StageFirst: the blank line is not skipped.
StageFirstWithBlank(g, p, nul, idx, shift) ==
    Outcome([g EXCEPT !.total_filesize = (@ - idx - g.content_length + shift) % Ulong,
                      !.total_size = p.len - idx,
                      !.buf = Memcpy(@, 0, p, nul, idx, p.len - idx),
                      !.buffer_ptr = p.len - idx,
                      !.total_packets = 3], nul, 0)

\* The image begins one unit (the blank line) after request_idx = idx: the
\* size is what the Content-Length leaves without the part header and, unless
\* the segment is a full one, without the closing boundary.  Where the segment
\* ends before the image, len is negative: memcpy takes it for a size near 2^32
\* and runs over all of the memory.
StageFirst(g, p, nul, idx, shift) ==
    LET start == idx + 1
        len   == p.len - start
        rest  == IF p.len # Mss
                 THEN g.total_filesize - start - g.content_length + shift
                 ELSE g.total_filesize - start
    IN Outcome([g EXCEPT !.total_filesize = rest % Ulong,
                         !.total_size = len % Ulong,
                         !.buf = Memcpy(@, 0, p, nul, start, len),
                         !.buffer_ptr = len % Ulong,
                         !.total_packets = 3,
                         !.fatal = len < 0], nul, 0)

\* The loop over the MIME lines from request_idx = idx, not Firefox.  q is
\* segment p as far as request_len goes.
MimeOther(g, p, q, nul, idx) ==
    LET S     == LineStarts(q, nul, idx)
        safari == "Safari" \in g.browser /\ g.content_length = 0
        stops == {s \in S : Kind(q, s) \in {"CTYPE", "HCT"} \/ Empty(Kind(q, s))}
        stop  == LeastOr(stops, q.len)
        next  == IF stops = {} THEN q.len ELSE NextIdx(q, nul, stop)
        gb    == [g EXCEPT !.content_length =
                    IF \E s \in S : s < stop /\ Kind(q, s) = "BND" THEN 1 ELSE @]
        nul2  == Consumed(q, nul, idx, next)
    IN IF S # {} /\ safari
       THEN LET first == NextIdx(q, nul, idx) IN
            Outcome([g EXCEPT !.total_filesize = (@ - (q.len + first)) % Ulong,
                              !.total_size = 0, !.total_packets = 3],
                    Consumed(q, nul, idx, first), 0)
       ELSE IF stops = {} \/ Empty(Kind(q, stop)) THEN Outcome(gb, nul2, 0)
       ELSE StageFirst(gb, p, nul2, next, g.shift)

\* The same loop for Firefox, whose Content-Length line it waits for; the
\* boundary, disposition and type lines are then read without a test.
MimeFirefox(g, p, nul, idx) ==
    LET S     == LineStarts(p, nul, idx)
        stops == {s \in S : Kind(p, s) = "CLEN" \/ Empty(Kind(p, s))}
        stop  == LeastOr(stops, p.len)
        next  == IF stops = {} THEN p.len ELSE NextIdx(p, nul, stop)
        gb    == [g EXCEPT !.shift =
                    IF \E s \in S : s < stop /\ Kind(p, s) = "POST" THEN 1 ELSE @]
        tmp_idx == next + 1
        bnd   == NextIdx(p, nul, tmp_idx)
        disp  == NextIdx(p, nul, bnd)
        ctype == NextIdx(p, nul, disp)
    IN IF stops = {} \/ Empty(Kind(p, stop))
       THEN Outcome(gb, Consumed(p, nul, idx, next), 0)
       ELSE IF LineEnds(p, nul, tmp_idx) = {}
       THEN Fault(gb, Consumed(p, nul, idx, next))      \* strlen(NULL)
       ELSE StageFirst([gb EXCEPT !.total_filesize = ContentLength(p.req) % Ulong,
                                  !.content_length = 1],
                       p, Consumed(p, nul, idx, ctype), ctype, tmp_idx)

\* p as far as a request_len of n goes.
UpTo(p, n) == [p EXCEPT !.len = IF n < @ THEN n ELSE @]

\* The boundaries that start with the ten dashes of the first test, those of
\* Chrome and Safari start with six.
TenDashes(r) == r.ua \in {"IE", "Firefox"}

\* total_packets == 2.  s is request_idx and request_len: set by ParseHeader in
\* the same call, otherwise what the stack holds.  The first line is read with
\* both; where it is no boundary, the loop starts over with the whole segment,
\* but without the line end that was found.  A boundary met behind its start
\* counts too short, so that part of the closing one is taken for the image.
ParseMime(g, p, nul, s) ==
    LET ff    == "Firefox" \in g.browser
        q     == UpTo(p, s.len)
        read  == ~ff /\ LineEnds(q, nul, s.idx) # {}
        next  == NextIdx(q, nul, s.idx)
        nul2  == IF read THEN Consumed(q, nul, s.idx, next) ELSE nul
        shift == IF s.text = "dashes" THEN s.idx + 1 ELSE s.idx
    IN IF ff THEN MimeFirefox([g EXCEPT !.shift = 0], p, nul2, 0)
       ELSE IF read /\ Kind(p, s.idx) = "BND" /\ TenDashes(p.req) /\ s.text # "tail"
       THEN MimeOther([g EXCEPT !.shift = shift, !.content_length = 1], p, q, nul2, next)
       ELSE MimeOther([g EXCEPT !.shift = 0], p, p, nul2, 0)

-----------------------------------------------------------------------------
HwidMatches(g, at) ==
    /\ at \in DOMAIN g.buf
    /\ IsHwid(g.buf[at][1], g.buf[at][2])

HwidPlace(g) == IF g.total_filesize <= LoaderMax THEN LoaderHwidAt ELSE g.total_filesize - 1


\* The hardware ID is wrong: forget the upload.
Refuse(g, nul) ==
    Outcome([g EXCEPT !.total_size = 0, !.total_filesize = 0,
                      !.total_packets = 0, !.hwiderror = TRUE], nul, 2)

\* Mutant of Arm: a runtime image starts one sector early.
ArmEarly(g, nul) ==
    Outcome([g EXCEPT !.startSector = KernelSector - 1, !.endSector = NormalEnd,
                      !.due = FALSE, !.flashwrite = TRUE], nul, 1)

\* Choose the flash region by the size and arm the write.
Arm(g, nul) ==
    LET loader == g.total_filesize <= LoaderMax
    IN Outcome([g EXCEPT !.startSector = IF loader THEN 0 ELSE KernelSector,
                         !.endSector = IF loader THEN BackupEnd ELSE NormalEnd,
                         !.flash_base = IF loader THEN 0 ELSE KernelSector,
                         !.due = FALSE, !.flashwrite = TRUE,
                         !.residue = \/ @
                                     \/ ~g.httpd_no_hwid /\ HwidPlace(g) >= g.total_filesize],
               nul, 1)

\* Mutant of Finish: the hardware ID is not looked at.
FinishUnchecked(g, nul) == Arm(g, nul)

\* The whole image is staged: check it and arm the flash write.  The ID of a
\* loader is read at its place even where less than that was staged, and is
\* then what an earlier upload left in the buffer.  A loader that is too large
\* is answered with the error page, but not forgotten.
Finish(g, nul) ==
    IF BootBound < g.total_filesize /\ g.total_filesize <= LoaderMax THEN Outcome(g, nul, 2)
    ELSE IF ~g.httpd_no_hwid /\ ~HwidMatches(g, HwidPlace(g)) THEN Refuse(g, nul)
    ELSE Arm(g, nul)

\* Mutant of StageData: buffer_ptr does not move past the last segment.
StageDataStuck(g, p, nul) ==
    LET size == (g.total_size + p.len) % Ulong
        staged == [g EXCEPT !.total_size = size, !.buf = Memcpy(@, g.buffer_ptr, p, nul, 0, p.len)]
    IN IF size >= g.total_filesize THEN Finish(staged, nul)
       ELSE Outcome([staged EXCEPT !.buffer_ptr = @ + p.len], nul, 0)

\* Mutant of StageData: every segment counts as a packet.
StageDataCounts(g, p, nul) ==
    LET size   == (g.total_size + p.len) % Ulong
        staged == [g EXCEPT !.total_size = size, !.total_packets = @ + 1,
                            !.buf = Memcpy(@, g.buffer_ptr, p, nul, 0, p.len),
                            !.buffer_ptr = @ + p.len]
    IN IF size >= g.total_filesize THEN Finish(staged, nul)
       ELSE IF g.shift # 0 THEN Outcome([g EXCEPT !.shift = 0], nul, 0)
       ELSE Outcome(staged, nul, 0)

\* total_packets == 3: stage a segment of the image.
StageData(g, p, nul) ==
    LET size   == (g.total_size + p.len) % Ulong
        staged == [g EXCEPT !.total_size = size,
                            !.buf = Memcpy(@, g.buffer_ptr, p, nul, 0, p.len),
                            !.buffer_ptr = @ + p.len]
    IN IF size >= g.total_filesize THEN Finish(staged, nul)
       ELSE IF g.shift # 0 THEN Outcome([g EXCEPT !.shift = 0], nul, 0)
       ELSE Outcome(staged, nul, 0)

\* The header has been read with outcome h; the same segment may go on with
\* the part header.
AfterHeader(h, p) ==
    IF h.g.total_packets = 2
    THEN ParseMime(h.g, p, h.nul, [idx |-> h.idx, len |-> p.len, text |-> "whole"])
    ELSE Outcome(h.g, h.nul, 0)

\* One call upgrade_cgi(0) for segment p, with request_idx and request_len as
\* stack says on entry.
UpgradeCgi(g, p, nul, stack) ==
    IF g.total_packets = 0
    THEN AfterHeader(ParseHeader(g, p, nul), p)
    ELSE IF g.total_packets = 2 THEN ParseMime(g, p, nul, stack)
    ELSE IF g.total_packets = 3 /\ (g.total_size # 0 \/ "Safari" \in g.browser)
    THEN StageData(g, p, nul)
    ELSE Outcome(g, nul, 0)
=============================================================================
