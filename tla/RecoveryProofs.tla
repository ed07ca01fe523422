--------------------------- MODULE RecoveryProofs ---------------------------
(***************************************************************************)
(* Proofs about Recovery for every set of requests and connections, every  *)
(* buffer, sector and image size and every bound.                          *)
(*                                                                         *)
(* What makes an armed write safe is spread over several calls of          *)
(* upgrade_cgi: total_packets stays 3, so the parsers are not entered      *)
(* again, and buffer_ptr has passed total_filesize, so whatever is staged  *)
(* later lands behind the image.  GInv says so; Steps is what one or more  *)
(* calls of upgrade_cgi do to globals that satisfy it.                     *)
(***************************************************************************)
EXTENDS Recovery, WellFoundedInduction, TLAPS

\* Never fewer units are staged than counted.
Ahead(q) == q.total_size <= q.buffer_ptr

\* The region of an armed write is that of the loader or of the runtime image.
Region(q) ==
    q.flashwrite => q.startSector = q.flash_base /\ q.flash_base \in {0, KernelSector}

\* An armed image is acceptable, is staged whole, and carries its ID inside.
Armed(q) ==
    q.flashwrite /\ ~q.residue =>
        /\ q.total_packets = 3
        /\ q.total_filesize <= q.buffer_ptr
        /\ Acceptable(q)
        /\ q.httpd_no_hwid \/ HwidPlace(q) < q.total_filesize

GInv(q) == q \in Globals /\ Ahead(q) /\ Region(q) /\ Armed(q)

\* q2 still holds the image that was checked in q, for the same region.
Frozen(q, q2) ==
    /\ q2.flashwrite /\ ~q2.residue
    /\ q2.total_filesize = q.total_filesize
    /\ \A k \in 0 .. BufSize - 1 : k < q.total_filesize => q2.buf[k] = q.buf[k]
    /\ <<q2.startSector, q2.endSector, q2.flash_base>>
          = <<q.startSector, q.endSector, q.flash_base>>

Steps(q, q2) == GInv(q2) /\ (q.flashwrite /\ ~q.residue => Frozen(q, q2))

\* The parsers leave the target of a write alone.
SameTarget(q, q2) ==
    /\ q2.flashwrite = q.flashwrite /\ q2.residue = q.residue
    /\ q2.startSector = q.startSector /\ q2.endSector = q.endSector
    /\ q2.flash_base = q.flash_base

IInv ==
    /\ TypeOK
    /\ GInv(g)
    /\ Writing => g.flashwrite
    /\ pc = "erase" => g.startSector <= sector
-----------------------------------------------------------------------------
(* Lines.                                                                  *)

\* Every set of naturals that is not empty has a least element.
LEMMA LeastNatural ==
    ASSUME NEW T \in SUBSET Nat, T # {}
    PROVE  \E x \in T : \A y \in T : x <= y
<1> DEFINE R == OpToRel(<, Nat)
<1>1. \E x \in T : \A y \in T : <<y, x>> \notin R
  BY NatLessThanWellFounded, WFMin, Zenon
<1>2. \A y \in Nat : \A x \in Nat : y < x => <<y, x>> \in R
  BY Zenon DEF OpToRel
<1> HIDE DEF R
<1>3. PICK x \in T : \A y \in T : <<y, x>> \notin R
  BY <1>1
<1>4. ASSUME NEW y \in T
      PROVE  x <= y
  <2>1. ~(y < x)
    BY <1>2, <1>3, Zenon
  <2>2. x \in Nat /\ y \in Nat
    OBVIOUS
  <2> QED BY <2>1, <2>2
<1> QED BY <1>4

\* LeastOr returns an element of the set or the default.
LEMMA LeastOrType ==
    ASSUME NEW S \in SUBSET Nat, NEW d
    PROVE  /\ S = {} => LeastOr(S, d) = d
           /\ S # {} => LeastOr(S, d) \in S
BY LeastNatural DEF LeastOr

\* What a segment is made of.
LEMMA PacketType ==
    ASSUME NEW p \in Packets
    PROVE  /\ p.req \in Requests \cup {Noise} /\ p.from \in Nat
           /\ p.len \in Nat /\ p.len < Ulong
<1>1. /\ p.req \in Requests \cup {Noise} /\ p.from \in Nat
      /\ p.len \in 0 .. Ulong - 1
  BY DEF Packets
<1>2. Ulong \in Nat
  BY ConstantsAssumption
<1> QED BY <1>1, <1>2

\* get_request_line leaves request_idx a natural number.
LEMMA NextIdxType ==
    ASSUME NEW p \in Packets, NEW nul, NEW s \in Nat
    PROVE  NextIdx(p, nul, s) \in Nat
<1>1. p.len \in Nat
  BY PacketType
<1>2. LineEnds(p, nul, s) \in SUBSET Nat
  BY <1>1 DEF LineEnds
<1> QED BY <1>1, <1>2, LeastOrType DEF NextIdx

\* Lines start at natural numbers.
LEMMA LineStartsType ==
    ASSUME NEW p \in Packets, NEW nul, NEW idx \in Nat
    PROVE  LineStarts(p, nul, idx) \in SUBSET Nat
<1>1. p.len \in Nat
  BY PacketType
<1>2. LineEnds(p, nul, idx) \in SUBSET Nat
  BY <1>1 DEF LineEnds
<1> QED BY <1>2 DEF LineStarts

\* The Content-Length of a request is a natural number.
LEMMA ContentLengthType ==
    ASSUME NEW r \in Requests
    PROVE  ContentLength(r) \in Nat
<1>1. Len(MimeLines) = 4
  BY DEF MimeLines
<1>2. r.size \in Nat
  BY ConstantsAssumption DEF RequestType
<1> QED BY <1>1, <1>2 DEF ContentLength

\* Only a request has lines.
LEMMA LineOfRequest ==
    ASSUME NEW p \in Packets, NEW j, Kind(p, j) \in LineKinds
    PROVE  p.req \in Requests
BY DEF Kind, KindAt, LineKinds, Packets
-----------------------------------------------------------------------------
(* upgrade_cgi.                                                            *)

\* What memcpy leaves in the buffer.
LEMMA MemcpyType ==
    ASSUME NEW buf \in Buffers,
           NEW at \in Nat, NEW p \in Packets, NEW nul, NEW start \in Nat, NEW len \in Int
    PROVE  /\ Memcpy(buf, at, p, nul, start, len) \in Buffers
           /\ \A k \in 0 .. BufSize - 1 :
                 k < at => Memcpy(buf, at, p, nul, start, len)[k] = buf[k]
<1>1. p.req \in Requests \cup {Noise} /\ p.from \in Nat
  BY PacketType
<1>2. DOMAIN buf = 0 .. BufSize - 1
  BY DEF Buffers
<1>3. BufSize \in Nat
  BY ConstantsAssumption
<1>4. ASSUME NEW k \in 0 .. BufSize - 1
      PROVE  /\ (IF at <= k /\ k < at + len THEN UnitAt(p, nul, start + (k - at)) ELSE buf[k])
                     \in (Requests \cup {Noise}) \X Nat
             /\ k < at => (IF at <= k /\ k < at + len
                           THEN UnitAt(p, nul, start + (k - at)) ELSE buf[k]) = buf[k]
  <2>1. at <= k => UnitAt(p, nul, start + (k - at)) \in (Requests \cup {Noise}) \X Nat
    BY <1>1, <1>3 DEF UnitAt
  <2> QED BY <1>3, <2>1 DEF Buffers
<1> QED BY <1>2, <1>4 DEF Memcpy, Buffers

\* The parsers keep the types, Ahead and the target of the write.
Parsed(q, q2) == q2 \in Globals /\ Ahead(q2) /\ SameTarget(q, q2)

\* The first units of the image are staged.
LEMMA StageFirstParsed ==
    ASSUME NEW q \in Globals, Ahead(q), NEW p \in Packets, NEW nul,
           NEW idx \in Nat, NEW shift \in Nat
    PROVE  Parsed(q, StageFirst(q, p, nul, idx, shift).g)
<1> DEFINE len  == p.len - (idx + 1)
           rest == IF p.len # Mss THEN q.total_filesize - (idx + 1) - q.content_length + shift
                   ELSE q.total_filesize - (idx + 1)
           b    == Memcpy(q.buf, 0, p, nul, idx + 1, len)
           n    == len % Ulong
<1>1. p.len \in Nat /\ len \in Int
  BY PacketType
<1>2. rest \in Int
  BY DEF Globals
<1>3. rest % Ulong \in Nat /\ n \in Nat
  BY <1>1, <1>2, ConstantsAssumption
<1>4. b \in Buffers
  <2>1. q.buf \in Buffers
    BY DEF Globals
  <2> QED BY <1>1, <2>1, MemcpyType
<1>5. StageFirst(q, p, nul, idx, shift).g
        = [q EXCEPT !.total_filesize = rest % Ulong, !.total_size = n,
                    !.buf = b, !.buffer_ptr = n, !.total_packets = 3, !.fatal = len < 0]
  BY DEF StageFirst, Outcome
<1>6. (len < 0) \in BOOLEAN
  BY <1>1
<1> HIDE DEF len, rest, b, n
<1>7. StageFirst(q, p, nul, idx, shift).g \in Globals
  BY <1>3, <1>4, <1>5, <1>6 DEF Globals
<1>8. Ahead(StageFirst(q, p, nul, idx, shift).g)
  BY <1>3, <1>5 DEF Globals, Ahead
<1>9. SameTarget(q, StageFirst(q, p, nul, idx, shift).g)
  BY <1>5 DEF Globals, SameTarget
<1> QED BY <1>7, <1>8, <1>9 DEF Parsed

\* The loop over the MIME lines, not Firefox.
LEMMA MimeOtherParsed ==
    ASSUME NEW q \in Globals, Ahead(q), NEW p \in Packets, NEW pr \in Packets,
           NEW nul, NEW idx \in Nat
    PROVE  Parsed(q, MimeOther(q, p, pr, nul, idx).g)
<1> DEFINE S     == LineStarts(pr, nul, idx)
           stops == {s \in S : Kind(pr, s) \in {"CTYPE", "HCT"} \/ Empty(Kind(pr, s))}
           stop  == LeastOr(stops, pr.len)
           next  == IF stops = {} THEN pr.len ELSE NextIdx(pr, nul, stop)
           gb    == [q EXCEPT !.content_length =
                        IF \E s \in S : s < stop /\ Kind(pr, s) = "BND" THEN 1 ELSE @]
           first == NextIdx(pr, nul, idx)
           sf    == [q EXCEPT !.total_filesize = (@ - (pr.len + first)) % Ulong,
                              !.total_size = 0, !.total_packets = 3]
           nul2  == Consumed(pr, nul, idx, next)
<1>1. stops \in SUBSET Nat /\ pr.len \in Nat
  BY LineStartsType, PacketType
<1>2. next \in Nat
  BY <1>1, LeastOrType, NextIdxType
<1>3. gb \in Globals /\ Ahead(gb) /\ SameTarget(q, gb)
  BY DEF Globals, Ahead, SameTarget
<1>4. sf \in Globals /\ Ahead(sf) /\ SameTarget(q, sf)
  <2>1. first \in Nat
    BY NextIdxType
  <2>2. q.total_filesize - (pr.len + first) \in Int
    BY <1>1, <2>1 DEF Globals
  <2>3. (q.total_filesize - (pr.len + first)) % Ulong \in Nat
    BY <2>2, ConstantsAssumption
  <2> DEFINE rest == (q.total_filesize - (pr.len + first)) % Ulong
  <2>4. sf = [q EXCEPT !.total_filesize = rest, !.total_size = 0, !.total_packets = 3]
    OBVIOUS
  <2> HIDE DEF rest, sf
  <2>5. sf \in Globals
    BY <2>3, <2>4 DEF Globals, rest
  <2> QED BY <2>4, <2>5 DEF Globals, Ahead, SameTarget
<1>5. q.shift \in Nat
  BY DEF Globals
<1>6. Parsed(q, StageFirst(gb, p, nul2, next, q.shift).g)
  <2> HIDE DEF gb, next, nul2
  <2>1. Parsed(gb, StageFirst(gb, p, nul2, next, q.shift).g)
    BY <1>2, <1>3, <1>5, StageFirstParsed
  <2> QED BY <1>3, <2>1 DEF Parsed, SameTarget
<1>7. \/ MimeOther(q, p, pr, nul, idx).g = sf
      \/ MimeOther(q, p, pr, nul, idx).g = gb
      \/ MimeOther(q, p, pr, nul, idx).g = StageFirst(gb, p, nul2, next, q.shift).g
  BY DEF MimeOther, Outcome
<1> HIDE DEF gb, sf, next, nul2
<1> QED BY <1>3, <1>4, <1>6, <1>7 DEF Parsed

\* The same loop for Firefox.
LEMMA MimeFirefoxParsed ==
    ASSUME NEW q \in Globals, Ahead(q), NEW p \in Packets, NEW nul, NEW idx \in Nat
    PROVE  Parsed(q, MimeFirefox(q, p, nul, idx).g)
<1> DEFINE S     == LineStarts(p, nul, idx)
           stops == {s \in S : Kind(p, s) = "CLEN" \/ Empty(Kind(p, s))}
           stop  == LeastOr(stops, p.len)
           next  == IF stops = {} THEN p.len ELSE NextIdx(p, nul, stop)
           gb    == [q EXCEPT !.shift =
                        IF \E s \in S : s < stop /\ Kind(p, s) = "POST" THEN 1 ELSE @]
           tmp   == next + 1
           bnd   == NextIdx(p, nul, tmp)
           disp  == NextIdx(p, nul, bnd)
           ctype == NextIdx(p, nul, disp)
           gc    == [gb EXCEPT !.total_filesize = ContentLength(p.req) % Ulong,
                               !.content_length = 1]
           fault == [gb EXCEPT !.fatal = TRUE]
           nul2  == Consumed(p, nul, idx, ctype)
<1>1. stops \in SUBSET Nat /\ p.len \in Nat
  BY LineStartsType, PacketType
<1>2. next \in Nat /\ tmp \in Nat
  BY <1>1, LeastOrType, NextIdxType
<1>3. bnd \in Nat /\ disp \in Nat /\ ctype \in Nat
  BY <1>2, NextIdxType
<1>4. gb \in Globals /\ Ahead(gb) /\ SameTarget(q, gb)
  BY DEF Globals, Ahead, SameTarget
<1>5. fault \in Globals /\ Ahead(fault) /\ SameTarget(q, fault)
  <2> HIDE DEF gb
  <2> QED BY <1>4 DEF Globals, Ahead, SameTarget
<1>6. ASSUME stops # {}, ~Empty(Kind(p, stop))
      PROVE  Parsed(q, StageFirst(gc, p, nul2, ctype, tmp).g)
  <2>1. stop \in stops
    BY <1>1, <1>6, LeastOrType
  <2>2. Kind(p, stop) = "CLEN"
    BY <1>6, <2>1
  <2>3. p.req \in Requests
    BY <2>2, LineOfRequest DEF LineKinds
  <2>4. ContentLength(p.req) % Ulong \in Nat
    BY <2>3, ContentLengthType, ConstantsAssumption
  <2> HIDE DEF gb
  <2>5. gc \in Globals /\ Ahead(gc) /\ SameTarget(q, gc)
    BY <1>4, <2>4 DEF Globals, Ahead, SameTarget
  <2> HIDE DEF gc, ctype, tmp, nul2
  <2>6. Parsed(gc, StageFirst(gc, p, nul2, ctype, tmp).g)
    BY <1>2, <1>3, <2>5, StageFirstParsed
  <2> QED BY <2>5, <2>6 DEF Parsed, SameTarget
<1>7. \/ MimeFirefox(q, p, nul, idx).g = gb
      \/ MimeFirefox(q, p, nul, idx).g = fault
      \/ /\ stops # {} /\ ~Empty(Kind(p, stop))
         /\ MimeFirefox(q, p, nul, idx).g = StageFirst(gc, p, nul2, ctype, tmp).g
  BY DEF MimeFirefox, Outcome, Fault
<1> HIDE DEF gb, gc, fault, tmp, ctype, nul2, stops, stop
<1> QED BY <1>4, <1>5, <1>6, <1>7 DEF Parsed

\* The part of a segment request_len leaves is a segment.
LEMMA UpToType ==
    ASSUME NEW p \in Packets, NEW n \in Nat
    PROVE  /\ UpTo(p, n) \in Packets
           /\ UpTo(p, n).req = p.req /\ UpTo(p, n).from = p.from
           /\ UpTo(p, n).len = IF n < p.len THEN n ELSE p.len
<1> DEFINE m == IF n < p.len THEN n ELSE p.len
<1>1. UpTo(p, n) = [p EXCEPT !.len = m]
  BY DEF UpTo
<1>2. m \in 0 .. Ulong - 1
  BY PacketType, ConstantsAssumption
<1> HIDE DEF m
<1>3. UpTo(p, n) \in Packets /\ UpTo(p, n).req = p.req /\ UpTo(p, n).from = p.from
      /\ UpTo(p, n).len = m
  BY <1>1, <1>2 DEF Packets
<1> QED BY <1>3 DEF m

\* total_packets == 2.
LEMMA ParseMimeParsed ==
    ASSUME NEW q \in Globals, Ahead(q), NEW p \in Packets, NEW nul, NEW s \in StackType
    PROVE  Parsed(q, ParseMime(q, p, nul, s).g)
<1> DEFINE pr   == UpTo(p, s.len)
           q0   == [q EXCEPT !.shift = 0]
           n    == IF s.text = "dashes" THEN s.idx + 1 ELSE s.idx
           q1   == [q EXCEPT !.shift = n, !.content_length = 1]
           next == NextIdx(pr, nul, s.idx)
           nul2 == IF "Firefox" \notin q.browser /\ LineEnds(pr, nul, s.idx) # {}
                   THEN Consumed(pr, nul, s.idx, next) ELSE nul
<1>1. q0 \in Globals /\ Ahead(q0) /\ SameTarget(q, q0)
  BY DEF Globals, Ahead, SameTarget
<1>2. s.idx \in Nat /\ s.len \in Nat
  BY DEF StackType
<1>3. q1 \in Globals /\ Ahead(q1) /\ SameTarget(q, q1)
  <2>1. n \in Nat
    BY <1>2
  <2> HIDE DEF n
  <2> QED BY <2>1 DEF Globals, Ahead, SameTarget
<1>4. pr \in Packets
  BY <1>2, UpToType
<1>5. \/ ParseMime(q, p, nul, s) = MimeFirefox(q0, p, nul2, 0)
      \/ ParseMime(q, p, nul, s) = MimeOther(q1, p, pr, nul2, next)
      \/ ParseMime(q, p, nul, s) = MimeOther(q0, p, p, nul2, 0)
  BY DEF ParseMime
<1> HIDE DEF q0, q1, nul2, pr
<1>6. next \in Nat
  BY <1>2, <1>4, NextIdxType
<1> HIDE DEF next
<1>7. /\ Parsed(q0, MimeFirefox(q0, p, nul2, 0).g)
      /\ Parsed(q0, MimeOther(q0, p, p, nul2, 0).g)
      /\ Parsed(q1, MimeOther(q1, p, pr, nul2, next).g)
  BY <1>1, <1>3, <1>4, <1>6, MimeFirefoxParsed, MimeOtherParsed
<1> QED BY <1>1, <1>3, <1>5, <1>7 DEF Parsed, SameTarget

\* total_packets == 0.
LEMMA ParseHeaderParsed ==
    ASSUME NEW q \in Globals, Ahead(q), NEW p \in Packets, NEW nul
    PROVE  /\ Parsed(q, ParseHeader(q, p, nul).g)
           /\ ParseHeader(q, p, nul).idx \in Nat
<1> DEFINE S     == LineStarts(p, nul, 0)
           ffAt(s) == \/ "Firefox" \in q.browser
                      \/ \E t \in S : t < s /\ Kind(p, t) = "UA" /\ p.req.ua = "Firefox"
           stops == {s \in S : Empty(Kind(p, s)) \/ (Kind(p, s) = "REF" /\ ffAt(s))}
           stop  == LeastOr(stops, p.len)
           idx   == IF stops = {} THEN p.len ELSE NextIdx(p, nul, stop)
           seen(k) == \E s \in S : s < stop /\ Kind(p, s) = k
           size  == IF seen("CLEN") THEN ContentLength(p.req) % Ulong
                    ELSE IF seen("POST") THEN 0 ELSE q.total_filesize
           ua    == IF seen("UA") THEN q.browser \cup ({p.req.ua} \cap {"Safari", "Firefox"})
                    ELSE q.browser
           h     == [q EXCEPT !.total_size = IF seen("POST") THEN 0 ELSE q.total_size,
                              !.total_filesize = size,
                              !.total_packets = IF seen("POST") THEN 2 ELSE 1,
                              !.browser = ua]
<1>1. stops \in SUBSET Nat /\ p.len \in Nat
  BY LineStartsType, PacketType
<1>2. idx \in Nat
  BY <1>1, LeastOrType, NextIdxType
<1>3. size \in Nat
  <2>1. CASE seen("CLEN")
    <3>1. p.req \in Requests
      BY <2>1, LineOfRequest DEF LineKinds
    <3>2. ContentLength(p.req) % Ulong \in Nat
      BY <3>1, ContentLengthType, ConstantsAssumption
    <3> HIDE DEF seen
    <3> QED BY <2>1, <3>2
  <2>2. CASE ~seen("CLEN")
    BY <2>2 DEF Globals
  <2> QED BY <2>1, <2>2
<1>4. ua \in SUBSET {"Safari", "Firefox"}
  BY DEF Globals
<1>5. ParseHeader(q, p, nul).g = h /\ ParseHeader(q, p, nul).idx = idx
  BY DEF ParseHeader
<1> HIDE DEF size, ua, seen, idx
<1>6. h \in Globals
  BY <1>3, <1>4 DEF Globals
<1>7. Ahead(h) /\ SameTarget(q, h)
  BY DEF Globals, Ahead, SameTarget
<1> QED BY <1>2, <1>5, <1>6, <1>7 DEF Parsed

\* A parser is entered only when no checked image waits: total_packets is not 3.
LEMMA ParsedSteps ==
    ASSUME NEW q, NEW q2, GInv(q), q.total_packets # 3, Parsed(q, q2)
    PROVE  Steps(q, q2)
<1>1. ~(q.flashwrite /\ ~q.residue)
  BY DEF GInv, Armed
<1>2. q2 \in Globals /\ Ahead(q2) /\ SameTarget(q, q2)
  BY DEF Parsed
<1>3. Region(q2)
  BY <1>2 DEF GInv, Region, SameTarget
<1>4. ~(q2.flashwrite /\ ~q2.residue)
  BY <1>1, <1>2 DEF SameTarget
<1> QED BY <1>1, <1>2, <1>3, <1>4 DEF Steps, GInv, Armed

\* Steps composes.
LEMMA StepsTrans ==
    ASSUME NEW a, NEW b, NEW c, Steps(a, b), Steps(b, c)
    PROVE  Steps(a, c)
BY DEF Steps, Frozen

\* No call is a step.
LEMMA StepsRefl ==
    ASSUME NEW q, GInv(q)
    PROVE  Steps(q, q)
BY DEF Steps, Frozen

\* The globals an armed write depends on are left alone; the check of the
\* hardware ID may be switched off.
Untouched(q, q2) ==
    /\ SameTarget(q, q2)
    /\ q2.buf = q.buf
    /\ q2.total_size = q.total_size /\ q2.total_filesize = q.total_filesize
    /\ q2.buffer_ptr = q.buffer_ptr /\ q2.total_packets = q.total_packets
    /\ q.httpd_no_hwid => q2.httpd_no_hwid

\* Leaving them alone is a step.
LEMMA UntouchedSteps ==
    ASSUME NEW q, GInv(q), NEW q2 \in Globals, Untouched(q, q2)
    PROVE  Steps(q, q2)
<1>1. Ahead(q2) /\ Region(q2)
  BY DEF GInv, Ahead, Region, Untouched, SameTarget
<1>2. HwidPlace(q2) = HwidPlace(q)
  BY DEF Untouched, HwidPlace
<1>3. Acceptable(q) => Acceptable(q2)
  BY <1>2 DEF Acceptable, HwidMatches, Untouched, SameTarget
<1>4. Armed(q2)
  BY <1>2, <1>3 DEF GInv, Armed, Untouched, SameTarget
<1> QED BY <1>1, <1>4 DEF Steps, GInv, Frozen, Untouched, SameTarget

\* A segment is staged behind an image that waits to be written.
Staged(q, p, nul, size) ==
    [q EXCEPT !.total_size = size,
              !.buf = Memcpy(q.buf, q.buffer_ptr, p, nul, 0, p.len),
              !.buffer_ptr = q.buffer_ptr + p.len]

\* Staging a segment is a step, and buffer_ptr stays ahead of the count.
LEMMA StagedSteps ==
    ASSUME NEW q, GInv(q), q.total_packets = 3, NEW p \in Packets,
           NEW nul, NEW size \in Nat, size <= q.total_size + p.len
    PROVE  /\ Steps(q, Staged(q, p, nul, size))
           /\ Staged(q, p, nul, size).total_packets = 3
           /\ Staged(q, p, nul, size).total_filesize = q.total_filesize
           /\ size <= Staged(q, p, nul, size).buffer_ptr
<1> DEFINE q2  == Staged(q, p, nul, size)
           b   == Memcpy(q.buf, q.buffer_ptr, p, nul, 0, p.len)
           ptr == q.buffer_ptr + p.len
<1>1. /\ q \in Globals /\ q.total_size <= q.buffer_ptr
      /\ q.buf \in Buffers /\ q.buffer_ptr \in Nat /\ q.total_size \in Nat
      /\ q.total_filesize \in Nat
  BY DEF GInv, Globals, Ahead
<1>2. p.len \in Nat
  BY PacketType
<1>3. b \in Buffers /\ \A k \in 0 .. BufSize - 1 : k < q.buffer_ptr => b[k] = q.buf[k]
  <2>1. 0 \in Nat /\ p.len \in Int
    BY <1>2
  <2>2. /\ Memcpy(q.buf, q.buffer_ptr, p, nul, 0, p.len) \in Buffers
        /\ \A k \in 0 .. BufSize - 1 :
              k < q.buffer_ptr => Memcpy(q.buf, q.buffer_ptr, p, nul, 0, p.len)[k] = q.buf[k]
    <3>1. q.buf \in Buffers /\ q.buffer_ptr \in Nat
      BY <1>1
    <3>2. ASSUME NEW buf \in Buffers, NEW at \in Nat, NEW n \in Int
          PROVE  /\ Memcpy(buf, at, p, nul, 0, n) \in Buffers
                 /\ \A k \in 0 .. BufSize - 1 :
                       k < at => Memcpy(buf, at, p, nul, 0, n)[k] = buf[k]
      BY <2>1, <3>2, MemcpyType, SMTT(60)
    <3> QED BY <2>1, <3>1, <3>2, ZenonT(40)
  <2> QED BY <2>2
<1>4. ptr \in Nat /\ size <= ptr /\ q.buffer_ptr <= ptr
  BY <1>1, <1>2
<1>5. q2 = [q EXCEPT !.total_size = size, !.buf = b, !.buffer_ptr = ptr]
  BY DEF Staged
<1> HIDE DEF q2, b, ptr
<1>6. q2 \in Globals
  BY <1>1, <1>3, <1>4, <1>5 DEF Globals
<1>7. /\ q2.total_size = size /\ q2.buffer_ptr = ptr /\ q2.buf = b
      /\ q2.total_packets = q.total_packets /\ q2.total_filesize = q.total_filesize
      /\ q2.httpd_no_hwid = q.httpd_no_hwid /\ SameTarget(q, q2)
  BY <1>1, <1>5 DEF Globals, SameTarget
<1>8. Ahead(q2) /\ Region(q2)
  BY <1>4, <1>7 DEF GInv, Ahead, Region, SameTarget
<1>9. ASSUME q.flashwrite, ~q.residue
      PROVE  Armed(q2) /\ Frozen(q, q2)
  <2>1. /\ q.total_filesize <= q.buffer_ptr
        /\ Acceptable(q)
        /\ q.httpd_no_hwid \/ HwidPlace(q) < q.total_filesize
    BY <1>9 DEF GInv, Armed
  <2>2. \A k \in 0 .. BufSize - 1 : k < q.total_filesize => q2.buf[k] = q.buf[k]
    BY <1>1, <1>3, <1>7, <2>1, ConstantsAssumption
  <2>3. Frozen(q, q2)
    BY <1>7, <1>9, <2>2 DEF Frozen, SameTarget
  <2>4. HwidPlace(q2) = HwidPlace(q)
    BY <1>7 DEF HwidPlace
  <2>5. q2.httpd_no_hwid \/ HwidMatches(q2, HwidPlace(q2))
    <3>1. CASE q.httpd_no_hwid
      BY <1>7, <3>1
    <3>2. CASE ~q.httpd_no_hwid
      <4>1. HwidMatches(q, HwidPlace(q)) /\ HwidPlace(q) < q.total_filesize
        BY <2>1, <3>2 DEF Acceptable
      <4>2. DOMAIN q.buf = 0 .. BufSize - 1 /\ DOMAIN q2.buf = 0 .. BufSize - 1
        BY <1>1, <1>3, <1>7 DEF Buffers
      <4>3. q2.buf[HwidPlace(q)] = q.buf[HwidPlace(q)]
        BY <2>2, <4>1, <4>2 DEF HwidMatches
      <4> QED BY <2>4, <4>1, <4>2, <4>3 DEF HwidMatches
    <3> QED BY <3>1, <3>2
  <2>6. Acceptable(q2)
    BY <1>7, <2>1, <2>5 DEF Acceptable, SameTarget
  <2>7. q2.total_filesize <= q2.buffer_ptr
    BY <1>1, <1>4, <1>7, <2>1
  <2> QED BY <1>7, <2>1, <2>3, <2>4, <2>6, <2>7 DEF Armed
<1>10. Armed(q2)
  BY <1>7, <1>9 DEF Armed, SameTarget
<1> QED BY <1>4, <1>6, <1>7, <1>8, <1>9, <1>10 DEF Steps, GInv, q2

\* The end of an upload: refused, answered with the error page, or armed.
LEMMA FinishSteps ==
    ASSUME NEW q, GInv(q), q.total_packets = 3, q.total_filesize <= q.buffer_ptr, NEW nul
    PROVE  Steps(q, Finish(q, nul).g)
<1> DEFINE loader == q.total_filesize <= LoaderMax
           base   == IF loader THEN 0 ELSE KernelSector
           end    == IF loader THEN BackupEnd ELSE NormalEnd
           res    == q.residue \/ (~q.httpd_no_hwid /\ HwidPlace(q) >= q.total_filesize)
           qr     == Refuse(q, nul).g
           qa     == Arm(q, nul).g
           big    == BootBound < q.total_filesize /\ loader
           refuse == ~q.httpd_no_hwid /\ ~HwidMatches(q, HwidPlace(q))
<1>1. /\ q \in Globals /\ q.total_filesize \in Nat /\ q.residue \in BOOLEAN
      /\ q.httpd_no_hwid \in BOOLEAN /\ q.buffer_ptr \in Nat
  BY DEF GInv, Globals
<1>2. CASE big
  <2>1. Finish(q, nul).g = q
    BY <1>2 DEF Finish, Outcome
  <2> QED BY <2>1, StepsRefl
<1>3. CASE ~big /\ refuse
  <2>1. Finish(q, nul).g = qr
    BY <1>3 DEF Finish
  <2>2. qr = [q EXCEPT !.total_size = 0, !.total_filesize = 0,
                       !.total_packets = 0, !.hwiderror = TRUE]
    BY DEF Refuse, Outcome
  <2>3. ~(q.flashwrite /\ ~q.residue)
    BY <1>3 DEF GInv, Armed, Acceptable
  <2> HIDE DEF qr
  <2>4. qr \in Globals
    BY <1>1, <2>2 DEF Globals
  <2>5. SameTarget(q, qr) /\ qr.total_size = 0 /\ qr.buffer_ptr = q.buffer_ptr
    BY <1>1, <2>2 DEF Globals, SameTarget
  <2>6. Ahead(qr) /\ Region(qr) /\ Armed(qr)
    BY <1>1, <2>3, <2>5 DEF GInv, Ahead, Region, Armed, SameTarget
  <2> QED BY <2>1, <2>3, <2>4, <2>6 DEF Steps, GInv
<1>4. CASE ~big /\ ~refuse
  <2>1. Finish(q, nul).g = qa
    BY <1>4 DEF Finish
  <2>2. qa = [q EXCEPT !.startSector = base, !.endSector = end, !.flash_base = base,
                       !.due = FALSE, !.flashwrite = TRUE, !.residue = res]
    BY DEF Arm, Outcome
  <2>3. base \in Nat /\ end \in Nat /\ res \in BOOLEAN /\ base \in {0, KernelSector}
    BY <1>1, ConstantsAssumption
  <2> HIDE DEF qa, base, end, res
  <2>4. qa \in Globals
    BY <1>1, <2>2, <2>3 DEF Globals
  <2>5. /\ qa.startSector = base /\ qa.endSector = end /\ qa.flash_base = base
        /\ qa.flashwrite = TRUE /\ qa.residue = res
        /\ qa.total_size = q.total_size /\ qa.buffer_ptr = q.buffer_ptr
        /\ qa.total_packets = 3 /\ qa.total_filesize = q.total_filesize
        /\ qa.httpd_no_hwid = q.httpd_no_hwid /\ qa.buf = q.buf
    BY <1>1, <2>2 DEF Globals
  <2>6. Ahead(qa) /\ Region(qa)
    BY <2>3, <2>5 DEF GInv, Ahead, Region
  <2>7. HwidPlace(qa) = HwidPlace(q)
    BY <2>5 DEF HwidPlace
  <2>8. Acceptable(qa)
    <3>1. qa.httpd_no_hwid \/ HwidMatches(qa, HwidPlace(qa))
      BY <1>4, <2>5, <2>7 DEF HwidMatches
    <3>2. loader => q.total_filesize <= BootBound
      BY <1>1, <1>4, ConstantsAssumption
    <3> QED BY <2>5, <3>1, <3>2 DEF Acceptable, base, end
  <2>9. ~res => q.httpd_no_hwid \/ HwidPlace(q) < q.total_filesize
    <3>1. HwidPlace(q) \in Int
      BY <1>1, ConstantsAssumption DEF HwidPlace
    <3> QED BY <1>1, <3>1 DEF res
  <2>10. Armed(qa)
    BY <2>5, <2>7, <2>8, <2>9 DEF Armed
  <2>11. ASSUME q.flashwrite, ~q.residue
         PROVE  Frozen(q, qa)
    <3>1. /\ Acceptable(q)
          /\ q.httpd_no_hwid \/ HwidPlace(q) < q.total_filesize
      BY <2>11 DEF GInv, Armed
    <3>2. HwidPlace(q) \in Int
      BY <1>1, ConstantsAssumption DEF HwidPlace
    <3>3. ~res
      BY <1>1, <2>11, <3>1, <3>2 DEF res
    <3>4. q.startSector = base /\ q.endSector = end /\ q.flash_base = base
      BY <3>1 DEF Acceptable, base, end
    <3> QED BY <2>5, <3>3, <3>4 DEF Frozen
  <2> QED BY <2>1, <2>4, <2>6, <2>10, <2>11 DEF Steps, GInv
<1> QED BY <1>2, <1>3, <1>4

\* total_packets == 3.
LEMMA StageDataSteps ==
    ASSUME NEW q, GInv(q), q.total_packets = 3, NEW p \in Packets, NEW nul
    PROVE  Steps(q, StageData(q, p, nul).g)
<1> DEFINE size   == (q.total_size + p.len) % Ulong
           staged == Staged(q, p, nul, size)
           qs     == [q EXCEPT !.shift = 0]
<1>1. q \in Globals /\ q.total_size \in Nat /\ p.len \in Nat /\ q.total_filesize \in Nat
  BY PacketType DEF GInv, Globals
<1>2. size \in Nat /\ size <= q.total_size + p.len
  <2>1. \A n \in Nat : \A m \in Nat \ {0} : n % m \in Nat /\ n % m <= n
    BY Z3
  <2>2. q.total_size + p.len \in Nat
    BY <1>1
  <2> QED BY <2>1, <2>2, ConstantsAssumption
<1>3. \/ StageData(q, p, nul).g = staged
      \/ StageData(q, p, nul).g = qs
      \/ size >= q.total_filesize /\ StageData(q, p, nul).g = Finish(staged, nul).g
  BY DEF StageData, Staged, Outcome
<1> HIDE DEF size
<1>4. /\ Steps(q, staged)
      /\ staged.total_packets = 3 /\ staged.total_filesize = q.total_filesize
      /\ size <= staged.buffer_ptr
  BY <1>2, StagedSteps, Zenon
<1>5. ASSUME size >= q.total_filesize
      PROVE  Steps(q, Finish(staged, nul).g)
  <2> HIDE DEF staged
  <2>1. GInv(staged) /\ staged.buffer_ptr \in Nat
    BY <1>4 DEF Steps, GInv, Globals
  <2>2. staged.total_filesize <= staged.buffer_ptr
    BY <1>1, <1>2, <1>4, <1>5, <2>1
  <2>3. Steps(staged, Finish(staged, nul).g)
    BY <1>4, <2>1, <2>2, FinishSteps
  <2> QED BY <1>4, <2>3, StepsTrans
<1>6. Steps(q, qs)
  <2>1. qs \in Globals /\ Untouched(q, qs)
    BY <1>1 DEF Globals, Untouched, SameTarget
  <2> HIDE DEF qs
  <2> QED BY <2>1, UntouchedSteps
<1> HIDE DEF staged, qs
<1> QED BY <1>3, <1>4, <1>5, <1>6

\* One call of upgrade_cgi.
LEMMA UpgradeCgiSteps ==
    ASSUME NEW q, GInv(q), NEW p \in Packets, NEW nul, NEW stack \in StackType
    PROVE  Steps(q, UpgradeCgi(q, p, nul, stack).g)
<1> DEFINE h == ParseHeader(q, p, nul)
           s == [idx |-> h.idx, len |-> p.len, text |-> "whole"]
<1>1. q \in Globals /\ Ahead(q)
  BY DEF GInv
<1>2. CASE q.total_packets = 0
  <2>1. Parsed(q, h.g) /\ h.idx \in Nat
    BY <1>1, ParseHeaderParsed
  <2>2. Parsed(h.g, ParseMime(h.g, p, h.nul, s).g)
    <3>1. s \in StackType
      BY <2>1, PacketType DEF StackType
    <3> HIDE DEF h, s
    <3> QED BY <2>1, <3>1, ParseMimeParsed DEF Parsed
  <2>3. \/ UpgradeCgi(q, p, nul, stack).g = ParseMime(h.g, p, h.nul, s).g
        \/ UpgradeCgi(q, p, nul, stack).g = h.g
    BY <1>2 DEF UpgradeCgi, AfterHeader, Outcome
  <2> HIDE DEF h, s
  <2>4. Parsed(q, UpgradeCgi(q, p, nul, stack).g)
    BY <2>1, <2>2, <2>3 DEF Parsed, SameTarget
  <2> QED BY <1>2, <2>4, ParsedSteps
<1>3. CASE q.total_packets = 2
  <2>1. UpgradeCgi(q, p, nul, stack) = ParseMime(q, p, nul, stack)
    BY <1>3 DEF UpgradeCgi
  <2> QED BY <1>1, <1>3, <2>1, ParseMimeParsed, ParsedSteps
<1>4. CASE q.total_packets \notin {0, 2}
  <2>1. \/ UpgradeCgi(q, p, nul, stack).g = q
        \/ q.total_packets = 3 /\ UpgradeCgi(q, p, nul, stack) = StageData(q, p, nul)
    BY <1>4 DEF UpgradeCgi, Outcome
  <2> QED BY <2>1, StageDataSteps, StepsRefl
<1> QED BY <1>2, <1>3, <1>4
-----------------------------------------------------------------------------
(* httpd_appcall.                                                          *)

ReplyOK(q, r) ==
    /\ Steps(q, r.g)
    /\ r.hs \in {"NOGET", "FILE", "FUNC"} /\ r.abort \in BOOLEAN

\* The first segment of a request for the CGI.
LEMMA ScriptCallOK ==
    ASSUME NEW q, GInv(q), NEW p \in Packets, NEW stack \in StackType
    PROVE  ReplyOK(q, ScriptCall(q, p, stack))
<1> DEFINE o1 == UpgradeCgi(q, p, {}, stack)
           o2 == UpgradeCgi(o1.g, p, o1.nul, stack)
           o3 == UpgradeCgi(o2.g, p, o2.nul, stack)
           qf == [o3.g EXCEPT !.fatal = TRUE]
<1>1. Steps(q, o1.g)
  BY UpgradeCgiSteps
<1>2. Steps(q, o2.g)
  <2> HIDE DEF o1
  <2>1. Steps(o1.g, o2.g)
    BY <1>1, UpgradeCgiSteps DEF Steps
  <2> QED BY <1>1, <2>1, StepsTrans
<1>3. Steps(q, o3.g)
  <2> HIDE DEF o2
  <2>1. Steps(o2.g, o3.g)
    BY <1>2, UpgradeCgiSteps DEF Steps
  <2> QED BY <1>2, <2>1, StepsTrans
<1>4. Steps(q, qf)
  <2> HIDE DEF o3
  <2>1. o3.g \in Globals /\ GInv(o3.g)
    BY <1>3 DEF Steps, GInv
  <2>2. qf \in Globals /\ Untouched(o3.g, qf)
    BY <2>1 DEF Globals, Untouched, SameTarget
  <2> HIDE DEF qf
  <2>3. Steps(o3.g, qf)
    BY <2>1, <2>2, UntouchedSteps
  <2> QED BY <1>3, <2>3, StepsTrans
<1>5. ScriptCall(q, p, stack) \in {Reply(o1.g, "FUNC", FALSE), Reply(o2.g, "FUNC", FALSE),
                                  Reply(o3.g, "FUNC", TRUE), Reply(qf, "FUNC", FALSE)}
  BY DEF ScriptCall, ScriptFirst, ScriptSecond, ScriptThird
<1>6. ASSUME NEW q2, Steps(q, q2), NEW b \in BOOLEAN
      PROVE  ReplyOK(q, Reply(q2, "FUNC", b))
  BY <1>6 DEF Reply, ReplyOK
<1> HIDE DEF o1, o2, o3, qf
<1> QED BY <1>1, <1>2, <1>3, <1>4, <1>5, <1>6

\* Any call of httpd_appcall.
LEMMA AppcallOK ==
    ASSUME NEW q, GInv(q), NEW hs \in {"NOGET", "FILE", "FUNC"}, NEW newdata,
           NEW p \in Packets, NEW stack \in StackType
    PROVE  ReplyOK(q, Appcall(q, hs, newdata, p, stack))
<1> DEFINE o  == UpgradeCgi(q, p, {}, stack)
           qn == [q EXCEPT !.httpd_no_hwid = @ \/ p.req.path = "nohwid"]
<1>1. Steps(q, q)
  BY StepsRefl
<1>2. Steps(q, o.g)
  BY UpgradeCgiSteps
<1>3. Steps(q, qn)
  <2>1. q \in Globals
    BY DEF GInv
  <2>2. qn \in Globals /\ Untouched(q, qn)
    BY <2>1 DEF Globals, Untouched, SameTarget
  <2> HIDE DEF qn
  <2> QED BY <2>2, UntouchedSteps
<1>4. ReplyOK(q, FuncCall(q, p, stack))
  <2>1. FuncCall(q, p, stack) = Reply(o.g, IF o.ret = 0 THEN "FUNC" ELSE "FILE", FALSE)
    BY DEF FuncCall, FuncReply
  <2> HIDE DEF o
  <2> QED BY <1>2, <2>1 DEF Reply, ReplyOK
<1>5. ReplyOK(q, FirstCall(q, p, stack))
  <2>1. \/ FirstCall(q, p, stack) = Reply(q, "NOGET", TRUE)
        \/ FirstCall(q, p, stack) = ScriptCall(q, p, stack)
        \/ FirstCall(q, p, stack) = Reply(qn, "FILE", FALSE)
    BY DEF FirstCall
  <2>2. ReplyOK(q, Reply(q, "NOGET", TRUE)) /\ ReplyOK(q, Reply(qn, "FILE", FALSE))
    <3> HIDE DEF qn
    <3> QED BY <1>1, <1>3 DEF Reply, ReplyOK
  <2> HIDE DEF qn
  <2> QED BY <2>1, <2>2, ScriptCallOK
<1>6. ReplyOK(q, Reply(q, hs, FALSE))
  BY <1>1 DEF Reply, ReplyOK
<1> QED BY <1>4, <1>5, <1>6 DEF Appcall
-----------------------------------------------------------------------------
(* The inductive invariant.                                                *)

\* The globals at power-up.
LEMMA InitGlobalsInv == InitGlobals \in Globals /\ GInv(InitGlobals)
<1>1. InitGlobals.buf \in Buffers
  BY DEF InitGlobals, Buffers
<1>2. InitGlobals \in Globals
  BY <1>1, ConstantsAssumption DEF InitGlobals, Globals
<1> QED BY <1>2 DEF GInv, Ahead, Region, Armed, InitGlobals

\* Connections as uip_init leaves them.
LEMMA ClosedConnsType == ClosedConns \in [Conns -> ConnType]
<1>1. (CHOOSE r \in Requests : TRUE) \in Requests
  BY ConstantsAssumption
<1> QED BY <1>1 DEF ClosedConns, ConnType

\* The invariant holds when recovery mode is entered first.
LEMMA InitIInv == Init => IInv
<1>1. Init => TypeOK
  BY InitGlobalsInv, ClosedConnsType, RecoveryAssumption DEF Init, TypeOK, SectorStates
<1> QED BY <1>1, InitGlobalsInv DEF Init, IInv, Writing

\* A segment cut from a request is a packet.
LEMMA SegmentType ==
    ASSUME TypeOK, NEW c \in Conns
    PROVE  /\ \A n \in 0 .. Ulong - 1 : Segment(c, n) \in Packets
           /\ MoreData(c) => NextCut(c) \in 0 .. Ulong - 1
           /\ conn[c] \in ConnType
<1>1. conn[c] \in ConnType
  BY DEF TypeOK
<1>2. /\ conn[c].req \in Requests /\ conn[c].at \in Nat /\ conn[c].seg \in Nat
      /\ conn[c].req.cuts \in Seq(0 .. Ulong - 1)
  BY <1>1, ConstantsAssumption DEF ConnType, RequestType
<1>3. \A n \in 0 .. Ulong - 1 : Segment(c, n) \in Packets
  BY <1>2 DEF Segment, Packets
<1>4. MoreData(c) => NextCut(c) \in 0 .. Ulong - 1
  <2> DEFINE cuts == conn[c].req.cuts
             i    == conn[c].seg
             T    == 0 .. Ulong - 1
  <2>1. cuts \in Seq(T) /\ i \in Nat
    BY <1>2
  <2> HIDE DEF cuts, i, T
  <2>2. i < Len(cuts) => cuts[i + 1] \in T
    BY <2>1
  <2> QED BY <2>2 DEF MoreData, NextCut, cuts, i, T
<1> QED BY <1>1, <1>3, <1>4

\* Processing a frame.
LEMMA HandleFrameStep ==
    ASSUME IInv, NEW c \in Conns, NEW r, ReplyOK(g, r),
           NEW tcp \in {"closed", "established", "last_ack", "fin_wait"},
           NEW seg \in Nat, NEW at \in Nat, HandleFrame(c, r, tcp, seg, at)
    PROVE  IInv' /\ Steps(g, g')
<1>1. g' = r.g /\ GInv(g') /\ g' \in Globals /\ Steps(g, g')
  BY DEF HandleFrame, ReplyOK, Steps, GInv
<1>2. conn \in [Conns -> ConnType] /\ TypeOK
  BY DEF IInv, TypeOK
<1>3. conn' \in [Conns -> ConnType]
  <2> DEFINE tcp2 == IF r.abort THEN "closed" ELSE tcp
             new  == [conn[c] EXCEPT !.tcp = tcp2, !.hs = r.hs, !.seg = seg, !.at = at]
  <2>1. /\ tcp2 \in {"closed", "established", "last_ack", "fin_wait"}
        /\ r.hs \in {"NOGET", "FILE", "FUNC"}
    BY DEF ReplyOK
  <2>2. conn[c] \in ConnType
    BY <1>2
  <2>3. conn' = [conn EXCEPT ![c] = new]
    BY <1>2 DEF HandleFrame
  <2> HIDE DEF tcp2
  <2>4. new \in ConnType
    BY <2>1, <2>2 DEF ConnType
  <2> HIDE DEF new
  <2> QED BY <1>2, <2>3, <2>4
<1>4. pc' \in {"hang", "loop"} /\ UNCHANGED <<flash, sector, opens, boots>>
  BY DEF HandleFrame
<1>5. TypeOK'
  BY <1>1, <1>2, <1>3, <1>4 DEF TypeOK
<1> QED BY <1>1, <1>4, <1>5 DEF IInv, Writing

\* A step of the environment that makes uIP call httpd_appcall.
LEMMA FrameStep ==
    ASSUME IInv, NEW c \in Conns, Frame(c)
    PROVE  IInv' /\ Steps(g, g')
<1>1. TypeOK /\ GInv(g)
  BY DEF IInv
<1>2. /\ \A n \in 0 .. Ulong - 1 : Segment(c, n) \in Packets
      /\ MoreData(c) => NextCut(c) \in 0 .. Ulong - 1
      /\ conn[c] \in ConnType
  BY <1>1, SegmentType
<1>3. /\ conn[c].hs \in {"NOGET", "FILE", "FUNC"}
      /\ conn[c].seg \in Nat /\ conn[c].at \in Nat
  BY <1>2 DEF ConnType
<1>4. ASSUME NEW r \in Requests, NEW n \in {0, 1}, Connect(c, r, n)
      PROVE  IInv' /\ Steps(g, g')
  <2>1. r.cuts \in Seq(0 .. Ulong - 1)
    BY ConstantsAssumption DEF RequestType
  <2>2. (IF n = 0 THEN 0 ELSE r.cuts[1]) \in Nat
    <3>1. n # 0 => 1 <= Len(r.cuts)
      BY <1>4, <2>1 DEF Connect
    <3> DEFINE cuts == r.cuts
               T    == 0 .. Ulong - 1
    <3>2. cuts \in Seq(T) /\ (n # 0 => 1 <= Len(cuts))
      BY <2>1, <3>1
    <3> HIDE DEF cuts, T
    <3>3. n # 0 => cuts[1] \in T
      BY <3>2
    <3>4. \A m \in T : m \in Nat
      BY ConstantsAssumption DEF T
    <3> QED BY <3>3, <3>4 DEF cuts
  <2>3. conn' \in [Conns -> ConnType]
    BY <1>1, <1>4, <2>2 DEF Connect, TypeOK, ConnType
  <2>4. g' = g /\ Steps(g, g')
    BY <1>1, <1>4, StepsRefl DEF Connect
  <2>5. /\ UNCHANGED <<g, flash, sector, boots>> /\ pc' = "loop"
        /\ opens' = opens + 1 /\ opens < MaxOpens
    BY <1>4 DEF Connect
  <2>6. TypeOK'
    BY <1>1, <2>3, <2>5, RecoveryAssumption DEF TypeOK
  <2> QED BY <1>1, <2>4, <2>5, <2>6 DEF IInv, Writing
<1>5. ASSUME NEW fin \in BOOLEAN, NEW stack \in Stacks, NewData(c, fin, stack)
      PROVE  IInv' /\ Steps(g, g')
  <2> DEFINE p == Segment(c, NextCut(c))
             a == Appcall(g, conn[c].hs, TRUE, p, stack)
             r == [a EXCEPT !.abort = @ /\ ~fin]
             tcp == IF fin THEN "last_ack" ELSE "established"
  <2>1. stack \in StackType
    BY ConstantsAssumption
  <2>2. p \in Packets
    BY <1>2, <1>5 DEF NewData
  <2>3. p.len \in Nat
    BY <2>2, PacketType
  <2> HIDE DEF p
  <2>4. ReplyOK(g, a) /\ a = [g |-> a.g, hs |-> a.hs, abort |-> a.abort]
    <3>1. a = [g |-> a.g, hs |-> a.hs, abort |-> a.abort]
      BY DEF Appcall, FirstCall, ScriptCall, ScriptFirst, ScriptSecond, ScriptThird,
             FuncCall, FuncReply, Reply
    <3> QED BY <1>1, <1>3, <2>1, <2>2, <3>1, AppcallOK
  <2>5. HandleFrame(c, r, tcp, conn[c].seg + 1, conn[c].at + p.len)
    BY <1>5 DEF NewData, p
  <2>6. tcp \in {"closed", "established", "last_ack", "fin_wait"}
    OBVIOUS
  <2> HIDE DEF a, tcp
  <2>7. ReplyOK(g, r)
    BY <2>4 DEF ReplyOK
  <2> HIDE DEF r
  <2>8. conn[c].seg + 1 \in Nat /\ conn[c].at + p.len \in Nat
    BY <1>3, <2>3
  <2> QED BY <2>5, <2>6, <2>7, <2>8, HandleFrameStep
<1>6. ASSUME NEW stack \in Stacks, PeerClose(c, stack)
      PROVE  IInv' /\ Steps(g, g')
  <2>1. stack \in StackType /\ Segment(c, 0) \in Packets
    BY <1>2, ConstantsAssumption
  <2>2. ReplyOK(g, Appcall(g, conn[c].hs, FALSE, Segment(c, 0), stack))
    BY <1>1, <1>3, <2>1, AppcallOK
  <2> QED BY <1>3, <1>6, <2>2, HandleFrameStep DEF PeerClose
<1>7. ASSUME NEW stack \in Stacks, PeerReset(c, stack)
      PROVE  IInv' /\ Steps(g, g')
  <2> DEFINE p == [req |-> Noise, from |-> 0, len |-> 1]
  <2>1. stack \in StackType /\ p \in Packets
    BY ConstantsAssumption DEF Packets
  <2>2. ReplyOK(g, Appcall(g, conn[c].hs, FALSE, p, stack))
    BY <1>1, <1>3, <2>1, AppcallOK
  <2> QED BY <1>3, <1>7, <2>2, HandleFrameStep DEF PeerReset
<1>8. ASSUME NEW hs \in {"NOGET", "FILE", "FUNC"}
      PROVE  ReplyOK(g, Reply(g, hs, FALSE))
  BY <1>1, StepsRefl DEF Reply, ReplyOK
<1>9. ASSUME PageAcked(c)
      PROVE  IInv' /\ Steps(g, g')
  BY <1>3, <1>8, <1>9, HandleFrameStep DEF PageAcked
<1>10. ASSUME PeerFin(c)
       PROVE  IInv' /\ Steps(g, g')
  BY <1>3, <1>8, <1>10, HandleFrameStep DEF PeerFin
<1> QED BY <1>4, <1>5, <1>6, <1>7, <1>9, <1>10 DEF Frame

\* A step that touches neither the globals nor what the invariant says of pc.
LEMMA OtherStep ==
    ASSUME IInv, TypeOK', g' = g \/ (g' \in Globals /\ Untouched(g, g')),
           Writing' => g'.flashwrite,
           pc' = "erase" => g.startSector <= sector'
    PROVE  IInv' /\ Steps(g, g')
<1>1. GInv(g)
  BY DEF IInv
<1>2. Steps(g, g')
  BY <1>1, UntouchedSteps, StepsRefl
<1>3. GInv(g') /\ g'.startSector = g.startSector
  BY <1>2 DEF Steps, Untouched, SameTarget
<1> QED BY <1>2, <1>3 DEF IInv

\* Time, the flash write and the reset.
LEMMA UpgradeStep ==
    ASSUME IInv, FinDelay \/ Upgrade
    PROVE  IInv' /\ Steps(g, g')
<1>1. TypeOK /\ GInv(g) /\ g \in Globals
  BY DEF IInv, TypeOK
<1>2. CASE FinDelay
  <2>1. g' \in Globals /\ Untouched(g, g')
    BY <1>1, <1>2 DEF FinDelay, Globals, Untouched, SameTarget
  <2>2. TypeOK'
    BY <1>1, <1>2, <2>1 DEF FinDelay, TypeOK
  <2> QED BY <1>2, <2>1, <2>2, OtherStep DEF FinDelay, Writing
<1>3. CASE StartUpgrade
  <2>1. g.startSector \in Nat /\ g.flashwrite /\ g' = g
    BY <1>1, <1>3 DEF StartUpgrade, Globals
  <2>2. TypeOK'
    BY <1>1, <1>3, <2>1 DEF StartUpgrade, TypeOK
  <2>3. sector' = g.startSector
    BY <1>3 DEF StartUpgrade
  <2> QED BY <2>1, <2>2, <2>3, OtherStep
<1>4. CASE EraseSector
  <2>1. sector \in Nat /\ g.startSector \in Nat /\ g.startSector <= sector
    BY <1>1, <1>4 DEF EraseSector, TypeOK, IInv, Globals
  <2>2. g.flashwrite /\ g' = g
    BY <1>4 DEF EraseSector, IInv, Writing
  <2>3. TypeOK'
    <3>1. flash' \in [0 .. Sectors - 1 -> SectorStates]
      BY <1>1, <1>4 DEF EraseSector, TypeOK, SectorStates
    <3>2. pc' \in {"erase", "write"} /\ sector' \in Nat
      BY <1>4, <2>1 DEF EraseSector
    <3>3. UNCHANGED <<g, conn, opens, boots>>
      BY <1>4 DEF EraseSector
    <3> QED BY <1>1, <3>1, <3>2, <3>3 DEF TypeOK
  <2>4. pc' = "erase" => g.startSector <= sector'
    BY <1>4, <2>1 DEF EraseSector
  <2> QED BY <2>2, <2>3, <2>4, OtherStep
<1>5. CASE WriteSector
  <2>1. g.flashwrite /\ g' = g /\ pc = "write" /\ pc' = "write"
    BY <1>5 DEF WriteSector, IInv, Writing
  <2>2. sector' \in Nat
    BY <1>1, <1>5 DEF WriteSector, TypeOK
  <2>3. flash' \in [0 .. Sectors - 1 -> SectorStates]
    BY <1>1, <1>5 DEF WriteSector, TypeOK, SectorStates
  <2>4. TypeOK'
    BY <1>1, <1>5, <2>1, <2>2, <2>3 DEF WriteSector, TypeOK
  <2> QED BY <2>1, <2>4, OtherStep
<1>6. CASE FinishUpgrade
  <2>1. g' \in Globals /\ Untouched(g, g')
    BY <1>1, <1>6 DEF FinishUpgrade, Globals, Untouched, SameTarget
  <2>2. TypeOK'
    BY <1>1, <1>6, <2>1 DEF FinishUpgrade, TypeOK
  <2> QED BY <1>6, <2>1, <2>2, OtherStep DEF FinishUpgrade, Writing
<1>7. CASE NoFrame
  <2>1. TypeOK'
    BY <1>1, <1>7 DEF NoFrame, TypeOK
  <2> QED BY <1>7, <2>1, OtherStep DEF NoFrame, Writing
<1>8. CASE Reset
  <2>1. TypeOK'
    BY <1>1, <1>8 DEF Reset, TypeOK
  <2> QED BY <1>8, <2>1, OtherStep DEF Reset, Writing
<1> QED BY <1>2, <1>3, <1>4, <1>5, <1>6, <1>7, <1>8 DEF Upgrade

\* The console and the power supply.
LEMMA EnvironmentStep ==
    ASSUME IInv, CtrlC \/ Reenter \/ PowerLoss \/ EnterRecovery
    PROVE  IInv' /\ (pc = "boot" \/ Steps(g, g'))
<1>1. TypeOK /\ GInv(g)
  BY DEF IInv
<1>2. CASE CtrlC
  <2>1. TypeOK'
    BY <1>1, <1>2 DEF CtrlC, TypeOK
  <2> QED BY <1>2, <2>1, OtherStep DEF CtrlC, Writing
<1>3. CASE Reenter
  <2>1. TypeOK'
    BY <1>1, <1>3, ClosedConnsType, RecoveryAssumption DEF Reenter, TypeOK
  <2> QED BY <1>3, <2>1, OtherStep DEF Reenter, Writing
<1>4. CASE PowerLoss
  <2>1. TypeOK'
    BY <1>1, <1>4 DEF PowerLoss, TypeOK
  <2> QED BY <1>4, <2>1, OtherStep DEF PowerLoss, Writing
<1>5. CASE EnterRecovery
  <2>1. InitGlobals \in Globals /\ GInv(InitGlobals)
    BY InitGlobalsInv
  <2>2. TypeOK'
    BY <1>1, <1>5, <2>1, ClosedConnsType, RecoveryAssumption DEF EnterRecovery, TypeOK
  <2> QED BY <1>5, <2>1, <2>2 DEF EnterRecovery, IInv, Writing
<1> QED BY <1>2, <1>3, <1>4, <1>5

\* Every step keeps the invariant; unless the board restarts it is a Steps.
LEMMA NextIInv ==
    ASSUME IInv, [Next]_vars
    PROVE  IInv' /\ (pc = "boot" \/ Steps(g, g'))
<1>1. CASE UNCHANGED vars
  <2>1. TypeOK' /\ g' = g /\ pc' = pc /\ sector' = sector
    BY <1>1 DEF IInv, TypeOK, vars
  <2> QED BY <2>1, OtherStep DEF IInv, Writing
<1>2. CASE Next
  BY <1>2, FrameStep, UpgradeStep, EnvironmentStep DEF Next
<1> QED BY <1>1, <1>2

\* TypeOK and GInv hold of every reachable state: GInv is why a write that was
\* armed stays what was checked.
THEOREM Invariant == Spec => []IInv
<1>1. IInv /\ [Next]_vars => IInv'
  BY NextIInv
<1> QED BY <1>1, InitIInv, PTL DEF Spec
-----------------------------------------------------------------------------
(* The theorems.                                                           *)

\* All globals, connections and flash sectors keep their types: total_packets
\* never leaves 0 .. 3, content_length and the sizes keep their ranges.
THEOREM TypeCorrect == Spec => []TypeOK
<1>1. IInv => TypeOK
  BY DEF IInv
<1> QED BY <1>1, Invariant, PTL

\* The flash is written only with an image that is acceptable for its region.
THEOREM OnlyAcceptableWritten == Spec => []WritesAcceptable
<1>1. IInv => WritesAcceptable
  BY DEF IInv, GInv, Armed, WritesAcceptable
<1> QED BY <1>1, Invariant, PTL

\* Nothing changes an image between its check and the end of the write.
THEOREM CheckedImageStays == Spec => CheckedImageFrozen
<1>1. IInv /\ [Next]_vars =>
        [g.flashwrite /\ ~g.residue /\ pc # "boot" =>
            /\ g'.flashwrite
            /\ g'.total_filesize = g.total_filesize
            /\ \A k \in 0 .. BufSize - 1 : k < g.total_filesize => g'.buf[k] = g.buf[k]
            /\ <<g'.startSector, g'.endSector, g'.flash_base>>
                  = <<g.startSector, g.endSector, g.flash_base>>]_vars
  BY NextIInv DEF Steps, Frozen
<1> QED BY <1>1, Invariant, PTL DEF Spec, CheckedImageFrozen

\* A runtime upgrade never touches the sectors of the loader.
THEOREM LoaderSectorsStay == Spec => LoaderSectorsSafe
<1>1. ASSUME IInv, [Next]_vars, NEW s \in 0 .. KernelSector - 1, flash'[s] # flash[s]
      PROVE  Writing /\ g.flash_base = 0
  <2>1. EraseSector \/ WriteSector
    <3>1. ASSUME NEW c \in Conns, Frame(c)
          PROVE  flash' = flash
      BY <3>1, Zenon DEF Frame, Connect, NewData, PeerClose, PageAcked, PeerFin, PeerReset,
                         HandleFrame
    <3>2. ASSUME FinDelay \/ StartUpgrade \/ FinishUpgrade \/ NoFrame \/ Reset
          PROVE  flash' = flash
      BY <3>2 DEF FinDelay, StartUpgrade, FinishUpgrade, NoFrame, Reset
    <3>3. ASSUME CtrlC \/ Reenter \/ PowerLoss \/ EnterRecovery
          PROVE  flash' = flash
      BY <3>3 DEF CtrlC, Reenter, PowerLoss, EnterRecovery
    <3>4. ASSUME UNCHANGED vars
          PROVE  flash' = flash
      BY <3>4 DEF vars
    <3> QED BY <1>1, <3>1, <3>2, <3>3, <3>4 DEF Next, Upgrade
  <2>2. Writing /\ g.flashwrite
    BY <1>1, <2>1 DEF EraseSector, WriteSector, Writing, IInv
  <2>3. g.startSector = g.flash_base /\ g.flash_base \in {0, KernelSector}
    BY <1>1, <2>2 DEF IInv, GInv, Region
  <2>4. sector \in Nat /\ KernelSector \in Nat /\ s < KernelSector
    BY <1>1, ConstantsAssumption DEF IInv, TypeOK
  <2>5. CASE EraseSector
    <3>1. s = sector /\ g.startSector <= sector
      BY <1>1, <2>5 DEF EraseSector, IInv, TypeOK
    <3> QED BY <2>2, <2>3, <2>4, <3>1
  <2>6. CASE WriteSector
    <3>1. s = g.flash_base + sector
      BY <1>1, <2>6 DEF WriteSector, IInv, TypeOK
    <3> QED BY <2>2, <2>3, <2>4, <3>1
  <2> QED BY <2>1, <2>5, <2>6
<1>2. IInv /\ [Next]_vars =>
        [\A s \in 0 .. KernelSector - 1 :
            flash'[s] # flash[s] => Writing /\ g.flash_base = 0]_vars
  BY <1>1
<1> QED BY <1>2, Invariant, PTL DEF Spec, LoaderSectorsSafe
=============================================================================
