-------------------------- MODULE OneUploadProofs ---------------------------
(***************************************************************************)
(* What the first client uploads is written whole: OneUpload, for requests *)
(* that are cut the way upgrade_cgi expects (WellCut), and for what the    *)
(* stack may hold without harm (Tame).                                     *)
(*                                                                         *)
(* The proof follows the upload.  Waits: the header has been read, the     *)
(* part header is still to come.  Loads: the units staged are those of the *)
(* image, from its first to the last that was handed over.  Missed, Lost:  *)
(* the upload will come to nothing.  Each call of upgrade_cgi goes from    *)
(* one of them to another, or ends the upload with Finish.                 *)
(***************************************************************************)
EXTENDS RecoveryProofs

\* Uploads come in well-cut requests, and what the stack holds by accident names
\* no line of the image and not the type line.
Orderly == (\A r \in Requests : WellCut(r)) /\ (\A s \in Stacks : Tame(s))

\* r is an upload.
Upload(r) == r \in Requests /\ r.method = "POST" /\ r.path = "cgi" /\ WellCut(r)

\* The first n units in the buffer are those of the image of r.
ImageOf(q, r, n) ==
    \A k \in 0 .. BufSize - 1 : k < n => q.buf[k] = <<r, ImageStart(r) + k>>

Whole(q) ==
    \E r \in Requests :
        /\ 0 < r.size /\ r.size <= BufSize
        /\ q.total_filesize = r.size
        /\ ImageOf(q, r, r.size)

\* upgrade_cgi does nothing any more.
Lost(q) ==
    \/ q.total_packets = 1
    \/ q.total_packets = 3 /\ q.total_size = 0 /\ "Safari" \notin q.browser

\* at: the units of r handed over.
Missed(q, r, at) ==
    /\ q.total_packets = 2 /\ q.browser = {}
    /\ r.ua # "Firefox" /\ ImageStart(r) <= at

Waits(q, r, at) ==
    /\ q.total_packets = 2 /\ q.browser = {}
    /\ q.total_filesize = ContentLength(r)
    /\ r.ua # "Firefox" /\ at = Len(HeaderLines(r))

Begun(q, r, at) ==
    /\ q.total_packets = 3 /\ "Safari" \notin q.browser
    /\ q.total_filesize = r.size
    /\ at = ImageStart(r) + q.buffer_ptr
    /\ ImageOf(q, r, q.buffer_ptr)

Loads(q, r, at) == Begun(q, r, at) /\ q.shift = 0

Progress(q, r, at) ==
    Lost(q) \/ (Upload(r) /\ (Missed(q, r, at) \/ Waits(q, r, at) \/ Loads(q, r, at)))

\* What the globals are for connection k, nothing being armed.
Stage(q, k) ==
    /\ k.hs = "NOGET" =>
          /\ q = InitGlobals
          /\ k.tcp = "established" => \/ k.seg = 0 /\ k.at = 0
                                      \/ k.seg = 1 /\ k.at = k.req.cuts[1]
    /\ k.hs = "FUNC" =>
          /\ Progress(q, k.req, k.at)
          /\ Waits(q, k.req, k.at) => k.seg = 1 /\ k.req.cuts[1] = Len(HeaderLines(k.req))

Open(c) == conn[c].tcp # "closed"

\* While the first connection is the only one there has been.
First ==
    /\ ~g.residue
    /\ g.flashwrite => Whole(g)
    /\ ~g.flashwrite => \A c \in Conns : Open(c) => Stage(g, conn[c])
    /\ \A c, d \in Conns : Open(c) /\ Open(d) => c = d

UInv ==
    /\ opens = 0 => g = InitGlobals /\ \A c \in Conns : ~Open(c)
    /\ opens = 1 /\ pc \notin {"hang", "boot"} => First
-----------------------------------------------------------------------------
(* Requests and their lines.                                               *)

\* The fields of a request.
LEMMA RequestFacts ==
    ASSUME NEW r \in Requests
    PROVE  /\ r # Noise /\ r.size \in Nat /\ r.cuts \in Seq(0 .. Ulong - 1)
           /\ r.ua \in UserAgents /\ r.method \in {"GET", "POST"}
BY ConstantsAssumption DEF RequestType

\* The stream of a browser other than Firefox.
LEMMA PlainKinds ==
    ASSUME NEW r \in Requests, r.method = "POST", r.ua # "Firefox"
    PROVE  /\ Len(HeaderLines(r)) = 5 /\ Len(MimeLines) = 4 /\ ImageStart(r) = 9
           /\ ContentLength(r) = r.size + 5
           /\ KindAt(r, 0) = "POST" /\ KindAt(r, 1) = "UA" /\ KindAt(r, 2) = "HCT"
           /\ KindAt(r, 3) = "CLEN" /\ KindAt(r, 4) = "BLANK" /\ KindAt(r, 5) = "BND"
           /\ KindAt(r, 6) = "CDISP" /\ KindAt(r, 7) = "CTYPE" /\ KindAt(r, 8) = "BLANK"
           /\ \A i \in Nat : i >= 9 => KindAt(r, i) \in {"IMG", "EOL", "TRL"}
<1>1. HeaderLines(r) = <<"POST", "UA", "HCT", "CLEN", "BLANK">>
  BY DEF HeaderLines
<1>2. r # Noise /\ r.size \in Nat
  BY RequestFacts
<1>3. /\ Len(HeaderLines(r)) = 5 /\ Len(MimeLines) = 4 /\ ImageStart(r) = 9
      /\ ContentLength(r) = r.size + 5
  BY <1>1, <1>2 DEF MimeLines, ImageStart, ContentLength
<1>4. \A i \in Nat : /\ i < 5 => KindAt(r, i) = HeaderLines(r)[i + 1]
                     /\ 5 <= i /\ i < 9 => KindAt(r, i) = MimeLines[i - 5 + 1]
                     /\ i >= 9 => KindAt(r, i) \in {"IMG", "EOL", "TRL"}
  BY <1>2, <1>3 DEF KindAt
<1>5. /\ KindAt(r, 0) = "POST" /\ KindAt(r, 1) = "UA" /\ KindAt(r, 2) = "HCT"
      /\ KindAt(r, 3) = "CLEN" /\ KindAt(r, 4) = "BLANK"
  BY <1>1, <1>4
<1>6. /\ KindAt(r, 5) = "BND" /\ KindAt(r, 6) = "CDISP" /\ KindAt(r, 7) = "CTYPE"
      /\ KindAt(r, 8) = "BLANK"
  BY <1>4 DEF MimeLines
<1> QED BY <1>3, <1>4, <1>5, <1>6

\* The stream of Firefox.
LEMMA FirefoxKinds ==
    ASSUME NEW r \in Requests, r.method = "POST", r.ua = "Firefox"
    PROVE  /\ Len(HeaderLines(r)) = 6 /\ ImageStart(r) = 10
           /\ ContentLength(r) = r.size + 5
           /\ KindAt(r, 0) = "POST" /\ KindAt(r, 1) = "UA" /\ KindAt(r, 2) = "REF"
           /\ KindAt(r, 3) = "HCT" /\ KindAt(r, 4) = "CLEN" /\ KindAt(r, 5) = "BLANK"
           /\ KindAt(r, 6) = "BND" /\ KindAt(r, 7) = "CDISP" /\ KindAt(r, 8) = "CTYPE"
<1>1. HeaderLines(r) = <<"POST", "UA", "REF", "HCT", "CLEN", "BLANK">>
  BY DEF HeaderLines
<1>2. r # Noise /\ r.size \in Nat
  BY RequestFacts
<1>3. /\ Len(HeaderLines(r)) = 6 /\ Len(MimeLines) = 4 /\ ImageStart(r) = 10
      /\ ContentLength(r) = r.size + 5
  BY <1>1, <1>2 DEF MimeLines, ImageStart, ContentLength
<1>4. \A i \in Nat : i < 10 => KindAt(r, i) = IF i < 6 THEN HeaderLines(r)[i + 1]
                                             ELSE MimeLines[i - 6 + 1]
  BY <1>2, <1>3 DEF KindAt
<1>5. /\ KindAt(r, 0) = "POST" /\ KindAt(r, 1) = "UA" /\ KindAt(r, 2) = "REF"
      /\ KindAt(r, 3) = "HCT" /\ KindAt(r, 4) = "CLEN" /\ KindAt(r, 5) = "BLANK"
  BY <1>1, <1>4
<1>6. KindAt(r, 6) = "BND" /\ KindAt(r, 7) = "CDISP" /\ KindAt(r, 8) = "CTYPE"
  BY <1>4 DEF MimeLines
<1> QED BY <1>3, <1>5, <1>6

\* Nothing in the stream of a GET is a POST line.
LEMMA GetKinds ==
    ASSUME NEW r \in Requests, r.method = "GET", NEW i \in Nat
    PROVE  KindAt(r, i) # "POST"
<1>1. HeaderLines(r) = <<"GET", "UA", "BLANK">> /\ Len(HeaderLines(r)) = 3
  BY DEF HeaderLines
<1>2. r # Noise /\ r.size \in Nat
  BY RequestFacts
<1>3. CASE i < 3
  <2>1. KindAt(r, i) = HeaderLines(r)[i + 1]
    BY <1>1, <1>2, <1>3 DEF KindAt
  <2>2. i = 0 \/ i = 1 \/ i = 2
    BY <1>3
  <2> QED BY <1>1, <2>1, <2>2
<1>4. CASE i >= 3
  <2>1. ImageStart(r) = 7
    BY <1>1 DEF ImageStart, MimeLines
  <2>2. /\ i < 7 => KindAt(r, i) = MimeLines[i - 3 + 1]
        /\ i >= 7 => KindAt(r, i) \in {"IMG", "EOL", "TRL"}
    BY <1>1, <1>2, <1>4, <2>1 DEF KindAt
  <2>3. i < 7 => MimeLines[i - 3 + 1] \in {"BND", "CDISP", "CTYPE", "BLANK"}
    BY <1>4 DEF MimeLines
  <2> QED BY <1>4, <2>2, <2>3
<1> QED BY <1>3, <1>4

\* LeastOr finds the least element.
LEMMA LeastIs ==
    ASSUME NEW S \in SUBSET Nat, NEW m \in S, \A y \in S : m <= y, NEW d
    PROVE  LeastOr(S, d) = m
<1> DEFINE L == CHOOSE e \in S : \A f \in S : e <= f
<1>1. LeastOr(S, d) = L
  BY DEF LeastOr
<1>2. L \in S /\ \A f \in S : L <= f
  OBVIOUS
<1> HIDE DEF L
<1>3. L \in Nat /\ m \in Nat /\ L <= m /\ m <= L
  BY <1>2
<1> QED BY <1>1, <1>3

\* Whether a line ends at e.
LEMMA LineEndIs ==
    ASSUME NEW p \in Packets, NEW nul, NEW idx \in Nat, NEW e \in Nat
    PROVE  e \in LineEnds(p, nul, idx)
              <=> /\ idx <= e /\ e < p.len
                  /\ Kind(p, e) \in LineKinds /\ e \notin nul
BY PacketType DEF LineEnds

\* Line ends are naturals from idx on.
LEMMA LineEndsType ==
    ASSUME NEW p \in Packets, NEW nul, NEW idx \in Nat
    PROVE  LineEnds(p, nul, idx) \in SUBSET Nat /\ \A e \in LineEnds(p, nul, idx) : idx <= e
BY PacketType DEF LineEnds

\* A line whose own end is left is read up to it.
LEMMA NextLine ==
    ASSUME NEW p \in Packets, NEW nul, NEW s \in Nat, s \in LineEnds(p, nul, s)
    PROVE  NextIdx(p, nul, s) = s + 1
BY LineEndsType, LeastIs DEF NextIdx

\* Whether a line starts at s.
LEMMA LineStartIs ==
    ASSUME NEW p \in Packets, NEW nul, NEW idx \in Nat, NEW s \in Nat
    PROVE  s \in LineStarts(p, nul, idx)
              <=> /\ s = idx \/ (s > 0 /\ s - 1 \in LineEnds(p, nul, idx))
                  /\ \E e \in LineEnds(p, nul, idx) : s <= e
<1>1. LineEnds(p, nul, idx) \in SUBSET Nat
  BY LineEndsType
<1> HIDE DEF LineEnds
<1> QED BY <1>1 DEF LineStarts
-----------------------------------------------------------------------------
(* The part header.                                                        *)

\* No line that the loop waits for is found: only content_length may change.
LEMMA MimeOtherIdle ==
    ASSUME NEW q \in Globals, NEW p \in Packets, NEW pr \in Packets, NEW nul, NEW idx \in Nat,
           "Safari" \notin q.browser,
           \A s \in LineStarts(pr, nul, idx) : Kind(pr, s) \notin {"CTYPE", "HCT"}
    PROVE  LET o == MimeOther(q, p, pr, nul, idx)
           IN /\ o.ret = 0 /\ nul \subseteq o.nul
              /\ o.g.total_packets = q.total_packets /\ o.g.browser = q.browser
              /\ o.g.total_filesize = q.total_filesize
<1> DEFINE S     == LineStarts(pr, nul, idx)
           stops == {s \in S : Kind(pr, s) \in {"CTYPE", "HCT"} \/ Empty(Kind(pr, s))}
           stop  == LeastOr(stops, pr.len)
           next  == IF stops = {} THEN pr.len ELSE NextIdx(pr, nul, stop)
           gb    == [q EXCEPT !.content_length =
                        IF \E s \in S : s < stop /\ Kind(pr, s) = "BND" THEN 1 ELSE @]
           nul2  == Consumed(pr, nul, idx, next)
<1>1. stops = {} \/ Empty(Kind(pr, stop))
  <2>1. stops \in SUBSET Nat
    BY LineStartsType
  <2>2. stops # {} => stop \in stops
    BY <2>1, LeastOrType
  <2> QED BY <2>2
<1>2. MimeOther(q, p, pr, nul, idx) = Outcome(gb, nul2, 0)
  BY <1>1 DEF MimeOther
<1>3. /\ gb.total_packets = q.total_packets /\ gb.browser = q.browser
      /\ gb.total_filesize = q.total_filesize
  BY DEF Globals
<1>4. nul \subseteq nul2
  BY DEF Consumed
<1> HIDE DEF gb, nul2
<1> QED BY <1>2, <1>3, <1>4 DEF Outcome

\* The Content-Type line of the part is found behind the boundary and the
\* disposition line.
LEMMA MimeStages ==
    ASSUME NEW q \in Globals, NEW p \in Packets, NEW pr \in Packets, NEW nul, NEW idx \in Nat,
           "Safari" \notin q.browser,
           NEW s \in LineStarts(pr, nul, idx), Kind(pr, s) = "CTYPE", s \in LineEnds(pr, nul, s),
           \A t \in LineStarts(pr, nul, idx) : t < s => Kind(pr, t) \in {"BND", "CDISP"},
           q.content_length = 1 \/ \E t \in LineStarts(pr, nul, idx) : t < s /\ Kind(pr, t) = "BND"
    PROVE  MimeOther(q, p, pr, nul, idx)
              = StageFirst([q EXCEPT !.content_length = 1], p,
                           Consumed(pr, nul, idx, s + 1), s + 1, q.shift)
<1> DEFINE S     == LineStarts(pr, nul, idx)
           stops == {t \in S : Kind(pr, t) \in {"CTYPE", "HCT"} \/ Empty(Kind(pr, t))}
           stop  == LeastOr(stops, pr.len)
           next  == IF stops = {} THEN pr.len ELSE NextIdx(pr, nul, stop)
           gb    == [q EXCEPT !.content_length =
                        IF \E t \in S : t < stop /\ Kind(pr, t) = "BND" THEN 1 ELSE @]
<1>1. S \in SUBSET Nat /\ s \in Nat
  BY LineStartsType
<1>2. s \in stops /\ stops \in SUBSET Nat /\ \A t \in stops : s <= t
  <2>1. ASSUME NEW t \in stops, t < s
        PROVE  FALSE
    BY <2>1 DEF Empty
  <2> QED BY <1>1, <2>1
<1> HIDE DEF stops
<1>3. stop = s /\ stops # {}
  BY <1>2, LeastIs
<1>4. next = s + 1
  BY <1>1, <1>3, NextLine
<1>5. gb = [q EXCEPT !.content_length = 1]
  <2>1. q.content_length = 1 \/ \E t \in S : t < stop /\ Kind(pr, t) = "BND"
    BY <1>3
  <2> QED BY <2>1 DEF Globals
<1>6. ~Empty(Kind(pr, stop))
  BY <1>3 DEF Empty
<1>7. MimeOther(q, p, pr, nul, idx) = StageFirst(gb, p, Consumed(pr, nul, idx, next), next, q.shift)
  BY <1>3, <1>6 DEF MimeOther, stops
<1> HIDE DEF gb, next
<1> QED BY <1>4, <1>5, <1>7

\* What is staged begins with the first unit of the image, and the size is right.
LEMMA StagesImage ==
    ASSUME NEW q \in Globals, NEW r \in Requests, NEW p \in Packets, p.req = r, NEW nul,
           NEW idx \in Nat, NEW shift \in Nat, \A e \in nul : e <= idx,
           "Safari" \notin q.browser, q.content_length = 1,
           p.from + (idx + 1) = ImageStart(r), idx + 1 <= p.len, p.len # Mss,
           q.total_filesize - (idx + 1) - 1 + shift = r.size, r.size < Ulong
    PROVE  LET o == StageFirst(q, p, nul, idx, shift)
           IN /\ o.ret = 0 /\ o.g \in Globals
              /\ Begun(o.g, r, p.from + p.len)
              /\ o.g.total_size = p.len - (idx + 1) /\ o.g.buffer_ptr = p.len - (idx + 1)
              /\ o.g.shift = q.shift
<1> DEFINE len  == p.len - (idx + 1)
           b    == Memcpy(q.buf, 0, p, nul, idx + 1, len)
           qs   == [q EXCEPT !.total_filesize = r.size, !.total_size = len, !.buf = b,
                             !.buffer_ptr = len, !.total_packets = 3, !.fatal = FALSE]
<1>1. /\ p.len \in Nat /\ p.from \in Nat /\ len \in Nat /\ q.total_filesize \in Nat
      /\ r.size \in Nat /\ len < Ulong
  <2>1. p.len \in Nat /\ p.from \in Nat /\ p.len < Ulong
    BY PacketType
  <2>2. q.total_filesize \in Nat
    BY DEF Globals
  <2>3. r.size \in Nat /\ Ulong \in Nat
    BY RequestFacts, ConstantsAssumption
  <2> QED BY <2>1, <2>2, <2>3
<1>2. StageFirst(q, p, nul, idx, shift) = Outcome(qs, nul, 0)
  <2>1. r.size % Ulong = r.size /\ len % Ulong = len
    <3>1. \A n \in Nat : \A m \in Nat \ {0} : n < m => n % m = n
      BY Z3
    <3>2. Ulong \in Nat \ {0}
      BY ConstantsAssumption
    <3> HIDE DEF len
    <3> QED BY <1>1, <3>1, <3>2
  <2>2. (len < 0) = FALSE
    BY <1>1
  <2> DEFINE rest == q.total_filesize - (idx + 1) - q.content_length + shift
  <2>3. rest = r.size
    BY <1>1
  <2>4. StageFirst(q, p, nul, idx, shift)
          = Outcome([q EXCEPT !.total_filesize = rest % Ulong, !.total_size = len % Ulong,
                              !.buf = b, !.buffer_ptr = len % Ulong, !.total_packets = 3,
                              !.fatal = len < 0], nul, 0)
    BY DEF StageFirst
  <2> HIDE DEF rest, b, len
  <2> QED BY <2>1, <2>2, <2>3, <2>4
<1>3. /\ b \in Buffers
      /\ \A k \in 0 .. BufSize - 1 : k < len => b[k] = <<r, ImageStart(r) + k>>
  <2>1. q.buf \in Buffers /\ DOMAIN q.buf = 0 .. BufSize - 1
    BY DEF Globals, Buffers
  <2>2. b \in Buffers
    <3>1. 0 \in Nat /\ idx + 1 \in Nat /\ len \in Int
      BY <1>1
    <3> HIDE DEF len
    <3> QED BY <2>1, <3>1, MemcpyType, Zenon
  <2>3. ASSUME NEW k \in 0 .. BufSize - 1, k < len
        PROVE  b[k] = <<r, ImageStart(r) + k>>
    <3>1. k \in Int /\ 0 <= k
      BY ConstantsAssumption
    <3>2. b[k] = UnitAt(p, nul, idx + 1 + (k - 0))
      BY <1>1, <2>1, <2>3, <3>1 DEF Memcpy
    <3>3. idx + 1 + (k - 0) \notin nul
      BY <3>1
    <3>4. p.from + (idx + 1 + (k - 0)) = ImageStart(r) + k
      BY <1>1, <3>1
    <3> QED BY <3>2, <3>3, <3>4 DEF UnitAt
  <2> QED BY <2>2, <2>3
<1> HIDE DEF b, len
<1>4. qs \in Globals
  BY <1>1, <1>3 DEF Globals
<1>5. /\ qs.total_filesize = r.size /\ qs.total_size = len /\ qs.buf = b
      /\ qs.buffer_ptr = len /\ qs.total_packets = 3 /\ qs.shift = q.shift
      /\ qs.browser = q.browser
  BY DEF Globals
<1>6. p.from + p.len = ImageStart(r) + len
  BY <1>1 DEF len
<1> HIDE DEF qs
<1>7. Begun(qs, r, p.from + p.len)
  BY <1>3, <1>5, <1>6 DEF Begun, ImageOf
<1> QED BY <1>2, <1>4, <1>5, <1>7 DEF Outcome, len
-----------------------------------------------------------------------------
(* The HTTP header.                                                        *)

\* Each of the first n units is a line that is found.
LEMMA LinesFound ==
    ASSUME NEW p \in Packets, NEW n \in Nat, n <= p.len,
           \A i \in 0 .. n - 1 : Kind(p, i) \in LineKinds
    PROVE  \A i \in 0 .. n - 1 : i \in LineEnds(p, {}, 0) /\ i \in LineStarts(p, {}, 0)
<1>1. p.len \in Nat
  BY PacketType
<1>2. \A i \in 0 .. n - 1 : i \in LineEnds(p, {}, 0)
  BY <1>1, LineEndIs
<1>3. \A i \in 0 .. n - 1 : i = 0 \/ (i > 0 /\ i - 1 \in 0 .. n - 1)
  OBVIOUS
<1>4. ASSUME NEW i \in 0 .. n - 1
      PROVE  i \in LineStarts(p, {}, 0)
  <2>1. i \in Nat /\ i <= i /\ i \in LineEnds(p, {}, 0)
    BY <1>2
  <2>2. i = 0 \/ (i > 0 /\ i - 1 \in LineEnds(p, {}, 0))
    BY <1>2, <1>3
  <2> QED BY <2>1, <2>2, LineStartIs
<1> QED BY <1>2, <1>4

\* The header of a browser other than Firefox or Safari is read to its end.
LEMMA PlainHeader ==
    ASSUME NEW r \in Requests, r.method = "POST", r.ua \notin {"Firefox", "Safari"},
           ContentLength(r) < Ulong,
           NEW p \in Packets, p.req = r, p.from = 0, 5 <= p.len
    PROVE  LET h == ParseHeader(InitGlobals, p, {})
           IN /\ h.g \in Globals /\ h.g.total_packets = 2 /\ h.g.browser = {}
              /\ h.g.total_filesize = ContentLength(r)
              /\ h.idx = 5 /\ h.nul = 0 .. 4
<1> DEFINE q     == InitGlobals
           S     == LineStarts(p, {}, 0)
           ffAt(s) == \/ "Firefox" \in q.browser
                      \/ \E t \in S : t < s /\ Kind(p, t) = "UA" /\ p.req.ua = "Firefox"
           stops == {s \in S : Empty(Kind(p, s)) \/ (Kind(p, s) = "REF" /\ ffAt(s))}
           stop  == LeastOr(stops, p.len)
           idx   == IF stops = {} THEN p.len ELSE NextIdx(p, {}, stop)
           seen(k) == \E s \in S : s < stop /\ Kind(p, s) = k
<1>1. \A i \in Nat : Kind(p, i) = KindAt(r, i)
  BY DEF Kind
<1>2. /\ Kind(p, 0) = "POST" /\ Kind(p, 1) = "UA" /\ Kind(p, 2) = "HCT"
      /\ Kind(p, 3) = "CLEN" /\ Kind(p, 4) = "BLANK"
  BY <1>1, PlainKinds
<1>3. \A i \in 0 .. 4 : Kind(p, i) \in LineKinds
  <2>1. \A i \in 0 .. 4 : i = 0 \/ i = 1 \/ i = 2 \/ i = 3 \/ i = 4
    OBVIOUS
  <2> QED BY <1>2, <2>1 DEF LineKinds
<1>4. \A i \in 0 .. 4 : i \in LineEnds(p, {}, 0) /\ i \in S
  BY <1>3, LinesFound
<1>5. S \in SUBSET Nat /\ p.len \in Nat
  BY LineStartsType, PacketType
<1>6. stop = 4 /\ stops # {}
  <2>1. 4 \in stops
    BY <1>2, <1>4 DEF Empty
  <2>2. ASSUME NEW s \in stops
        PROVE  4 <= s
    <3>1. s \in Nat /\ (s < 4 => s = 0 \/ s = 1 \/ s = 2 \/ s = 3)
      BY <1>5
    <3> QED BY <1>2, <3>1 DEF Empty
  <2> HIDE DEF stops
  <2> QED BY <1>5, <2>1, <2>2, LeastIs DEF stops
<1>7. idx = 5
  <2>1. 4 \in LineEnds(p, {}, 4)
    BY <1>4, LineEndIs
  <2> QED BY <1>6, <2>1, NextLine
<1>8. seen("POST") /\ seen("UA") /\ seen("CLEN")
  <2>1. 0 \in S /\ 1 \in S /\ 3 \in S
    BY <1>4
  <2>2. 0 < stop /\ 1 < stop /\ 3 < stop
    BY <1>6
  <2> HIDE DEF S, stop
  <2> QED BY <1>2, <2>1, <2>2
<1>9. Consumed(p, {}, 0, 5) = 0 .. 4
  <2>1. LineEnds(p, {}, 0) \in SUBSET Nat
    BY LineEndsType
  <2> QED BY <1>4, <2>1 DEF Consumed
<1>10. /\ q.browser \cup ({p.req.ua} \cap {"Safari", "Firefox"}) = {}
       /\ ContentLength(p.req) % Ulong = ContentLength(r) /\ ContentLength(r) \in Nat
  <2>1. ContentLength(r) \in Nat
    BY ContentLengthType
  <2>2. ContentLength(r) % Ulong = ContentLength(r)
    BY <2>1, ConstantsAssumption
  <2>3. q.browser = {}
    BY DEF InitGlobals
  <2> QED BY <2>1, <2>2, <2>3
<1> DEFINE hg == [q EXCEPT !.total_size = IF seen("POST") THEN 0 ELSE @,
                           !.total_filesize = IF seen("CLEN") THEN ContentLength(p.req) % Ulong
                                              ELSE IF seen("POST") THEN 0 ELSE @,
                           !.total_packets = IF seen("POST") THEN 2 ELSE 1,
                           !.browser = IF seen("UA")
                                       THEN @ \cup ({p.req.ua} \cap {"Safari", "Firefox"})
                                       ELSE @]
<1>11. ParseHeader(q, p, {}) = [g |-> hg, nul |-> Consumed(p, {}, 0, idx), idx |-> idx]
  BY DEF ParseHeader
<1>12. hg = [q EXCEPT !.total_size = 0, !.total_filesize = ContentLength(r),
                      !.total_packets = 2, !.browser = {}]
  <2> HIDE DEF seen, q
  <2> QED BY <1>8, <1>10
<1>13. q \in Globals
  BY InitGlobalsInv
<1> HIDE DEF hg, q, idx
<1>14. /\ hg \in Globals /\ hg.total_packets = 2 /\ hg.browser = {}
       /\ hg.total_filesize = ContentLength(r)
  BY <1>10, <1>12, <1>13 DEF Globals
<1> QED BY <1>7, <1>9, <1>11, <1>14 DEF q

\* The header of Firefox is read up to the Referer line.
LEMMA FirefoxHeader ==
    ASSUME NEW r \in Requests, r.method = "POST", r.ua = "Firefox",
           NEW p \in Packets, p.req = r, p.from = 0, 6 <= p.len
    PROVE  LET h == ParseHeader(InitGlobals, p, {})
           IN /\ h.g \in Globals /\ h.g.total_packets = 2 /\ h.g.browser = {"Firefox"}
              /\ h.nul = 0 .. 2
<1> DEFINE q     == InitGlobals
           S     == LineStarts(p, {}, 0)
           ffAt(s) == \/ "Firefox" \in q.browser
                      \/ \E t \in S : t < s /\ Kind(p, t) = "UA" /\ p.req.ua = "Firefox"
           stops == {s \in S : Empty(Kind(p, s)) \/ (Kind(p, s) = "REF" /\ ffAt(s))}
           stop  == LeastOr(stops, p.len)
           idx   == IF stops = {} THEN p.len ELSE NextIdx(p, {}, stop)
           seen(k) == \E s \in S : s < stop /\ Kind(p, s) = k
<1>1. \A i \in Nat : Kind(p, i) = KindAt(r, i)
  BY DEF Kind
<1>2. Kind(p, 0) = "POST" /\ Kind(p, 1) = "UA" /\ Kind(p, 2) = "REF"
  BY <1>1, FirefoxKinds
<1>3. \A i \in 0 .. 2 : Kind(p, i) \in LineKinds
  <2>1. \A i \in 0 .. 2 : i = 0 \/ i = 1 \/ i = 2
    OBVIOUS
  <2> QED BY <1>2, <2>1 DEF LineKinds
<1>4. S \in SUBSET Nat /\ p.len \in Nat
  BY LineStartsType, PacketType
<1>5. \A i \in 0 .. 2 : i \in LineEnds(p, {}, 0) /\ i \in S
  BY <1>3, <1>4, LinesFound
<1>6. stop = 2 /\ stops # {}
  <2>1. ffAt(2)
    BY <1>2, <1>5
  <2>2. 2 \in stops
    BY <1>2, <1>5, <2>1
  <2>3. ASSUME NEW s \in stops
        PROVE  2 <= s
    <3>1. s \in Nat /\ (s < 2 => s = 0 \/ s = 1)
      BY <1>4
    <3> QED BY <1>2, <3>1 DEF Empty
  <2> HIDE DEF stops
  <2> QED BY <1>4, <2>2, <2>3, LeastIs DEF stops
<1>7. idx = 3
  <2>1. 2 \in LineEnds(p, {}, 2)
    BY <1>5, LineEndIs
  <2> QED BY <1>6, <2>1, NextLine
<1>8. seen("POST") /\ seen("UA")
  <2>1. 0 \in S /\ 1 \in S
    BY <1>5
  <2>2. 0 < stop /\ 1 < stop
    BY <1>6
  <2> HIDE DEF S, stop
  <2> QED BY <1>2, <2>1, <2>2
<1>9. Consumed(p, {}, 0, 3) = 0 .. 2
  <2>1. LineEnds(p, {}, 0) \in SUBSET Nat
    BY LineEndsType
  <2> QED BY <1>5, <2>1 DEF Consumed
<1>10. q.browser \cup ({p.req.ua} \cap {"Safari", "Firefox"}) = {"Firefox"}
  BY DEF InitGlobals
<1>11. ParseHeader(q, p, {}).g \in Globals
  BY InitGlobalsInv, ParseHeaderParsed DEF Parsed, GInv
<1>12. /\ ParseHeader(q, p, {}).nul = Consumed(p, {}, 0, idx)
       /\ ParseHeader(q, p, {}).g.total_packets = IF seen("POST") THEN 2 ELSE 1
       /\ ParseHeader(q, p, {}).g.browser
             = IF seen("UA") THEN q.browser \cup ({p.req.ua} \cap {"Safari", "Firefox"})
               ELSE q.browser
  <2>1. q.total_packets = 0
    BY DEF InitGlobals
  <2> QED BY DEF ParseHeader, InitGlobals
<1> HIDE DEF seen, idx
<1> QED BY <1>7, <1>8, <1>9, <1>10, <1>11, <1>12

\* Without a POST line nothing is uploaded.
LEMMA GetHeader ==
    ASSUME NEW r \in Requests, r.method = "GET", NEW p \in Packets, p.req = r, NEW nul
    PROVE  LET h == ParseHeader(InitGlobals, p, nul)
           IN h.g \in Globals /\ h.g.total_packets = 1
<1> DEFINE q     == InitGlobals
           S     == LineStarts(p, nul, 0)
           ffAt(s) == \/ "Firefox" \in q.browser
                      \/ \E t \in S : t < s /\ Kind(p, t) = "UA" /\ p.req.ua = "Firefox"
           stops == {s \in S : Empty(Kind(p, s)) \/ (Kind(p, s) = "REF" /\ ffAt(s))}
           stop  == LeastOr(stops, p.len)
           seen(k) == \E s \in S : s < stop /\ Kind(p, s) = k
<1>1. S \in SUBSET Nat /\ p.from \in Nat
  BY LineStartsType, PacketType
<1>2. \A s \in S : Kind(p, s) # "POST"
  BY <1>1, GetKinds DEF Kind
<1>3. ~seen("POST")
  BY <1>2
<1>4. ParseHeader(q, p, nul).g \in Globals
  BY InitGlobalsInv, ParseHeaderParsed DEF Parsed, GInv
<1>5. ParseHeader(q, p, nul).g.total_packets = IF seen("POST") THEN 2 ELSE 1
  BY DEF ParseHeader, InitGlobals
<1> HIDE DEF seen
<1> QED BY <1>3, <1>4, <1>5
-----------------------------------------------------------------------------
(* The part header, where it can be.                                       *)

\* The line ends gone after get_request_line has been called at request_idx = first.
AfterLine(p, nul, first) ==
    IF LineEnds(p, nul, first) # {} THEN Consumed(p, nul, first, NextIdx(p, nul, first)) ELSE nul

\* No part header is found.
LEMMA PartIdle ==
    ASSUME NEW q \in Globals, q.browser = {}, NEW p \in Packets, NEW nul, NEW s \in StackType,
           NEW N, N = AfterLine(UpTo(p, s.len), nul, s.idx),
           ~(/\ LineEnds(UpTo(p, s.len), nul, s.idx) # {}
             /\ Kind(p, s.idx) = "BND" /\ TenDashes(p.req) /\ s.text # "tail"),
           \A t \in LineStarts(p, N, 0) : Kind(p, t) \notin {"CTYPE", "HCT"}
    PROVE  LET o == ParseMime(q, p, nul, s)
           IN /\ o.ret = 0 /\ N \subseteq o.nul
              /\ o.g.total_packets = q.total_packets /\ o.g.browser = {}
              /\ o.g.total_filesize = q.total_filesize
<1> DEFINE q0 == [q EXCEPT !.shift = 0]
<1>1. ParseMime(q, p, nul, s) = MimeOther(q0, p, p, N, 0)
  BY DEF ParseMime, AfterLine
<1>2. /\ q0 \in Globals /\ q0.total_packets = q.total_packets /\ q0.browser = {}
      /\ q0.total_filesize = q.total_filesize
  BY DEF Globals
<1> HIDE DEF q0
<1>3. LET o == MimeOther(q0, p, p, N, 0)
      IN /\ o.ret = 0 /\ N \subseteq o.nul
         /\ o.g.total_packets = q0.total_packets /\ o.g.browser = q0.browser
         /\ o.g.total_filesize = q0.total_filesize
  BY <1>2, MimeOtherIdle
<1> QED BY <1>1, <1>2, <1>3

\* No part header is found where no line is left.
LEMMA NoLineIdle ==
    ASSUME NEW q \in Globals, q.browser = {}, NEW p \in Packets, NEW nul, NEW s \in StackType,
           LineEnds(p, nul, 0) = {}
    PROVE  LET o == ParseMime(q, p, nul, s)
           IN /\ o.ret = 0 /\ nul \subseteq o.nul
              /\ o.g.total_packets = q.total_packets /\ o.g.browser = {}
              /\ o.g.total_filesize = q.total_filesize
<1> DEFINE pr == UpTo(p, s.len)
<1>1. /\ s.idx \in Nat /\ p.len \in Nat
      /\ pr \in Packets /\ pr.req = p.req /\ pr.from = p.from /\ pr.len \in Nat /\ pr.len <= p.len
  <2>1. s.idx \in Nat /\ s.len \in Nat /\ p.len \in Nat
    BY PacketType DEF StackType
  <2> QED BY <2>1, UpToType
<1> HIDE DEF pr
<1>2. LineEnds(pr, nul, s.idx) = {}
  <2>1. ASSUME NEW e \in LineEnds(pr, nul, s.idx)
        PROVE  FALSE
    <3>1. e \in Nat
      BY <1>1, <2>1, LineEndsType
    <3>2. e \in LineEnds(p, nul, 0)
      BY <1>1, <2>1, <3>1, LineEndIs DEF Kind
    <3> QED BY <3>2
  <2> QED BY <2>1
<1>3. nul = AfterLine(pr, nul, s.idx)
  BY <1>2 DEF AfterLine
<1>4. LineStarts(p, nul, 0) = {}
  BY DEF LineStarts
<1> QED BY <1>2, <1>3, <1>4, PartIdle DEF pr

\* Nor in the image.
LEMMA ImageIdle ==
    ASSUME NEW q \in Globals, q.browser = {}, NEW p \in Packets, NEW nul, NEW s \in StackType,
           NEW r \in Requests, r.method = "POST", r.ua # "Firefox", p.req = r,
           ImageStart(r) <= p.from
    PROVE  LET o == ParseMime(q, p, nul, s)
           IN /\ o.ret = 0
              /\ o.g.total_packets = q.total_packets /\ o.g.browser = {}
<1> DEFINE N == AfterLine(UpTo(p, s.len), nul, s.idx)
<1>1. \A j \in Nat : Kind(p, j) \notin {"BND", "CTYPE", "HCT"}
  <2>1. p.from \in Nat /\ ImageStart(r) = 9
    BY PlainKinds, PacketType
  <2> SUFFICES ASSUME NEW j \in Nat
               PROVE  KindAt(r, p.from + j) \notin {"BND", "CTYPE", "HCT"}
    BY DEF Kind
  <2>2. p.from + j \in Nat /\ p.from + j >= 9
    BY <2>1
  <2>3. KindAt(r, p.from + j) \in {"IMG", "EOL", "TRL"}
    BY <2>2, PlainKinds
  <2> QED BY <2>3
<1>2. s.idx \in Nat
  BY DEF StackType
<1>3. Kind(p, s.idx) # "BND"
  BY <1>1, <1>2
<1> HIDE DEF N
<1>4. \A t \in LineStarts(p, N, 0) : Kind(p, t) \notin {"CTYPE", "HCT"}
  <2>1. LineStarts(p, N, 0) \in SUBSET Nat
    BY LineStartsType
  <2> QED BY <1>1, <2>1
<1> QED BY <1>3, <1>4, PartIdle DEF N

\* The part header comes in a segment of its own, or with the first of the image.
LEMMA PartInNext ==
    ASSUME NEW q \in Globals, NEW r, Upload(r), NEW p \in Packets, p.req = r,
           Waits(q, r, p.from), 4 <= p.len, p.len # Mss,
           NEW stack \in StackType, Tame(stack)
    PROVE  LET o == ParseMime(q, p, {}, stack)
           IN /\ o.ret = 0
              /\ Missed(o.g, r, p.from + p.len) \/ Loads(o.g, r, p.from + p.len)
<1> DEFINE pr == UpTo(p, stack.len)
           q0 == [q EXCEPT !.shift = 0]
           N  == AfterLine(pr, {}, stack.idx)
           done(o) == /\ o.ret = 0
                      /\ Missed(o.g, r, p.from + p.len) \/ Loads(o.g, r, p.from + p.len)
<1> SUFFICES done(ParseMime(q, p, {}, stack))
  OBVIOUS
<1>1. /\ r \in Requests /\ r.method = "POST" /\ r.ua # "Firefox" /\ ContentLength(r) < Ulong
      /\ q.total_packets = 2 /\ q.browser = {} /\ q.total_filesize = ContentLength(r)
  BY DEF Waits, Upload, WellCut
<1>2. /\ p.from = 5 /\ ImageStart(r) = 9 /\ ContentLength(r) = r.size + 5 /\ r.size \in Nat
      /\ p.len \in Nat
  BY <1>1, PlainKinds, RequestFacts, PacketType DEF Waits
<1>3. /\ Kind(p, 0) = "BND" /\ Kind(p, 1) = "CDISP" /\ Kind(p, 2) = "CTYPE"
      /\ Kind(p, 3) = "BLANK"
  BY <1>1, <1>2, PlainKinds DEF Kind
<1>4. \A i \in 0 .. 3 : Kind(p, i) \in LineKinds
  <2>1. \A i \in 0 .. 3 : i = 0 \/ i = 1 \/ i = 2 \/ i = 3
    OBVIOUS
  <2> QED BY <1>3, <2>1 DEF LineKinds
<1>5. /\ stack.idx \in Nat /\ stack.len \in Nat
      /\ pr \in Packets /\ pr.len \in Nat
      /\ pr.len = IF stack.len < p.len THEN stack.len ELSE p.len
      /\ \A j : Kind(pr, j) = Kind(p, j)
  <2>1. stack.idx \in Nat /\ stack.len \in Nat
    BY DEF StackType
  <2> QED BY <1>2, <2>1, UpToType DEF Kind
<1>6. /\ q0 \in Globals /\ q0.total_filesize = ContentLength(r) /\ q0.browser = {}
      /\ q0.shift = 0 /\ q0.total_packets = 2
  BY <1>1 DEF Globals
<1> HIDE DEF pr
\* Once the type line is found with request_idx = 2, the image is staged.
<1>7. ASSUME NEW ps \in {p, pr}, NEW nul \in SUBSET (0 .. 3), NEW idx \in Nat, NEW q1 \in Globals,
             q1.total_filesize = ContentLength(r), q1.browser = {}, q1.shift = 0,
             2 \in LineStarts(ps, nul, idx), 2 \in LineEnds(ps, nul, 2),
             q1.content_length = 1 \/ 0 \in LineStarts(ps, nul, idx)
      PROVE  done(MimeOther(q1, p, ps, nul, idx))
  <2> DEFINE q2 == [q1 EXCEPT !.content_length = 1]
             M  == Consumed(ps, nul, idx, 2 + 1)
  <2>1. ps \in Packets /\ \A j : Kind(ps, j) = Kind(p, j)
    BY <1>5
  <2>2. \A t \in LineStarts(ps, nul, idx) : t < 2 => Kind(ps, t) \in {"BND", "CDISP"}
    <3>1. \A t \in Nat : t < 2 => t = 0 \/ t = 1
      OBVIOUS
    <3> QED BY <1>3, <2>1, <3>1, LineStartsType
  <2>3. MimeOther(q1, p, ps, nul, idx) = StageFirst(q2, p, M, 2 + 1, q1.shift)
    <3>1. Kind(ps, 0) = "BND" /\ Kind(ps, 2) = "CTYPE" /\ 0 < 2
      BY <1>3, <2>1
    <3> QED BY <1>7, <2>1, <2>2, <3>1, MimeStages
  <2>4. /\ q2 \in Globals /\ q2.content_length = 1 /\ q2.browser = {}
        /\ q2.total_filesize = ContentLength(r) /\ q2.shift = 0
    BY <1>7 DEF Globals
  <2>5. \A e \in M : e <= 3
    <3>1. \A e \in nul : e <= 3
      OBVIOUS
    <3>2. LineEnds(ps, nul, idx) \in SUBSET Nat
      BY <2>1, LineEndsType
    <3> QED BY <3>1, <3>2 DEF Consumed
  <2> HIDE DEF q2, M
  <2>6. /\ 3 \in Nat /\ 0 \in Nat /\ p.from + (3 + 1) = ImageStart(r) /\ 3 + 1 <= p.len
        /\ q2.total_filesize - (3 + 1) - 1 + 0 = r.size /\ r.size < Ulong
    BY <1>1, <1>2, <2>4, ConstantsAssumption
  <2>7. LET o == StageFirst(q2, p, M, 3, 0)
        IN o.ret = 0 /\ Begun(o.g, r, p.from + p.len) /\ o.g.shift = q2.shift
    BY <1>1, <2>4, <2>5, <2>6, StagesImage
  <2> QED BY <1>7, <2>3, <2>4, <2>7 DEF Loads
\* A call that finds nothing.
<1>8. ASSUME NEW o, o.ret = 0, o.g.total_packets = 2, o.g.browser = {}
      PROVE  done(o)
  <2>1. ImageStart(r) <= p.from + p.len
    BY <1>2
  <2> QED BY <1>1, <1>8, <2>1 DEF Missed
\* The line ends that are left.
<1>9. ASSUME NEW nul \in SUBSET (0 .. 3), NEW i \in 0 .. 3, i \notin nul
      PROVE  i \in LineEnds(p, nul, 0) /\ i \in LineEnds(p, nul, i)
  <2>1. i \in Nat /\ 0 <= i /\ i <= i /\ i < p.len
    BY <1>2
  <2> QED BY <1>4, <1>9, <2>1, LineEndIs
\* The loop starts over with the whole segment and finds the type line.
<1>10. ASSUME N \in SUBSET (0 .. 3), 1 \notin N, 2 \notin N,
              ParseMime(q, p, {}, stack) = MimeOther(q0, p, p, N, 0)
       PROVE  done(ParseMime(q, p, {}, stack))
  <2> HIDE DEF N, q0
  <2>1. /\ 1 \in LineEnds(p, N, 0) /\ 2 \in LineEnds(p, N, 0) /\ 2 \in LineEnds(p, N, 2)
    BY <1>9, <1>10
  <2>2. 0 \in LineStarts(p, N, 0) /\ 2 \in LineStarts(p, N, 0)
    <3>1. 0 <= 1 /\ 2 <= 2 /\ 2 > 0 /\ 2 - 1 = 1 /\ 0 \in Nat /\ 2 \in Nat
      OBVIOUS
    <3> QED BY <2>1, <3>1, LineStartIs
  <2> HIDE DEF done
  <2> QED BY <1>6, <1>7, <1>10, <2>1, <2>2
\* With nothing read at stack, or no boundary, it starts over.
<1>11. ASSUME \/ LineEnds(pr, {}, stack.idx) = {}
              \/ Kind(p, stack.idx) # "BND"
              \/ ~TenDashes(p.req) \/ stack.text = "tail"
       PROVE  ParseMime(q, p, {}, stack) = MimeOther(q0, p, p, N, 0)
  <2>1. "Firefox" \notin q.browser
    BY <1>1
  <2> QED BY <1>11, <2>1 DEF ParseMime, AfterLine, pr
\* No line is read with what the stack holds.
<1>12. CASE stack.len <= stack.idx
  <2>1. LineEnds(pr, {}, stack.idx) = {}
    <3>1. ASSUME NEW e \in LineEnds(pr, {}, stack.idx)
          PROVE  FALSE
      <4>1. e \in Nat
        BY <1>5, <3>1, LineEndsType
      <4>2. stack.idx <= e /\ e < pr.len
        BY <1>5, <3>1, <4>1, LineEndIs
      <4> QED BY <1>2, <1>5, <1>12, <4>1, <4>2
    <3> QED BY <3>1
  <2>2. N = {}
    BY <2>1 DEF AfterLine
  <2> HIDE DEF N, q0, done
  <2> QED BY <1>10, <1>11, <2>1, <2>2
\* The line at stack.idx is read.
<1>13. ASSUME stack.len > stack.idx, stack.idx \in 0 .. 3
       PROVE  /\ stack.idx \in LineEnds(pr, {}, stack.idx)
              /\ NextIdx(pr, {}, stack.idx) = stack.idx + 1
              /\ N = {stack.idx}
  <2>1. stack.idx \in LineEnds(pr, {}, stack.idx)
    <3>1. stack.idx <= stack.idx /\ stack.idx < pr.len
      BY <1>2, <1>5, <1>13
    <3> QED BY <1>4, <1>5, <1>13, <3>1, LineEndIs
  <2>2. NextIdx(pr, {}, stack.idx) = stack.idx + 1
    BY <1>5, <2>1, NextLine
  <2>3. /\ LineEnds(pr, {}, stack.idx) \in SUBSET Nat
        /\ \A e \in LineEnds(pr, {}, stack.idx) : stack.idx <= e
    BY <1>5, LineEndsType
  <2>4. N = {stack.idx}
    BY <1>5, <2>1, <2>2, <2>3 DEF AfterLine, Consumed
  <2> QED BY <2>1, <2>2, <2>4
\* It is the boundary, and counts as one.
<1>14. CASE /\ stack.len > stack.idx /\ stack.idx = 0 /\ stack.text = "whole"
            /\ TenDashes(p.req)
  <2> DEFINE q1 == [q EXCEPT !.shift = 0, !.content_length = 1]
  <2>1. /\ 0 \in LineEnds(pr, {}, 0) /\ NextIdx(pr, {}, 0) = 1 /\ N = {0}
    BY <1>13, <1>14
  <2>2. ParseMime(q, p, {}, stack) = MimeOther(q1, p, pr, N, 1)
    <3>1. /\ "Firefox" \notin q.browser /\ LineEnds(pr, {}, 0) # {}
          /\ Kind(p, 0) = "BND"
      BY <1>1, <1>3, <2>1
    <3>2. ParseMime(q, p, {}, stack) = MimeOther(q1, p, pr, N, NextIdx(pr, {}, 0))
      BY <1>14, <3>1 DEF ParseMime, AfterLine, pr
    <3> QED BY <2>1, <3>2
  <2>3. /\ q1 \in Globals /\ q1.total_filesize = ContentLength(r) /\ q1.browser = {}
        /\ q1.shift = 0 /\ q1.content_length = 1 /\ q1.total_packets = 2
    BY <1>1 DEF Globals
  <2> HIDE DEF q1, N
  <2>4. CASE pr.len >= 3
    <3>1. /\ 1 \in LineEnds(pr, N, 1) /\ 2 \in LineEnds(pr, N, 1) /\ 2 \in LineEnds(pr, N, 2)
      BY <1>4, <1>5, <2>1, <2>4, LineEndIs
    <3>2. 2 \in LineStarts(pr, N, 1)
      <4>1. 2 <= 2 /\ 2 > 0 /\ 2 - 1 = 1 /\ 1 \in Nat /\ 2 \in Nat
        OBVIOUS
      <4> QED BY <1>5, <3>1, <4>1, LineStartIs
    <3>3. N \in SUBSET (0 .. 3)
      BY <2>1
    <3> HIDE DEF done
    <3> QED BY <1>7, <2>2, <2>3, <3>1, <3>2, <3>3
  <2>5. CASE ~(pr.len >= 3)
    <3>1. ASSUME NEW t \in LineStarts(pr, N, 1)
          PROVE  Kind(pr, t) \notin {"CTYPE", "HCT"}
      <4>1. t \in Nat
        BY <1>5, LineStartsType
      <4>2. PICK e \in LineEnds(pr, N, 1) : t <= e
        BY <1>5, <4>1, LineStartIs
      <4>3. e \in Nat /\ e < pr.len
        BY <1>5, LineEndsType, LineEndIs
      <4>4. t = 0 \/ t = 1
        BY <1>5, <2>5, <4>1, <4>2, <4>3
      <4> QED BY <1>3, <1>5, <4>4
    <3>2. LET o == MimeOther(q1, p, pr, N, 1)
          IN o.ret = 0 /\ o.g.total_packets = 2 /\ o.g.browser = {}
      BY <1>5, <2>3, <3>1, MimeOtherIdle
    <3> HIDE DEF done
    <3> QED BY <1>8, <2>2, <3>2
  <2> QED BY <2>4, <2>5
\* It is the boundary, and does not count as one.
<1>15. CASE /\ stack.len > stack.idx /\ stack.idx = 0 /\ stack.text # "dashes"
            /\ ~(stack.text = "whole" /\ TenDashes(p.req))
  <2>1. N = {0}
    BY <1>13, <1>15
  <2>2. ~TenDashes(p.req) \/ stack.text = "tail"
    BY <1>15 DEF StackType
  <2> HIDE DEF N, q0, done
  <2> QED BY <1>10, <1>11, <2>1, <2>2
\* It is the disposition line: the type line is then a part of it.
<1>16. CASE stack.len > stack.idx /\ stack.idx = 1
  <2>1. N = {1} /\ Kind(p, stack.idx) # "BND"
    BY <1>3, <1>13, <1>16
  <2>2. \A t \in LineStarts(p, N, 0) : Kind(p, t) \notin {"CTYPE", "HCT"}
    <3> SUFFICES ASSUME NEW t \in LineStarts(p, N, 0)
                 PROVE  Kind(p, t) \notin {"CTYPE", "HCT"}
      OBVIOUS
    <3> HIDE DEF N
    <3>1. t \in Nat
      BY LineStartsType
    <3>2. t # 2
      <4>1. 1 \notin LineEnds(p, N, 0)
        BY <2>1, LineEndIs
      <4> QED BY <3>1, <4>1, LineStartIs
    <3>3. t = 0 \/ t = 1 \/ t = 3 \/ t >= 4
      BY <3>1, <3>2
    <3>4. t >= 4 => Kind(p, t) \in {"IMG", "EOL", "TRL"}
      BY <1>1, <1>2, <3>1, PlainKinds DEF Kind
    <3> QED BY <1>3, <3>3, <3>4
  <2>3. LET o == ParseMime(q, p, {}, stack)
        IN /\ o.ret = 0 /\ o.g.total_packets = q.total_packets /\ o.g.browser = {}
    BY <1>1, <2>1, <2>2, PartIdle DEF pr
  <2> HIDE DEF done
  <2> QED BY <1>1, <1>8, <2>3
\* It is the empty line.
<1>17. CASE stack.len > stack.idx /\ stack.idx = 3
  <2>1. N = {3} /\ Kind(p, stack.idx) # "BND"
    BY <1>3, <1>13, <1>17
  <2> HIDE DEF N, q0, done
  <2> QED BY <1>10, <1>11, <2>1
<1>18. \/ stack.len <= stack.idx
       \/ stack.len > stack.idx /\ stack.idx = 0 /\ stack.text # "dashes"
       \/ stack.len > stack.idx /\ stack.idx = 1
       \/ stack.len > stack.idx /\ stack.idx = 3
  BY <1>5 DEF Tame
<1> HIDE DEF done, N, q0
<1> QED BY <1>12, <1>14, <1>15, <1>16, <1>17, <1>18
-----------------------------------------------------------------------------
(* The first segment, for which upgrade_cgi is called twice.               *)

\* The header alone.
LEMMA HeaderAlone ==
    ASSUME NEW r, Upload(r), r.ua # "Firefox",
           NEW p \in Packets, p.req = r, p.from = 0, p.len = 5, NEW stack \in StackType
    PROVE  LET o == UpgradeCgi(InitGlobals, p, {}, stack)
           IN o.ret = 0 /\ Waits(o.g, r, 5) /\ LineEnds(p, o.nul, 0) = {}
<1> DEFINE h == ParseHeader(InitGlobals, p, {})
           w == [idx |-> h.idx, len |-> p.len, text |-> "whole"]
           o == ParseMime(h.g, p, h.nul, w)
<1>1. /\ r \in Requests /\ r.method = "POST" /\ r.ua \notin {"Firefox", "Safari"}
      /\ ContentLength(r) < Ulong
  BY DEF Upload, WellCut
<1>2. /\ h.g \in Globals /\ h.g.total_packets = 2 /\ h.g.browser = {}
      /\ h.g.total_filesize = ContentLength(r) /\ h.idx = 5 /\ h.nul = 0 .. 4
  BY <1>1, PlainHeader
<1>3. UpgradeCgi(InitGlobals, p, {}, stack) = o
  <2>1. InitGlobals.total_packets = 0
    BY DEF InitGlobals
  <2> QED BY <1>2, <2>1 DEF UpgradeCgi, AfterHeader
<1> HIDE DEF h
<1>4. \A nul : 0 .. 4 \subseteq nul => LineEnds(p, nul, 0) = {}
  BY DEF LineEnds
<1>5. /\ o.ret = 0 /\ h.nul \subseteq o.nul /\ o.g.total_packets = 2 /\ o.g.browser = {}
      /\ o.g.total_filesize = ContentLength(r)
  <2>1. w \in StackType
    BY <1>2 DEF StackType
  <2> HIDE DEF w
  <2> QED BY <1>2, <1>4, <2>1, NoLineIdle
<1>6. Len(HeaderLines(r)) = 5
  BY <1>1, PlainKinds
<1> HIDE DEF o
<1> QED BY <1>1, <1>2, <1>3, <1>4, <1>5, <1>6 DEF Waits

\* The header and the part header, of IE or Opera.
LEMMA IeFirst ==
    ASSUME NEW r, Upload(r), r.ua = "IE",
           NEW p \in Packets, p.req = r, p.from = 0, 9 <= p.len, p.len # Mss,
           NEW stack \in StackType
    PROVE  LET o == UpgradeCgi(InitGlobals, p, {}, stack)
           IN /\ o.ret = 0 /\ Begun(o.g, r, p.len) /\ o.g.shift # 0
              /\ o.g.total_size = p.len - 9 /\ o.g.buffer_ptr = p.len - 9
<1> DEFINE h  == ParseHeader(InitGlobals, p, {})
           w  == [idx |-> 5, len |-> p.len, text |-> "whole"]
           N  == AfterLine(p, h.nul, 5)
           q1 == [h.g EXCEPT !.shift = 5, !.content_length = 1]
           q2 == [q1 EXCEPT !.content_length = 1]
           M  == Consumed(p, N, 6, 7 + 1)
<1>1. /\ r \in Requests /\ r.method = "POST" /\ r.ua \notin {"Firefox", "Safari"}
      /\ ContentLength(r) < Ulong
  BY DEF Upload, WellCut
<1>2. p.len \in Nat
  BY PacketType
<1>3. /\ h.g \in Globals /\ h.g.total_packets = 2 /\ h.g.browser = {}
      /\ h.g.total_filesize = ContentLength(r) /\ h.idx = 5 /\ h.nul = 0 .. 4
  <2>1. 5 <= p.len
    BY <1>2
  <2> QED BY <1>1, <2>1, PlainHeader
<1>4. ImageStart(r) = 9 /\ ContentLength(r) = r.size + 5 /\ r.size \in Nat
  BY <1>1, PlainKinds, RequestFacts
<1>5. Kind(p, 5) = "BND" /\ Kind(p, 6) = "CDISP" /\ Kind(p, 7) = "CTYPE"
  BY <1>1, PlainKinds DEF Kind
<1> HIDE DEF h
<1>6. 5 \in LineEnds(p, h.nul, 5)
  BY <1>2, <1>3, <1>5, LineEndIs DEF LineKinds
<1>7. NextIdx(p, h.nul, 5) = 6
  BY <1>6, NextLine
<1>8. UpgradeCgi(InitGlobals, p, {}, stack) = MimeOther(q1, p, p, N, 6)
  <2>1. InitGlobals.total_packets = 0
    BY DEF InitGlobals
  <2>2. UpgradeCgi(InitGlobals, p, {}, stack) = ParseMime(h.g, p, h.nul, w)
    BY <1>3, <2>1 DEF UpgradeCgi, AfterHeader, h
  <2>3. UpTo(p, p.len) = p
    BY <1>2 DEF UpTo, Packets
  <2>4. TenDashes(p.req)
    BY DEF TenDashes
  <2>5. w.idx = 5 /\ w.len = p.len /\ w.text = "whole"
    OBVIOUS
  <2> HIDE DEF w
  <2>6. ParseMime(h.g, p, h.nul, w) = MimeOther(q1, p, p, N, NextIdx(p, h.nul, 5))
    BY <1>3, <1>5, <1>6, <2>3, <2>4, <2>5 DEF ParseMime, AfterLine
  <2> QED BY <1>7, <2>2, <2>6
<1>9. 6 \notin N /\ 7 \notin N /\ \A e \in N : e <= 5
  <2>1. LineEnds(p, h.nul, 5) \in SUBSET Nat
    BY LineEndsType
  <2> QED BY <1>3, <1>7, <2>1 DEF AfterLine, Consumed
<1>10. q1 \in Globals /\ q1.content_length = 1 /\ q1.browser = {} /\ q1.shift = 5
  BY <1>3 DEF Globals
<1>11. q2 \in Globals /\ q2.content_length = 1 /\ q2.browser = {} /\ q2.shift = 5
       /\ q2.total_filesize = ContentLength(r)
  BY <1>3 DEF Globals
<1> HIDE DEF N, q1
<1>12. 6 \in LineEnds(p, N, 6) /\ 7 \in LineEnds(p, N, 6) /\ 7 \in LineEnds(p, N, 7)
  BY <1>2, <1>5, <1>9, LineEndIs DEF LineKinds
<1>13. 7 \in LineStarts(p, N, 6)
  <2>1. 7 <= 7 /\ 7 > 0 /\ 7 - 1 = 6 /\ 6 \in Nat /\ 7 \in Nat
    OBVIOUS
  <2> QED BY <1>12, <2>1, LineStartIs
<1>14. \A t \in LineStarts(p, N, 6) : t >= 6 /\ t \in Nat
  <2>1. LineStarts(p, N, 6) \in SUBSET Nat
    BY LineStartsType
  <2>2. ASSUME NEW t \in LineStarts(p, N, 6), t > 0, t - 1 \in LineEnds(p, N, 6)
        PROVE  t >= 6
    BY <2>1, <2>2, LineEndsType
  <2> QED BY <2>1, <2>2, LineStartIs
<1>15. MimeOther(q1, p, p, N, 6) = StageFirst(q2, p, M, 7 + 1, q1.shift)
  <2>1. \A t \in LineStarts(p, N, 6) : t < 7 => Kind(p, t) \in {"BND", "CDISP"}
    <3>1. \A t \in Nat : t >= 6 /\ t < 7 => t = 6
      OBVIOUS
    <3> QED BY <1>5, <1>14, <3>1
  <2> QED BY <1>5, <1>10, <1>12, <1>13, <2>1, MimeStages
<1>16. \A e \in M : e <= 8
  <2>1. LineEnds(p, N, 6) \in SUBSET Nat
    BY LineEndsType
  <2>2. \A e \in N : e <= 8
    <3>1. N \in SUBSET Nat
      <4>1. LineEnds(p, h.nul, 5) \in SUBSET Nat
        BY LineEndsType
      <4> QED BY <1>3, <4>1 DEF N, AfterLine, Consumed
    <3> QED BY <1>9, <3>1
  <2> QED BY <2>1, <2>2 DEF Consumed
<1> HIDE DEF q2, M
<1>17. /\ 8 \in Nat /\ 5 \in Nat /\ p.from + (8 + 1) = ImageStart(r) /\ 8 + 1 <= p.len
       /\ q2.total_filesize - (8 + 1) - 1 + 5 = r.size /\ r.size < Ulong
  BY <1>1, <1>2, <1>4, <1>11, ConstantsAssumption
<1>18. LET o == StageFirst(q2, p, M, 8, 5)
       IN /\ o.ret = 0 /\ Begun(o.g, r, p.from + p.len) /\ o.g.shift = q2.shift
          /\ o.g.total_size = p.len - (8 + 1) /\ o.g.buffer_ptr = p.len - (8 + 1)
  BY <1>1, <1>11, <1>16, <1>17, StagesImage
<1>19. p.from + p.len = p.len
  BY <1>2
<1> QED BY <1>8, <1>10, <1>11, <1>15, <1>18, <1>19

\* The header and the part header, of Firefox: without the part header the call
\* does not return.
LEMMA FirefoxFirst ==
    ASSUME NEW r, Upload(r), r.ua = "Firefox",
           NEW p \in Packets, p.req = r, p.from = 0, p.len = 6 \/ 10 <= p.len,
           p.len # Mss \/ p.len = 6,
           NEW stack \in StackType
    PROVE  LET o == UpgradeCgi(InitGlobals, p, {}, stack)
           IN /\ o.ret = 0
              /\ \/ o.g.fatal
                 \/ /\ 10 <= p.len /\ Begun(o.g, r, p.len) /\ o.g.shift # 0
                    /\ o.g.total_size = p.len - 10 /\ o.g.buffer_ptr = p.len - 10
<1> DEFINE h   == ParseHeader(InitGlobals, p, {})
           nul == 0 .. 2
           q   == [h.g EXCEPT !.shift = 0]
           S     == LineStarts(p, nul, 0)
           stops == {s \in S : Kind(p, s) = "CLEN" \/ Empty(Kind(p, s))}
           stop  == LeastOr(stops, p.len)
           next  == IF stops = {} THEN p.len ELSE NextIdx(p, nul, stop)
           gb    == [q EXCEPT !.shift =
                        IF \E s \in S : s < stop /\ Kind(p, s) = "POST" THEN 1 ELSE @]
           tmp   == next + 1
           bnd   == NextIdx(p, nul, tmp)
           disp  == NextIdx(p, nul, bnd)
           ctype == NextIdx(p, nul, disp)
           gc    == [gb EXCEPT !.total_filesize = ContentLength(p.req) % Ulong,
                               !.content_length = 1]
           N     == Consumed(p, nul, 0, ctype)
<1>1. /\ r \in Requests /\ r.method = "POST" /\ ContentLength(r) < Ulong /\ p.len \in Nat
      /\ 6 <= p.len
  BY PacketType DEF Upload, WellCut
<1>2. h.g \in Globals /\ h.g.total_packets = 2 /\ h.g.browser = {"Firefox"} /\ h.nul = nul
  BY <1>1, FirefoxHeader
<1> HIDE DEF h, nul
<1>3. q \in Globals /\ q.browser = {"Firefox"} /\ q.shift = 0
  BY <1>2 DEF Globals
<1>4. UpgradeCgi(InitGlobals, p, {}, stack) = MimeFirefox(q, p, nul, 0)
  <2>1. InitGlobals.total_packets = 0
    BY DEF InitGlobals
  <2>2. UpgradeCgi(InitGlobals, p, {}, stack)
          = ParseMime(h.g, p, nul, [idx |-> h.idx, len |-> p.len, text |-> "whole"])
    BY <1>2, <2>1 DEF UpgradeCgi, AfterHeader, h
  <2> QED BY <1>2, <2>2 DEF ParseMime
<1> HIDE DEF q
<1>5. /\ ImageStart(r) = 10 /\ ContentLength(r) = r.size + 5 /\ r.size \in Nat
  BY <1>1, FirefoxKinds, RequestFacts
<1>6. /\ Kind(p, 0) = "POST" /\ Kind(p, 4) = "CLEN"
      /\ Kind(p, 3) = "HCT" /\ Kind(p, 6) = "BND" /\ Kind(p, 7) = "CDISP"
      /\ Kind(p, 8) = "CTYPE"
  BY <1>1, FirefoxKinds DEF Kind
<1>7. 3 \in LineEnds(p, nul, 0) /\ 4 \in LineEnds(p, nul, 0) /\ 4 \in LineEnds(p, nul, 4)
  BY <1>1, <1>6, LineEndIs DEF LineKinds, nul
<1>8. 0 \in S /\ 4 \in S /\ S \in SUBSET Nat /\ 1 \notin S /\ 2 \notin S /\ 3 \notin S
  <2>1. 0 \in S
    <3>1. 0 \in Nat /\ 0 <= 3
      OBVIOUS
    <3> QED BY <1>7, <3>1, LineStartIs
  <2>2. 4 \in S
    <3>1. 4 \in Nat /\ 0 \in Nat /\ 4 > 0 /\ 4 - 1 = 3 /\ 4 <= 4
      OBVIOUS
    <3> QED BY <1>7, <3>1, LineStartIs
  <2>3. 0 \notin LineEnds(p, nul, 0) /\ 1 \notin LineEnds(p, nul, 0) /\ 2 \notin LineEnds(p, nul, 0)
    BY LineEndIs DEF nul
  <2>4. 1 \notin S /\ 2 \notin S /\ 3 \notin S
    <3>1. /\ 1 \in Nat /\ 2 \in Nat /\ 3 \in Nat /\ 0 \in Nat
          /\ 1 - 1 = 0 /\ 2 - 1 = 1 /\ 3 - 1 = 2
      OBVIOUS
    <3> QED BY <2>3, <3>1, LineStartIs
  <2> QED BY <2>1, <2>2, <2>4, LineStartsType
<1> HIDE DEF S
<1>9. stop = 4 /\ stops # {}
  <2>1. 4 \in stops
    BY <1>6, <1>8
  <2>2. ASSUME NEW s \in stops
        PROVE  4 <= s
    <3>1. s \in Nat /\ s \in S /\ (s < 4 => s = 0 \/ s = 1 \/ s = 2 \/ s = 3)
      BY <1>8
    <3>2. s # 0
      BY <1>6 DEF Empty
    <3> QED BY <1>8, <3>1, <3>2
  <2>3. stops \in SUBSET Nat
    BY <1>8
  <2> HIDE DEF stops
  <2> QED BY <2>1, <2>2, <2>3, LeastIs
<1> HIDE DEF stop
<1>10. next = 5 /\ tmp = 6
  BY <1>7, <1>9, NextLine
<1>11. \E s \in S : s < stop /\ Kind(p, s) = "POST"
  BY <1>6, <1>8, <1>9
<1>12. gb = [q EXCEPT !.shift = 1]
  BY <1>11
<1>13. ~(stops = {} \/ Empty(Kind(p, stop)))
  BY <1>6, <1>9 DEF Empty
<1>14. CASE p.len = 6
  <2>1. LineEnds(p, nul, tmp) = {}
    BY <1>10, <1>14 DEF LineEnds
  <2>2. MimeFirefox(q, p, nul, 0) = Fault(gb, Consumed(p, nul, 0, next))
    BY <1>13, <2>1 DEF MimeFirefox, S, stop
  <2> DEFINE gf == [gb EXCEPT !.fatal = TRUE]
  <2>3. gf.fatal = TRUE
    BY <1>3, <1>12 DEF Globals
  <2>4. MimeFirefox(q, p, nul, 0) = Outcome(gf, Consumed(p, nul, 0, next), 0)
    BY <2>2 DEF Fault
  <2> HIDE DEF gf
  <2> QED BY <1>4, <2>3, <2>4 DEF Outcome
<1>15. CASE 10 <= p.len
  <2>1. 6 \in LineEnds(p, nul, 6) /\ 7 \in LineEnds(p, nul, 7) /\ 8 \in LineEnds(p, nul, 8)
    BY <1>1, <1>6, <1>15, LineEndIs DEF LineKinds, nul
  <2>2. ctype = 9
    <3>1. /\ NextIdx(p, nul, 6) = 6 + 1 /\ NextIdx(p, nul, 7) = 7 + 1
          /\ NextIdx(p, nul, 8) = 8 + 1
      BY <2>1, NextLine
    <3> QED BY <1>10, <3>1
  <2>3. MimeFirefox(q, p, nul, 0) = StageFirst(gc, p, N, ctype, tmp)
    <3>1. LineEnds(p, nul, tmp) # {}
      BY <1>10, <2>1
    <3> QED BY <1>13, <3>1 DEF MimeFirefox, S, stop
  <2>4. gc = [q EXCEPT !.shift = 1, !.total_filesize = ContentLength(r), !.content_length = 1]
    <3>1. ContentLength(p.req) % Ulong = ContentLength(r)
      BY <1>1, <1>5, ConstantsAssumption
    <3> HIDE DEF gb
    <3> QED BY <1>3, <1>12, <3>1 DEF Globals
  <2>10. \A e \in N : e <= 9
    <3>1. LineEnds(p, nul, 0) \in SUBSET Nat
      BY LineEndsType
    <3> HIDE DEF ctype
    <3> QED BY <2>2, <3>1 DEF Consumed, nul
  <2> HIDE DEF gc, N, ctype, tmp
  <2>5. /\ gc \in Globals /\ gc.browser = {"Firefox"} /\ gc.content_length = 1 /\ gc.shift = 1
        /\ gc.total_filesize = ContentLength(r)
    <3>1. ContentLength(r) \in Nat
      BY <1>5
    <3> QED BY <1>3, <2>4, <3>1 DEF Globals
  <2>6. /\ 9 \in Nat /\ 6 \in Nat /\ p.from + (9 + 1) = ImageStart(r) /\ 9 + 1 <= p.len
        /\ gc.total_filesize - (9 + 1) - 1 + 6 = r.size /\ r.size < Ulong
    BY <1>1, <1>5, <1>15, <2>5, ConstantsAssumption
  <2>7. p.len # Mss
    BY <1>1, <1>15
  <2>8. LET o == StageFirst(gc, p, N, 9, 6)
        IN /\ o.ret = 0 /\ Begun(o.g, r, p.from + p.len) /\ o.g.shift = gc.shift
           /\ o.g.total_size = p.len - (9 + 1) /\ o.g.buffer_ptr = p.len - (9 + 1)
    BY <1>1, <2>5, <2>6, <2>7, <2>10, StagesImage
  <2>9. p.from + p.len = p.len
    BY <1>1
  <2> QED BY <1>4, <1>10, <1>15, <2>2, <2>3, <2>5, <2>8, <2>9
<1> QED BY <1>14, <1>15

\* The second call for the segment the image began in stages nothing.
LEMMA SecondStagesNothing ==
    ASSUME NEW q \in Globals, NEW r \in Requests, NEW p \in Packets, Begun(q, r, p.len),
           q.shift # 0, q.total_size = q.buffer_ptr, q.total_size + p.len < r.size,
           NEW nul, NEW stack \in StackType
    PROVE  LET o == UpgradeCgi(q, p, nul, stack)
           IN /\ o.ret = 0 /\ (Lost(o.g) \/ Loads(o.g, r, p.len))
              /\ o.g.flashwrite = q.flashwrite /\ o.g.residue = q.residue
<1>1. /\ q.total_packets = 3 /\ "Safari" \notin q.browser /\ q.total_filesize = r.size
      /\ q.total_size \in Nat /\ p.len \in Nat /\ r.size \in Nat
  BY RequestFacts, PacketType DEF Begun, Globals
<1>2. CASE q.total_size = 0
  <2>1. UpgradeCgi(q, p, nul, stack) = Outcome(q, nul, 0)
    BY <1>1, <1>2 DEF UpgradeCgi
  <2> QED BY <1>1, <1>2, <2>1 DEF Outcome, Lost
<1>3. CASE q.total_size # 0
  <2> DEFINE qs   == [q EXCEPT !.shift = 0]
             size == (q.total_size + p.len) % Ulong
  <2>1. ~(size >= q.total_filesize)
    <3>1. \A n \in Nat : \A m \in Nat \ {0} : n % m \in Nat /\ n % m <= n
      BY Z3
    <3>2. size \in Nat /\ size <= q.total_size + p.len
      BY <1>1, <3>1, ConstantsAssumption
    <3> HIDE DEF size
    <3> QED BY <1>1, <3>2
  <2>2. UpgradeCgi(q, p, nul, stack) = StageData(q, p, nul)
    BY <1>1, <1>3 DEF UpgradeCgi
  <2>3. StageData(q, p, nul) = Outcome(qs, nul, 0)
    BY <2>1 DEF StageData
  <2>4. /\ qs.total_packets = 3 /\ qs.browser = q.browser /\ qs.total_filesize = r.size
        /\ qs.buffer_ptr = q.buffer_ptr /\ qs.buf = q.buf /\ qs.shift = 0
        /\ qs.flashwrite = q.flashwrite /\ qs.residue = q.residue
    BY <1>1 DEF Globals
  <2> HIDE DEF qs
  <2>5. Loads(qs, r, p.len)
    BY <1>1, <2>4 DEF Loads, Begun, ImageOf
  <2> QED BY <2>2, <2>3, <2>4, <2>5 DEF Outcome
<1> QED BY <1>2, <1>3

\* A call that only parses arms nothing.
LEMMA ParserArmsNothing ==
    ASSUME NEW q \in Globals, Ahead(q), q.total_packets # 3, NEW p \in Packets, NEW nul,
           NEW stack \in StackType
    PROVE  LET o == UpgradeCgi(q, p, nul, stack)
           IN /\ o.g \in Globals /\ Ahead(o.g)
              /\ o.g.flashwrite = q.flashwrite /\ o.g.residue = q.residue
<1> DEFINE h == ParseHeader(q, p, nul)
           w == [idx |-> h.idx, len |-> p.len, text |-> "whole"]
           o == UpgradeCgi(q, p, nul, stack)
<1>1. Parsed(q, h.g) /\ h.idx \in Nat
  BY ParseHeaderParsed
<1>2. Parsed(h.g, ParseMime(h.g, p, h.nul, w).g)
  <2>1. w \in StackType
    BY <1>1, PacketType DEF StackType
  <2> HIDE DEF h, w
  <2> QED BY <1>1, <2>1, ParseMimeParsed DEF Parsed
<1>3. Parsed(q, ParseMime(q, p, nul, stack).g)
  BY ParseMimeParsed
<1>4. \/ o.g = q \/ o.g = h.g \/ o.g = ParseMime(h.g, p, h.nul, w).g
      \/ o.g = ParseMime(q, p, nul, stack).g
  BY DEF UpgradeCgi, AfterHeader, Outcome
<1> HIDE DEF h, w, o
<1>5. o.g \in Globals /\ Ahead(o.g) /\ o.g.flashwrite = q.flashwrite /\ o.g.residue = q.residue
  BY <1>1, <1>2, <1>3, <1>4 DEF Parsed, SameTarget
<1> QED BY <1>5 DEF o

\* After the first segment of an upload, unless upgrade_cgi did not return.
LEMMA FirstUpload ==
    ASSUME NEW r, Upload(r), NEW p \in Packets, p.req = r, p.from = 0, p.len = r.cuts[1],
           NEW stack \in StackType
    PROVE  LET a == ScriptCall(InitGlobals, p, stack)
           IN \/ a.g.fatal
              \/ /\ a.hs = "FUNC" /\ Progress(a.g, r, p.len)
                 /\ ~a.g.flashwrite /\ ~a.g.residue
<1> DEFINE o1 == UpgradeCgi(InitGlobals, p, {}, stack)
           o2 == UpgradeCgi(o1.g, p, o1.nul, stack)
           done == /\ o2.ret = 0 /\ Progress(o2.g, r, p.len)
                   /\ o2.g.flashwrite = o1.g.flashwrite /\ o2.g.residue = o1.g.residue
<1>1. /\ r \in Requests /\ r.method = "POST" /\ p.len \in Nat /\ r.size \in Nat
      /\ \/ p.len = Len(HeaderLines(r))
         \/ /\ r.ua # "Chrome" /\ ImageStart(r) <= p.len /\ p.len # Mss
            /\ p.len + (p.len - ImageStart(r)) < r.size
  BY RequestFacts, PacketType DEF Upload, WellCut
<1>2. o1.g \in Globals /\ Ahead(o1.g) /\ ~o1.g.flashwrite /\ ~o1.g.residue
  <2>1. /\ InitGlobals \in Globals /\ Ahead(InitGlobals) /\ InitGlobals.total_packets # 3
        /\ ~InitGlobals.flashwrite /\ ~InitGlobals.residue
    BY InitGlobalsInv DEF GInv, InitGlobals
  <2>2. /\ o1.g \in Globals /\ Ahead(o1.g)
        /\ o1.g.flashwrite = InitGlobals.flashwrite /\ o1.g.residue = InitGlobals.residue
    BY <2>1, ParserArmsNothing
  <2> QED BY <2>1, <2>2
<1>3. SUFFICES ~o1.g.fatal => done
  <2> HIDE DEF o1
  <2>1. /\ o1.g.fatal => ScriptCall(InitGlobals, p, stack).g = o1.g
        /\ ~o1.g.fatal /\ o2.ret = 0
              => ScriptCall(InitGlobals, p, stack) = Reply(o2.g, "FUNC", FALSE)
    BY DEF ScriptCall, ScriptFirst, ScriptSecond, Reply, o1
  <2> HIDE DEF o2
  <2> QED BY <1>2, <1>3, <2>1 DEF Reply
\* The image began in the first segment.
<1>4. ASSUME Begun(o1.g, r, p.len), o1.g.shift # 0,
             ImageStart(r) <= p.len, p.len + (p.len - ImageStart(r)) < r.size,
             o1.g.total_size = p.len - ImageStart(r), o1.g.buffer_ptr = p.len - ImageStart(r),
             ImageStart(r) \in Nat
      PROVE  done
  <2> HIDE DEF o1
  <2>1. o1.g.total_size = o1.g.buffer_ptr /\ o1.g.total_size + p.len < r.size
    BY <1>1, <1>4
  <2>2. /\ o2.ret = 0 /\ (Lost(o2.g) \/ Loads(o2.g, r, p.len))
        /\ o2.g.flashwrite = o1.g.flashwrite /\ o2.g.residue = o1.g.residue
    <3>1. r \in Requests /\ o1.g \in Globals
      BY <1>1, <1>2
    <3> QED BY <1>4, <2>1, <3>1, SecondStagesNothing
  <2> HIDE DEF o2
  <2> QED BY <2>2 DEF Progress
<1>5. CASE r.ua = "Firefox"
  <2>1. Len(HeaderLines(r)) = 6 /\ ImageStart(r) = 10
    BY <1>1, <1>5, FirefoxKinds
  <2>2. (p.len = 6 \/ 10 <= p.len) /\ (p.len # Mss \/ p.len = 6)
    BY <1>1, <2>1
  <2>3. \/ o1.g.fatal
        \/ /\ 10 <= p.len /\ Begun(o1.g, r, p.len) /\ o1.g.shift # 0
           /\ o1.g.total_size = p.len - 10 /\ o1.g.buffer_ptr = p.len - 10
    BY <1>5, <2>2, FirefoxFirst
  <2>4. 10 <= p.len => p.len + (p.len - ImageStart(r)) < r.size
    BY <1>1, <2>1
  <2> HIDE DEF o1, o2
  <2> QED BY <1>4, <2>1, <2>3, <2>4
<1>6. CASE r.ua # "Firefox"
  <2>1. Len(HeaderLines(r)) = 5 /\ ImageStart(r) = 9
    BY <1>1, <1>6, PlainKinds
  <2>2. \/ p.len = 5
        \/ /\ r.ua = "IE" /\ 9 <= p.len /\ p.len # Mss
           /\ p.len + (p.len - ImageStart(r)) < r.size
    <3>1. r.ua \in {"IE", "Chrome"}
      BY <1>1, <1>6, RequestFacts DEF UserAgents, Upload, WellCut
    <3> QED BY <1>1, <2>1, <3>1
  <2>3. CASE p.len = 5
    <3>1. Waits(o1.g, r, 5) /\ LineEnds(p, o1.nul, 0) = {}
      BY <1>6, <2>3, HeaderAlone
    <3> HIDE DEF o1
    <3>2. o2 = ParseMime(o1.g, p, o1.nul, stack)
      BY <3>1 DEF UpgradeCgi, Waits
    <3>3. /\ o2.ret = 0 /\ o2.g.total_packets = o1.g.total_packets /\ o2.g.browser = {}
          /\ o2.g.total_filesize = o1.g.total_filesize
      BY <1>2, <3>1, <3>2, NoLineIdle DEF Waits
    <3>4. o2.g.flashwrite = o1.g.flashwrite /\ o2.g.residue = o1.g.residue
      BY <1>2, <3>1, ParserArmsNothing DEF Waits
    <3> HIDE DEF o2
    <3>5. Waits(o2.g, r, p.len)
      BY <2>3, <3>1, <3>3 DEF Waits
    <3> QED BY <3>3, <3>4, <3>5 DEF Progress
  <2>4. CASE 9 <= p.len /\ r.ua = "IE"
    <3>1. /\ Begun(o1.g, r, p.len) /\ o1.g.shift # 0
          /\ o1.g.total_size = p.len - 9 /\ o1.g.buffer_ptr = p.len - 9
      BY <2>2, <2>4, IeFirst
    <3> HIDE DEF o1, o2
    <3> QED BY <1>4, <2>1, <2>2, <2>4, <3>1
  <2> QED BY <2>2, <2>3, <2>4
<1> QED BY <1>5, <1>6

\* After the first segment of a GET of the upload page.
LEMMA FirstGet ==
    ASSUME NEW r \in Requests, r.method = "GET", NEW p \in Packets, p.req = r, NEW stack \in StackType
    PROVE  LET a == ScriptCall(InitGlobals, p, stack)
           IN a.g.fatal \/ (a.hs = "FUNC" /\ Lost(a.g) /\ ~a.g.flashwrite /\ ~a.g.residue)
<1> DEFINE h  == ParseHeader(InitGlobals, p, {})
           o1 == UpgradeCgi(InitGlobals, p, {}, stack)
           o2 == UpgradeCgi(o1.g, p, o1.nul, stack)
<1>1. h.g.total_packets = 1
  BY GetHeader
<1>2. o1 = Outcome(h.g, h.nul, 0)
  <2>1. InitGlobals.total_packets = 0
    BY DEF InitGlobals
  <2> QED BY <1>1, <2>1 DEF UpgradeCgi, AfterHeader
<1> HIDE DEF h
<1> HIDE DEF o2
<1>7. ~o1.g.flashwrite /\ ~o1.g.residue
  <2>1. /\ InitGlobals \in Globals /\ Ahead(InitGlobals) /\ InitGlobals.total_packets # 3
        /\ ~InitGlobals.flashwrite /\ ~InitGlobals.residue
    BY InitGlobalsInv DEF GInv, InitGlobals
  <2>2. o1.g.flashwrite = InitGlobals.flashwrite /\ o1.g.residue = InitGlobals.residue
    BY <2>1, ParserArmsNothing DEF o1
  <2> QED BY <2>1, <2>2
<1> USE DEF o2
<1>3. o1.g.total_packets = 1
  BY <1>1, <1>2 DEF Outcome
<1> HIDE DEF o1
<1>4. o2 = Outcome(o1.g, o1.nul, 0)
  BY <1>3 DEF UpgradeCgi
<1>5. /\ o1.g.fatal => ScriptCall(InitGlobals, p, stack).g = o1.g
      /\ ~o1.g.fatal /\ o2.ret = 0
            => ScriptCall(InitGlobals, p, stack) = Reply(o2.g, "FUNC", FALSE)
  BY DEF ScriptCall, ScriptFirst, ScriptSecond, Reply, o1
<1> HIDE DEF o2
<1>6. o2.g = o1.g /\ o2.ret = 0
  BY <1>4 DEF Outcome
<1> QED BY <1>3, <1>5, <1>6, <1>7 DEF Reply, Lost
-----------------------------------------------------------------------------
(* The segments after the first.                                           *)

\* An image that is all there is refused, answered with the error page or armed.
LEMMA FinishWhole ==
    ASSUME NEW q \in Globals, ~q.flashwrite, ~q.residue, NEW r, Upload(r),
           q.total_filesize = r.size, ImageOf(q, r, r.size), NEW nul
    PROVE  LET o == Finish(q, nul)
           IN o.ret # 0 /\ ~o.g.residue /\ (o.g.flashwrite => Whole(o.g))
<1> DEFINE qr == Refuse(q, nul).g
           qa == Arm(q, nul).g
<1>1. /\ r \in Requests /\ LoaderHwidAt < r.size /\ r.size <= BufSize /\ r.size \in Nat
      /\ LoaderHwidAt \in Nat
  BY RequestFacts, ConstantsAssumption DEF Upload, WellCut
<1>2. \/ Finish(q, nul) = Outcome(q, nul, 2)
      \/ Finish(q, nul) = Outcome(qr, nul, 2)
      \/ Finish(q, nul) = Outcome(qa, nul, 1)
  BY DEF Finish, Refuse, Arm, Outcome
<1>3. ~qr.residue /\ ~qr.flashwrite
  <2>1. qr = [q EXCEPT !.total_size = 0, !.total_filesize = 0,
                       !.total_packets = 0, !.hwiderror = TRUE]
    BY DEF Refuse, Outcome
  <2> HIDE DEF qr
  <2>2. qr.residue = q.residue /\ qr.flashwrite = q.flashwrite
    BY <2>1 DEF Globals
  <2> QED BY <2>2
<1>4. HwidPlace(q) < q.total_filesize /\ HwidPlace(q) \in Int
  BY <1>1, ConstantsAssumption DEF HwidPlace
<1>5. ~qa.residue /\ Whole(qa)
  <2> DEFINE loader == q.total_filesize <= LoaderMax
             res    == q.residue \/ (~q.httpd_no_hwid /\ HwidPlace(q) >= q.total_filesize)
  <2>1. qa = [q EXCEPT !.startSector = IF loader THEN 0 ELSE KernelSector,
                       !.endSector = IF loader THEN BackupEnd ELSE NormalEnd,
                       !.flash_base = IF loader THEN 0 ELSE KernelSector,
                       !.due = FALSE, !.flashwrite = TRUE, !.residue = res]
    BY DEF Arm, Outcome
  <2> HIDE DEF qa, loader
  <2>2. res = FALSE
    BY <1>1, <1>4
  <2> HIDE DEF res
  <2>3. qa.residue = res /\ qa.total_filesize = r.size /\ qa.buf = q.buf
    BY <2>1 DEF Globals
  <2>4. Whole(qa)
    BY <1>1, <2>3 DEF Whole, ImageOf
  <2> QED BY <2>2, <2>3, <2>4
<1> HIDE DEF qr, qa
<1> QED BY <1>2, <1>3, <1>5 DEF Outcome

\* What is staged where the image goes on: the buffer holds what it held, and
\* behind it the segment.
LEMMA StagedImage ==
    ASSUME NEW q, GInv(q), NEW r \in Requests, NEW at \in Nat, Begun(q, r, at),
           NEW p \in Packets, NEW size
    PROVE  /\ ImageOf(Staged(q, p, {}, size), r, q.buffer_ptr)
           /\ p.req = r /\ p.from = at => ImageOf(Staged(q, p, {}, size), r, q.buffer_ptr + p.len)
<1> DEFINE b == Memcpy(q.buf, q.buffer_ptr, p, {}, 0, p.len)
<1>1. /\ q \in Globals /\ q.buf \in Buffers /\ q.buffer_ptr \in Nat /\ p.len \in Nat
      /\ p.from \in Nat /\ DOMAIN q.buf = 0 .. BufSize - 1 /\ BufSize \in Nat
      /\ ImageStart(r) \in Nat
  <2>1. ImageStart(r) \in Nat
    BY DEF ImageStart, HeaderLines, MimeLines
  <2> QED BY <2>1, PacketType, ConstantsAssumption DEF GInv, Globals, Buffers
<1>2. /\ at = ImageStart(r) + q.buffer_ptr
      /\ \A k \in 0 .. BufSize - 1 : k < q.buffer_ptr => q.buf[k] = <<r, ImageStart(r) + k>>
  BY DEF Begun, ImageOf
<1>3. Staged(q, p, {}, size).buf = b
  BY <1>1 DEF Staged, Globals
<1>4. ASSUME NEW k \in 0 .. BufSize - 1
      PROVE  /\ k < q.buffer_ptr => b[k] = <<r, ImageStart(r) + k>>
             /\ p.req = r /\ p.from = at /\ k < q.buffer_ptr + p.len
                   => b[k] = <<r, ImageStart(r) + k>>
  <2>1. k \in Nat
    BY <1>1
  <2>2. k < q.buffer_ptr => b[k] = q.buf[k]
    BY <1>1, <2>1 DEF Memcpy
  <2>3. q.buffer_ptr <= k /\ k < q.buffer_ptr + p.len
           => b[k] = <<p.req, p.from + (0 + (k - q.buffer_ptr))>>
    BY <1>1, <2>1 DEF Memcpy, UnitAt
  <2>4. p.from = at => p.from + (0 + (k - q.buffer_ptr)) = ImageStart(r) + k
    BY <1>1, <1>2, <2>1
  <2> HIDE DEF b
  <2>5. k < q.buffer_ptr \/ q.buffer_ptr <= k
    BY <1>1, <2>1
  <2> QED BY <1>2, <2>2, <2>3, <2>4, <2>5
<1> HIDE DEF b
<1> QED BY <1>3, <1>4 DEF ImageOf

\* A segment while the image loads: the next one of the upload, or one that is
\* no data of it when what is left of the image is not one segment of this length.
LEMMA LoadsOn ==
    ASSUME NEW q, GInv(q), ~q.flashwrite, ~q.residue, NEW r, Upload(r), NEW at \in Nat,
           Loads(q, r, at), NEW p \in Packets,
           \/ p.req = r /\ p.from = at
           \/ p.len = 1 /\ at + 1 # ImageStart(r) + r.size
    PROVE  LET o == StageData(q, p, {})
           IN /\ ~o.g.residue
              /\ o.g.flashwrite => Whole(o.g)
              /\ o.ret = 0 /\ p.req = r /\ p.from = at => Loads(o.g, r, at + p.len)
<1> DEFINE size   == (q.total_size + p.len) % Ulong
           staged == Staged(q, p, {}, size)
<1>1. /\ q \in Globals /\ q.total_size \in Nat /\ q.buffer_ptr \in Nat /\ p.len \in Nat
      /\ q.total_size <= q.buffer_ptr /\ r \in Requests /\ r.size \in Nat
      /\ ImageStart(r) \in Nat
  <2>1. ImageStart(r) \in Nat
    BY DEF ImageStart, HeaderLines, MimeLines
  <2>2. r \in Requests /\ r.size \in Nat
    BY RequestFacts DEF Upload
  <2> QED BY <2>1, <2>2, PacketType DEF GInv, Ahead, Globals
<1>2. size \in Nat /\ size <= q.total_size + p.len
  <2>1. \A n \in Nat : \A m \in Nat \ {0} : n % m \in Nat /\ n % m <= n
    BY Z3
  <2> QED BY <1>1, <2>1, ConstantsAssumption
<1>3. /\ Begun(q, r, at) /\ q.shift = 0 /\ q.total_filesize = r.size /\ q.total_packets = 3
      /\ at = ImageStart(r) + q.buffer_ptr /\ "Safari" \notin q.browser
  BY DEF Loads, Begun
<1>4. /\ size >= r.size => StageData(q, p, {}) = Finish(staged, {})
      /\ ~(size >= r.size) => StageData(q, p, {}) = Outcome(staged, {}, 0)
  BY <1>3 DEF StageData, Staged
<1> HIDE DEF size
<1>5. /\ staged.buffer_ptr = q.buffer_ptr + p.len
      /\ staged.total_packets = 3 /\ staged.total_filesize = r.size
      /\ staged.browser = q.browser /\ staged.shift = 0
      /\ staged.flashwrite = q.flashwrite /\ staged.residue = q.residue
  BY <1>1, <1>3 DEF Staged, Globals
<1>6. staged \in Globals
  BY <1>2, <1>3, StagedSteps DEF Steps, GInv
<1>7. /\ ImageOf(staged, r, q.buffer_ptr)
      /\ p.req = r /\ p.from = at => ImageOf(staged, r, q.buffer_ptr + p.len)
  BY <1>1, <1>3, StagedImage
<1> HIDE DEF staged
<1>8. CASE size >= r.size
  <2>1. q.buffer_ptr + p.len >= r.size
    BY <1>1, <1>2, <1>8
  <2>2. ImageOf(staged, r, r.size)
    <3>1. \A n \in Nat : ImageOf(staged, r, n) /\ n >= r.size => ImageOf(staged, r, r.size)
      BY <1>1, ConstantsAssumption DEF ImageOf
    <3>2. CASE p.req = r /\ p.from = at
      BY <1>1, <1>7, <2>1, <3>1, <3>2
    <3>3. CASE p.len = 1 /\ at + 1 # ImageStart(r) + r.size
      <4>1. q.buffer_ptr >= r.size
        BY <1>1, <1>3, <2>1, <3>3
      <4> QED BY <1>1, <1>7, <3>1, <4>1
    <3> QED BY <3>2, <3>3
  <2>3. LET o == Finish(staged, {})
        IN o.ret # 0 /\ ~o.g.residue /\ (o.g.flashwrite => Whole(o.g))
    BY <1>5, <1>6, <2>2, FinishWhole
  <2> QED BY <1>4, <1>8, <2>3
<1>9. CASE ~(size >= r.size)
  <2>1. p.req = r /\ p.from = at => Loads(staged, r, at + p.len)
    <3>1. at + p.len = ImageStart(r) + (q.buffer_ptr + p.len)
      BY <1>1, <1>3
    <3> QED BY <1>3, <1>5, <1>7, <3>1 DEF Loads, Begun
  <2> QED BY <1>4, <1>5, <1>9, <2>1 DEF Outcome
<1> QED BY <1>8, <1>9

\* Any call of upgrade_cgi after the first segment: nothing but the whole image
\* is armed.
LEMMA OnlyWholeArmed ==
    ASSUME NEW q, GInv(q), ~q.flashwrite, ~q.residue, NEW r \in Requests, NEW at \in Nat,
           Progress(q, r, at), NEW p \in Packets, NEW stack \in StackType,
           \/ p.req = r /\ p.from = at
           \/ p.len = 1 /\ at + 1 # ImageStart(r) + r.size
    PROVE  LET o == UpgradeCgi(q, p, {}, stack)
           IN ~o.g.residue /\ (o.g.flashwrite => Whole(o.g))
<1> DEFINE o == UpgradeCgi(q, p, {}, stack)
<1>1. q \in Globals /\ Ahead(q)
  BY DEF GInv
<1>2. CASE q.total_packets = 2
  <2>1. o = ParseMime(q, p, {}, stack)
    BY <1>2 DEF UpgradeCgi
  <2>2. Parsed(q, o.g)
    BY <1>1, <2>1, ParseMimeParsed
  <2> HIDE DEF o
  <2>3. ~o.g.residue /\ ~o.g.flashwrite
    BY <2>2 DEF Parsed, SameTarget
  <2> QED BY <2>3 DEF o
<1>3. CASE Lost(q)
  <2>1. o.g = q
    BY <1>3 DEF Lost, UpgradeCgi, Outcome
  <2> QED BY <2>1
<1>4. CASE Upload(r) /\ Loads(q, r, at)
  <2>1. o.g = q \/ o = StageData(q, p, {})
    BY <1>4 DEF Loads, Begun, UpgradeCgi, Outcome
  <2>2. LET d == StageData(q, p, {})
        IN ~d.g.residue /\ (d.g.flashwrite => Whole(d.g))
    BY <1>4, LoadsOn
  <2> QED BY <2>1, <2>2
<1> QED BY <1>2, <1>3, <1>4 DEF Progress, Missed, Waits

\* A call for the next segment, or for none: the upload goes on.
LEMMA NextUpload ==
    ASSUME NEW q, GInv(q), ~q.flashwrite, ~q.residue, NEW r \in Requests, NEW at \in Nat,
           Progress(q, r, at), NEW p \in Packets, p.req = r, p.from = at,
           Waits(q, r, at) => p.len = 0 \/ (4 <= p.len /\ p.len # Mss),
           NEW stack \in StackType, Tame(stack)
    PROVE  LET o == UpgradeCgi(q, p, {}, stack)
           IN o.ret = 0 => /\ Progress(o.g, r, at + p.len)
                           /\ Waits(o.g, r, at + p.len) => Waits(q, r, at) /\ p.len = 0
<1> DEFINE o == UpgradeCgi(q, p, {}, stack)
<1>1. q \in Globals /\ p.len \in Nat
  BY PacketType DEF GInv
<1>2. CASE Lost(q)
  <2>1. o.g = q
    BY <1>2 DEF Lost, UpgradeCgi, Outcome
  <2>2. q.total_packets # 2
    BY <1>2 DEF Lost
  <2> HIDE DEF o
  <2> QED BY <1>2, <2>1, <2>2 DEF Progress, Waits, o
<1>3. CASE Upload(r) /\ Missed(q, r, at)
  <2>1. /\ q.total_packets = 2 /\ q.browser = {} /\ r.ua # "Firefox" /\ r.method = "POST"
        /\ ImageStart(r) = 9 /\ Len(HeaderLines(r)) = 5 /\ 9 <= at
    BY <1>3, PlainKinds DEF Missed, Upload
  <2>2. o = ParseMime(q, p, {}, stack)
    BY <2>1 DEF UpgradeCgi
  <2>3. o.g.total_packets = 2 /\ o.g.browser = {}
    BY <1>1, <2>1, <2>2, ImageIdle
  <2>4. 9 <= at + p.len /\ at + p.len # 5
    BY <1>1, <2>1
  <2> HIDE DEF o
  <2>5. Missed(o.g, r, at + p.len) /\ ~Waits(o.g, r, at + p.len)
    BY <2>1, <2>3, <2>4 DEF Missed, Waits
  <2> QED BY <1>3, <2>5 DEF Progress, o
<1>4. CASE Upload(r) /\ Waits(q, r, at) /\ p.len = 0
  <2>1. q.total_packets = 2 /\ q.browser = {}
    BY <1>4 DEF Waits
  <2>2. o = ParseMime(q, p, {}, stack)
    BY <2>1 DEF UpgradeCgi
  <2>3. LineEnds(p, {}, 0) = {}
    BY <1>4 DEF LineEnds
  <2>4. /\ o.g.total_packets = 2 /\ o.g.browser = {}
        /\ o.g.total_filesize = q.total_filesize
    BY <1>1, <2>1, <2>2, <2>3, NoLineIdle
  <2>5. at + p.len = at
    BY <1>4
  <2> HIDE DEF o
  <2>6. Waits(o.g, r, at + p.len)
    BY <1>4, <2>4, <2>5 DEF Waits
  <2> QED BY <1>4, <2>6 DEF Progress, o
<1>5. CASE Upload(r) /\ Waits(q, r, at) /\ 4 <= p.len /\ p.len # Mss
  <2>1. o = ParseMime(q, p, {}, stack)
    BY <1>5 DEF UpgradeCgi, Waits
  <2>2. Missed(o.g, r, at + p.len) \/ Loads(o.g, r, at + p.len)
    BY <1>1, <1>5, <2>1, PartInNext
  <2>3. ~Waits(o.g, r, at + p.len)
    BY <1>1, <1>5 DEF Waits
  <2> HIDE DEF o
  <2> QED BY <1>5, <2>2, <2>3 DEF Progress, o
<1>6. CASE Upload(r) /\ Loads(q, r, at) /\ ~Lost(q)
  <2>1. o = StageData(q, p, {})
    BY <1>6 DEF Loads, Begun, UpgradeCgi, Lost
  <2>2. o.ret = 0 => Loads(o.g, r, at + p.len)
    BY <1>6, <2>1, LoadsOn
  <2> HIDE DEF o
  <2>3. Loads(o.g, r, at + p.len) => ~Waits(o.g, r, at + p.len)
    BY DEF Loads, Begun, Waits
  <2> QED BY <1>6, <2>2, <2>3 DEF Progress, o
<1> QED BY <1>2, <1>3, <1>4, <1>5, <1>6 DEF Progress
-----------------------------------------------------------------------------
(* The steps.                                                              *)

\* An armed image that is whole stays whole.
LEMMA WholeStays ==
    ASSUME NEW q, NEW q2, Steps(q, q2), q.flashwrite, ~q.residue, Whole(q)
    PROVE  q2.flashwrite /\ ~q2.residue /\ Whole(q2)
<1>1. Frozen(q, q2)
  BY DEF Steps
<1>2. PICK r \in Requests : /\ 0 < r.size /\ r.size <= BufSize
                            /\ q.total_filesize = r.size /\ ImageOf(q, r, r.size)
  BY DEF Whole
<1>3. ImageOf(q2, r, r.size) /\ q2.total_filesize = r.size
  BY <1>1, <1>2 DEF Frozen, ImageOf
<1> QED BY <1>1, <1>2, <1>3 DEF Frozen, Whole

\* While a write is armed, First needs no more than that no connection opens.
LEMMA ArmedFirst ==
    ASSUME First, g.flashwrite, Steps(g, g'), \A d \in Conns : Open(d)' => Open(d)
    PROVE  First'
<1>1. ~g.residue /\ Whole(g) /\ \A c, d \in Conns : Open(c) /\ Open(d) => c = d
  BY DEF First
<1>2. g'.flashwrite /\ ~g'.residue /\ Whole(g')
  BY <1>1, WholeStays
<1>3. Whole(g)'
  BY <1>2 DEF Whole, ImageOf
<1>4. \A c, d \in Conns : Open(c)' /\ Open(d)' => c = d
  BY <1>1
<1> QED BY <1>2, <1>3, <1>4 DEF First

\* A frame for the connection that is open.
LEMMA HandleFrameOpen ==
    ASSUME TypeOK, NEW c \in Conns, Open(c), NEW a, NEW tcp, NEW seg, NEW at,
           HandleFrame(c, a, tcp, seg, at)
    PROVE  /\ \A d \in Conns : Open(d)' => Open(d)
           /\ \A d \in Conns : d # c => conn'[d] = conn[d]
           /\ conn'[c].tcp = (IF a.abort THEN "closed" ELSE tcp)
           /\ conn'[c].hs = a.hs /\ conn'[c].seg = seg /\ conn'[c].at = at
           /\ conn'[c].req = conn[c].req
<1> DEFINE tcp2 == IF a.abort THEN "closed" ELSE tcp
           new  == [conn[c] EXCEPT !.tcp = tcp2, !.hs = a.hs, !.seg = seg, !.at = at]
<1>1. conn \in [Conns -> ConnType] /\ conn[c] \in ConnType
  BY DEF TypeOK
<1>2. conn' = [conn EXCEPT ![c] = new]
  BY <1>1 DEF HandleFrame
<1>3. /\ new.tcp = tcp2 /\ new.hs = a.hs /\ new.seg = seg /\ new.at = at
      /\ new.req = conn[c].req
  BY <1>1 DEF ConnType
<1> HIDE DEF new
<1>4. conn'[c] = new /\ \A d \in Conns : d # c => conn'[d] = conn[d]
  BY <1>1, <1>2
<1>5. \A d \in Conns : Open(d)' => Open(d)
  BY <1>4 DEF Open
<1> QED BY <1>3, <1>4, <1>5

\* What httpd_appcall may answer to the first client while nothing is armed.
Goes(c, a, tcp, seg, at) ==
    \/ a.g.fatal
    \/ /\ ~a.g.residue
       /\ a.g.flashwrite => Whole(a.g)
       /\ ~a.g.flashwrite /\ ~a.abort /\ tcp # "closed" =>
             /\ a.hs = "NOGET" => a.g = InitGlobals /\ tcp # "established"
             /\ a.hs = "FUNC" =>
                   /\ Progress(a.g, conn[c].req, at)
                   /\ Waits(a.g, conn[c].req, at)
                         => seg = 1 /\ conn[c].req.cuts[1] = Len(HeaderLines(conn[c].req))

\* Such an answer keeps First, or the board hangs.
LEMMA HandleFrameFirst ==
    ASSUME TypeOK, First, NEW c \in Conns, Open(c),
           NEW a, NEW tcp, NEW seg, NEW at, Goes(c, a, tcp, seg, at),
           HandleFrame(c, a, tcp, seg, at), pc' # "hang"
    PROVE  First'
<1>1. /\ \A d \in Conns : Open(d)' => Open(d)
      /\ conn'[c].tcp = (IF a.abort THEN "closed" ELSE tcp)
      /\ conn'[c].hs = a.hs /\ conn'[c].seg = seg /\ conn'[c].at = at
      /\ conn'[c].req = conn[c].req
  BY HandleFrameOpen
<1>2. g' = a.g /\ ~a.g.fatal
  BY DEF HandleFrame
<1>3. ~g'.residue /\ (g'.flashwrite => Whole(g'))
  BY <1>2 DEF Goes
<1>4. \A d, e \in Conns : Open(d)' /\ Open(e)' => d = e
  BY <1>1 DEF First
<1>5. ASSUME ~g'.flashwrite, NEW d \in Conns, Open(d)'
      PROVE  Stage(g', conn'[d])
  <2>1. d = c
    BY <1>1, <1>5 DEF First
  <2>2. ~a.abort /\ tcp # "closed" /\ conn'[c].tcp = tcp
    BY <1>1, <1>5, <2>1 DEF Open
  <2>3. /\ a.hs = "NOGET" => g' = InitGlobals /\ tcp # "established"
        /\ a.hs = "FUNC" =>
              /\ Progress(g', conn[c].req, at)
              /\ Waits(g', conn[c].req, at)
                    => seg = 1 /\ conn[c].req.cuts[1] = Len(HeaderLines(conn[c].req))
    BY <1>2, <1>5, <2>2 DEF Goes
  <2> QED BY <1>1, <2>1, <2>2, <2>3 DEF Stage
<1>6. (Whole(g))' <=> Whole(g')
  BY DEF Whole, ImageOf
<1>7. \A d \in Conns : (Stage(g, conn[d]))' <=> Stage(g', conn'[d])
  BY DEF Stage, Progress, Lost, Missed, Waits, Loads, Begun, ImageOf
<1> QED BY <1>3, <1>4, <1>5, <1>6, <1>7 DEF First

\* Behind the header no line is a request line.
LEMMA NotFirst ==
    ASSUME NEW r \in Requests, NEW i \in Nat, i >= Len(HeaderLines(r))
    PROVE  KindAt(r, i) \notin {"GET", "POST"}
<1> DEFINE n == Len(HeaderLines(r))
<1>1. n \in Nat /\ Len(MimeLines) = 4 /\ r # Noise /\ r.size \in Nat
  BY RequestFacts DEF HeaderLines, MimeLines
<1>2. /\ i < n + 4 => KindAt(r, i) = MimeLines[i - n + 1]
      /\ i >= n + 4 => KindAt(r, i) \in {"IMG", "EOL", "TRL"}
  BY <1>1 DEF KindAt, ImageStart
<1> HIDE DEF n
<1>3. i < n + 4 => i - n + 1 = 1 \/ i - n + 1 = 2 \/ i - n + 1 = 3 \/ i - n + 1 = 4
  BY <1>1 DEF n
<1>4. i < n + 4 => MimeLines[i - n + 1] \in {"BND", "CDISP", "CTYPE", "BLANK"}
  BY <1>3 DEF MimeLines
<1> QED BY <1>1, <1>2, <1>4

\* The first data of the first connection.
LEMMA FirstDataGoes ==
    ASSUME IInv, Orderly, First, ~g.flashwrite, NEW c \in Conns, NEW stack \in Stacks,
           conn[c].tcp = "established", conn[c].hs = "NOGET", MoreData(c), NEW fin \in BOOLEAN,
           NEW tcp, tcp = (IF fin THEN "last_ack" ELSE "established")
    PROVE  LET p == Segment(c, NextCut(c))
               a == FirstCall(g, p, stack)
           IN Goes(c, [a EXCEPT !.abort = @ /\ ~fin], tcp, conn[c].seg + 1, conn[c].at + p.len)
<1> DEFINE r   == conn[c].req
           p   == Segment(c, NextCut(c))
           sc  == ScriptCall(g, p, stack)
           qn  == [g EXCEPT !.httpd_no_hwid = @ \/ p.req.path = "nohwid"]
<1>1. /\ p \in Packets /\ conn[c] \in ConnType /\ r \in Requests
      /\ stack \in StackType /\ p.len \in Nat /\ g \in Globals /\ conn[c].at \in Nat
  <2>1. TypeOK
    BY DEF IInv
  <2>2. p \in Packets /\ conn[c] \in ConnType
    BY <2>1, SegmentType
  <2>3. r \in Requests /\ conn[c].at \in Nat
    BY <2>2 DEF ConnType
  <2> QED BY <2>1, <2>2, <2>3, PacketType, ConstantsAssumption DEF TypeOK
<1>2. /\ g = InitGlobals /\ ~g.residue
      /\ (conn[c].seg = 0 /\ conn[c].at = 0) \/ (conn[c].seg = 1 /\ conn[c].at = r.cuts[1])
  BY DEF First, Stage, Open
<1>3. p.req = r /\ p.from = conn[c].at /\ p.len = r.cuts[conn[c].seg + 1]
  BY DEF Segment, NextCut
<1> HIDE DEF p
<1>4. CASE Kind(p, 0) \notin {"GET", "POST"}
  <2>1. [FirstCall(g, p, stack) EXCEPT !.abort = @ /\ ~fin] = Reply(g, "NOGET", TRUE /\ ~fin)
    BY <1>4 DEF FirstCall, Reply
  <2> QED BY <1>2, <2>1 DEF Goes, Reply, p
<1>5. CASE Kind(p, 0) \in {"GET", "POST"} /\ p.req.path # "cgi"
  <2>1. [FirstCall(g, p, stack) EXCEPT !.abort = @ /\ ~fin] = Reply(qn, "FILE", FALSE /\ ~fin)
    BY <1>5 DEF FirstCall, Reply
  <2>2. qn.residue = g.residue /\ qn.flashwrite = g.flashwrite
    BY <1>1 DEF Globals
  <2> HIDE DEF qn
  <2> QED BY <1>2, <2>1, <2>2 DEF Goes, Reply, p
<1>6. CASE Kind(p, 0) \in {"GET", "POST"} /\ p.req.path = "cgi"
  <2>1. FirstCall(g, p, stack) = sc
    BY <1>6 DEF FirstCall
  <2>2. sc = [g |-> sc.g, hs |-> sc.hs, abort |-> sc.abort]
    BY DEF ScriptCall, ScriptFirst, ScriptSecond, ScriptThird, Reply
  <2> HIDE DEF sc
  <2> DEFINE a == [sc EXCEPT !.abort = @ /\ ~fin]
  <2>3. a.g = sc.g /\ a.hs = sc.hs
    BY <2>2
  <2> SUFFICES Goes(c, a, tcp, conn[c].seg + 1, conn[c].at + p.len)
    BY <2>1 DEF p
  <2> HIDE DEF a
  <2>4. CASE r.method = "GET"
    <3>1. sc.g.fatal \/ (sc.hs = "FUNC" /\ Lost(sc.g) /\ ~sc.g.flashwrite /\ ~sc.g.residue)
      BY <1>1, <1>2, <1>3, <2>4, FirstGet DEF sc
    <3>2. Lost(sc.g) => ~Waits(sc.g, r, conn[c].at + p.len)
      BY DEF Lost, Waits
    <3> QED BY <2>3, <3>1, <3>2 DEF Goes, Progress
  <2>5. CASE r.method = "POST"
    <3>1. Upload(r)
      BY <1>1, <1>3, <1>6, <2>5 DEF Upload, Orderly
    <3>2. Len(HeaderLines(r)) \in Nat /\ Len(MimeLines) = 4 /\ ImageStart(r) = Len(HeaderLines(r)) + 4
      BY DEF HeaderLines, MimeLines, ImageStart
    <3>3. conn[c].seg = 0 /\ conn[c].at = 0
      <4>1. ASSUME conn[c].at = r.cuts[1]
            PROVE  FALSE
        <5>1. r.cuts[1] >= Len(HeaderLines(r))
          BY <1>1, <3>1, <3>2, <4>1 DEF Upload, WellCut
        <5>2. Kind(p, 0) = KindAt(r, r.cuts[1])
          BY <1>1, <1>3, <4>1 DEF Kind
        <5> QED BY <1>1, <1>6, <4>1, <5>1, <5>2, NotFirst
      <4> QED BY <1>2, <4>1
    <3>4. p.len = r.cuts[1] /\ p.from = 0 /\ conn[c].seg + 1 = 1 /\ conn[c].at + p.len = p.len
      BY <1>1, <1>3, <3>3
    <3>5. \/ sc.g.fatal
          \/ /\ sc.hs = "FUNC" /\ Progress(sc.g, r, p.len)
             /\ ~sc.g.flashwrite /\ ~sc.g.residue
      BY <1>1, <1>2, <1>3, <3>1, <3>4, FirstUpload DEF sc
    <3>6. Waits(sc.g, r, p.len) => r.cuts[1] = Len(HeaderLines(r))
      BY <3>4 DEF Waits
    <3> QED BY <2>3, <3>4, <3>5, <3>6 DEF Goes
  <2>6. r.method \in {"GET", "POST"}
    BY <1>1, RequestFacts
  <2> QED BY <2>4, <2>5, <2>6
<1> QED BY <1>4, <1>5, <1>6

\* Data or the close of the first connection in state HTTP_FUNC.
LEMMA FuncGoes ==
    ASSUME IInv, Orderly, First, ~g.flashwrite, NEW c \in Conns, Open(c), NEW stack \in Stacks,
           conn[c].hs = "FUNC", NEW len \in 0 .. Ulong - 1, NEW tcp, NEW seg,
           (len = 0 /\ seg = conn[c].seg) \/ (MoreData(c) /\ len = NextCut(c))
    PROVE  Goes(c, FuncCall(g, Segment(c, len), stack), tcp, seg, conn[c].at + len)
<1> DEFINE r  == conn[c].req
           at == conn[c].at
           p  == Segment(c, len)
           o  == UpgradeCgi(g, p, {}, stack)
<1>1. /\ p \in Packets /\ r \in Requests /\ at \in Nat
      /\ stack \in StackType /\ Tame(stack) /\ GInv(g) /\ ~g.residue
  <2>1. TypeOK /\ GInv(g)
    BY DEF IInv
  <2>2. p \in Packets /\ conn[c] \in ConnType
    BY <2>1, SegmentType
  <2>3. r \in Requests /\ at \in Nat
    BY <2>2 DEF ConnType
  <2> QED BY <2>1, <2>2, <2>3, ConstantsAssumption DEF Orderly, First
<1>2. /\ Progress(g, r, at)
      /\ Waits(g, r, at) => conn[c].seg = 1 /\ r.cuts[1] = Len(HeaderLines(r))
  BY DEF First, Stage
<1>3. p.req = r /\ p.from = at /\ p.len = len
  BY DEF Segment
<1> HIDE DEF p
<1>4. ASSUME Waits(g, r, at), MoreData(c), len = NextCut(c)
      PROVE  4 <= len /\ len # Mss
  <2>1. Upload(r)
    BY <1>2, <1>4 DEF Progress, Lost, Waits
  <2>2. /\ Len(HeaderLines(r)) \in Nat /\ Len(MimeLines) = 4
        /\ ImageStart(r) = Len(HeaderLines(r)) + 4
    BY DEF HeaderLines, MimeLines, ImageStart
  <2>3. Len(r.cuts) > 1 /\ len = r.cuts[2]
    BY <1>2, <1>4 DEF MoreData, NextCut
  <2>4. ~(r.cuts[1] >= ImageStart(r))
    BY <1>2, <1>4, <2>2
  <2> QED BY <2>1, <2>2, <2>3, <2>4 DEF Upload, WellCut
<1>5. Waits(g, r, at) => p.len = 0 \/ (4 <= p.len /\ p.len # Mss)
  BY <1>3, <1>4
<1>6. ~o.g.residue /\ (o.g.flashwrite => Whole(o.g))
  BY <1>1, <1>2, <1>3, OnlyWholeArmed
<1>7. o.ret = 0 => /\ Progress(o.g, r, at + len)
                   /\ Waits(o.g, r, at + len) => Waits(g, r, at) /\ len = 0
  <2>1. o.ret = 0 => /\ Progress(o.g, r, at + p.len)
                     /\ Waits(o.g, r, at + p.len) => Waits(g, r, at) /\ p.len = 0
    BY <1>1, <1>2, <1>3, <1>5, NextUpload
  <2> QED BY <1>3, <2>1
<1>8. Waits(g, r, at) /\ len = 0 => seg = 1 /\ r.cuts[1] = Len(HeaderLines(r))
  <2>1. Waits(g, r, at) /\ len = 0 => seg = conn[c].seg
    BY <1>4
  <2> QED BY <1>2, <2>1
<1>9. FuncCall(g, p, stack) = Reply(o.g, IF o.ret = 0 THEN "FUNC" ELSE "FILE", FALSE)
  BY DEF FuncCall, FuncReply
<1> HIDE DEF o
<1> SUFFICES Goes(c, FuncCall(g, p, stack), tcp, seg, at + len)
  BY DEF p
<1> QED BY <1>6, <1>7, <1>8, <1>9 DEF Goes, Reply

\* A frame for an open connection.
LEMMA FrameFirst ==
    ASSUME IInv, Orderly, First, NoLateReset, NEW c \in Conns, Frame(c), opens' = opens,
           pc' # "hang"
    PROVE  First'
<1>1. TypeOK /\ conn[c] \in ConnType /\ Steps(g, g')
  BY FrameStep DEF IInv, TypeOK
<1>2. /\ conn[c].req \in Requests /\ conn[c].at \in Nat /\ conn[c].seg \in Nat
      /\ conn[c].hs \in {"NOGET", "FILE", "FUNC"} /\ ~g.residue
  BY <1>1 DEF ConnType, First
<1>3. ASSUME NEW r \in Requests, NEW n \in {0, 1}, Connect(c, r, n)
      PROVE  FALSE
  BY <1>1, <1>3 DEF Connect, TypeOK
\* A call that leaves the globals alone.
<1>4. ASSUME ~g.flashwrite, NEW hs, NEW tcp, NEW seg, NEW at,
             hs = "FILE" \/ (hs = "NOGET" /\ conn[c].hs = "NOGET" /\ tcp # "established")
                 \/ tcp = "closed",
             Open(c)
      PROVE  Goes(c, Reply(g, hs, FALSE), tcp, seg, at)
  <2>1. conn[c].hs = "NOGET" => g = InitGlobals
    BY <1>4 DEF First, Stage
  <2> QED BY <1>2, <1>4, <2>1 DEF Goes, Reply
<1>5. ASSUME NEW fin \in BOOLEAN, NEW stack \in Stacks, NewData(c, fin, stack)
      PROVE  First'
  <2> DEFINE p   == Segment(c, NextCut(c))
             a   == Appcall(g, conn[c].hs, TRUE, p, stack)
             a2  == [a EXCEPT !.abort = @ /\ ~fin]
             tcp == IF fin THEN "last_ack" ELSE "established"
  <2>1. /\ conn[c].tcp = "established" /\ MoreData(c) /\ Open(c)
        /\ HandleFrame(c, a2, tcp, conn[c].seg + 1, conn[c].at + p.len)
    BY <1>5 DEF NewData, Open
  <2>2. p.len = NextCut(c) /\ NextCut(c) \in 0 .. Ulong - 1
    BY <1>1, <2>1, SegmentType DEF Segment
  <2>3. CASE g.flashwrite
    <3>1. \A d \in Conns : Open(d)' => Open(d)
      <4> HIDE DEF a2, tcp, p
      <4> QED BY <1>1, <2>1, HandleFrameOpen
    <3> QED BY <1>1, <2>3, <3>1, ArmedFirst
  <2>4. CASE ~g.flashwrite
    <3>1. Goes(c, a2, tcp, conn[c].seg + 1, conn[c].at + p.len)
      <4>1. CASE conn[c].hs = "NOGET"
        <5>1. a = FirstCall(g, p, stack)
          BY <4>1 DEF Appcall
        <5> HIDE DEF a, p
        <5> QED BY <2>1, <2>4, <4>1, <5>1, FirstDataGoes DEF p
      <4>2. CASE conn[c].hs = "FUNC"
        <5> DEFINE f == FuncCall(g, p, stack)
        <5>1. a = f
          BY <4>2 DEF Appcall
        <5>2. f = [g |-> f.g, hs |-> f.hs, abort |-> FALSE]
          BY DEF FuncCall, FuncReply, Reply
        <5>3. Goes(c, f, tcp, conn[c].seg + 1, conn[c].at + p.len)
          <6>1. Goes(c, FuncCall(g, Segment(c, NextCut(c)), stack), tcp, conn[c].seg + 1,
                     conn[c].at + NextCut(c))
            <7> HIDE DEF tcp
            <7> QED BY <2>1, <2>2, <2>4, <4>2, FuncGoes
          <6> QED BY <2>2, <6>1
        <5> HIDE DEF a, f
        <5>4. a2.g = f.g /\ a2.hs = f.hs /\ ~f.abort
          BY <5>1, <5>2
        <5> HIDE DEF a2
        <5> QED BY <5>3, <5>4 DEF Goes
      <4>3. CASE conn[c].hs = "FILE"
        <5> DEFINE f == Reply(g, "FILE", FALSE)
        <5>1. a = f
          BY <4>3 DEF Appcall
        <5>2. Goes(c, f, tcp, conn[c].seg + 1, conn[c].at + p.len)
          <6> HIDE DEF tcp
          <6> QED BY <1>4, <2>1, <2>4
        <5>3. a2.g = f.g /\ a2.hs = f.hs /\ ~f.abort
          BY <5>1 DEF Reply
        <5> HIDE DEF a2, f
        <5> QED BY <5>2, <5>3 DEF Goes
      <4> QED BY <1>2, <4>1, <4>2, <4>3
    <3> HIDE DEF a2, tcp, p
    <3> QED BY <1>1, <2>1, <3>1, HandleFrameFirst
  <2> QED BY <2>3, <2>4
<1>6. ASSUME NEW stack \in Stacks, PeerClose(c, stack)
      PROVE  First'
  <2> DEFINE a   == Appcall(g, conn[c].hs, FALSE, Segment(c, 0), stack)
             tcp == IF conn[c].tcp = "established" THEN "last_ack" ELSE "closed"
  <2>1. Open(c) /\ HandleFrame(c, a, tcp, conn[c].seg, conn[c].at)
    BY <1>6 DEF PeerClose, Open
  <2>2. CASE g.flashwrite
    <3>1. \A d \in Conns : Open(d)' => Open(d)
      <4> HIDE DEF a, tcp
      <4> QED BY <1>1, <2>1, HandleFrameOpen
    <3> QED BY <1>1, <2>2, <3>1, ArmedFirst
  <2>3. CASE ~g.flashwrite
    <3>1. Goes(c, a, tcp, conn[c].seg, conn[c].at)
      <4>1. CASE conn[c].hs = "FUNC"
        <5>1. a = FuncCall(g, Segment(c, 0), stack)
          BY <4>1 DEF Appcall
        <5>2. Goes(c, FuncCall(g, Segment(c, 0), stack), tcp, conn[c].seg, conn[c].at + 0)
          <6>1. 0 \in 0 .. Ulong - 1
            BY ConstantsAssumption
          <6> HIDE DEF tcp
          <6> QED BY <2>1, <2>3, <4>1, <6>1, FuncGoes
        <5>3. conn[c].at + 0 = conn[c].at
          BY <1>2
        <5> HIDE DEF a
        <5> QED BY <5>1, <5>2, <5>3
      <4>2. CASE conn[c].hs # "FUNC"
        <5>1. a = Reply(g, conn[c].hs, FALSE)
          BY <4>2 DEF Appcall
        <5>2. tcp # "established"
          OBVIOUS
        <5> HIDE DEF a, tcp
        <5> QED BY <1>2, <1>4, <2>1, <2>3, <4>2, <5>1, <5>2
      <4> QED BY <4>1, <4>2
    <3> HIDE DEF a, tcp
    <3> QED BY <1>1, <2>1, <3>1, HandleFrameFirst
  <2> QED BY <2>2, <2>3
<1>7. ASSUME NEW stack \in Stacks, PeerReset(c, stack)
      PROVE  First'
  <2> DEFINE p == [req |-> Noise, from |-> 0, len |-> 1]
             a == Appcall(g, conn[c].hs, FALSE, p, stack)
  <2>1. Open(c) /\ HandleFrame(c, a, "closed", conn[c].seg, conn[c].at)
    BY <1>7 DEF PeerReset, Open
  <2>2. p \in Packets /\ stack \in StackType /\ p.len = 1
    BY ConstantsAssumption DEF Packets
  <2> HIDE DEF p
  <2>3. CASE g.flashwrite
    <3>1. \A d \in Conns : Open(d)' => Open(d)
      <4> HIDE DEF a
      <4> QED BY <1>1, <2>1, HandleFrameOpen
    <3> QED BY <1>1, <2>3, <3>1, ArmedFirst
  <2>4. CASE ~g.flashwrite
    <3>1. Goes(c, a, "closed", conn[c].seg, conn[c].at)
      <4>1. CASE conn[c].hs = "FUNC"
        <5> DEFINE o == UpgradeCgi(g, p, {}, stack)
        <5>1. Progress(g, conn[c].req, conn[c].at)
          BY <2>1, <2>4, <4>1 DEF First, Stage
        <5>2. conn[c].at + 1 # ImageStart(conn[c].req) + conn[c].req.size
          BY <1>7 DEF NoLateReset
        <5>3. ~o.g.residue /\ (o.g.flashwrite => Whole(o.g))
          <6>1. GInv(g)
            BY DEF IInv
          <6> QED BY <1>2, <2>2, <2>4, <5>1, <5>2, <6>1, OnlyWholeArmed
        <5>4. a.g = o.g
          BY <4>1 DEF Appcall, FuncCall, FuncReply, Reply
        <5> HIDE DEF a, o
        <5> QED BY <5>3, <5>4 DEF Goes
      <4>2. CASE conn[c].hs # "FUNC"
        <5>1. a = Reply(g, conn[c].hs, FALSE)
          BY <4>2 DEF Appcall
        <5> HIDE DEF a
        <5> QED BY <1>4, <2>1, <2>4, <5>1
      <4> QED BY <4>1, <4>2
    <3> HIDE DEF a
    <3> QED BY <1>1, <2>1, <3>1, HandleFrameFirst
  <2> QED BY <2>3, <2>4
<1>8. ASSUME NEW hs, NEW tcp, hs = "FILE" \/ tcp = "closed", Open(c),
             HandleFrame(c, Reply(g, hs, FALSE), tcp, conn[c].seg, conn[c].at)
      PROVE  First'
  <2>1. CASE g.flashwrite
    <3>1. \A d \in Conns : Open(d)' => Open(d)
      BY <1>1, <1>8, HandleFrameOpen
    <3> QED BY <1>1, <2>1, <3>1, ArmedFirst
  <2>2. CASE ~g.flashwrite
    BY <1>1, <1>4, <1>8, <2>2, HandleFrameFirst
  <2> QED BY <2>1, <2>2
<1>9. PageAcked(c) => First'
  BY <1>8 DEF PageAcked, Open
<1>10. PeerFin(c) => First'
  BY <1>8 DEF PeerFin, Open
<1> QED BY <1>3, <1>5, <1>6, <1>7, <1>9, <1>10 DEF Frame

\* A step that leaves the globals and the connections alone.
LEMMA SameFirst ==
    ASSUME First, g' = g, conn' = conn
    PROVE  First'
<1>1. (Whole(g))' <=> Whole(g)
  BY DEF Whole, ImageOf
<1>2. \A d \in Conns : /\ (Stage(g, conn[d]))' <=> Stage(g, conn[d])
                       /\ Open(d)' <=> Open(d)
  BY DEF Stage, Progress, Lost, Missed, Waits, Loads, Begun, ImageOf, Open
<1> QED BY <1>1, <1>2 DEF First

\* First with every connection closed.
LEMMA ClosedFirst ==
    ASSUME ~g'.residue, g'.flashwrite => Whole(g'), conn' = ClosedConns
    PROVE  First'
<1>1. (Whole(g))' <=> Whole(g')
  BY DEF Whole, ImageOf
<1>2. \A d \in Conns : ~Open(d)'
  BY DEF Open, ClosedConns
<1> QED BY <1>1, <1>2 DEF First

\* Every step keeps the invariant of the upload.
LEMMA NextUInv ==
    ASSUME IInv, Orderly, UInv, [Next]_vars, [NoLateReset]_vars
    PROVE  UInv'
<1>1. TypeOK /\ IInv' /\ (pc = "boot" \/ Steps(g, g')) /\ opens \in Nat
  BY NextIInv, RecoveryAssumption DEF IInv, TypeOK
\* A step that leaves the globals and the connections alone.
<1>2. ASSUME g' = g, conn' = conn, opens' = opens, pc \in {"hang", "boot"} => pc' \in {"hang", "boot"}
      PROVE  UInv'
  BY <1>2, SameFirst DEF UInv, Open
\* Nothing is armed before the first connection.
<1>3. opens = 0 => ~g.flashwrite
  BY DEF UInv, InitGlobals
<1>4. ASSUME NEW c \in Conns, Frame(c), NoLateReset
      PROVE  UInv'
  <2>1. pc \notin {"hang", "boot"}
    BY <1>4, Zenon DEF Frame, Connect, NewData, PeerClose, PageAcked, PeerFin, PeerReset, ReadyForFrame
  <2>2. CASE \E r \in Requests : \E n \in {0, 1} : Connect(c, r, n)
    <3>1. PICK r \in Requests : \E n \in {0, 1} : Connect(c, r, n)
      BY <2>2
    <3>2. PICK n \in {0, 1} : Connect(c, r, n)
      BY <3>1
    <3> DEFINE k == [tcp |-> "established", hs |-> "NOGET", req |-> r,
                     seg |-> n, at |-> IF n = 0 THEN 0 ELSE r.cuts[1]]
    <3>3. opens' = opens + 1 /\ g' = g /\ conn' = [conn EXCEPT ![c] = k]
      BY <3>2 DEF Connect
    <3>4. CASE opens = 0
      <4>1. g' = InitGlobals /\ \A d \in Conns : ~Open(d)
        BY <3>3, <3>4 DEF UInv
      <4>2. conn'[c] = k /\ \A d \in Conns : d # c => conn'[d] = conn[d]
        BY <1>1, <3>3 DEF TypeOK
      <4>3. \A d \in Conns : Open(d)' => d = c
        BY <4>1, <4>2 DEF Open
      <4>4. Stage(g', conn'[c])
        <5>1. k.hs = "NOGET" /\ k.seg = n /\ k.req = r /\ k.at = (IF n = 0 THEN 0 ELSE r.cuts[1])
          OBVIOUS
        <5> HIDE DEF k
        <5> QED BY <4>1, <4>2, <5>1 DEF Stage
      <4>5. (Stage(g, conn[c]))' <=> Stage(g', conn'[c])
        BY DEF Stage, Progress, Lost, Missed, Waits, Loads, Begun, ImageOf
      <4>6. ~g'.residue /\ ~g'.flashwrite
        BY <4>1 DEF InitGlobals
      <4>7. First'
        BY <4>3, <4>4, <4>5, <4>6 DEF First
      <4> QED BY <3>3, <3>4, <4>7 DEF UInv
    <3>5. CASE opens # 0
      <4>1. opens' # 0 /\ opens' # 1
        BY <1>1, <3>3, <3>5
      <4> QED BY <4>1 DEF UInv
    <3> QED BY <3>4, <3>5
  <2>3. CASE ~\E r \in Requests : \E n \in {0, 1} : Connect(c, r, n)
    <3>1. opens' = opens /\ Open(c)
      BY <1>4, <2>3, Zenon DEF Frame, NewData, PeerClose, PageAcked, PeerFin, PeerReset, HandleFrame, Open
    <3>2. opens # 0
      BY <3>1 DEF UInv
    <3>3. CASE opens = 1 /\ pc' # "hang"
      <4>1. First
        BY <2>1, <3>3 DEF UInv
      <4>2. First'
        BY <1>4, <3>1, <3>3, <4>1, FrameFirst
      <4> QED BY <3>1, <3>2, <4>2 DEF UInv
    <3>4. CASE ~(opens = 1 /\ pc' # "hang")
      BY <3>1, <3>2, <3>4 DEF UInv
    <3> QED BY <3>3, <3>4
  <2> QED BY <2>2, <2>3
\* A step of an armed write.
<1>5. ASSUME g.flashwrite, conn' = conn, opens' = opens, pc \notin {"hang", "boot"}
      PROVE  UInv'
  <2>1. opens # 0
    BY <1>3, <1>5
  <2>2. opens = 1 => First'
    <3>1. \A d \in Conns : Open(d)' => Open(d)
      BY <1>5 DEF Open
    <3> QED BY <1>1, <1>5, <3>1, ArmedFirst DEF UInv
  <2> QED BY <1>5, <2>1, <2>2 DEF UInv
<1>6. FinDelay \/ StartUpgrade \/ EraseSector \/ WriteSector \/ FinishUpgrade => UInv'
  <2>1. FinDelay \/ StartUpgrade => UInv'
    BY <1>5 DEF FinDelay, StartUpgrade
  <2>2. EraseSector \/ WriteSector \/ FinishUpgrade => UInv'
    BY <1>5 DEF EraseSector, WriteSector, FinishUpgrade, IInv, Writing
  <2> QED BY <2>1, <2>2
<1>7. NoFrame \/ Reset \/ CtrlC \/ PowerLoss => UInv'
  BY <1>2 DEF NoFrame, Reset, CtrlC, PowerLoss
<1>8. ASSUME Reenter
      PROVE  UInv'
  <2>1. g' = g /\ conn' = ClosedConns /\ opens' = opens /\ pc = "cli"
    BY <1>8 DEF Reenter
  <2>2. \A d \in Conns : ~Open(d)'
    BY <2>1 DEF Open, ClosedConns
  <2>3. opens = 1 => First'
    BY <2>1, ClosedFirst DEF UInv, First
  <2> QED BY <2>1, <2>2, <2>3 DEF UInv
<1>9. ASSUME EnterRecovery
      PROVE  UInv'
  <2>1. g' = InitGlobals /\ conn' = ClosedConns
    BY <1>9 DEF EnterRecovery
  <2>2. \A d \in Conns : ~Open(d)'
    BY <2>1 DEF Open, ClosedConns
  <2>3. ~g'.residue /\ ~g'.flashwrite
    BY <2>1 DEF InitGlobals
  <2>4. First'
    BY <2>1, <2>3, ClosedFirst
  <2> QED BY <2>1, <2>2, <2>4 DEF UInv
<1>10. UNCHANGED vars => UInv'
  BY <1>2 DEF vars
<1>11. CASE Next /\ NoLateReset
  BY <1>4, <1>6, <1>7, <1>8, <1>9, <1>11 DEF Next, Upgrade
<1> QED BY <1>10, <1>11

\* The units are those of one image.
LEMMA WholeOneUpload ==
    ASSUME IInv, UInv
    PROVE  OneUpload
<1> SUFFICES ASSUME Writing, opens = 1
             PROVE  LET r == g.buf[0][1]
                    IN /\ r \in Requests
                       /\ g.total_filesize = r.size
                       /\ \A k \in 0 .. g.total_filesize - 1 : g.buf[k] = <<r, ImageStart(r) + k>>
  BY DEF OneUpload
<1>1. g.flashwrite /\ pc \notin {"hang", "boot"}
  BY DEF IInv, Writing
<1>2. Whole(g)
  BY <1>1 DEF UInv, First
<1>3. PICK r \in Requests : /\ 0 < r.size /\ r.size <= BufSize
                            /\ g.total_filesize = r.size /\ ImageOf(g, r, r.size)
  BY <1>2 DEF Whole
<1>4. r.size \in Nat /\ BufSize \in Nat
  BY RequestFacts, ConstantsAssumption
<1>5. \A k \in 0 .. g.total_filesize - 1 : g.buf[k] = <<r, ImageStart(r) + k>>
  BY <1>3, <1>4 DEF ImageOf
<1>6. g.buf[0][1] = r
  BY <1>3, <1>4, <1>5
<1> QED BY <1>3, <1>5, <1>6

\* The image of the first client is written from its first unit to its last,
\* whatever the sizes of the image, the segments, the buffer and the flash, where
\* it has line ends and what it is cut into behind the part header.  What it
\* takes: uploads are well cut (for Chrome, the part header not in the segment of
\* the header), the uninitialised request_idx and request_len of cgi.c:299 send
\* get_request_line neither to the type line nor into the image nor behind the
\* start of the boundary (Tame), and no client resets its connection one unit
\* before the end of its image.
THEOREM FirstUploadWhole == Spec /\ Orderly /\ [][NoLateReset]_vars => []OneUpload
<1>1. Init => UInv
  BY DEF Init, UInv, Open, ClosedConns
<1>2. IInv /\ Orderly /\ UInv /\ [Next]_vars /\ [NoLateReset]_vars => UInv'
  BY NextUInv
<1>3. IInv /\ UInv => OneUpload
  BY WholeOneUpload
<1>4. Orderly => []Orderly
  <2>1. Orderly => Orderly'
    BY DEF Orderly
  <2> QED BY <2>1, PTL
<1> QED BY <1>1, <1>2, <1>3, <1>4, Invariant, PTL DEF Spec
=============================================================================
