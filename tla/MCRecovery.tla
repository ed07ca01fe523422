----------------------------- MODULE MCRecovery -----------------------------
(* Requests for TLC.  An image of 26 units is a runtime image, one of 20 a  *)
(* loader, one of 22 a loader that is too large; 10 units fill a sector.    *)
(* With Mss 13, segments of 13 units are full ones.  Units 1 and 9 of every *)
(* image hold a line end.                                                   *)
EXTENDS Recovery, TLC

Post(ua, size, hwid, cuts) ==
    [method |-> "POST", path |-> "cgi", ua |-> ua, size |-> size, hwid |-> hwid,
     eols |-> {1, 9}, cuts |-> cuts]
Get(path) ==
    [method |-> "GET", path |-> path, ua |-> "IE", size |-> 0, hwid |-> {},
     eols |-> {}, cuts |-> <<3>>]
Stack(idx, len, text) == [idx |-> idx, len |-> len, text |-> text]

IeRuntime  == Post("IE", 26, {"end"}, <<12, 12, 12>>)
IeSplit    == Post("IE", 26, {"start", "end"}, <<5, 16, 15>>)
IeGood     == Post("IE", 26, {"start", "end"}, <<12, 12, 12>>)
IeForeign  == Post("IE", 26, {}, <<12, 12, 12>>)
IeHuge     == Post("IE", 36, {"start", "end"}, <<12, 17, 17>>)
Loader     == Post("IE", 20, {"start", "end"}, <<11, 10, 9>>)
ForeignLoader == Post("IE", 20, {}, <<11, 10, 9>>)
BigLoader  == Post("IE", 22, {"start", "end"}, <<11, 10, 11>>)
IeCut      == Post("IE", 26, {"end"}, <<8, 14, 14>>)
Tiny       == Post("IE", 2, {}, <<12>>)
Chrome     == Post("Chrome", 26, {"start", "end"}, <<5, 16, 15>>)
ChromeForeign == Post("Chrome", 26, {}, <<5, 16, 15>>)
Firefox    == Post("Firefox", 26, {"start", "end"}, <<14, 12, 11>>)
FirefoxForeign == Post("Firefox", 26, {}, <<14, 12, 11>>)
FirefoxSplit == Post("Firefox", 26, {"start", "end"}, <<6, 16, 15>>)
Safari     == Post("Safari", 26, {"start", "end"}, <<5, 4, 14, 13>>)
SafariForeign == Post("Safari", 26, {}, <<5, 4, 14, 13>>)

AllRequests == {IeRuntime, IeSplit, IeForeign, Loader, BigLoader, Tiny, IeCut,
                Chrome, Firefox, FirefoxSplit, Safari, SafariForeign,
                Get("/"), Get("nohwid"), Get("cgi")}

BrowserRequests == {IeGood, IeSplit, IeForeign, Loader, ForeignLoader, BigLoader,
                    Chrome, ChromeForeign, Firefox, FirefoxForeign, Safari, SafariForeign,
                    Get("/"), Get("nohwid"), Get("cgi")}

\* No line is read with it; the line read is the empty one, behind all that is
\* looked for; or one before.
NoStack   == {Stack(1000, 0, "whole")}
BrowserStacks == NoStack \cup {Stack(3, 1000, "tail")}
TameStacks == NoStack \cup {Stack(0, 1000, "whole"), Stack(0, 1000, "tail"),
                            Stack(1, 1000, "whole"), Stack(3, 1000, "tail")}

\* Connections differ in nothing.
Symmetry == Permutations(Conns)
\* Whose first segment, header and part header in it, is a full one at Mss 11.
FullRequests == {Loader}
BusyRequests == {IeGood, IeSplit, Loader, Get("/")}
HugeRequests == {IeHuge, IeRuntime}
=============================================================================
