------------------------------ MODULE MCUipArp ------------------------------
(* Addresses for TLC: the board and two hosts of the local network, a host  *)
(* of another network, an address with a zero word and 0.0.0.0.             *)
EXTENDS UipArp

Host    == <<1, 1>>
A       == <<1, 2>>
B       == <<1, 3>>
NetAddr == <<1, 0>>
Remote  == <<2, 2>>

Net     == {Host, A, B, NetAddr}
AllIPs  == {Zero, A, B, Remote, NetAddr}
=============================================================================
