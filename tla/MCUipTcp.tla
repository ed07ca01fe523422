------------------------------ MODULE MCUipTcp ------------------------------
(* Two peers, of which one connection may belong to each.                  *)
EXTENDS UipTcp, TLC
Symmetry == Permutations(Peers)
ModelFlags == {{"SYN"}, {"ACK"}, {"FIN", "ACK"}, {"RST"}}
=============================================================================
