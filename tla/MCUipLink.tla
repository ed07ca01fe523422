------------------------------ MODULE MCUipLink ------------------------------
EXTENDS UipLink
ModelAcks == 0 .. iss + PageLen + 2
ModelFlags == {{"SYN"}, {"ACK"}, {"FIN", "ACK"}}
=============================================================================
