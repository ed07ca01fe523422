----------------------------- MODULE MCFlashCmd -----------------------------
(* Three sectors of one page of four cells, from address 16 to 27.  A write *)
(* from 17 fits up to a length of 7.                                        *)
EXTENDS FlashCmd

ModelAddrs == {16, 17, 20, 23, 28}
ModelLens  == {0, 6, 9, 63}
=============================================================================
