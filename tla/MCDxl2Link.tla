----------------------------- MODULE MCDxl2Link ------------------------------
(* A servo with values around the bytes of a header: none, stuffed at the   *)
(* end, stuffed in the middle.                                              *)
EXTENDS Dxl2Link

Values == {<<1, 0, 0, 0>>, <<FF, FF, FD>>, <<0, FF, FF, FD>>,
           <<FF, FF, FD, 0>>, <<2, 255>>}

(* Values that are not stuffed.                                             *)
PlainValues == {<<1, 0, 0, 0>>, <<2, 255>>}
=============================================================================
