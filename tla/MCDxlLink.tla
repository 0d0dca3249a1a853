------------------------------ MODULE MCDxlLink ------------------------------
(* Two servos, one of them at a position with a 0xFF in it, and the bus     *)
(* traffic of two passes of loop(): the goal positions, then one read.      *)
EXTENDS DxlLink

TwoServos == {1, 2}
Positions(s) == IF s = 1 THEN <<3, 1>> ELSE <<15, 2>>
Models(s) == <<12, 0>>
TwoPasses == LET Write(s) == [kind |-> "write", id |-> s]
                 Read(s) == [kind |-> "read", id |-> s]
             IN <<Write(1), Write(2), Read(1), Write(1), Write(2), Read(2)>>
=============================================================================
