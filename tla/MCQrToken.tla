---------------------------- MODULE MCQrToken ----------------------------
(* Constants of the run of QrToken. *)
EXTENDS QrToken

\* Two kids, and a second pair under the first of them.
KeysHere == {[kid |-> "k1", par |-> "a"], [kid |-> "k2", par |-> "b"],
             [kid |-> "k1", par |-> "c"]}

\* Clocks as far off as is tolerated, a little, and more.
OffsetsHere == {-Seconds(Skew) - 1, -Seconds(Skew), -1, 0, 1, Seconds(Skew)}
===========================================================================
