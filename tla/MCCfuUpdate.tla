------------------------------ MODULE MCCfuUpdate ------------------------------
(* Small instances of CfuUpdate; see README.md for the bounds. *)
EXTENDS CfuUpdate, TLC

CONSTANTS a, b

OneRun == {a}
TwoRuns == {a, b}

\* an image at an address whose lowest byte is zero, and its blocks
At(n) == 256 + n
Whole(n) == [address |-> At(n), length |-> 1, cut |-> "no"]
Empty(n) == [Whole(n) EXCEPT !.length = 0]
TooLong(n) == [Whole(n) EXCEPT !.length = 53]
CutContent(n) == [Whole(n) EXCEPT !.cut = "content"]
CutHeader(n) == [Whole(n) EXCEPT !.cut = "header"]

TwoBlocks == {<<Whole(0), Whole(1)>>}

\* the file of three blocks, and what may have become of it
ThreeBlocks == {
  <<Whole(0), Whole(1), Whole(2)>>,
  <<Whole(0), Whole(1)>>,
  <<Whole(0)>>,
  <<Whole(0), Empty(1), Whole(2)>>,
  <<Whole(0), Whole(1), CutContent(2)>>,
  <<Whole(0), Whole(1), CutHeader(2)>>,
  <<Whole(0), Whole(1), Whole(2), CutHeader(3)>>,
  <<CutContent(0)>>,
  <<Whole(0), TooLong(1), Whole(2)>>}

\* files that yield no packet
NoPackets == {<<>>, <<Empty(0), Whole(1)>>, <<CutHeader(0)>>}

SameComponent == [t \in Tool |-> 1]
TwoComponents == [t \in Tool |-> IF t = a THEN 1 ELSE 2]
===============================================================================
