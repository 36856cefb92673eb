------------------------------- MODULE MCCfuTool -------------------------------
(* A small instance of CfuTool; see README.md for the bounds. *)
EXTENDS CfuTool, TLC

CONSTANT a

OneTool == {a}

\* an image at an address whose lowest byte is zero
Whole(n) == [address |-> 255 + n, length |-> 1, cut |-> "no"]
FiveBlocks == [n \in 1 .. 5 |-> Whole(n)]

\* every way in which its file may have been cut, a record of length zero, a
\* record that is too long, and one that only seems so, cut at an address whose
\* lowest byte is too large for a length
CutAt(n, where) == SubSeq(FiveBlocks, 1, n - 1) \o <<[Whole(n) EXCEPT !.cut = where]>>
SomeFiles ==
  {SubSeq(FiveBlocks, 1, n) : n \in 0 .. 5}
    \cup {CutAt(n, where) : n \in {1, 2, 5}, where \in {"content", "header"}}
    \cup {[FiveBlocks EXCEPT ![3].length = 0], [FiveBlocks EXCEPT ![2].length = 53],
          <<Whole(104), [Whole(105) EXCEPT !.cut = "header"]>>}
===============================================================================
