----------------------------- MODULE MCCfuToolMain -----------------------------
(* A small instance of CfuToolMain; see README.md for the bounds. *)
EXTENDS CfuToolMain, TLC

CONSTANTS r1, r2, t1, t2

TwoTasks == {t1, t2}
TwoRegistrations == {r1, r2}

SomeCommandLines ==
  {[command |-> "none", argc |-> 1], [command |-> "other", argc |-> 2]}
    \cup [command : {"update"}, argc : {4, 5}]
    \cup [command : {"version"}, argc : {2, 3}]

Read(tag, value) == [tag |-> tag, value |-> value, long |-> FALSE]
Comment == Read("//", 0)

\* vendor 1, products 1 and 2, usage page 10, version usage 20
Good == <<Comment, Read("VID", 1), Read("PID", 1), Read("USAGEPAGE", 10),
          Read("USAGECOLLECTION", 5), Read("VERSION_FEATURE_USAGE", 20)>>
SomeSettings == {
  Good,
  SubSeq(Good, 1, 2) \o SubSeq(Good, 4, 6),          \* any product
  Good \o <<Read("PID", 2)>>,                        \* a later line
  SubSeq(Good, 1, 5),                                \* no version usage
  SubSeq(Good, 1, 3) \o SubSeq(Good, 5, 6),          \* no usage page
  [Good EXCEPT ![2].value = 65536],                  \* a vendor that is cut to zero
  SubSeq(Good, 1, 4) \o <<[Comment EXCEPT !.long = TRUE]>> \o SubSeq(Good, 5, 6)}

Controller == [kind |-> "controller", vid |-> 1, pid |-> 1, usagePage |-> 10, usage |-> 5,
               features |-> {20}, hasInput |-> TRUE, reportLength |-> 60]
Fixed(pid, v) == [kind |-> "fixed", vid |-> 1, pid |-> pid, usagePage |-> 10, usage |-> 5,
                  features |-> {20, 21}, hasInput |-> TRUE, reportLength |-> 60,
                  version |-> v]
Keyboard == [Fixed(1, "k") EXCEPT !.usagePage = 1, !.features = {}]
Short(v) == [Fixed(1, v) EXCEPT !.reportLength = 8]

SomeVersions == {"v", "w", "x", "k", "z"}

Vendorless == [Fixed(2, "z") EXCEPT !.vid = 0]

SomeLists == {
  <<>>,
  <<Keyboard>>,
  <<Controller>>,
  <<Fixed(1, "v"), Short("w"), Fixed(2, "x"), Keyboard, Vendorless>>,
  <<Controller, Fixed(1, "v"), Controller>>}

SomeEntries == {-1, 0, 1, 2, 3}
===============================================================================
