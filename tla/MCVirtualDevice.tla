---------------------------- MODULE MCVirtualDevice ----------------------------
(* Small instances of VirtualDevice; see README.md for the bounds. *)
EXTENDS VirtualDevice, TLC

CONSTANTS h1, h2, v1, v2

OneHost == {h1}
TwoHosts == {h1, h2}

OneVersion == {v1}
TwoVersions == {v1, v2}

\* both components and an id the device does not have
AllIds == {2, 48, 7}
===============================================================================
