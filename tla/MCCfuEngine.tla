------------------------------ MODULE MCCfuEngine ------------------------------
(* Small instances of CfuEngine; see README.md for the bounds. *)
EXTENDS CfuEngine, TLC

CONSTANTS i1, t1

OneImage == {i1}
OneToken == {t1}

OneComponent == {1}
TwoComponents == {1, 2}

\* the components, an id nobody registered, and the special id
SomeIds == {1, 2, 3, 254}
FewIds == {1, 3}
===============================================================================
