------------------------------ MODULE CfuSession ------------------------------
(***************************************************************************)
(* What the CFU engine of Firmware/ComponentFwUpdate.c promises its hosts, *)
(* without its handlers, callbacks and timer.  The engine is ready for an  *)
(* offer, updating one component, or waiting for the bank swap.            *)
(***************************************************************************)
CONSTANT Component    \* the component ids that can be updated

VARIABLES phase,      \* "ready", "updating" or "swapPending"
          component   \* the component of the last accepted offer

vars == <<phase, component>>

Phase == {"ready", "updating", "swapPending"}

Init == phase = "ready"

(* An offer is accepted, and only by an engine that is ready. *)
Accept(c) == /\ phase = "ready"
             /\ phase' = "updating"
             /\ component' = c

(* The update ends without a swap to wait for: a failed content command, the *)
(* fail-safe timer, or the component's callback before the swap is pending.  *)
End == /\ phase = "updating"
       /\ phase' = "ready"
       /\ UNCHANGED component

(* The image has been handed to its component.  The callback may have ended *)
(* the session a moment earlier, so this happens in phase "ready" as well.  *)
Complete == /\ phase \in {"ready", "updating"}
            /\ phase' = "swapPending"
            /\ UNCHANGED component

(* The controller restarts: the only way out of "swapPending". *)
Reset == phase' = "ready"

Next == \/ \E c \in Component : Accept(c)
        \/ End
        \/ Complete
        \/ Reset

Spec == Init /\ [][Next]_vars
===============================================================================
