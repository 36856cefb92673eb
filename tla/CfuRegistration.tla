---------------------------- MODULE CfuRegistration ----------------------------
(***************************************************************************)
(* The list of component registrations of Firmware/ComponentFwUpdate.c:    *)
(* IComponentFirmwareUpdateRegisterComponent, which any thread may call,   *)
(* and ProcessCFWUGetFWVersion, which walks the list and reports on every  *)
(* registration.  The critical section around a registration is left to    *)
(* the platform.                                                           *)
(***************************************************************************)
EXTENDS Naturals, FiniteSets

CONSTANTS
  Registration,  (* the COMPONENT_REGISTRATIONs of the firmware              *)
  Task,          (* the threads that register them                           *)
  Guarded,       (* whether the platform has filled in the critical section  *)
  CountModulus,  (* componentCount is a UINT8: 2^8 in the code               *)
  Walks          (* a bound: how many version reports are asked for          *)

ASSUME RegistrationAssumption ==
  /\ "NULL" \notin Registration
  /\ Guarded \in BOOLEAN
  /\ CountModulus \in Nat \ {0}
  /\ Walks \in Nat

VARIABLES
  first,      \* s_pFirstComponentIFace
  pNext,      \* the link of each registration
  inserting,  \* per task, the registration between the two assignments, or NULL
  called,     \* registrations that have been passed to the function
  cursor,     \* pRegistration of the walk
  walking,    \* whether a version report is being written
  listed,     \* the registrations whose insertion was complete when it began
  opening,    \* the registration whose version opens the report, if any
  seen,       \* the registrations it has visited
  count,      \* componentCount
  walks

listVars == <<first, pNext, inserting, called>>
walkVars == <<cursor, walking, listed, opening, seen, count, walks>>
registrationVars == <<listVars, walkVars>>

NULL == "NULL"

-------------------------------------------------------------------------------
(* Slip: the critical section is left out. *)
MayEnterSlip == TRUE

(* ENTER_CRITICAL_SECTION, where there is one. *)
MayEnter == Guarded => \A t \in Task : inserting[t] = NULL

(* Each registration object is registered by one call. *)
RegisterComponent(t, r) ==
  /\ r \notin called
  /\ inserting[t] = NULL
  /\ MayEnter
  /\ called' = called \cup {r}
  /\ pNext' = [pNext EXCEPT ![r] = first]
  /\ inserting' = [inserting EXCEPT ![t] = r]
  /\ UNCHANGED <<first, walkVars>>

(* Slip: the two assignments are swapped, so the link is the new head's own. *)
RegisterComponentHeadSlip(t) ==
  /\ inserting[t] # NULL
  /\ first' = inserting[t]
  /\ pNext' = [pNext EXCEPT ![inserting[t]] = inserting[t]]
  /\ inserting' = [inserting EXCEPT ![t] = NULL]
  /\ UNCHANGED <<called, walkVars>>

RegisterComponentHead(t) ==
  /\ inserting[t] # NULL
  /\ first' = inserting[t]
  /\ inserting' = [inserting EXCEPT ![t] = NULL]
  /\ UNCHANGED <<pNext, called, walkVars>>

Inserted == called \ {inserting[t] : t \in Task}

GetFWVersion ==
  /\ ~walking
  /\ walks < Walks
  /\ walks' = walks + 1
  /\ walking' = TRUE
  /\ cursor' = first
  /\ opening' = first
  /\ listed' = Inserted
  /\ seen' = {}
  /\ count' = 0
  /\ UNCHANGED listVars

(* The version and the product info are added, and the pointer moves on. *)
GetFWVersionNext ==
  /\ walking
  /\ cursor # NULL
  /\ seen' = seen \cup {cursor}
  /\ count' = (count + 1) % CountModulus
  /\ cursor' = pNext[cursor]
  /\ UNCHANGED <<walking, listed, opening, walks, listVars>>

GetFWVersionEnd ==
  /\ walking
  /\ cursor = NULL
  /\ walking' = FALSE
  /\ UNCHANGED <<cursor, listed, opening, seen, count, walks, listVars>>

-------------------------------------------------------------------------------
RegistrationInit ==
  /\ first = NULL
  /\ pNext = [r \in Registration |-> NULL]
  /\ inserting = [t \in Task |-> NULL]
  /\ called = {}
  /\ cursor = NULL
  /\ walking = FALSE
  /\ listed = {}
  /\ opening = NULL
  /\ seen = {}
  /\ count = 0
  /\ walks = 0

Walk == GetFWVersion \/ GetFWVersionNext \/ GetFWVersionEnd

Registering == \/ \E t \in Task, r \in Registration : RegisterComponent(t, r)
               \/ \E t \in Task : RegisterComponentHead(t)

RegistrationNext == Registering \/ Walk

RegistrationSpec == RegistrationInit /\ [][RegistrationNext]_registrationVars

(* The handler runs on once it has started. *)
WalkFairness == WF_registrationVars(GetFWVersionNext \/ GetFWVersionEnd)

-------------------------------------------------------------------------------
RegistrationTypeOK ==
  /\ first \in Registration \cup {NULL}
  /\ pNext \in [Registration -> Registration \cup {NULL}]
  /\ inserting \in [Task -> Registration \cup {NULL}]
  /\ called \subseteq Registration
  /\ cursor \in Registration \cup {NULL}
  /\ walking \in BOOLEAN
  /\ listed \subseteq Registration
  /\ opening \in Registration \cup {NULL}
  /\ seen \subseteq Registration
  /\ count \in 0..CountModulus - 1 /\ count <= Cardinality(called)
  /\ walks \in 0..Walks

(* A version report counts every registration that was complete when it began, *)
(* once, and no other, although registrations may go on while it is written    *)
(* (the NOTE at 491-495 assumes that they do not, but an insertion at the head  *)
(* does not disturb a walk that has begun).                                    *)
ReportIsSnapshot ==
  walking /\ cursor = NULL => seen = listed /\ count = Cardinality(listed) % CountModulus

(* Every walk ends: the insertions never close the list to a ring. *)
ReportEnds == walking ~> ~walking
===============================================================================
