----------------------------- MODULE VirtualDevice -----------------------------
(***************************************************************************)
(* The simulated controller of Host/CFUFirmwareSimulation/sys: the write   *)
(* and feature report callbacks of CfuDevice.c, which run in the context   *)
(* of the hosts' requests, and the response thread of DmfInterface.c.  The *)
(* callbacks put responses on a queue and set the thread's event; the      *)
(* thread takes one response each time it finds the event set.             *)
(***************************************************************************)
EXTENDS Naturals, Sequences

CONSTANTS
  Host,       (* programs that have the device open                          *)
  Id,         (* component ids that hosts offer, special ones left out       *)
  Version,    (* firmware versions that hosts offer                          *)
  Commands,   (* a bound: how many commands the hosts send between them      *)
  Restarts    (* a bound: how often the device is stopped and started again  *)

NumberOfComponents == 2
Component == 0 .. NumberOfComponents - 1

(* COMPONENT_ID_MCU and COMPONENT_ID_AUDIO *)
ComponentIds == [i \in Component |-> IF i = 0 THEN 48 ELSE 2]

(* the version of a device context full of zeros, and FIRMWARE_VERSION_... *)
ZeroVersion == "zero"
DefaultVersion == "default"

ASSUME VirtualDeviceAssumption ==
  /\ {"zero", "default"} \cap Version = {}
  /\ Commands \in Nat
  /\ Restarts \in Nat

VARIABLES
  componentsUpdated, currentComponentIndex, pendingVersion, componentVersion,
                     \* DEVICE_CONTEXT
  responseQueue,     \* DmfModuleResponseBufferQueue
  unsent,            \* hosts whose last response could not be sent
  callbacks,         \* write callbacks that have enqueued and not yet set the event
  workReady,         \* the event of the response thread
  thread,            \* "waiting", "working", "stopped"; before that "none", or "failed"
  host,              \* where each host stands
  reported,          \* the last version report, per component
  offered,           \* per component, the versions whose offers were accepted
  commands, restarts \* counts, for the bounds

deviceVars == <<componentsUpdated, currentComponentIndex, pendingVersion, componentVersion>>
threadVars == <<workReady, thread>>
queueVars == <<responseQueue, unsent>>
vars == <<deviceVars, queueVars, callbacks, threadVars, host, reported, offered,
          commands, restarts>>

Current == currentComponentIndex

OfferStatus == {"ACCEPT", "INV_MCU", "SWAP_PENDING"}

(* A response names the host whose command it answers. *)
Response == [to : Host, kind : {"offer"}, status : OfferStatus]
              \cup [to : Host, kind : {"content"}, last : BOOLEAN]

-------------------------------------------------------------------------------
(* CfuDevice_WriteReport.  The response is queued before the write completes, *)
(* and the event is set only after that: see WorkReady.                       *)

Enqueue(response) ==
  /\ responseQueue' = Append(responseQueue, response)
  /\ unsent' = unsent \ {response.to}
  /\ callbacks' = callbacks + 1
  /\ commands' = commands + 1

OfferResponse(h, status) == [to |-> h, kind |-> "offer", status |-> status]

Started == thread \in {"waiting", "working"}

Open == Started /\ commands < Commands

(* The report is short, of another kind, or no buffer can be had for the response: *)
(* the write completes with an error, and its host gives up.                       *)
WriteFails(h) ==
  /\ Open
  /\ host[h] \in {"idle", "granted"}
  /\ host' = [host EXCEPT ![h] = "idle"]
  /\ commands' = commands + 1
  /\ UNCHANGED <<deviceVars, queueVars, callbacks, threadVars, reported, offered, restarts>>

(* Information (0xFF) and special (0xFE) offers are always accepted. *)
OfferInformation(h) ==
  /\ Open
  /\ host[h] = "idle"
  /\ host' = [host EXCEPT ![h] = "informing"]
  /\ Enqueue(OfferResponse(h, "ACCEPT"))
  /\ UNCHANGED <<deviceVars, threadVars, reported, offered, restarts>>

OfferRejected(h, id) ==
  /\ Open
  /\ host[h] = "idle"
  /\ host' = [host EXCEPT ![h] = "offering"]
  /\ \/ /\ componentsUpdated[Current]
        /\ Enqueue(OfferResponse(h, "SWAP_PENDING"))
     \/ /\ ~componentsUpdated[Current]
        /\ id # ComponentIds[Current]
        /\ Enqueue(OfferResponse(h, "INV_MCU"))
  /\ UNCHANGED <<deviceVars, threadVars, reported, offered, restarts>>

OfferAccepted(h, id, version) ==
  /\ Open
  /\ host[h] = "idle"
  /\ host' = [host EXCEPT ![h] = "offering"]
  /\ ~componentsUpdated[Current]
  /\ id = ComponentIds[Current]
  /\ pendingVersion' = [pendingVersion EXCEPT ![Current] = version]
  /\ offered' = [offered EXCEPT ![Current] = @ \cup {version}]
  /\ Enqueue(OfferResponse(h, "ACCEPT"))
  /\ UNCHANGED <<componentsUpdated, currentComponentIndex, componentVersion, threadVars,
                 reported, restarts>>

ContentResponse(h, last) == [to |-> h, kind |-> "content", last |-> last]

Content(h) ==
  /\ Open
  /\ host[h] = "granted"
  /\ host' = [host EXCEPT ![h] = "sending"]
  /\ Enqueue(ContentResponse(h, FALSE))
  /\ UNCHANGED <<deviceVars, threadVars, reported, offered, restarts>>

(* Slip: the next component's turn comes before its version is taken over. *)
ContentLastSlip(h) ==
  LET next == (Current + 1) % NumberOfComponents
  IN  /\ Open
      /\ host[h] = "granted"
      /\ host' = [host EXCEPT ![h] = "sending"]
      /\ componentsUpdated' = [componentsUpdated EXCEPT ![Current] = TRUE]
      /\ componentVersion' = [componentVersion EXCEPT ![Current] = pendingVersion[next]]
      /\ currentComponentIndex' = next
      /\ Enqueue(ContentResponse(h, TRUE))
      /\ UNCHANGED <<pendingVersion, threadVars, reported, offered, restarts>>

(* Slip: the index is moved on past the last component. *)
ContentLastNoWrap(h) ==
  /\ Open
  /\ host[h] = "granted"
  /\ host' = [host EXCEPT ![h] = "sending"]
  /\ componentsUpdated' = [componentsUpdated EXCEPT ![Current] = TRUE]
  /\ componentVersion' = [componentVersion EXCEPT ![Current] = pendingVersion[Current]]
  /\ currentComponentIndex' = Current + 1
  /\ Enqueue(ContentResponse(h, TRUE))
  /\ UNCHANGED <<pendingVersion, threadVars, reported, offered, restarts>>

(* Slip: the index is not moved on. *)
ContentLastKeepsIndex(h) ==
  /\ Open
  /\ host[h] = "granted"
  /\ host' = [host EXCEPT ![h] = "sending"]
  /\ componentsUpdated' = [componentsUpdated EXCEPT ![Current] = TRUE]
  /\ componentVersion' = [componentVersion EXCEPT ![Current] = pendingVersion[Current]]
  /\ Enqueue(ContentResponse(h, TRUE))
  /\ UNCHANGED <<currentComponentIndex, pendingVersion, threadVars, reported, offered,
                 restarts>>

(* The last block updates the component whose turn it is, offered or not. *)
ContentLast(h) ==
  /\ Open
  /\ host[h] = "granted"
  /\ host' = [host EXCEPT ![h] = "sending"]
  /\ componentsUpdated' = [componentsUpdated EXCEPT ![Current] = TRUE]
  /\ componentVersion' = [componentVersion EXCEPT ![Current] = pendingVersion[Current]]
  /\ currentComponentIndex' = (Current + 1) % NumberOfComponents
  /\ Enqueue(ContentResponse(h, TRUE))
  /\ UNCHANGED <<pendingVersion, threadVars, reported, offered, restarts>>

(* Slip: the event is never set. *)
WorkReadySlip ==
  /\ callbacks > 0
  /\ callbacks' = callbacks - 1
  /\ UNCHANGED <<deviceVars, queueVars, threadVars, host, reported, offered, commands,
                 restarts>>

(* DMF_Thread_WorkReady sets an event that holds one signal, however often. *)
WorkReady ==
  /\ callbacks > 0
  /\ callbacks' = callbacks - 1
  /\ workReady' = TRUE
  /\ UNCHANGED <<deviceVars, queueVars, thread, host, reported, offered, commands,
                 restarts>>

(* CfuDevice_GetFeatureReport *)
GetFeatureReport ==
  /\ Started
  /\ reported' = componentVersion
  /\ UNCHANGED <<deviceVars, queueVars, callbacks, threadVars, host, offered, commands,
                 restarts>>

-------------------------------------------------------------------------------
(* The response thread. *)

Wake ==
  /\ thread = "waiting"
  /\ workReady
  /\ workReady' = FALSE
  /\ thread' = "working"
  /\ UNCHANGED <<deviceVars, queueVars, callbacks, host, reported, offered, commands,
                 restarts>>

(* What a host makes of an answer: any report is the answer to its last command. *)
Answered(place, response) ==
  CASE place = "offering" /\ response.kind = "offer" ->
         IF response.status = "ACCEPT" THEN "granted" ELSE "idle"
    [] place = "sending" /\ response.kind = "content" ->
         IF response.last THEN "idle" ELSE "granted"
    [] OTHER -> "idle"

(* CfuDevice_ResponseThreadWork, which dequeues once.  A response that the *)
(* framework does not send as an input report is lost.                     *)
ResponseThreadWork ==
  /\ thread = "working"
  /\ thread' = "waiting"
  /\ \/ /\ responseQueue = <<>>
        /\ UNCHANGED <<queueVars, host>>
     \/ /\ responseQueue # <<>>
        /\ responseQueue' = Tail(responseQueue)
        /\ LET response == Head(responseQueue)
           IN  \/ /\ host' = [host EXCEPT ![response.to] = Answered(@, response)]
                  /\ UNCHANGED unsent
               \/ unsent' = unsent \cup {response.to} /\ UNCHANGED host
  /\ UNCHANGED <<deviceVars, callbacks, workReady, reported, offered, commands, restarts>>

(* CfuVirtualHidEvtDeviceAdd: without its device or its modules there is nothing. *)
DeviceAdd ==
  /\ thread = "none"
  /\ thread' \in {"stopped", "failed"}
  /\ UNCHANGED <<deviceVars, queueVars, callbacks, workReady, host, reported, offered,
                 commands, restarts>>

(* CfuDevice_EvtDeviceReleaseHardware, once the callbacks have returned.  The *)
(* hosts lose their handles; neither the responses nor the context go.        *)
ReleaseHardware ==
  /\ restarts < Restarts
  /\ thread = "waiting"
  /\ callbacks = 0
  /\ thread' = "stopped"
  /\ host' = [h \in Host |-> "idle"]
  /\ restarts' = restarts + 1
  /\ UNCHANGED <<deviceVars, queueVars, callbacks, workReady, reported, offered, commands>>

(* CfuDevice_EvtDevicePrepareHardware sets versions, and only versions, before it *)
(* starts the thread.  A device that cannot be started is removed.                *)
PrepareHardware ==
  /\ thread = "stopped"
  /\ thread' \in {"waiting", "failed"}
  /\ componentVersion' = [i \in Component |-> DefaultVersion]
  /\ UNCHANGED <<componentsUpdated, currentComponentIndex, pendingVersion, queueVars,
                 callbacks, workReady, host, reported, offered, commands, restarts>>

-------------------------------------------------------------------------------
Init ==
  /\ componentsUpdated = [i \in Component |-> FALSE]
  /\ currentComponentIndex = 0
  /\ pendingVersion = [i \in Component |-> ZeroVersion]
  /\ componentVersion = [i \in Component |-> ZeroVersion]
  /\ responseQueue = <<>>
  /\ unsent = {}
  /\ callbacks = 0
  /\ workReady = FALSE
  /\ thread = "none"
  /\ host = [h \in Host |-> "idle"]
  /\ reported = [i \in Component |-> DefaultVersion]
  /\ offered = [i \in Component |-> {}]
  /\ commands = 0
  /\ restarts = 0

WriteReport(h) ==
  \/ OfferInformation(h)
  \/ \E id \in Id : OfferRejected(h, id) \/ \E v \in Version : OfferAccepted(h, id, v)
  \/ Content(h)
  \/ ContentLast(h)
  \/ WriteFails(h)

ThreadStep == Wake \/ ResponseThreadWork

Next == \/ \E h \in Host : WriteReport(h)
        \/ WorkReady
        \/ GetFeatureReport
        \/ ThreadStep
        \/ DeviceAdd
        \/ ReleaseHardware
        \/ PrepareHardware

Spec == Init /\ [][Next]_vars

(* A callback that has started returns, and the thread runs; a host sends *)
(* its next command when it likes, or never.                              *)
FairSpec == Spec /\ WF_vars(WorkReady) /\ WF_vars(ThreadStep)

-------------------------------------------------------------------------------
TypeOK ==
  /\ componentsUpdated \in [Component -> BOOLEAN]
  /\ currentComponentIndex \in Component
  /\ pendingVersion \in [Component -> Version \cup {ZeroVersion}]
  /\ componentVersion \in [Component -> Version \cup {ZeroVersion, DefaultVersion}]
  /\ responseQueue \in Seq(Response)
  /\ unsent \subseteq Host
  /\ callbacks \in Nat
  /\ workReady \in BOOLEAN
  /\ thread \in {"none", "failed", "stopped", "waiting", "working"}
  /\ host \in [Host -> {"idle", "informing", "offering", "granted", "sending"}]
  /\ reported \in [Component -> Version \cup {ZeroVersion, DefaultVersion}]
  /\ offered \in [Component -> SUBSET Version]
  /\ commands \in 0..Commands
  /\ restarts \in 0..Restarts

Awaits(h) == host[h] \in {"informing", "offering", "sending"}

(* The version report shows a version that was offered for that very        *)
(* component, or the default: not the zeros of a pending version that was    *)
(* never saved (lines 133-138, "Save pending version so it can be written    *)
(* when final block is received").  This is said of a device that has not    *)
(* been stopped: a host that meets an answer left over from before may send  *)
(* the last block of an image that was never accepted.                       *)
ReportedWasOffered ==
  restarts = 0 => \A i \in Component : reported[i] \in {DefaultVersion} \cup offered[i]

(* Offers are rejected because of a pending swap only when every component has *)
(* been updated: the component whose turn it is has not been, as long as one   *)
(* is left (lines 124, 146, 197).                                              *)
SwapPendingMeansAllUpdated ==
  componentsUpdated[Current] => \A i \in Component : componentsUpdated[i]

(* Every command that a host waits on is answered ("Trigger the consumer to    *)
(* process the buffer", line 19), until the device is stopped.  Only the       *)
(* framework may prevent it, by refusing to send the response (lines 369-377). *)
EveryCommandIsAnswered ==
  \A h \in Host : Awaits(h) ~> ~Awaits(h) \/ h \in unsent
===============================================================================
