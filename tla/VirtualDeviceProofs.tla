-------------------------- MODULE VirtualDeviceProofs --------------------------
(* What VirtualDevice guarantees for any hosts, ids and versions, proved; what it *)
(* reports, for one host.                                                         *)
EXTENDS VirtualDevice, SequenceTheorems, TLAPS

(* One program has the device open, as the update tool expects. *)
OneHost == \A g, h \in Host : g = h

(* The version whose turn it is was offered for its component. *)
PendingOffered == pendingVersion[Current] \in offered[Current]

(* A host that waits has at most one answer coming, and it answers its last       *)
(* command; one that may send content, or is about to be told that it may, has    *)
(* had an offer accepted for the component whose turn it is.                      *)
InTurn(h) ==
  /\ host[h] \in {"idle", "granted"} => responseQueue = <<>>
  /\ responseQueue # <<>> => Len(responseQueue) = 1
  /\ host[h] = "offering" /\ responseQueue # <<>> =>
       /\ responseQueue[1].kind = "offer"
       /\ responseQueue[1].status = "ACCEPT" => PendingOffered
  /\ host[h] = "sending" /\ responseQueue # <<>> =>
       /\ responseQueue[1].kind = "content"
       /\ ~responseQueue[1].last => PendingOffered
  /\ host[h] = "granted" => PendingOffered

(* What the device would report was offered, or is the default. *)
VersionsOffered ==
  Started => \A i \in Component : componentVersion[i] \in {DefaultVersion} \cup offered[i]

(* The inductive invariant about a device that has not been stopped. *)
FirstStart ==
  restarts = 0 => /\ \A h \in Host : InTurn(h)
                  /\ VersionsOffered
                  /\ ReportedWasOffered

-------------------------------------------------------------------------------
(* The device has two components. *)
LEMMA ComponentsAre == Component = {0, 1}
  BY DEF Component, NumberOfComponents

(* The turn passes from a component to the other one. *)
LEMMA NextTurn ==
  ASSUME NEW i \in Component
  PROVE  (i + 1) % NumberOfComponents \in Component /\ (i + 1) % NumberOfComponents # i
<1>1. (0 + 1) % 2 = 1 /\ (1 + 1) % 2 = 0
  OBVIOUS
<1>2. QED
  BY <1>1, ComponentsAre DEF NumberOfComponents

(* What a callback puts on the queue is a response. *)
LEMMA EnqueueType ==
  ASSUME TypeOK, NEW response \in Response, Open, Enqueue(response)
  PROVE  /\ responseQueue' \in Seq(Response) /\ unsent' \subseteq Host
         /\ callbacks' \in Nat
         /\ commands' \in 0..Commands
<1>1. responseQueue' \in Seq(Response) /\ unsent' \subseteq Host /\ callbacks' \in Nat
  BY DEF TypeOK, Enqueue
<1>2. commands' \in 0..Commands
  BY VirtualDeviceAssumption DEF TypeOK, Open, Enqueue
<1>3. QED
  BY <1>1, <1>2

(* The answers to offers and to content are responses. *)
LEMMA ResponsesAre ==
  ASSUME NEW h \in Host
  PROVE  /\ \A status \in OfferStatus : OfferResponse(h, status) \in Response
         /\ \A last \in BOOLEAN : ContentResponse(h, last) \in Response
  BY DEF Response, OfferResponse, ContentResponse

(* A host that has its answer waits no longer. *)
LEMMA AnsweredType ==
  ASSUME NEW place, NEW response
  PROVE  Answered(place, response) \in {"idle", "granted"}
  BY DEF Answered

(* The initial state is well typed. *)
LEMMA InitType == Init => TypeOK
<1> SUFFICES ASSUME Init
             PROVE  TypeOK
  OBVIOUS
<1>1. 0 \in Component
  BY ComponentsAre
<1>2. responseQueue \in Seq(Response)
  BY DEF Init
<1>3. commands \in 0..Commands /\ restarts \in 0..Restarts
  BY VirtualDeviceAssumption DEF Init
<1>4. QED
  BY <1>1, <1>2, <1>3 DEF Init, TypeOK

(* A write callback: what it answers is a response, and what it does to the *)
(* device context keeps its type.                                           *)
LEMMA WriteReportType ==
  ASSUME TypeOK, NEW h \in Host, WriteReport(h)
  PROVE  TypeOK'
<1> USE DEF TypeOK
<1>1. CASE OfferInformation(h)
  <2>1. OfferResponse(h, "ACCEPT") \in Response
    BY ResponsesAre DEF OfferStatus
  <2>2. /\ responseQueue' \in Seq(Response) /\ unsent' \subseteq Host
        /\ callbacks' \in Nat /\ commands' \in 0..Commands
    BY <1>1, <2>1, EnqueueType DEF OfferInformation
  <2>3. QED
    BY <1>1, <2>2 DEF OfferInformation, deviceVars, queueVars, threadVars
<1>2. ASSUME NEW id \in Id, OfferRejected(h, id)
      PROVE  TypeOK'
  <2>1. OfferResponse(h, "SWAP_PENDING") \in Response /\ OfferResponse(h, "INV_MCU") \in Response
    BY ResponsesAre DEF OfferStatus
  <2>2. /\ responseQueue' \in Seq(Response) /\ unsent' \subseteq Host
        /\ callbacks' \in Nat /\ commands' \in 0..Commands
    BY <1>2, <2>1, EnqueueType DEF OfferRejected
  <2>3. QED
    BY <1>2, <2>2 DEF OfferRejected, deviceVars, queueVars, threadVars
<1>3. ASSUME NEW id \in Id, NEW v \in Version, OfferAccepted(h, id, v)
      PROVE  TypeOK'
  <2>1. OfferResponse(h, "ACCEPT") \in Response
    BY ResponsesAre DEF OfferStatus
  <2>2. /\ responseQueue' \in Seq(Response) /\ unsent' \subseteq Host
        /\ callbacks' \in Nat /\ commands' \in 0..Commands
    BY <1>3, <2>1, EnqueueType DEF OfferAccepted
  <2>3. QED
    BY <1>3, <2>2 DEF OfferAccepted, threadVars
<1>4. CASE Content(h)
  <2>1. ContentResponse(h, FALSE) \in Response
    BY ResponsesAre
  <2>2. /\ responseQueue' \in Seq(Response) /\ unsent' \subseteq Host
        /\ callbacks' \in Nat /\ commands' \in 0..Commands
    BY <1>4, <2>1, EnqueueType DEF Content
  <2>3. QED
    BY <1>4, <2>2 DEF Content, deviceVars, queueVars, threadVars
<1>5. CASE ContentLast(h)
  <2>1. ContentResponse(h, TRUE) \in Response
    BY ResponsesAre
  <2>2. /\ responseQueue' \in Seq(Response) /\ unsent' \subseteq Host
        /\ callbacks' \in Nat /\ commands' \in 0..Commands
    BY <1>5, <2>1, EnqueueType DEF ContentLast
  <2>3. currentComponentIndex' \in Component
    BY <1>5, NextTurn DEF ContentLast, Current
  <2>4. QED
    BY <1>5, <2>2, <2>3 DEF ContentLast, threadVars, Current
<1>6. CASE WriteFails(h)
  BY <1>6, VirtualDeviceAssumption DEF WriteFails, Open, deviceVars, queueVars, threadVars
<1>7. QED
  BY <1>1, <1>2, <1>3, <1>4, <1>5, <1>6 DEF WriteReport

(* Every step keeps the types, those of hosts, callbacks and the thread. *)
LEMMA NextType == TypeOK /\ [Next]_vars => TypeOK'
<1> SUFFICES ASSUME TypeOK, [Next]_vars
             PROVE  TypeOK'
  OBVIOUS
<1> USE DEF TypeOK
<1>1. CASE \E h \in Host : WriteReport(h)
  BY <1>1, WriteReportType
<1>2. CASE WorkReady
  BY <1>2 DEF WorkReady, deviceVars, queueVars
<1>3. CASE GetFeatureReport
  BY <1>3 DEF GetFeatureReport, deviceVars, queueVars, threadVars
<1>4. CASE Wake
  BY <1>4 DEF Wake, deviceVars, queueVars
<1>5. CASE ResponseThreadWork
  <2>1. responseQueue' \in Seq(Response)
    <3>1. \/ responseQueue' = responseQueue
          \/ responseQueue # <<>> /\ responseQueue' = Tail(responseQueue)
      BY <1>5 DEF ResponseThreadWork, queueVars
    <3>2. responseQueue \in Seq(Response)
      OBVIOUS
    <3>3. QED
      BY <3>1, <3>2, HeadTailProperties
  <2>2. host' \in [Host -> {"idle", "informing", "offering", "granted", "sending"}]
    <3> DEFINE r == Head(responseQueue)
    <3>1. \/ host' = host
          \/ host' = [host EXCEPT ![r.to] = Answered(host[r.to], r)]
      BY <1>5 DEF ResponseThreadWork
    <3>2. Answered(host[r.to], r) \in {"idle", "granted"}
      BY AnsweredType
    <3>3. host \in [Host -> {"idle", "informing", "offering", "granted", "sending"}]
      OBVIOUS
    <3> HIDE DEF r, TypeOK
    <3>4. QED
      BY <3>1, <3>2, <3>3
  <2>3. unsent' \subseteq Host
    <3>1. Head(responseQueue) \in Response \/ responseQueue = <<>>
      OBVIOUS
    <3>2. Head(responseQueue) \in Response => Head(responseQueue).to \in Host
      BY DEF Response
    <3>3. QED
      BY <1>5, <3>1, <3>2 DEF ResponseThreadWork, queueVars
  <2>4. QED
    BY <1>5, <2>1, <2>2, <2>3 DEF ResponseThreadWork, deviceVars, queueVars
<1>6. CASE DeviceAdd
  BY <1>6 DEF DeviceAdd, deviceVars, queueVars
<1>7. CASE ReleaseHardware
  <2>1. /\ thread' = "stopped" /\ restarts < Restarts /\ restarts' = restarts + 1
        /\ host' = [h \in Host |-> "idle"]
        /\ UNCHANGED <<deviceVars, queueVars, callbacks, workReady, reported, offered,
                       commands>>
    BY <1>7 DEF ReleaseHardware
  <2>2. restarts' \in 0..Restarts
    BY <2>1, VirtualDeviceAssumption
  <2>3. host' \in [Host -> {"idle", "informing", "offering", "granted", "sending"}]
    BY <2>1
  <2>4. QED
    BY <2>1, <2>2, <2>3 DEF deviceVars, queueVars
<1>8. CASE PrepareHardware
  <2>1. componentVersion' \in [Component -> Version \cup {ZeroVersion, DefaultVersion}]
    BY <1>8 DEF PrepareHardware
  <2>2. QED
    BY <1>8, <2>1 DEF PrepareHardware, queueVars
<1>9. CASE UNCHANGED vars
  BY <1>9 DEF vars, deviceVars, queueVars, threadVars
<1>10. QED
  BY <1>1, <1>2, <1>3, <1>4, <1>5, <1>6, <1>7, <1>8, <1>9 DEF Next, ThreadStep

(* Type correctness: in particular the turn never leaves the two components. *)
THEOREM TypeCorrect == Spec => []TypeOK
<1>1. QED
  BY InitType, NextType, PTL DEF Spec

-------------------------------------------------------------------------------
(* Only the last block of an image moves the turn or marks a component updated. *)
LEMMA TurnStep ==
  ASSUME [Next]_vars
  PROVE  \/ UNCHANGED <<componentsUpdated, currentComponentIndex>>
         \/ \E h \in Host : ContentLast(h)
  BY DEF Next, WriteReport, OfferInformation, OfferRejected, OfferAccepted, Content,
         WriteFails, WorkReady, GetFeatureReport, ThreadStep, Wake, ResponseThreadWork,
         DeviceAdd, ReleaseHardware, PrepareHardware, vars, deviceVars, queueVars

(* An offer is rejected for a pending swap only when every component has been *)
(* updated, whatever the hosts do and however often the device is restarted:  *)
(* the update that passes the turn leaves both updated or the next one not.    *)
THEOREM SwapPendingCorrect == Spec => []SwapPendingMeansAllUpdated
<1>1. Init => SwapPendingMeansAllUpdated
  BY ComponentsAre DEF Init, SwapPendingMeansAllUpdated, Current
<1>2. TypeOK /\ SwapPendingMeansAllUpdated /\ [Next]_vars => SwapPendingMeansAllUpdated'
  <2> SUFFICES ASSUME TypeOK, SwapPendingMeansAllUpdated, [Next]_vars
               PROVE  SwapPendingMeansAllUpdated'
    OBVIOUS
  <2>1. CASE UNCHANGED <<componentsUpdated, currentComponentIndex>>
    BY <2>1 DEF SwapPendingMeansAllUpdated, Current
  <2>2. ASSUME NEW h \in Host, ContentLast(h)
        PROVE  SwapPendingMeansAllUpdated'
    <3>1. /\ currentComponentIndex \in Component
          /\ currentComponentIndex' \in Component
          /\ currentComponentIndex' # currentComponentIndex
      BY <2>2, NextTurn DEF TypeOK, ContentLast, Current
    <3>2. \A i \in Component : i = currentComponentIndex \/ i = currentComponentIndex'
      BY <3>1, ComponentsAre
    <3>3. componentsUpdated'[currentComponentIndex] = TRUE
      BY <2>2, <3>1 DEF TypeOK, ContentLast, Current
    <3>4. QED
      BY <3>2, <3>3 DEF SwapPendingMeansAllUpdated, Current
  <2>3. QED
    BY <2>1, <2>2, TurnStep
<1>3. QED
  BY <1>1, <1>2, TypeCorrect, PTL DEF Spec

-------------------------------------------------------------------------------
(* Before the first start nothing is queued or reported. *)
LEMMA InitFirst == Init => FirstStart
<1> SUFFICES ASSUME Init
             PROVE  FirstStart
  OBVIOUS
<1>1. \A h \in Host : InTurn(h)
  BY DEF Init, InTurn
<1>2. VersionsOffered /\ ReportedWasOffered
  BY DEF Init, VersionsOffered, Started, ReportedWasOffered
<1>3. QED
  BY <1>1, <1>2 DEF FirstStart

(* The one host's queue holds the answer it has just caused. *)
LEMMA OnlyAnswer ==
  ASSUME TypeOK, responseQueue = <<>>, NEW response \in Response, Enqueue(response)
  PROVE  Len(responseQueue') = 1 /\ responseQueue'[1] = response
  BY DEF Enqueue

(* A write callback of the one host that is not waiting. *)
LEMMA WriteReportFirst ==
  ASSUME TypeOK, OneHost, FirstStart, restarts = 0, NEW h \in Host, WriteReport(h)
  PROVE  InTurn(h)' /\ VersionsOffered' /\ ReportedWasOffered'
<1> USE DEF InTurn, PendingOffered, Current
<1>1. host[h] \in {"idle", "granted"} /\ responseQueue = <<>>
  BY DEF WriteReport, OfferInformation, OfferRejected, OfferAccepted, Content,
         ContentLast, WriteFails, FirstStart, InTurn
<1>2. host[h] = "granted" => PendingOffered
  BY DEF FirstStart
<1>3. Started /\ Started' /\ reported' = reported /\ restarts' = 0 /\ VersionsOffered
      /\ ReportedWasOffered
  BY DEF WriteReport, OfferInformation, OfferRejected, OfferAccepted, Content,
         ContentLast, WriteFails, FirstStart, Open, Started, threadVars
<1>4. CASE OfferInformation(h)
  <2>1. OfferResponse(h, "ACCEPT") \in Response
    BY ResponsesAre DEF OfferStatus
  <2>2. Len(responseQueue') = 1
    BY <1>1, <1>4, <2>1, OnlyAnswer DEF OfferInformation
  <2>3. host'[h] = "informing"
    BY <1>4 DEF OfferInformation, TypeOK
  <2>4. InTurn(h)'
    BY <2>2, <2>3
  <2>5. QED
    BY <1>3, <1>4, <2>4 DEF OfferInformation, deviceVars, queueVars, VersionsOffered,
                            ReportedWasOffered
<1>5. ASSUME NEW id \in Id, OfferRejected(h, id)
      PROVE  InTurn(h)' /\ VersionsOffered' /\ ReportedWasOffered'
  <2>1. PICK status \in OfferStatus \ {"ACCEPT"} : Enqueue(OfferResponse(h, status))
    BY <1>5 DEF OfferRejected, OfferStatus
  <2>2. Len(responseQueue') = 1 /\ responseQueue'[1] = OfferResponse(h, status)
    BY <1>1, <2>1, OnlyAnswer, ResponsesAre
  <2>3. host'[h] = "offering"
    BY <1>5 DEF OfferRejected, TypeOK
  <2>4. InTurn(h)'
    BY <2>2, <2>3 DEF OfferResponse
  <2>5. QED
    BY <1>3, <1>5, <2>4 DEF OfferRejected, deviceVars, queueVars, VersionsOffered,
                            ReportedWasOffered
<1>6. ASSUME NEW id \in Id, NEW v \in Version, OfferAccepted(h, id, v)
      PROVE  InTurn(h)' /\ VersionsOffered' /\ ReportedWasOffered'
  <2>1. OfferResponse(h, "ACCEPT") \in Response /\ Enqueue(OfferResponse(h, "ACCEPT"))
    BY <1>6, ResponsesAre DEF OfferStatus, OfferAccepted
  <2>2. Len(responseQueue') = 1 /\ responseQueue'[1] = OfferResponse(h, "ACCEPT")
    BY <1>1, <2>1, OnlyAnswer
  <2>3. host'[h] = "offering"
    BY <1>6 DEF OfferAccepted, TypeOK
  <2>4. PendingOffered' /\ \A i \in Component : offered[i] \subseteq offered'[i]
    <3>1. /\ currentComponentIndex' = currentComponentIndex
          /\ currentComponentIndex \in Component
          /\ pendingVersion' = [pendingVersion EXCEPT ![currentComponentIndex] = v]
          /\ offered' = [offered EXCEPT ![currentComponentIndex] = @ \cup {v}]
      BY <1>6 DEF OfferAccepted, TypeOK
    <3>2. QED
      BY <3>1 DEF TypeOK
  <2>5. InTurn(h)'
    BY <2>2, <2>3, <2>4 DEF OfferResponse
  <2>6. QED
    BY <1>3, <1>6, <2>4, <2>5 DEF OfferAccepted, VersionsOffered, ReportedWasOffered
<1>7. CASE Content(h)
  <2>1. ContentResponse(h, FALSE) \in Response
    BY ResponsesAre
  <2>2. Len(responseQueue') = 1 /\ responseQueue'[1] = ContentResponse(h, FALSE)
    BY <1>1, <1>7, <2>1, OnlyAnswer DEF Content
  <2>3. host'[h] = "sending" /\ PendingOffered'
    BY <1>2, <1>7 DEF Content, TypeOK, deviceVars, queueVars
  <2>4. InTurn(h)'
    BY <2>2, <2>3 DEF ContentResponse
  <2>5. QED
    BY <1>3, <1>7, <2>4 DEF Content, deviceVars, queueVars, VersionsOffered,
                            ReportedWasOffered
<1>8. CASE ContentLast(h)
  <2>1. ContentResponse(h, TRUE) \in Response
    BY ResponsesAre
  <2>2. Len(responseQueue') = 1 /\ responseQueue'[1] = ContentResponse(h, TRUE)
    BY <1>1, <1>8, <2>1, OnlyAnswer DEF ContentLast
  <2>3. host'[h] = "sending"
    BY <1>8 DEF ContentLast, TypeOK
  <2>4. InTurn(h)'
    BY <2>2, <2>3 DEF ContentResponse
  <2>5. VersionsOffered'
    BY <1>2, <1>3, <1>8 DEF ContentLast, VersionsOffered, TypeOK
  <2>6. QED
    BY <1>3, <1>8, <2>4, <2>5 DEF ContentLast, ReportedWasOffered
<1>9. CASE WriteFails(h)
  <2>1. host'[h] = "idle" /\ responseQueue' = <<>>
    BY <1>1, <1>9 DEF WriteFails, queueVars, TypeOK
  <2>2. InTurn(h)'
    BY <2>1
  <2>3. QED
    BY <1>3, <1>9, <2>2 DEF WriteFails, deviceVars, queueVars, VersionsOffered,
                            ReportedWasOffered
<1>10. QED
  BY <1>4, <1>5, <1>6, <1>7, <1>8, <1>9 DEF WriteReport

(* The answer that the thread sends is the one that the host waits for. *)
LEMMA ThreadWorkFirst ==
  ASSUME TypeOK, OneHost, FirstStart, restarts = 0, ResponseThreadWork, NEW h \in Host
  PROVE  InTurn(h)'
<1> USE DEF InTurn, PendingOffered, Current
<1>1. InTurn(h) /\ UNCHANGED <<pendingVersion, currentComponentIndex, offered>>
  BY DEF FirstStart, ResponseThreadWork, deviceVars, queueVars
<1>2. CASE UNCHANGED <<responseQueue, host>>
  BY <1>1, <1>2
<1> DEFINE response == Head(responseQueue)
<1>3. CASE /\ responseQueue # <<>>
           /\ responseQueue' = Tail(responseQueue)
           /\ host' = [host EXCEPT ![response.to] = Answered(@, response)]
  <2>1. Len(responseQueue) = 1 /\ response = responseQueue[1] /\ response \in Response
    BY <1>1, <1>3 DEF TypeOK
  <2>2. responseQueue' = <<>>
    BY <1>3, <2>1 DEF TypeOK
  <2>3. response.to = h
    BY <2>1 DEF OneHost, Response
  <2>4. host'[h] = Answered(host[h], response)
    BY <1>3, <2>3 DEF TypeOK
  <2> HIDE DEF response
  <2>5. host'[h] = "granted" => PendingOffered
    <3>1. Answered(host[h], response) = "granted" =>
            \/ host[h] = "offering" /\ response.kind = "offer" /\ response.status = "ACCEPT"
            \/ host[h] = "sending" /\ response.kind = "content" /\ ~response.last
      BY DEF Answered
    <3>2. QED
      BY <1>1, <2>1, <2>4, <3>1
  <2>6. host'[h] \in {"idle", "granted"}
    BY <2>4, AnsweredType
  <2>7. QED
    BY <1>1, <2>2, <2>5, <2>6
<1>4. CASE responseQueue # <<>> /\ responseQueue' = Tail(responseQueue) /\ UNCHANGED host
  <2>1. responseQueue' = <<>>
    BY <1>1, <1>4 DEF TypeOK
  <2>2. host[h] # "granted"
    BY <1>1, <1>4
  <2>3. QED
    BY <1>1, <1>4, <2>1, <2>2
<1>5. QED
  BY <1>2, <1>3, <1>4 DEF ResponseThreadWork, queueVars

(* FirstStart is inductive for one host: until the first restart its answers come *)
(* in turn.                                                                       *)
LEMMA NextFirst ==
  ASSUME TypeOK, OneHost, FirstStart, [Next]_vars
  PROVE  FirstStart'
<1> SUFFICES ASSUME restarts' = 0
             PROVE  /\ \A h \in Host : InTurn(h)'
                    /\ VersionsOffered'
                    /\ ReportedWasOffered'
  BY DEF FirstStart
<1>1. restarts = 0 /\ ~ReleaseHardware
  <2>1. ReleaseHardware \/ restarts' = restarts
    BY DEF Next, WriteReport, OfferInformation, OfferRejected, OfferAccepted, Content,
           ContentLast, WriteFails, WorkReady, GetFeatureReport, ThreadStep, Wake,
           ResponseThreadWork, DeviceAdd, PrepareHardware, vars
  <2>2. ReleaseHardware => restarts' = restarts + 1 /\ restarts \in Nat
    BY VirtualDeviceAssumption DEF ReleaseHardware, TypeOK
  <2>3. QED
    BY <2>1, <2>2
<1>2. (\A h \in Host : InTurn(h)) /\ VersionsOffered /\ ReportedWasOffered
  BY <1>1 DEF FirstStart
<1>3. CASE \E h \in Host : WriteReport(h)
  BY <1>1, <1>3, WriteReportFirst DEF OneHost
<1>4. CASE ResponseThreadWork
  <2>1. \A h \in Host : InTurn(h)'
    BY <1>1, <1>4, ThreadWorkFirst
  <2>2. QED
    BY <1>2, <1>4, <2>1 DEF ResponseThreadWork, Started, deviceVars, queueVars,
                            VersionsOffered, ReportedWasOffered
<1>5. CASE WorkReady \/ GetFeatureReport \/ Wake \/ DeviceAdd \/ PrepareHardware \/ UNCHANGED vars
  <2>1. UNCHANGED <<pendingVersion, currentComponentIndex, offered, responseQueue, host>>
    BY <1>5 DEF WorkReady, GetFeatureReport, Wake, DeviceAdd, PrepareHardware, vars,
                deviceVars, queueVars
  <2>2. \A h \in Host : InTurn(h)'
    BY <1>2, <2>1 DEF InTurn, PendingOffered, Current
  <2>3. VersionsOffered'
    BY <1>2, <1>5 DEF WorkReady, GetFeatureReport, Wake, DeviceAdd, PrepareHardware, vars,
                      deviceVars, queueVars, threadVars, VersionsOffered, Started
  <2>4. ReportedWasOffered'
    BY <1>1, <1>2, <1>5 DEF WorkReady, GetFeatureReport, Wake, DeviceAdd,
                            PrepareHardware, vars, deviceVars, queueVars,
                            VersionsOffered, ReportedWasOffered
  <2>5. QED
    BY <2>2, <2>3, <2>4
<1>6. QED
  BY <1>1, <1>3, <1>4, <1>5 DEF Next, ThreadStep

(* A device that one host uses, and that has not been stopped, reports versions   *)
(* that were offered for their components: the answer that lets the host send      *)
(* content is always the one to its last offer.                                    *)
THEOREM ReportedCorrect == OneHost /\ Spec => []ReportedWasOffered
<1>1. FirstStart => (restarts = 0 => ReportedWasOffered)
  BY DEF FirstStart
<1>2. FirstStart => ReportedWasOffered
  BY <1>1 DEF ReportedWasOffered
<1>3. ASSUME OneHost
      PROVE  Spec => []ReportedWasOffered
  <2>1. TypeOK /\ FirstStart /\ [Next]_vars => FirstStart'
    BY <1>3, NextFirst
  <2>2. QED
    BY <1>2, <2>1, InitFirst, TypeCorrect, PTL DEF Spec
<1>4. QED
  BY <1>3
===============================================================================
