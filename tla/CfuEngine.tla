------------------------------- MODULE CfuEngine -------------------------------
(***************************************************************************)
(* The CFU engine of Firmware/ComponentFwUpdate.c: the offer and content   *)
(* handlers, the fail-safe timer and the read-complete callback, over the  *)
(* image store that ICompFwUpdateBsp.h reaches.                            *)
(*                                                                         *)
(* The two handlers run on one task and never overlap (the source says so  *)
(* at lines 161 and 337); the timer callback and the read-complete         *)
(* callback run in other contexts, between any two steps of a handler.     *)
(* A handler is one step as long as no callback can tell; an accepted      *)
(* offer and a handed-over image take several, and pc says which is next.  *)
(***************************************************************************)
EXTENDS Naturals

CONSTANTS
  Registered,  (* component ids on the registration list                    *)
  OfferedId,   (* component ids that hosts write into offers                *)
  Image,       (* firmware images; one image consists of one block per cell *)
  Cell,        (* addresses of the blocks of an image                       *)
  Token,       (* tokens of the host programs                               *)
  CrcExempt,   (* components whose images carry no CRC                      *)
  TimerTasks   (* the tasks that may run the timer callback, see Expires    *)

SpecialId == 254       \* CFU_SPECIAL_OFFER_CMD

ASSUME IdAssumption ==
  /\ Registered \subseteq OfferedId
  /\ OfferedId \subseteq 0..255
  /\ SpecialId \notin Registered

ASSUME DataAssumption ==
  /\ Cell # {}
  /\ "erased" \notin Image
  /\ CrcExempt \subseteq Registered

ASSUME TimerTaskAssumption == TimerTasks \subseteq {"highest", "guarded", "bare"}

VARIABLES
  activeComponentId, updateInProgress,  \* s_currentOffer
  bankSwapPending,                      \* s_bankSwapPending
  pc,            \* where the handler on the engine task stands
  offer,         \* the offer being accepted, while pc is "arm" or "commit"
  timer,         \* s_updateTimer: "stopped" or "running"
  timerCallback, \* an expiry whose callback has not finished
  timerTask,     \* the task that runs the callback on this platform
  readComplete,  \* the kinds of _ReadCompleteCallback that components hold
  store,         \* per component, what the cells of its image store hold
  handed,        \* components that took an image since the last reset
  response       \* the response of the last command

offerVars == <<activeComponentId, updateInProgress>>
timerVars == <<timer, timerCallback, timerTask>>
imageVars == <<readComplete, store, handed>>
vars == <<offerVars, bankSwapPending, pc, offer, timerVars, imageVars, response>>

OfferStatus == {"SKIP", "ACCEPT", "REJECT", "BUSY", "COMMAND_READY"}

ContentStatus == {"SUCCESS", "ERROR_PREPARE", "ERROR_WRITE", "ERROR_COMPLETE",
                  "ERROR_CRC", "ERROR_SIGNATURE", "ERROR_INVALID"}

OfferCommand == [componentId : OfferedId, token : Token,
                 forceIgnoreVersion : BOOLEAN, getStatus : BOOLEAN]

OfferResponse == [kind : {"offer"}, status : OfferStatus, token : Token]

ContentResponse == [kind : {"content"}, status : ContentStatus]

NoResponse == [kind |-> "none"]

NoOffer == [componentId |-> 0]

(***************************************************************************)
(* McuStatus.h.  The two severity bits decide what MCU_SUCCESS answers;    *)
(* MCU_STATUS_CFU_CRC_CHECK_NOT_REQUIRED is declared with severity ERROR.  *)
(***************************************************************************)
Severity == [SUCCESS |-> 0, DEFAULT_ERROR |-> 3, CRC_CHECK_NOT_REQUIRED |-> 3]

McuStatus == DOMAIN Severity

McuSuccess(status) == (Severity[status] \div 2) % 2 = 0

-------------------------------------------------------------------------------
(* The offer handler, ProcessCFWUOffer. *)

OfferReply(status, token) == [kind |-> "offer", status |-> status, token |-> token]

Refuse(status, o) ==
  /\ response' = OfferReply(status, o.token)
  /\ UNCHANGED <<offerVars, bankSwapPending, pc, offer, timerVars, imageVars>>

GetsStatus(o) == o.componentId = SpecialId /\ o.getStatus

OfferBusy(o) ==
  /\ pc = "idle"
  /\ updateInProgress
  /\ Refuse("BUSY", o)

OfferGetStatus(o) ==
  /\ pc = "idle"
  /\ ~updateInProgress
  /\ GetsStatus(o)
  /\ Refuse("COMMAND_READY", o)

OfferSwapPending(o) ==
  /\ pc = "idle"
  /\ ~updateInProgress
  /\ o.componentId # SpecialId
  /\ bankSwapPending
  /\ Refuse("REJECT", o)

(* The offers that get past the early returns.  Any special command other   *)
(* than GET_STATUS is among them, whether or not a bank swap is pending.    *)
Examined(o) ==
  /\ pc = "idle"
  /\ ~updateInProgress
  /\ ~GetsStatus(o)
  /\ o.componentId # SpecialId => ~bankSwapPending

(* No registration matches: the handler returns without writing *pResponse, *)
(* so the caller sends whatever its buffer holds.                           *)
OfferUnmatched(o) ==
  /\ Examined(o)
  /\ o.componentId \notin Registered
  /\ response' \in OfferResponse
  /\ UNCHANGED <<offerVars, bankSwapPending, pc, offer, timerVars, imageVars>>

(* The component's decision, and the handler's reversal of an OLD_FW reject. *)
Decision(status, isOldFw, o) ==
  IF o.forceIgnoreVersion /\ status = "REJECT" /\ isOldFw THEN "ACCEPT" ELSE status

(* Slip: the offer goes to a component that did not register its id. *)
OfferPresentedSlip(o) ==
  /\ Examined(o)
  /\ response' = OfferReply("ACCEPT", o.token)
  /\ pc' = "arm"
  /\ offer' = o
  /\ UNCHANGED <<offerVars, bankSwapPending, timerVars, imageVars>>

OfferPresented(o) ==
  /\ Examined(o)
  /\ o.componentId \in Registered
  /\ \E status \in OfferStatus, isOldFw \in BOOLEAN :
       LET decision == Decision(status, isOldFw, o)
       IN  /\ response' = OfferReply(decision, o.token)
           /\ IF decision = "ACCEPT"
                THEN pc' = "arm" /\ offer' = o
                ELSE UNCHANGED <<pc, offer>>
  /\ UNCHANGED <<offerVars, bankSwapPending, timerVars, imageVars>>

(* Slip: the timer is created and stopped at start-up and never restarted. *)
OfferArmSlip ==
  /\ pc = "arm"
  /\ pc' = "commit"
  /\ UNCHANGED <<offerVars, bankSwapPending, offer, timerVars, imageVars, response>>

(* BSP_Timer_Restart: a fresh period of MAX_FW_UPDATE_TIME_FAIL_SAFE_MS. *)
OfferArm ==
  /\ pc = "arm"
  /\ timer' = "running"
  /\ pc' = "commit"
  /\ UNCHANGED <<offerVars, bankSwapPending, offer, timerCallback, timerTask, imageVars,
                 response>>

(* The session starts, and outlives the image of a component that took one. *)
OfferCommit ==
  /\ pc = "commit"
  /\ updateInProgress' = TRUE
  /\ activeComponentId' = offer.componentId
  /\ readComplete' = {IF held = "taken" THEN "outlived" ELSE held : held \in readComplete}
  /\ pc' = "idle"
  /\ offer' = NoOffer
  /\ UNCHANGED <<bankSwapPending, timerVars, store, handed, response>>

-------------------------------------------------------------------------------
(***************************************************************************)
(* The content handler, ProcessCFWUContent.  It works on the component of  *)
(* the last accepted offer, whether or not that offer is still in          *)
(* progress, and whether or not a bank swap is pending.                    *)
(***************************************************************************)

(* activeComponentId is 0, registered or not, until the first offer is accepted. *)
StoreId == Registered \cup {0}

ErasedStore == [a \in Cell |-> "erased"]

Written(cells, a, image) == [cells EXCEPT ![a] = image]

(* What a failed write may leave behind: the old contents, or none. *)
AfterFailedWrite(cells, a) == {cells, [cells EXCEPT ![a] = "erased"]}

IsImage(cells) == \E i \in Image : \A a \in Cell : cells[a] = i

ContentReply(status) == [kind |-> "content", status |-> status]

(* The tail of the handler: any status but SUCCESS ends the update. *)
Answer(status) ==
  /\ response' = ContentReply(status)
  /\ updateInProgress' = (updateInProgress /\ status = "SUCCESS")
  /\ UNCHANGED <<activeComponentId, bankSwapPending, pc, offer, timerVars>>

StoreBecomes(cells) == store' = [store EXCEPT ![activeComponentId] = cells]

(* One block written: the middle blocks, and the write of every other block. *)
WriteBlock(cells, a, image) ==
  \/ StoreBecomes(Written(cells, a, image)) /\ Answer("SUCCESS")
  \/ \E left \in AfterFailedWrite(cells, a) :
       StoreBecomes(left) /\ Answer("ERROR_WRITE")

ContentFirst(a, image) ==
  /\ pc = "idle"
  /\ \/ WriteBlock(ErasedStore, a, image)
     \/ /\ \E left \in {store[activeComponentId], ErasedStore} : StoreBecomes(left)
        /\ Answer("ERROR_PREPARE")
  /\ UNCHANGED <<readComplete, handed>>

ContentMiddle(a, image) ==
  /\ pc = "idle"
  /\ WriteBlock(store[activeComponentId], a, image)
  /\ UNCHANGED <<readComplete, handed>>

(* Slip: getCrcOffsetResult starts out as MCU_STATUS_SUCCESS. *)
CrcOffsetResultsSlip(c) ==
  IF c \in CrcExempt THEN {"CRC_CHECK_NOT_REQUIRED"} ELSE {"SUCCESS", "DEFAULT_ERROR"}

(* What GetCrcOffset may answer; an id without registration keeps the default. *)
CrcOffsetResults(c) ==
  IF c \notin Registered THEN {"DEFAULT_ERROR"}
  ELSE IF c \in CrcExempt THEN {"CRC_CHECK_NOT_REQUIRED"}
  ELSE {"SUCCESS", "DEFAULT_ERROR"}

(* Slip: the CRC is computed and read but not compared. *)
VerificationSlip(crcOffsetResult, crcRead, cells, authentic) ==
  IF ~McuSuccess(crcOffsetResult) THEN "ERROR_INVALID"
  ELSE IF ~crcRead THEN "ERROR_CRC"
  ELSE IF ~authentic THEN "ERROR_SIGNATURE"
  ELSE "SUCCESS"

(* The checks of a complete image, in their order.  crcRead says that the CRC  *)
(* could be computed and read; the CRC itself matches when the image is whole. *)
Verification(crcOffsetResult, crcRead, cells, authentic) ==
  IF ~McuSuccess(crcOffsetResult) THEN "ERROR_INVALID"
  ELSE IF /\ crcOffsetResult # "CRC_CHECK_NOT_REQUIRED"
          /\ ~(crcRead /\ IsImage(cells)) THEN "ERROR_CRC"
  ELSE IF ~authentic THEN "ERROR_SIGNATURE"
  ELSE "SUCCESS"

(***************************************************************************)
(* NotifySuccess gives a component the callback before the handler knows   *)
(* whether the component takes the image, and no call takes it back.  A    *)
(* callback is "taken" with the image, "outlived" when a session has       *)
(* started since, or "refused": kept by a component that failed            *)
(* NotifySuccess.                                                          *)
(***************************************************************************)
CallbackKinds == {"taken", "outlived", "refused"}

(* A last block that is not written, or completes no image that is taken. *)
ContentLastRefused(a, image) ==
  /\ pc = "idle"
  /\ \/ /\ \E left \in AfterFailedWrite(store[activeComponentId], a) :
             StoreBecomes(left) /\ Answer("ERROR_WRITE")
        /\ UNCHANGED readComplete
     \/ LET cells == Written(store[activeComponentId], a, image)
        IN  /\ StoreBecomes(cells)
            /\ \E crcOffsetResult \in CrcOffsetResults(activeComponentId),
                  crcRead, authentic \in BOOLEAN :
                 LET status == Verification(crcOffsetResult, crcRead, cells, authentic)
                 IN  \/ status # "SUCCESS" /\ Answer(status) /\ UNCHANGED readComplete
                     \/ /\ status = "SUCCESS" /\ Answer("ERROR_COMPLETE")
                        /\ readComplete' \in {readComplete, readComplete \cup {"refused"}}
  /\ UNCHANGED handed

(* A last block that completes a verified image: NotifySuccess gives it, with *)
(* the read-complete callback, to the component, which takes it.              *)
ContentLastHandOver(a, image) ==
  /\ pc = "idle"
  /\ LET cells == Written(store[activeComponentId], a, image)
     IN  /\ StoreBecomes(cells)
         /\ \E crcOffsetResult \in CrcOffsetResults(activeComponentId) :
              Verification(crcOffsetResult, TRUE, cells, TRUE) = "SUCCESS"
  /\ handed' = handed \cup {activeComponentId}
  /\ readComplete' = readComplete \cup {"taken"}
  /\ pc' = "swap"
  /\ UNCHANGED <<offerVars, bankSwapPending, offer, timerVars, response>>

(* Slip: the assignment that the comment at line 296 calls optional is removed. *)
ContentSwapSlip ==
  /\ pc = "swap"
  /\ response' = ContentReply("SUCCESS")
  /\ pc' = "idle"
  /\ UNCHANGED <<offerVars, bankSwapPending, offer, timerVars, imageVars>>

(* Slip: the timer is stopped with the image written, the update still busy. *)
ContentSwapStopsTimer ==
  /\ pc = "swap"
  /\ bankSwapPending' = TRUE
  /\ response' = ContentReply("SUCCESS")
  /\ pc' = "idle"
  /\ timer' = "stopped"
  /\ UNCHANGED <<offerVars, offer, timerCallback, timerTask, imageVars>>

(* s_bankSwapPending is set after NotifySuccess has returned. *)
ContentSwap ==
  /\ pc = "swap"
  /\ bankSwapPending' = TRUE
  /\ response' = ContentReply("SUCCESS")
  /\ pc' = "idle"
  /\ UNCHANGED <<offerVars, offer, timerVars, imageVars>>

-------------------------------------------------------------------------------
(* Slip: the component has read its image, so nothing waits for a swap any more. *)
ReadCompleteCallbackSlip ==
  /\ readComplete # {}
  /\ updateInProgress' = FALSE
  /\ bankSwapPending' = FALSE
  /\ UNCHANGED <<activeComponentId, pc, offer, timerVars, imageVars, response>>

(* _ReadCompleteCallback.  A component that holds it may call it at any time *)
(* and any number of times: nothing in the interface takes it back.          *)
ReadCompleteCallback ==
  /\ readComplete # {}
  /\ updateInProgress' = FALSE
  /\ UNCHANGED <<activeComponentId, bankSwapPending, pc, offer, timerVars,
                 imageVars, response>>

(***************************************************************************)
(* The fail-safe timer.  Its period is 20 minutes, so it does not expire   *)
(* between the restart in OfferArm and the assignments of OfferCommit.     *)
(* The platform runs _UpdateTimerCallback                                  *)
(*   "highest"  at once, in a task no other task can delay;                *)
(*   "guarded"  later, as one critical section;                            *)
(*   "bare"     later, a statement at a time.                              *)
(* The timer may be of the one-shot or of the periodic kind.               *)
(***************************************************************************)
Expires == timer = "running" /\ pc # "commit"

ExpireAtOnce ==
  /\ timerTask = "highest"
  /\ Expires
  /\ updateInProgress' = FALSE
  /\ timer' = "stopped"
  /\ UNCHANGED <<activeComponentId, bankSwapPending, pc, offer, timerCallback, timerTask,
                 imageVars, response>>

ExpireQueued ==
  /\ timerTask # "highest"
  /\ Expires
  /\ timerCallback = "none"
  /\ timerCallback' = "queued"
  /\ timer' \in {"running", "stopped"}
  /\ UNCHANGED <<offerVars, bankSwapPending, pc, offer, timerTask, imageVars, response>>

UpdateTimerCallback ==
  /\ timerTask = "guarded"
  /\ timerCallback = "queued"
  /\ updateInProgress' = FALSE
  /\ timer' = "stopped"
  /\ timerCallback' = "none"
  /\ UNCHANGED <<activeComponentId, bankSwapPending, pc, offer, timerTask, imageVars,
                 response>>

UpdateTimerCallbackClear ==
  /\ timerTask = "bare"
  /\ timerCallback = "queued"
  /\ updateInProgress' = FALSE
  /\ timerCallback' = "cleared"
  /\ UNCHANGED <<activeComponentId, bankSwapPending, pc, offer, timer, timerTask, imageVars,
                 response>>

UpdateTimerCallbackStop ==
  /\ timerCallback = "cleared"
  /\ timer' = "stopped"
  /\ timerCallback' = "none"
  /\ UNCHANGED <<offerVars, bankSwapPending, pc, offer, timerTask, imageVars, response>>

TimerStep == \/ ExpireAtOnce \/ ExpireQueued \/ UpdateTimerCallback
             \/ UpdateTimerCallbackClear \/ UpdateTimerCallbackStop

-------------------------------------------------------------------------------
(* FirmwareUpdateInit and the zeroed statics; nothing is offered before them. *)
Init ==
  /\ activeComponentId = 0
  /\ updateInProgress = FALSE
  /\ bankSwapPending = FALSE
  /\ pc = "idle"
  /\ offer = NoOffer
  /\ timer = "stopped"
  /\ timerCallback = "none"
  /\ timerTask \in TimerTasks
  /\ readComplete = {}
  /\ store = [c \in StoreId |-> ErasedStore]
  /\ handed = {}
  /\ response = NoResponse

(* A restart, at any time: the bank swap, a forced reset or a power loss. *)
Reset ==
  /\ activeComponentId' = 0
  /\ updateInProgress' = FALSE
  /\ bankSwapPending' = FALSE
  /\ pc' = "idle"
  /\ offer' = NoOffer
  /\ timer' = "stopped"
  /\ timerCallback' = "none"
  /\ readComplete' = {}
  /\ handed' = {}
  /\ response' = NoResponse
  /\ UNCHANGED <<store, timerTask>>

OfferStep(o) == \/ OfferBusy(o) \/ OfferGetStatus(o) \/ OfferSwapPending(o)
                \/ OfferUnmatched(o) \/ OfferPresented(o)

ContentStep(a, image) ==
  \/ ContentFirst(a, image) \/ ContentMiddle(a, image)
  \/ ContentLastRefused(a, image) \/ ContentLastHandOver(a, image)

Next == \/ \E o \in OfferCommand : OfferStep(o)
        \/ OfferArm
        \/ OfferCommit
        \/ \E a \in Cell, image \in Image : ContentStep(a, image)
        \/ ContentSwap
        \/ ReadCompleteCallback
        \/ TimerStep
        \/ Reset

Spec == Init /\ [][Next]_vars

(* A handler that has started runs on, and the timer keeps time.  Nothing is *)
(* asked of the hosts, of the components or of a reset.                      *)
Fairness == /\ WF_vars(OfferArm) /\ WF_vars(OfferCommit) /\ WF_vars(ContentSwap)
            /\ WF_vars(TimerStep)

FairSpec == Spec /\ Fairness

-------------------------------------------------------------------------------
TypeOK ==
  /\ activeComponentId \in StoreId
  /\ updateInProgress \in BOOLEAN
  /\ bankSwapPending \in BOOLEAN
  /\ pc \in {"idle", "arm", "commit", "swap"}
  /\ offer \in OfferCommand \cup {NoOffer}
  /\ pc \in {"arm", "commit"} => offer \in OfferCommand /\ offer.componentId \in Registered
  /\ timer \in {"stopped", "running"}
  /\ timerCallback \in {"none", "queued", "cleared"}
  /\ timerTask \in TimerTasks
  /\ readComplete \subseteq CallbackKinds
  /\ store \in [StoreId -> [Cell -> Image \cup {"erased"}]]
  /\ handed \subseteq Registered
  /\ response \in OfferResponse \cup ContentResponse \cup {NoResponse}

(* The read-complete callback clears updateInProgress without asking whose    *)
(* update it is (line 118).  A component that took its image never ends a     *)
(* later session with it: none is accepted until the reset.  One that failed  *)
(* NotifySuccess and keeps the callback can; nothing in the code stops that.  *)
NoStaleCompletion == "outlived" \notin readComplete

(* While a session is in progress its component has a registration, so the   *)
(* last block finds an interface to call (lines 211-227, 288): the loop never *)
(* ends with a null pRegistration and a status of SUCCESS.                    *)
SessionIsRegistered == updateInProgress \/ pc = "swap" => activeComponentId \in Registered

(* Until the reset that swaps the banks the engine is the updated component's: *)
(* no other one is written to, or handed an image, while an image waits, for    *)
(* whatever content commands arrive and callbacks run (lines 178, 298-301).     *)
SwapIsOfOneComponent == handed \subseteq {activeComponentId}

(* The fail-safe timer covers every session: whenever one is in progress the *)
(* timer is running (lines 445-450), although no path that ends a session    *)
(* stops it and an expiry of an earlier session may still be due.  This asks *)
(* for a timer task that nothing delays; see UpdateEndsOnAnyPlatform.        *)
SessionIsTimed == timerTask = "highest" /\ updateInProgress => timer = "running"

(* No update lasts for ever: the engine takes offers again (lines 445-447). *)
UpdateEnds == timerTask = "highest" /\ updateInProgress ~> ~updateInProgress

(* The states of the engine as its hosts see them; see CfuSession. *)
Session == INSTANCE CfuSession WITH
  Component <- Registered,
  phase <- IF bankSwapPending THEN "swapPending"
           ELSE IF updateInProgress THEN "updating" ELSE "ready",
  component <- activeComponentId

SessionSpec == Session!Spec

-------------------------------------------------------------------------------
(***************************************************************************)
(* What the sources say of the engine and its code does not do.  Each is   *)
(* refuted by a run of its own; README.md tells the stories.               *)
(***************************************************************************)

(* ComponentFwUpdate.c 445-447: the timer is there "to ensure the FW does not   *)
(* wait forever for the update process to complete", whichever task the        *)
(* platform runs its callback in.                                              *)
UpdateEndsOnAnyPlatform == updateInProgress ~> ~updateInProgress

(* ComponentFwUpdate.c 299-301: with s_bankSwapPending set "the CFU engine  *)
(* will not accept another image until the swap occurs", so the image that  *)
(* waits for the swap stays as it was verified.                             *)
PendingImageIsKept ==
  bankSwapPending => \A c \in handed : IsImage(store[c])
===============================================================================
