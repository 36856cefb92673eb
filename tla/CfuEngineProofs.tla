---------------------------- MODULE CfuEngineProofs ----------------------------
(* What CfuEngine guarantees for any components, images and stores, proved. *)
EXTENDS CfuEngine, TLAPS

(* Once an image has been taken the handler is on its way to set        *)
(* s_bankSwapPending or has set it; an offer is under way only while neither   *)
(* a swap is pending nor a session in progress.                                *)
SwapGuard ==
  /\ handed # {} \/ readComplete \cap {"taken", "outlived"} # {} =>
       bankSwapPending \/ pc = "swap"
  /\ pc \in {"arm", "commit"} => ~bankSwapPending /\ ~updateInProgress

(* An image on its way to the swap is whole: the guard of Verification, kept    *)
(* until the handler is done with it.                                          *)
HandOverGuard == pc = "swap" => IsImage(store[activeComponentId])

(* What makes the timer cover every session where its callback runs at once. *)
TimerGuard ==
  timerTask = "highest" =>
    /\ timerCallback = "none"
    /\ updateInProgress \/ pc = "commit" => timer = "running"

(* The inductive invariant. *)
IInv == /\ TypeOK
        /\ SwapGuard
        /\ NoStaleCompletion
        /\ SessionIsRegistered
        /\ SwapIsOfOneComponent
        /\ HandOverGuard
        /\ TimerGuard

-------------------------------------------------------------------------------
(* Verification lets an image pass only for a component whose GetCrcOffset     *)
(* succeeds, and then only a whole one: the branch that skips the CRC check    *)
(* asks for a status that MCU_SUCCESS takes for a failure.                     *)
LEMMA VerifiedIsWhole ==
  ASSUME NEW status \in McuStatus, NEW crcRead \in BOOLEAN, NEW cells,
         NEW authentic \in BOOLEAN,
         Verification(status, crcRead, cells, authentic) = "SUCCESS"
  PROVE  status = "SUCCESS" /\ IsImage(cells)
  BY DEF Verification, McuSuccess, McuStatus, Severity

(* A component id without registration passes no verification. *)
LEMMA VerifiedIsRegistered ==
  ASSUME NEW c, NEW status \in CrcOffsetResults(c), NEW crcRead \in BOOLEAN, NEW cells,
         NEW authentic \in BOOLEAN,
         Verification(status, crcRead, cells, authentic) = "SUCCESS"
  PROVE  c \in Registered /\ IsImage(cells)
<1>1. status \in McuStatus
  BY DEF CrcOffsetResults, McuStatus, Severity
<1>2. status = "SUCCESS" /\ IsImage(cells)
  BY <1>1, VerifiedIsWhole
<1>3. QED
  BY <1>2 DEF CrcOffsetResults

(* A store stays well typed when one component's cells are replaced. *)
LEMMA StoreType ==
  ASSUME TypeOK, NEW cells \in [Cell -> Image \cup {"erased"}], StoreBecomes(cells)
  PROVE  store' \in [StoreId -> [Cell -> Image \cup {"erased"}]]
  BY DEF TypeOK, StoreBecomes

(* Everything a block write may leave in the cells is well typed, at whatever address *)
(* and with whatever data a host sends.                                               *)
LEMMA CellsType ==
  ASSUME NEW cells \in [Cell -> Image \cup {"erased"}], NEW a,
         NEW i \in Image \cup {"erased"}
  PROVE  /\ Written(cells, a, i) \in [Cell -> Image \cup {"erased"}]
         /\ AfterFailedWrite(cells, a) \subseteq [Cell -> Image \cup {"erased"}]
  BY DEF Written, AfterFailedWrite

(* A content step other than the hand-over: it writes the store, replies, can  *)
(* only end the session, and leaves a callback at most with who refused.       *)
OrdinaryContent ==
  /\ pc = "idle"
  /\ store' \in [StoreId -> [Cell -> Image \cup {"erased"}]]
  /\ \E status \in ContentStatus : Answer(status)
  /\ readComplete' \in {readComplete, readComplete \cup {"refused"}}
  /\ UNCHANGED handed

(* A content command that hands nothing over is an OrdinaryContent, whatever it *)
(* writes.                                                                      *)
LEMMA OrdinaryContentSteps ==
  ASSUME TypeOK, NEW a, NEW i \in Image \cup {"erased"},
         ContentFirst(a, i) \/ ContentMiddle(a, i) \/ ContentLastRefused(a, i)
  PROVE  OrdinaryContent
<1> DEFINE Cells == [Cell -> Image \cup {"erased"}]
<1>1. store[activeComponentId] \in Cells /\ ErasedStore \in Cells
  BY DEF TypeOK, ErasedStore
<1>2. ASSUME NEW cells \in Cells, WriteBlock(cells, a, i)
      PROVE  /\ store' \in [StoreId -> Cells]
             /\ \E status \in ContentStatus : Answer(status)
  <2>1. CASE StoreBecomes(Written(cells, a, i)) /\ Answer("SUCCESS")
    BY <2>1, CellsType, StoreType DEF ContentStatus
  <2>2. CASE \E left \in AfterFailedWrite(cells, a) :
               StoreBecomes(left) /\ Answer("ERROR_WRITE")
    BY <2>2, CellsType, StoreType DEF ContentStatus
  <2>3. QED
    BY <1>2, <2>1, <2>2 DEF WriteBlock
<1>3. CASE ContentFirst(a, i)
  <2>1. CASE WriteBlock(ErasedStore, a, i)
    BY <1>1, <1>2, <1>3, <2>1 DEF ContentFirst, OrdinaryContent
  <2>2. CASE /\ \E left \in {store[activeComponentId], ErasedStore} : StoreBecomes(left)
             /\ Answer("ERROR_PREPARE")
    BY <1>1, <1>3, <2>2, StoreType DEF ContentFirst, OrdinaryContent, ContentStatus
  <2>3. QED
    BY <1>3, <2>1, <2>2 DEF ContentFirst
<1>4. CASE ContentMiddle(a, i)
  BY <1>1, <1>2, <1>4 DEF ContentMiddle, OrdinaryContent
<1>5. CASE ContentLastRefused(a, i)
  <2> DEFINE old == store[activeComponentId]
             new == Written(old, a, i)
  <2>1. CASE /\ \E left \in AfterFailedWrite(old, a) :
                  StoreBecomes(left) /\ Answer("ERROR_WRITE")
             /\ UNCHANGED readComplete
    BY <1>1, <1>5, <2>1, CellsType, StoreType
       DEF ContentLastRefused, OrdinaryContent, ContentStatus
  <2>2. CASE /\ StoreBecomes(new)
             /\ \E r \in CrcOffsetResults(activeComponentId), crcRead, authentic \in BOOLEAN :
                  LET status == Verification(r, crcRead, new, authentic)
                  IN  \/ status # "SUCCESS" /\ Answer(status) /\ UNCHANGED readComplete
                      \/ /\ status = "SUCCESS" /\ Answer("ERROR_COMPLETE")
                         /\ readComplete' \in {readComplete, readComplete \cup {"refused"}}
    <3>1. store' \in [StoreId -> Cells]
      BY <1>1, <2>2, CellsType, StoreType
    <3>2. ASSUME NEW r, NEW crcRead, NEW authentic
          PROVE  Verification(r, crcRead, new, authentic) \in ContentStatus
      BY DEF Verification, ContentStatus
    <3>3. \E status \in ContentStatus : Answer(status)
      BY <2>2, <3>2 DEF ContentStatus
    <3>4. readComplete' \in {readComplete, readComplete \cup {"refused"}}
      BY <2>2
    <3>5. QED
      BY <1>5, <3>1, <3>3, <3>4 DEF ContentLastRefused, OrdinaryContent
  <2>3. QED
    BY <1>5, <2>1, <2>2 DEF ContentLastRefused
<1>6. QED
  BY <1>3, <1>4, <1>5

-------------------------------------------------------------------------------
(* The engine starts in the invariant. *)
LEMMA InitInv == Init => IInv
<1> SUFFICES ASSUME Init
             PROVE  IInv
  OBVIOUS
<1>1. TypeOK
  BY DEF Init, TypeOK, StoreId, ErasedStore
<1>2. /\ SwapGuard /\ NoStaleCompletion /\ SessionIsRegistered
      /\ SwapIsOfOneComponent /\ HandOverGuard
  BY DEF Init, SwapGuard, NoStaleCompletion, SessionIsRegistered, SwapIsOfOneComponent,
         HandOverGuard
<1>3. TimerGuard
  BY DEF Init, TimerGuard
<1>4. QED
  BY <1>1, <1>2, <1>3 DEF IInv

(* The early returns and the offers that no registration matches touch nothing *)
(* but the response.                                                           *)
LEMMA RefusedOfferStep ==
  ASSUME IInv, NEW o \in OfferCommand,
         OfferBusy(o) \/ OfferGetStatus(o) \/ OfferSwapPending(o) \/ OfferUnmatched(o)
  PROVE  IInv'
<1> USE DEF IInv
<1>1. /\ response' \in OfferResponse
      /\ UNCHANGED <<offerVars, bankSwapPending, pc, offer, timerVars, imageVars>>
  BY DEF OfferBusy, OfferGetStatus, OfferSwapPending, OfferUnmatched, Refuse,
         OfferReply, OfferResponse, OfferStatus, OfferCommand
<1>2. TypeOK'
  BY <1>1 DEF TypeOK, offerVars, timerVars, imageVars
<1>3. (SwapGuard /\ NoStaleCompletion /\ SessionIsRegistered /\ SwapIsOfOneComponent
       /\ TimerGuard)'
  BY <1>1 DEF SwapGuard, NoStaleCompletion, SessionIsRegistered, SwapIsOfOneComponent,
              TimerGuard,
              offerVars, timerVars, imageVars
<1>4. HandOverGuard'
  BY <1>1 DEF HandOverGuard, IsImage, offerVars, imageVars
<1>5. QED
  BY <1>2, <1>3, <1>4

(* The decision on an offer opens no session yet. *)
LEMMA OfferPresentedStep ==
  ASSUME IInv, NEW o \in OfferCommand, OfferPresented(o)
  PROVE  IInv'
<1> USE DEF IInv
<1>1. /\ response' \in OfferResponse
      /\ \/ pc' = "arm" /\ offer' = o
         \/ UNCHANGED <<pc, offer>>
      /\ UNCHANGED <<offerVars, bankSwapPending, timerVars, imageVars>>
  BY DEF OfferPresented, OfferReply, OfferResponse, OfferStatus, OfferCommand, Decision
<1>2. /\ pc = "idle" /\ ~bankSwapPending /\ ~updateInProgress
      /\ o.componentId \in Registered
  BY IdAssumption DEF OfferPresented, Examined
<1>3. TypeOK'
  BY <1>1, <1>2 DEF TypeOK, offerVars, timerVars, imageVars
<1>4. (SwapGuard /\ NoStaleCompletion /\ SessionIsRegistered /\ SwapIsOfOneComponent
       /\ TimerGuard)'
  <2>1. SwapGuard'
    BY <1>1, <1>2 DEF SwapGuard, offerVars, imageVars
  <2>2. (NoStaleCompletion /\ SessionIsRegistered /\ SwapIsOfOneComponent)'
    BY <1>1, <1>2 DEF NoStaleCompletion, SessionIsRegistered, SwapIsOfOneComponent,
                      offerVars, imageVars
  <2>3. TimerGuard'
    BY <1>1, <1>2 DEF TimerGuard, offerVars, timerVars
  <2>4. QED
    BY <2>1, <2>2, <2>3
<1>5. HandOverGuard'
  BY <1>1, <1>2 DEF HandOverGuard, IsImage, offerVars, imageVars
<1>6. QED
  BY <1>3, <1>4, <1>5

(* The timer is restarted before the session is there. *)
LEMMA OfferArmStep == IInv /\ OfferArm => IInv'
<1> SUFFICES ASSUME IInv, OfferArm
             PROVE  IInv'
  OBVIOUS
<1> USE DEF IInv, OfferArm
<1>1. TypeOK'
  BY DEF TypeOK, offerVars, imageVars
<1>2. (SwapGuard /\ NoStaleCompletion /\ SessionIsRegistered /\ SwapIsOfOneComponent
       /\ TimerGuard)'
  BY DEF SwapGuard, NoStaleCompletion, SessionIsRegistered, SwapIsOfOneComponent,
         TimerGuard, offerVars, imageVars
<1>3. HandOverGuard'
  BY DEF HandOverGuard
<1>4. QED
  BY <1>1, <1>2, <1>3

(* The step the invariant is for: with an offer under way no bank swap is     *)
(* pending, so no component has taken an image, and the timer is running.     *)
LEMMA OfferCommitStep == IInv /\ OfferCommit => IInv'
<1> SUFFICES ASSUME IInv, OfferCommit
             PROVE  IInv'
  OBVIOUS
<1> USE DEF IInv, OfferCommit
<1>1. /\ handed = {} /\ handed' = {}
      /\ readComplete \subseteq {"refused"} /\ readComplete' = readComplete
  BY DEF SwapGuard, TypeOK, CallbackKinds
<1>2. TypeOK'
  BY <1>1 DEF TypeOK, CallbackKinds, StoreId, timerVars
<1>3. (SwapGuard /\ NoStaleCompletion /\ SessionIsRegistered /\ SwapIsOfOneComponent
       /\ TimerGuard)'
  BY <1>1 DEF TypeOK, SwapGuard, NoStaleCompletion, SessionIsRegistered,
              SwapIsOfOneComponent, TimerGuard, timerVars
<1>4. HandOverGuard'
  BY DEF HandOverGuard
<1>5. QED
  BY <1>2, <1>3, <1>4

(* Content that hands nothing over touches no session and no callback. *)
LEMMA OrdinaryContentStep == IInv /\ OrdinaryContent => IInv'
<1> SUFFICES ASSUME IInv, OrdinaryContent
             PROVE  IInv'
  OBVIOUS
<1> USE DEF IInv, OrdinaryContent
<1>1. /\ response' \in ContentResponse
      /\ updateInProgress' \in BOOLEAN
      /\ updateInProgress' => updateInProgress
      /\ UNCHANGED <<activeComponentId, bankSwapPending, pc, offer, timerVars>>
  BY DEF Answer, ContentReply, ContentResponse, ContentStatus, TypeOK
<1>2. TypeOK'
  BY <1>1 DEF TypeOK, CallbackKinds, timerVars
<1>3. (SwapGuard /\ NoStaleCompletion /\ SessionIsRegistered /\ SwapIsOfOneComponent
       /\ TimerGuard)'
  BY <1>1 DEF SwapGuard, NoStaleCompletion, SessionIsRegistered, SwapIsOfOneComponent,
              TimerGuard, timerVars
<1>4. HandOverGuard'
  BY <1>1 DEF HandOverGuard
<1>5. QED
  BY <1>2, <1>3, <1>4

(* What is handed over is whole and goes to a registered component. *)
LEMMA HandOverStep ==
  ASSUME IInv, NEW a, NEW i \in Image \cup {"erased"}, ContentLastHandOver(a, i)
  PROVE  IInv'
<1> USE DEF IInv
<1> DEFINE cells == Written(store[activeComponentId], a, i)
<1>1. cells \in [Cell -> Image \cup {"erased"}]
  BY CellsType DEF TypeOK
<1>2. activeComponentId \in Registered /\ IsImage(cells)
  <2>1. PICK r \in CrcOffsetResults(activeComponentId) :
          Verification(r, TRUE, cells, TRUE) = "SUCCESS"
    BY DEF ContentLastHandOver
  <2>2. QED
    BY <2>1, VerifiedIsRegistered
<1>3. StoreBecomes(cells)
  BY DEF ContentLastHandOver
<1>4. store' \in [StoreId -> [Cell -> Image \cup {"erased"}]]
  BY <1>1, <1>3, StoreType
<1>5. store'[activeComponentId] = cells
  BY <1>3 DEF StoreBecomes, TypeOK
<1>6. TypeOK'
  BY <1>2, <1>4 DEF TypeOK, CallbackKinds, ContentLastHandOver, offerVars, timerVars
<1>7. (SwapGuard /\ NoStaleCompletion /\ SessionIsRegistered /\ SwapIsOfOneComponent
       /\ TimerGuard)'
  BY <1>2 DEF ContentLastHandOver, SwapGuard, NoStaleCompletion, SessionIsRegistered,
              SwapIsOfOneComponent,
              TimerGuard, offerVars, timerVars
<1>8. HandOverGuard'
  BY <1>2, <1>5 DEF HandOverGuard, IsImage, ContentLastHandOver, offerVars
<1>9. QED
  BY <1>6, <1>7, <1>8

(* The session ends with the pending swap that lets a component hold the callback. *)
LEMMA ContentSwapStep == IInv /\ ContentSwap => IInv'
<1> SUFFICES ASSUME IInv, ContentSwap
             PROVE  IInv'
  OBVIOUS
<1> USE DEF IInv, ContentSwap
<1>1. TypeOK'
  BY DEF TypeOK, ContentReply, ContentResponse, ContentStatus, offerVars, timerVars,
         imageVars
<1>2. (SwapGuard /\ NoStaleCompletion /\ SessionIsRegistered /\ SwapIsOfOneComponent
       /\ TimerGuard)'
  BY DEF SwapGuard, NoStaleCompletion, SessionIsRegistered, SwapIsOfOneComponent,
         TimerGuard,
         offerVars, timerVars, imageVars
<1>3. HandOverGuard'
  BY DEF HandOverGuard
<1>4. QED
  BY <1>1, <1>2, <1>3

(* The callback of the component only ever ends a session. *)
LEMMA ReadCompleteStep == IInv /\ ReadCompleteCallback => IInv'
<1> SUFFICES ASSUME IInv, ReadCompleteCallback
             PROVE  IInv'
  OBVIOUS
<1> USE DEF IInv, ReadCompleteCallback
<1>1. TypeOK'
  BY DEF TypeOK, timerVars, imageVars
<1>2. (SwapGuard /\ NoStaleCompletion /\ SessionIsRegistered /\ SwapIsOfOneComponent
       /\ TimerGuard)'
  BY DEF SwapGuard, NoStaleCompletion, SessionIsRegistered, SwapIsOfOneComponent,
         TimerGuard, timerVars, imageVars
<1>3. HandOverGuard'
  BY DEF HandOverGuard, IsImage, imageVars
<1>4. QED
  BY <1>1, <1>2, <1>3

(* The callbacks and the replies can only end an update, never start one. *)
MayEndUpdate == updateInProgress' \in BOOLEAN /\ (updateInProgress' => updateInProgress)

(* The timer only ever ends a session, and leaves offers and images alone. *)
LEMMA TimerMayEnd ==
  ASSUME TypeOK, TimerStep
  PROVE  /\ timer' \in {"stopped", "running"}
         /\ timerCallback' \in {"none", "queued", "cleared"}
         /\ MayEndUpdate
         /\ UNCHANGED <<activeComponentId, bankSwapPending, pc, offer, timerTask, imageVars,
                        response>>
<1> USE DEF TypeOK, MayEndUpdate
<1>1. CASE ExpireAtOnce
  BY <1>1 DEF ExpireAtOnce
<1>2. CASE ExpireQueued
  BY <1>2 DEF ExpireQueued, offerVars
<1>3. CASE UpdateTimerCallback
  BY <1>3 DEF UpdateTimerCallback
<1>4. CASE UpdateTimerCallbackClear
  BY <1>4 DEF UpdateTimerCallbackClear
<1>5. CASE UpdateTimerCallbackStop
  BY <1>5 DEF UpdateTimerCallbackStop, offerVars
<1>6. QED
  BY <1>1, <1>2, <1>3, <1>4, <1>5 DEF TimerStep

(* So the steps of the timer keep the invariant. *)
LEMMA TimerInvStep == IInv /\ TimerStep => IInv'
<1> SUFFICES ASSUME IInv, TimerStep
             PROVE  IInv'
  OBVIOUS
<1> USE DEF IInv
<1>1. /\ timer' \in {"stopped", "running"}
      /\ timerCallback' \in {"none", "queued", "cleared"}
      /\ MayEndUpdate
      /\ UNCHANGED <<activeComponentId, bankSwapPending, pc, offer, timerTask, imageVars,
                     response>>
  BY TimerMayEnd
<1>2. TypeOK'
  BY <1>1 DEF TypeOK, imageVars, MayEndUpdate
<1>3. (SwapGuard /\ NoStaleCompletion /\ SessionIsRegistered /\ SwapIsOfOneComponent)'
  BY <1>1 DEF MayEndUpdate, SwapGuard, NoStaleCompletion, SessionIsRegistered,
              SwapIsOfOneComponent, imageVars
<1>4. TimerGuard'
  BY DEF TimerGuard, TimerStep, Expires, ExpireAtOnce, ExpireQueued, UpdateTimerCallback,
         UpdateTimerCallbackClear, UpdateTimerCallbackStop
<1>5. HandOverGuard'
  BY <1>1 DEF HandOverGuard, IsImage, imageVars
<1>6. QED
  BY <1>2, <1>3, <1>4, <1>5

(* A restart takes the engine back to a state without session, swap or callback. *)
LEMMA ResetStep == IInv /\ Reset => IInv'
  BY DEF Reset, IInv, TypeOK, SwapGuard, NoStaleCompletion, SessionIsRegistered,
         SwapIsOfOneComponent,
         HandOverGuard, TimerGuard, StoreId

(* Stuttering keeps the invariant. *)
LEMMA StutterStep == IInv /\ UNCHANGED vars => IInv'
  BY DEF vars, offerVars, timerVars, imageVars, IInv, TypeOK, SwapGuard,
         NoStaleCompletion,
         SessionIsRegistered, SwapIsOfOneComponent, HandOverGuard, IsImage, TimerGuard

(* The invariant is inductive. *)
LEMMA NextInv == IInv /\ [Next]_vars => IInv'
<1> SUFFICES ASSUME IInv, [Next]_vars
             PROVE  IInv'
  OBVIOUS
<1>1. ASSUME NEW o \in OfferCommand, OfferStep(o)
      PROVE  IInv'
  BY <1>1, RefusedOfferStep, OfferPresentedStep DEF OfferStep
<1>2. ASSUME NEW a \in Cell, NEW i \in Image, ContentStep(a, i)
      PROVE  IInv'
  BY <1>2, OrdinaryContentSteps, OrdinaryContentStep, HandOverStep DEF ContentStep, IInv
<1>3. QED
  BY <1>1, <1>2, OfferArmStep, OfferCommitStep, ContentSwapStep, ReadCompleteStep,
     TimerInvStep, ResetStep, StutterStep DEF Next

(* The inductive invariant holds of every behaviour of the engine. *)
THEOREM Invariance == Spec => []IInv
  BY InitInv, NextInv, PTL DEF Spec

-------------------------------------------------------------------------------
(* Every variable keeps its type. *)
THEOREM TypeCorrect == Spec => []TypeOK
<1>1. IInv => TypeOK
  BY DEF IInv
<1>2. QED
  BY <1>1, Invariance, PTL

(* A component that took its image never ends a later session with the callback, *)
(* however late or often it calls it and whatever the components that failed     *)
(* NotifySuccess do with theirs, for any number of components.                   *)
THEOREM CompletionIsNeverStale == Spec => []NoStaleCompletion
<1>1. IInv => NoStaleCompletion
  BY DEF IInv
<1>2. QED
  BY <1>1, Invariance, PTL

(* The content handler never calls through a registration it has not found. *)
THEOREM SessionsAreRegistered == Spec => []SessionIsRegistered
<1>1. IInv => SessionIsRegistered
  BY DEF IInv
<1>2. QED
  BY <1>1, Invariance, PTL

(* From the hand-over to the reset the engine works for the component that took *)
(* the image and for no other, whatever the hosts send.                         *)
THEOREM SwapIsOfOneComponentCorrect == Spec => []SwapIsOfOneComponent
<1>1. IInv => SwapIsOfOneComponent
  BY DEF IInv
<1>2. QED
  BY <1>1, Invariance, PTL

(* Where the timer task has the highest priority, the timer runs whenever an *)
(* update is in progress.                                                    *)
THEOREM SessionsAreTimed == Spec => []SessionIsTimed
<1>1. IInv => SessionIsTimed
  BY DEF IInv, TimerGuard, SessionIsTimed
<1>2. QED
  BY <1>1, Invariance, PTL

-------------------------------------------------------------------------------
(* The engine implements the session automaton of CfuSession. *)
LEMMA SessionInit == Init => Session!Init
  BY DEF Init, Session!Init

(* A step that can only end a session maps to End or to a stutter. *)
LEMMA MayEnd ==
  ASSUME TypeOK, UNCHANGED <<activeComponentId, bankSwapPending>>, MayEndUpdate
  PROVE  [Session!Next]_(Session!vars)
<1>1. CASE updateInProgress /\ ~updateInProgress'
  BY <1>1 DEF TypeOK, Session!Next, Session!End, Session!vars
<1>2. CASE updateInProgress /\ updateInProgress'
  BY <1>2 DEF TypeOK, Session!vars
<1>3. CASE ~updateInProgress /\ ~updateInProgress'
  BY <1>3 DEF TypeOK, Session!vars
<1>4. QED
  BY <1>1, <1>2, <1>3 DEF MayEndUpdate

(* Every step of the engine is one of the session automaton, or a stutter of it. *)
LEMMA SessionNext == IInv /\ [Next]_vars => [Session!Next]_(Session!vars)
<1> SUFFICES ASSUME IInv, [Next]_vars
             PROVE  [Session!Next]_(Session!vars)
  OBVIOUS
<1>0. TypeOK
  BY DEF IInv
<1>1. ASSUME NEW o \in OfferCommand, OfferStep(o)
      PROVE  [Session!Next]_(Session!vars)
  <2>1. UNCHANGED <<offerVars, bankSwapPending>>
    BY <1>1 DEF OfferStep, OfferBusy, OfferGetStatus, OfferSwapPending, OfferUnmatched,
                OfferPresented, Refuse
  <2>2. QED
    BY <1>0, <2>1, MayEnd DEF offerVars, MayEndUpdate, TypeOK
<1>2. CASE OfferArm
  BY <1>0, <1>2, MayEnd DEF OfferArm, offerVars, MayEndUpdate, TypeOK
<1>3. CASE OfferCommit
  <2>1. offer.componentId \in Registered /\ ~bankSwapPending /\ ~updateInProgress
    BY <1>3 DEF OfferCommit, IInv, TypeOK, SwapGuard
  <2>2. QED
    BY <1>3, <2>1 DEF OfferCommit, Session!Next, Session!Accept, Session!vars
<1>4. ASSUME NEW a \in Cell, NEW i \in Image, ContentStep(a, i)
      PROVE  [Session!Next]_(Session!vars)
  <2>1. CASE ContentLastHandOver(a, i)
    BY <1>0, <2>1, MayEnd DEF ContentLastHandOver, offerVars, MayEndUpdate, TypeOK
  <2>2. CASE OrdinaryContent
    <3>1. /\ UNCHANGED <<activeComponentId, bankSwapPending>>
          /\ MayEndUpdate
      BY <1>0, <2>2 DEF OrdinaryContent, Answer, MayEndUpdate, TypeOK
    <3>2. QED
      BY <1>0, <3>1, MayEnd
  <2>3. QED
    BY <1>0, <1>4, <2>1, <2>2, OrdinaryContentSteps DEF ContentStep
<1>5. CASE ContentSwap
  BY <1>0, <1>5 DEF ContentSwap, TypeOK, Session!Next, Session!Complete, Session!vars,
                    offerVars
<1>6. CASE ReadCompleteCallback
  BY <1>0, <1>6, MayEnd DEF ReadCompleteCallback, MayEndUpdate
<1>7. CASE TimerStep
  BY <1>0, <1>7, TimerMayEnd, MayEnd
<1>8. CASE Reset
  BY <1>8 DEF Reset, Session!Next, Session!Reset
<1>9. CASE UNCHANGED vars
  BY <1>0, <1>9, MayEnd DEF vars, offerVars, MayEndUpdate, TypeOK
<1>10. QED
  BY <1>1, <1>2, <1>3, <1>4, <1>5, <1>6, <1>7, <1>8, <1>9 DEF Next

(* Every behaviour of the engine is one of the session automaton: an offer is *)
(* accepted by a ready engine only, and only a restart leaves swapPending.    *)
THEOREM EngineImplementsSession == Spec => SessionSpec
  BY SessionInit, SessionNext, Invariance, PTL DEF Spec, SessionSpec, Session!Spec
===============================================================================
