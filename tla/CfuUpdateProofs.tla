---------------------------- MODULE CfuUpdateProofs ----------------------------
(* What the tool and the engine guarantee together, proved on top of what each of *)
(* them guarantees alone (CfuToolProofs, CfuEngineProofs).                        *)
EXTENDS CfuUpdate, SequenceTheorems, TLAPS

HostProofs == INSTANCE CfuToolProofs WITH Lossy <- TRUE

EngineProofs == INSTANCE CfuEngineProofs
                  WITH OfferedId <- Registered, Image <- Tool, Token <- Tool

(* The engine is in the middle of a command only while it is given one, and what *)
(* it answers in the end is of the command's kind.                               *)
ServingGuard ==
  /\ serving => commands # <<>>
  /\ pc # "idle" => serving
  /\ serving /\ Command.kind = "offer" =>
       pc \in {"idle", "arm", "commit"} /\ response \in EngineProofs!OfferResponse
  /\ serving /\ Command.kind = "content" =>
       /\ pc \in {"idle", "swap"}
       /\ pc = "idle" => response \in EngineProofs!ContentResponse

HistoryOK ==
  /\ serving \in BOOLEAN
  /\ granted \subseteq Tool
  /\ installed \subseteq (EngineProofs!StoreId \X Tool)
  /\ restarts \in 0..Restarts

(* The inductive invariant. *)
IInv == /\ HostProofs!IInv
        /\ EngineProofs!IInv
        /\ ServingGuard
        /\ HistoryOK

-------------------------------------------------------------------------------
(* The parts. *)

(* The constants suit the tool's proofs. *)
LEMMA HostFits == HostProofs!ToolAssumption
BY PartsAssumption
   DEF Host!ToolAssumption, Host!IsFile, Host!LengthRead, Host!Record, Host!MaxPayload,
       HostProofs!ToolAssumption, HostProofs!IsFile, HostProofs!LengthRead,
       HostProofs!Record, HostProofs!MaxPayload

(* The constants suit the engine's proofs. *)
LEMMA EngineFits ==
  /\ EngineProofs!IdAssumption
  /\ EngineProofs!DataAssumption
  /\ EngineProofs!TimerTaskAssumption
BY PartsAssumption
   DEF Engine!IdAssumption, Engine!DataAssumption, Engine!TimerTaskAssumption,
       Engine!SpecialId, EngineProofs!IdAssumption, EngineProofs!DataAssumption,
       EngineProofs!TimerTaskAssumption, EngineProofs!SpecialId

(* The tool of CfuUpdate is the one that CfuToolProofs is about. *)
LEMMA SameToolInit == Host!ToolInit => HostProofs!ToolInit
BY DEF Host!ToolInit, HostProofs!ToolInit, Host!NoReport, HostProofs!NoReport

(* Both instances find the same packets in a file. *)
LEMMA SamePackets ==
  /\ \A f, n : Host!ProcessSrecBin(f, n) <=> HostProofs!ProcessSrecBin(f, n)
  /\ \A f, n : Host!Overruns(f, n) <=> HostProofs!Overruns(f, n)
  /\ \A f : Host!PacketCount(f) = HostProofs!PacketCount(f)
<1>1. /\ \A f, n : Host!ProcessSrecBin(f, n) <=> HostProofs!ProcessSrecBin(f, n)
      /\ \A f, n : Host!Overruns(f, n) <=> HostProofs!Overruns(f, n)
  BY DEF Host!ProcessSrecBin, HostProofs!ProcessSrecBin, Host!Overruns,
         HostProofs!Overruns, Host!LengthRead, HostProofs!LengthRead, Host!MaxPayload,
         HostProofs!MaxPayload
<1>2. \A f : Host!PacketCount(f) = HostProofs!PacketCount(f)
  BY <1>1 DEF Host!PacketCount, HostProofs!PacketCount
<1>3. QED
  BY <1>1, <1>2

(* A step of the main thread is one in both. *)
LEMMA SameMainStep ==
  ASSUME NEW t \in Tool, Host!Start(t) \/ Host!MainStep(t)
  PROVE  HostProofs!Start(t) \/ HostProofs!MainStep(t)
<1> USE DEF Host!mainVars, Host!fileVars, Host!readerVars, Host!deviceVars, Host!Goto,
            HostProofs!mainVars, HostProofs!fileVars, HostProofs!readerVars,
            HostProofs!deviceVars, HostProofs!Goto
<1>1. Host!Start(t) => HostProofs!Start(t)
  BY DEF Host!Start, HostProofs!Start, Host!Open, HostProofs!Open
<1>2. Host!SendOffer(t) => HostProofs!SendOffer(t)
  BY DEF Host!SendOffer, HostProofs!SendOffer, Host!Offer, HostProofs!Offer
<1>3. Host!OfferAnswered(t) => HostProofs!OfferAnswered(t)
  BY DEF Host!OfferAnswered, HostProofs!OfferAnswered, Host!TakeEvent,
         HostProofs!TakeEvent
<1>4. Host!OfferTimeout(t) => HostProofs!OfferTimeout(t)
  BY DEF Host!OfferTimeout, HostProofs!OfferTimeout
<1>5. Host!CheckOffer(t) => HostProofs!CheckOffer(t)
  BY DEF Host!CheckOffer, HostProofs!CheckOffer, Host!OfferStatusIn,
         HostProofs!OfferStatusIn
<1>6. /\ Host!CountPacket(t) => HostProofs!CountPacket(t)
      /\ Host!CountEnds(t) => HostProofs!CountEnds(t)
      /\ Host!Rewind(t) => HostProofs!Rewind(t)
      /\ Host!Abort(t) => HostProofs!Abort(t)
  BY SamePackets DEF Host!CountPacket, Host!CountEnds, Host!FileEnds, Host!Rewind,
                     Host!Abort, HostProofs!CountPacket, HostProofs!CountEnds,
                     HostProofs!FileEnds, HostProofs!Rewind, HostProofs!Abort
<1>7. Host!SendPacket(t) => HostProofs!SendPacket(t)
  BY SamePackets DEF Host!SendPacket, HostProofs!SendPacket, Host!Packet,
                     HostProofs!Packet,
                     Host!Content, HostProofs!Content, Host!Flags, HostProofs!Flags,
                     Host!Offset, HostProofs!Offset
<1>8. Host!AllSent(t) => HostProofs!AllSent(t)
  BY SamePackets DEF Host!AllSent, HostProofs!AllSent, Host!FileEnds, HostProofs!FileEnds
<1>9. Host!ContentAnswered(t) => HostProofs!ContentAnswered(t)
  BY DEF Host!ContentAnswered, HostProofs!ContentAnswered, Host!TakeEvent,
         HostProofs!TakeEvent
<1>10. Host!CheckContent(t) => HostProofs!CheckContent(t)
  BY DEF Host!CheckContent, HostProofs!CheckContent, Host!StatusIn, HostProofs!StatusIn,
         Host!SequenceIn, HostProofs!SequenceIn, Host!Acknowledged,
         HostProofs!Acknowledged
<1>11. /\ Host!Exit(t) => HostProofs!Exit(t)
       /\ Host!CancelRead(t) => HostProofs!CancelRead(t)
       /\ Host!CloseHandles(t) => HostProofs!CloseHandles(t)
  BY DEF Host!Exit, Host!CancelRead, Host!CloseHandles, Host!Reading, HostProofs!Exit,
         HostProofs!CancelRead, HostProofs!CloseHandles, HostProofs!Reading
<1>12. QED
  BY <1>1, <1>2, <1>3, <1>4, <1>5, <1>6, <1>7, <1>8, <1>9, <1>10, <1>11
     DEF Host!MainStep, HostProofs!MainStep

(* So is a step of the read thread. *)
LEMMA SameReaderStep ==
  ASSUME NEW t \in Tool, Host!ReaderStep(t)
  PROVE  HostProofs!ReaderStep(t)
BY DEF Host!Reading, HostProofs!Reading, Host!TerminateThread,
       HostProofs!TerminateThread, Host!ReaderStep, Host!BeginRead, Host!ReadReport,
       Host!SignalMain, Host!ReadAgain, Host!ReaderEnds, Host!Open, Host!mainVars,
       Host!fileVars, Host!readerVars, Host!deviceVars, HostProofs!ReaderStep,
       HostProofs!BeginRead, HostProofs!ReadReport, HostProofs!SignalMain,
       HostProofs!ReadAgain, HostProofs!ReaderEnds, HostProofs!Open,
       HostProofs!mainVars, HostProofs!fileVars, HostProofs!readerVars,
       HostProofs!deviceVars

(* So is an answer of the device. *)
LEMMA SameDeviceStep == Host!DeviceAnswers => HostProofs!DeviceAnswers
BY DEF Host!DeviceAnswers, Host!Broadcast, Host!Open, Host!OfferReport,
       Host!ContentReport, Host!OfferStatus, Host!ContentStatus, Host!mainVars,
       Host!fileVars, Host!readerVars, HostProofs!DeviceAnswers, HostProofs!Broadcast,
       HostProofs!Open, HostProofs!OfferReport, HostProofs!ContentReport,
       HostProofs!OfferStatus, HostProofs!ContentStatus, HostProofs!mainVars,
       HostProofs!fileVars, HostProofs!readerVars

(* So is every step of the tool with its device. *)
LEMMA SameToolNext == [Host!Next]_(Host!vars) => [HostProofs!Next]_(HostProofs!vars)
<1>1. ASSUME NEW t \in Tool, Host!Start(t) \/ Host!ToolStep(t)
      PROVE  HostProofs!Start(t) \/ HostProofs!ToolStep(t)
  BY <1>1, SameMainStep, SameReaderStep DEF Host!ToolStep, HostProofs!ToolStep
<1>2. Host!Next => HostProofs!Next
  BY <1>1, SameDeviceStep DEF Host!Next, HostProofs!Next
<1>3. Host!vars' = Host!vars => HostProofs!vars' = HostProofs!vars
  BY DEF Host!vars, Host!mainVars, Host!fileVars, Host!readerVars, Host!deviceVars,
         HostProofs!vars, HostProofs!mainVars, HostProofs!fileVars, HostProofs!readerVars,
         HostProofs!deviceVars
<1>4. QED
  BY <1>2, <1>3

(* The engine of CfuUpdate is the one that CfuEngineProofs is about. *)
LEMMA SameEngineInit == Engine!Init => EngineProofs!Init
BY DEF Engine!Init, Engine!NoOffer, Engine!StoreId, Engine!ErasedStore, Engine!NoResponse,
       EngineProofs!Init, EngineProofs!NoOffer, EngineProofs!StoreId,
       EngineProofs!ErasedStore, EngineProofs!NoResponse

(* A step of the engine is one that CfuEngineProofs knows.  The commands that a *)
(* tool sends are more than those of CfuEngine: they write at any address, and  *)
(* what they write may be of no image.                                          *)
EngineStep ==
  \/ \E o \in EngineProofs!OfferCommand : EngineProofs!OfferStep(o)
  \/ EngineProofs!OfferArm \/ EngineProofs!OfferCommit \/ EngineProofs!ContentSwap
  \/ \E a : \E image \in Tool \cup {"erased"} : EngineProofs!ContentStep(a, image)
  \/ EngineProofs!ReadCompleteCallback \/ EngineProofs!TimerStep \/ EngineProofs!Reset

(* Such a step keeps what CfuEngineProofs shows of the engine. *)
LEMMA EngineStepInv ==
  ASSUME EngineProofs!IInv, EngineStep
  PROVE  EngineProofs!IInv'
<1>1. ASSUME NEW o \in EngineProofs!OfferCommand, EngineProofs!OfferStep(o)
      PROVE  EngineProofs!IInv'
  BY <1>1, EngineFits, EngineProofs!RefusedOfferStep, EngineProofs!OfferPresentedStep
     DEF EngineProofs!OfferStep
<1>2. ASSUME NEW a, NEW image \in Tool \cup {"erased"}, EngineProofs!ContentStep(a, image)
      PROVE  EngineProofs!IInv'
  BY <1>2, EngineFits, EngineProofs!OrdinaryContentSteps, EngineProofs!OrdinaryContentStep,
     EngineProofs!HandOverStep DEF EngineProofs!ContentStep, EngineProofs!IInv
<1>3. QED
  BY <1>1, <1>2, EngineFits, EngineProofs!OfferArmStep, EngineProofs!OfferCommitStep,
     EngineProofs!ContentSwapStep, EngineProofs!ReadCompleteStep, EngineProofs!TimerInvStep,
     EngineProofs!ResetStep DEF EngineStep

(* What a command leaves the engine with: an answer of its kind, or more to do. *)
LEMMA OfferOutcome ==
  ASSUME NEW o \in EngineProofs!OfferCommand, EngineProofs!OfferStep(o)
  PROVE  pc' \in {"idle", "arm"} /\ response' \in EngineProofs!OfferResponse
BY DEF EngineProofs!OfferStep, EngineProofs!OfferBusy, EngineProofs!OfferGetStatus,
       EngineProofs!OfferSwapPending, EngineProofs!OfferUnmatched,
       EngineProofs!OfferPresented, EngineProofs!Examined, EngineProofs!Refuse,
       EngineProofs!Decision, EngineProofs!OfferReply, EngineProofs!OfferResponse,
       EngineProofs!OfferStatus, EngineProofs!OfferCommand

(* A content command is answered at once, unless it hands its image over. *)
LEMMA ContentOutcome ==
  ASSUME EngineProofs!TypeOK, NEW a, NEW image \in Tool \cup {"erased"},
         EngineProofs!ContentStep(a, image)
  PROVE  \/ pc' = "idle" /\ response' \in EngineProofs!ContentResponse
         \/ pc' = "swap" /\ EngineProofs!ContentLastHandOver(a, image)
<1>1. CASE EngineProofs!ContentLastHandOver(a, image)
  BY <1>1 DEF EngineProofs!ContentLastHandOver
<1>2. CASE EngineProofs!OrdinaryContent
  BY <1>2 DEF EngineProofs!OrdinaryContent, EngineProofs!Answer,
              EngineProofs!ContentReply,
              EngineProofs!ContentResponse
<1>3. QED
  BY <1>1, <1>2, EngineFits, EngineProofs!OrdinaryContentSteps
     DEF EngineProofs!ContentStep

(* The step of the engine that a dispatch is. *)
LEMMA DispatchedOffer ==
  ASSUME IInv, Dispatch, DispatchOffer
  PROVE  /\ OfferOf(Command.from) \in EngineProofs!OfferCommand
         /\ EngineProofs!OfferStep(OfferOf(Command.from))
<1>1. Command \in HostProofs!Command
  BY DEF Dispatch, Command, IInv, HostProofs!IInv, HostProofs!TransportOK
<1>2. Command.from \in Tool
  BY <1>1, HostFits, HostProofs!CommandFields
<1>3. OfferOf(Command.from) \in EngineProofs!OfferCommand
  BY <1>2, UpdateAssumption DEF OfferOf, EngineProofs!OfferCommand
<1>4. QED
  BY <1>3 DEF DispatchOffer, Engine!OfferStep, Engine!OfferBusy, Engine!OfferGetStatus,
       Engine!OfferSwapPending, Engine!OfferUnmatched, Engine!OfferPresented,
       Engine!Examined, Engine!GetsStatus, Engine!SpecialId, Engine!Refuse,
       Engine!Decision, Engine!OfferReply, Engine!OfferResponse, Engine!OfferStatus,
       Engine!offerVars, Engine!timerVars, Engine!imageVars,
       EngineProofs!OfferStep, EngineProofs!OfferBusy, EngineProofs!OfferGetStatus,
       EngineProofs!OfferSwapPending, EngineProofs!OfferUnmatched,
       EngineProofs!OfferPresented, EngineProofs!Examined, EngineProofs!GetsStatus,
       EngineProofs!SpecialId, EngineProofs!Refuse, EngineProofs!Decision,
       EngineProofs!OfferReply, EngineProofs!OfferResponse, EngineProofs!OfferStatus,
       EngineProofs!offerVars, EngineProofs!timerVars, EngineProofs!imageVars

(* The parts of the content handler. *)
LEMMA SameContentStep ==
  ASSUME NEW a, NEW image
  PROVE  /\ Engine!ContentFirst(a, image) => EngineProofs!ContentFirst(a, image)
         /\ Engine!ContentMiddle(a, image) => EngineProofs!ContentMiddle(a, image)
         /\ Engine!ContentLastRefused(a, image) => EngineProofs!ContentLastRefused(a, image)
         /\ Engine!ContentLastHandOver(a, image) => EngineProofs!ContentLastHandOver(a, image)
<1> USE DEF Engine!ErasedStore, Engine!Written, Engine!AfterFailedWrite,
            Engine!StoreBecomes,
            Engine!WriteBlock, Engine!Answer, Engine!ContentReply, Engine!timerVars,
            Engine!offerVars, Engine!imageVars,
            EngineProofs!ErasedStore, EngineProofs!Written, EngineProofs!AfterFailedWrite,
            EngineProofs!StoreBecomes, EngineProofs!WriteBlock, EngineProofs!Answer,
            EngineProofs!ContentReply, EngineProofs!timerVars, EngineProofs!offerVars,
            EngineProofs!imageVars
<1>1. /\ Engine!ContentFirst(a, image) => EngineProofs!ContentFirst(a, image)
      /\ Engine!ContentMiddle(a, image) => EngineProofs!ContentMiddle(a, image)
  BY DEF Engine!ContentFirst, EngineProofs!ContentFirst, Engine!ContentMiddle,
         EngineProofs!ContentMiddle
<1>2. \A r, crcRead, cells, authentic :
        Engine!Verification(r, crcRead, cells, authentic) =
          EngineProofs!Verification(r, crcRead, cells, authentic)
  BY DEF Engine!Verification, Engine!McuSuccess, Engine!Severity, Engine!IsImage,
         EngineProofs!Verification, EngineProofs!McuSuccess, EngineProofs!Severity,
         EngineProofs!IsImage
<1>3. \A c : Engine!CrcOffsetResults(c) = EngineProofs!CrcOffsetResults(c)
  BY DEF Engine!CrcOffsetResults, EngineProofs!CrcOffsetResults
<1>4. Engine!ContentLastRefused(a, image) => EngineProofs!ContentLastRefused(a, image)
  BY <1>2, <1>3 DEF Engine!ContentLastRefused, EngineProofs!ContentLastRefused
<1>5. Engine!ContentLastHandOver(a, image) => EngineProofs!ContentLastHandOver(a, image)
  BY <1>2, <1>3 DEF Engine!ContentLastHandOver, EngineProofs!ContentLastHandOver
<1>6. QED
  BY <1>1, <1>4, <1>5

(* What a content command writes. *)
ImageIn(command) == IF command.whole THEN command.from ELSE NoImage

(* A content command that is dispatched writes the image of its sender, or none. *)
LEMMA DispatchedContent ==
  ASSUME IInv, Dispatch, DispatchContent
  PROVE  /\ ImageIn(Command) \in Tool \cup {"erased"}
         /\ EngineProofs!ContentStep(Command.address, ImageIn(Command))
<1>1. Command \in HostProofs!Command
  BY DEF Dispatch, Command, IInv, HostProofs!IInv, HostProofs!TransportOK
<1>2. Command.from \in Tool
  BY <1>1, HostFits, HostProofs!CommandFields
<1>3. ImageIn(Command) \in Tool \cup {"erased"}
  BY <1>2 DEF ImageIn, NoImage
<1>4. EngineProofs!ContentStep(Command.address, ImageIn(Command))
  BY SameContentStep DEF DispatchContent, ImageIn, EngineProofs!ContentStep
<1>5. QED
  BY <1>3, <1>4

(* The further steps of a handler, the callbacks and a restart are those of the *)
(* engine.                                                                      *)
LEMMA RunningStep ==
  /\ Engine!OfferArm => EngineProofs!OfferArm
  /\ Engine!OfferCommit => EngineProofs!OfferCommit
  /\ Engine!ContentSwap => EngineProofs!ContentSwap
  /\ Engine!ReadCompleteCallback => EngineProofs!ReadCompleteCallback
  /\ Engine!TimerStep => EngineProofs!TimerStep
  /\ Engine!Reset => EngineProofs!Reset
<1> USE DEF Engine!offerVars, Engine!timerVars, Engine!imageVars, EngineProofs!offerVars,
            EngineProofs!timerVars, EngineProofs!imageVars
<1>1. Engine!OfferArm => EngineProofs!OfferArm
  BY DEF Engine!OfferArm, EngineProofs!OfferArm
<1>2. Engine!OfferCommit => EngineProofs!OfferCommit
  BY DEF Engine!OfferCommit, EngineProofs!OfferCommit, Engine!NoOffer,
         EngineProofs!NoOffer
<1>3. Engine!ContentSwap => EngineProofs!ContentSwap
  BY DEF Engine!ContentSwap, EngineProofs!ContentSwap, Engine!ContentReply,
         EngineProofs!ContentReply
<1>4. Engine!ReadCompleteCallback => EngineProofs!ReadCompleteCallback
  BY DEF Engine!ReadCompleteCallback, EngineProofs!ReadCompleteCallback
<1>5. Engine!TimerStep => EngineProofs!TimerStep
  BY DEF Engine!TimerStep, Engine!Expires, Engine!ExpireAtOnce, Engine!ExpireQueued,
         Engine!UpdateTimerCallback, Engine!UpdateTimerCallbackClear,
         Engine!UpdateTimerCallbackStop,
         EngineProofs!TimerStep, EngineProofs!Expires, EngineProofs!ExpireAtOnce,
         EngineProofs!ExpireQueued, EngineProofs!UpdateTimerCallback,
         EngineProofs!UpdateTimerCallbackClear, EngineProofs!UpdateTimerCallbackStop
<1>6. Engine!Reset => EngineProofs!Reset
  BY DEF Engine!Reset, EngineProofs!Reset, Engine!NoOffer, EngineProofs!NoOffer,
         Engine!NoResponse, EngineProofs!NoResponse
<1>7. QED
  BY <1>1, <1>2, <1>3, <1>4, <1>5, <1>6

-------------------------------------------------------------------------------
(* The tool and the engine start in their invariants, and nothing is dispatched. *)
LEMMA InitInv == Init => IInv
<1> SUFFICES ASSUME Init
             PROVE  IInv
  OBVIOUS
<1>1. HostProofs!IInv
  BY SameToolInit, HostFits, HostProofs!InitMain, HostProofs!InitTransport
     DEF Init, HostProofs!IInv
<1>2. EngineProofs!IInv
  BY SameEngineInit, EngineFits, EngineProofs!InitInv DEF Init
<1>3. HistoryOK
  <2>1. 0 \in 0..Restarts
    BY UpdateAssumption
  <2>2. QED
    BY <2>1 DEF Init, HistoryOK
<1>4. ServingGuard
  BY DEF Init, Engine!Init, ServingGuard
<1>5. QED
  BY <1>1, <1>2, <1>3, <1>4 DEF IInv

(* The answers are those of a device as CfuTool takes it. *)
LEMMA SendAnswerStep ==
  ASSUME IInv, SendAnswer
  PROVE  Host!DeviceAnswers
<1>1. /\ commands \in Seq(HostProofs!Command) /\ commands # <<>>
      /\ Command \in HostProofs!Command /\ commands' = Tail(commands)
      /\ accepted \in [Tool -> Nat]
      /\ UNCHANGED <<mainVars, readerVars>>
      /\ Host!Broadcast(Report)
      /\ accepted' = IF response = Engine!ContentReply("SUCCESS")
                     THEN [accepted EXCEPT ![Command.from] = @ + 1] ELSE accepted
  BY DEF SendAnswer, Command, IInv, ServingGuard, HostProofs!IInv, HostProofs!TransportOK
<1>2. Command.from \in Tool /\ Command.kind \in {"offer", "content"}
  BY <1>1, HostFits, HostProofs!CommandFields DEF HostProofs!Command, HostProofs!Offer
<1>3. UNCHANGED <<Host!mainVars, Host!readerVars, readEvent>>
  BY <1>1 DEF mainVars, readerVars, Host!mainVars, Host!fileVars, Host!readerVars
<1>4. CASE Command.kind = "offer"
  <2>1. response \in EngineProofs!OfferResponse
    BY <1>4 DEF IInv, ServingGuard, SendAnswer
  <2>2. response.kind = "offer" /\ response.status \in Host!OfferStatus
    BY <2>1 DEF EngineProofs!OfferResponse, EngineProofs!OfferStatus, Host!OfferStatus
  <2>3. /\ Host!Broadcast(Host!OfferReport(Command.from, response.status))
        /\ UNCHANGED accepted
    BY <1>1, <2>2 DEF Report, Engine!ContentReply
  <2>4. QED
    BY <1>1, <1>3, <1>4, <2>2, <2>3 DEF Host!DeviceAnswers, Command
<1>5. CASE Command.kind = "content"
  <2>1. response \in EngineProofs!ContentResponse
    BY <1>5 DEF IInv, ServingGuard, SendAnswer
  <2> DEFINE status == IF response.status = "SUCCESS" THEN "SUCCESS" ELSE "ERROR"
  <2>2. response.kind = "content" /\ status \in Host!ContentStatus
    BY <2>1 DEF EngineProofs!ContentResponse, Host!ContentStatus
  <2>3. response = Engine!ContentReply("SUCCESS") <=> status = "SUCCESS"
    BY <2>1 DEF EngineProofs!ContentResponse, Engine!ContentReply
  <2>4. Host!Broadcast(Host!ContentReport(Command.from, Command.seq, status))
    BY <1>1, <2>2 DEF Report
  <2>5. accepted' = [accepted EXCEPT ![Command.from] =
                       IF status = "SUCCESS" THEN @ + 1 ELSE @]
    BY <1>1, <2>3
  <2> HIDE DEF status
  <2>6. QED
    BY <1>1, <1>3, <1>5, <2>2, <2>4, <2>5 DEF Host!DeviceAnswers, Command
<1>6. QED
  BY <1>2, <1>4, <1>5

(* Every step of the two together is a step of the tool with its device, or none *)
(* that the tool could see.                                                      *)
LEMMA ToolNext == IInv /\ [Next]_vars => [Host!Next]_(Host!vars)
<1> SUFFICES ASSUME IInv, [Next]_vars
             PROVE  [Host!Next]_(Host!vars)
  OBVIOUS
<1>1. UNCHANGED hostVars => UNCHANGED Host!vars
  BY DEF hostVars, mainVars, readerVars, Host!vars, Host!mainVars, Host!fileVars,
         Host!readerVars, Host!deviceVars
<1>2. CASE HostStep
  BY <1>2 DEF HostStep, Host!Next
<1>3. CASE Dispatch \/ HandlerRunsOn \/ CallbackRuns
  BY <1>1, <1>3 DEF Dispatch, HandlerRunsOn, CallbackRuns
<1>4. CASE SendAnswer
  BY <1>4, SendAnswerStep DEF Host!Next
<1>5. CASE Restart
  <2>1. CASE serving
    <3>1. /\ commands # <<>> /\ commands' = Tail(commands)
          /\ UNCHANGED <<mainVars, readerVars, inputReports, accepted>>
      BY <1>5, <2>1 DEF Restart, IInv, ServingGuard
    <3>2. UNCHANGED <<Host!mainVars, Host!readerVars, readEvent>>
      BY <3>1 DEF mainVars, readerVars, Host!mainVars, Host!fileVars, Host!readerVars
    <3>3. Host!DeviceAnswers
      BY <3>1, <3>2 DEF Host!DeviceAnswers
    <3>4. QED
      BY <3>3 DEF Host!Next
  <2>2. CASE ~serving
    BY <1>1, <1>5, <2>2 DEF Restart, hostVars
  <2>3. QED
    BY <2>1, <2>2
<1>6. CASE UNCHANGED vars
  BY <1>1, <1>6 DEF vars
<1>7. QED
  BY <1>2, <1>3, <1>4, <1>5, <1>6 DEF Next

(* A step of the tool leaves the head of the commands where it is. *)
LEMMA HeadStays ==
  ASSUME IInv, HostStep, commands # <<>>
  PROVE  commands' # <<>> /\ Head(commands') = Head(commands)
<1>1. commands \in Seq(HostProofs!Command)
  BY DEF IInv, HostProofs!IInv, HostProofs!TransportOK
<1>2. ASSUME NEW x, commands' = Append(commands, x)
      PROVE  commands' # <<>> /\ Head(commands') = Head(commands)
  BY <1>1, <1>2
<1>3. \/ commands' = commands
      \/ \E x : commands' = Append(commands, x)
  BY DEF HostStep, Host!Start, Host!ToolStep, Host!MainStep, Host!ReaderStep,
         Host!SendOffer, Host!OfferAnswered, Host!OfferTimeout, Host!TakeEvent,
         Host!CheckOffer, Host!CountPacket, Host!CountEnds, Host!Rewind, Host!Abort,
         Host!SendPacket, Host!AllSent, Host!ContentAnswered, Host!CheckContent,
         Host!Exit, Host!CancelRead, Host!CloseHandles, Host!BeginRead, Host!ReadReport,
         Host!SignalMain, Host!ReadAgain, Host!ReaderEnds, Host!deviceVars
<1>4. QED
  BY <1>2, <1>3

(* A dispatch and what the handler does after it leave an answer of the command's *)
(* kind.                                                                          *)
LEMMA ServingStep ==
  ASSUME IInv, [Next]_vars
  PROVE  ServingGuard'
<1>1. ServingGuard /\ EngineProofs!TypeOK
  BY DEF IInv, EngineProofs!IInv
<1>2. CASE HostStep
  <2>1. CASE serving
    <3>1. commands' # <<>> /\ Head(commands') = Head(commands)
      BY <1>1, <1>2, <2>1, HeadStays DEF ServingGuard
    <3>2. UNCHANGED <<pc, response, serving>>
      BY <1>2 DEF HostStep, HostUnchanged, engineVars
    <3>3. QED
      BY <1>1, <3>1, <3>2 DEF ServingGuard, Command
  <2>2. CASE ~serving
    BY <1>1, <1>2, <2>2 DEF HostStep, HostUnchanged, engineVars, ServingGuard
  <2>3. QED
    BY <2>1, <2>2
<1>3. CASE Dispatch
  <2>1. serving' /\ UNCHANGED commands /\ commands # <<>>
    BY <1>3 DEF Dispatch, hostVars
  <2>2. CASE DispatchOffer
    <3>1. pc' \in {"idle", "arm"} /\ response' \in EngineProofs!OfferResponse
      BY <1>3, <2>2, DispatchedOffer, OfferOutcome
    <3>2. Command.kind = "offer" /\ Command' = Command
      BY <2>1, <2>2 DEF DispatchOffer, Command
    <3>3. QED
      BY <2>1, <3>1, <3>2 DEF ServingGuard, EngineProofs!OfferResponse,
                              EngineProofs!OfferStatus
  <2>3. CASE DispatchContent
    <3>1. \/ pc' = "idle" /\ response' \in EngineProofs!ContentResponse
          \/ pc' = "swap"
      BY <1>1, <1>3, <2>3, DispatchedContent, ContentOutcome
    <3>2. Command.kind = "content" /\ Command' = Command
      BY <2>1, <2>3 DEF DispatchContent, Command
    <3>3. QED
      BY <2>1, <3>1, <3>2 DEF ServingGuard, EngineProofs!ContentResponse,
                              EngineProofs!ContentStatus
  <2>4. QED
    BY <1>3, <2>2, <2>3 DEF Dispatch
<1>4. CASE HandlerRunsOn
  <2>1. UNCHANGED <<serving, commands>>
    BY <1>4 DEF HandlerRunsOn, hostVars
  <2>2. CASE Engine!OfferArm \/ Engine!OfferCommit
    <3>1. pc \in {"arm", "commit"} /\ pc' \in {"commit", "idle"} /\ UNCHANGED response
      BY <2>2 DEF Engine!OfferArm, Engine!OfferCommit
    <3>2. serving /\ Command.kind # "content" /\ Command' = Command
      BY <1>1, <2>1, <3>1 DEF ServingGuard, Command
    <3>3. QED
      BY <1>1, <2>1, <3>1, <3>2 DEF ServingGuard, EngineProofs!OfferResponse,
                                    EngineProofs!OfferStatus
  <2>3. CASE Engine!ContentSwap
    <3>1. pc = "swap" /\ pc' = "idle" /\ response' = Engine!ContentReply("SUCCESS")
      BY <2>3 DEF Engine!ContentSwap
    <3>2. serving /\ Command.kind # "offer" /\ Command' = Command
      BY <1>1, <2>1, <3>1 DEF ServingGuard, Command
    <3>3. response' \in EngineProofs!ContentResponse
      BY <3>1 DEF Engine!ContentReply, EngineProofs!ContentResponse,
                  EngineProofs!ContentStatus
    <3>4. QED
      BY <1>1, <2>1, <3>1, <3>2, <3>3 DEF ServingGuard
  <2>4. QED
    BY <1>4, <2>2, <2>3 DEF HandlerRunsOn
<1>5. CASE CallbackRuns
  <2>1. UNCHANGED <<serving, commands, pc, response>>
    <3>1. CASE Engine!ReadCompleteCallback
      BY <1>5, <3>1 DEF CallbackRuns, hostVars, Engine!ReadCompleteCallback
    <3>2. CASE Engine!TimerStep
      BY <1>5, <3>2 DEF CallbackRuns, hostVars, Engine!TimerStep, Engine!ExpireAtOnce,
                        Engine!ExpireQueued, Engine!UpdateTimerCallback,
                        Engine!UpdateTimerCallbackClear, Engine!UpdateTimerCallbackStop
    <3>3. QED
      BY <1>5, <3>1, <3>2 DEF CallbackRuns
  <2>2. QED
    BY <1>1, <2>1 DEF ServingGuard, Command
<1>6. CASE SendAnswer \/ Restart
  <2>1. serving' = FALSE /\ pc' = "idle"
    BY <1>6 DEF SendAnswer, Restart, engineVars, Engine!Reset
  <2>2. QED
    BY <2>1 DEF ServingGuard
<1>7. CASE UNCHANGED vars
  BY <1>1, <1>7 DEF vars, hostVars, engineVars, ServingGuard, Command
<1>8. QED
  BY <1>2, <1>3, <1>4, <1>5, <1>6, <1>7 DEF Next

(* Every step of the two together keeps the invariant of the engine. *)
LEMMA EngineNext ==
  ASSUME IInv, [Next]_vars
  PROVE  EngineProofs!IInv'
<1>1. EngineProofs!IInv
  BY DEF IInv
<1>2. CASE UNCHANGED engineVars
  <2>1. UNCHANGED EngineProofs!vars
    BY <1>2 DEF engineVars, EngineProofs!vars, EngineProofs!offerVars,
                EngineProofs!timerVars, EngineProofs!imageVars
  <2>2. QED
    BY <1>1, <2>1, EngineFits, EngineProofs!StutterStep
<1>3. CASE Dispatch
  <2>1. EngineStep
    BY <1>3, DispatchedOffer, DispatchedContent DEF Dispatch, EngineStep
  <2>2. QED
    BY <1>1, <2>1, EngineStepInv
<1>4. CASE HandlerRunsOn \/ CallbackRuns \/ Restart
  <2>1. EngineStep
    BY <1>4, RunningStep DEF HandlerRunsOn, CallbackRuns, Restart, EngineStep
  <2>2. QED
    BY <1>1, <2>1, EngineStepInv
<1>5. QED
  BY <1>2, <1>3, <1>4 DEF Next, HostStep, HostUnchanged, SendAnswer, vars

(* The history variables keep their types, and the restarts their bound. *)
LEMMA HistoryStep ==
  ASSUME IInv, [Next]_vars
  PROVE  HistoryOK'
<1>1. HistoryOK /\ activeComponentId \in EngineProofs!StoreId
  BY DEF IInv, EngineProofs!IInv, EngineProofs!TypeOK
<1>2. CASE Dispatch
  <2> DEFINE new == {<<activeComponentId, i>> :
                       i \in {j \in Tool : \A a \in Cell : store'[activeComponentId][a] = j}}
  <2>1. new \subseteq (EngineProofs!StoreId \X Tool)
    BY <1>1
  <2>2. installed' = installed \cup new \/ installed' = installed
    BY <1>2 DEF Dispatch
  <2> HIDE DEF new
  <2>3. QED
    BY <1>1, <1>2, <2>1, <2>2 DEF Dispatch, HistoryOK
<1>3. CASE SendAnswer
  <2>1. Command \in HostProofs!Command
    BY <1>3 DEF SendAnswer, Command, IInv, ServingGuard, HostProofs!IInv,
                HostProofs!TransportOK
  <2>2. Command.from \in Tool
    BY <2>1, HostFits, HostProofs!CommandFields
  <2>3. QED
    BY <1>1, <1>3, <2>2 DEF SendAnswer, HistoryOK
<1>4. CASE Restart
  <2>1. restarts' \in 0..Restarts
    BY <1>1, <1>4, UpdateAssumption DEF Restart, HistoryOK
  <2>2. QED
    BY <1>1, <1>4, <2>1 DEF Restart, HistoryOK, historyVars
<1>5. CASE HostStep \/ HandlerRunsOn \/ CallbackRuns \/ UNCHANGED vars
  BY <1>1, <1>5 DEF HostStep, HostUnchanged, HandlerRunsOn, CallbackRuns, vars, HistoryOK,
                    historyVars
<1>6. QED
  BY <1>2, <1>3, <1>4, <1>5 DEF Next

(* The invariant of the two together is inductive. *)
LEMMA NextInv == IInv /\ [Next]_vars => IInv'
<1> SUFFICES ASSUME IInv, [Next]_vars
             PROVE  IInv'
  OBVIOUS
<1>1. [HostProofs!Next]_(HostProofs!vars)
  BY ToolNext, SameToolNext
<1>2. HostProofs!IInv'
  BY <1>1, HostFits, HostProofs!NextInv DEF IInv
<1>3. QED
  BY <1>2, ServingStep, EngineNext, HistoryStep DEF IInv

(* The inductive invariant of the composition holds in spite of timer, callbacks *)
(* and restarts, for any number of runs.                                         *)
THEOREM Invariance == Spec => []IInv
BY InitInv, NextInv, PTL DEF Spec

-------------------------------------------------------------------------------
(* The engine is a device as CfuTool assumes it, for any number of runs, any files *)
(* and any number of restarts: whatever the tool relies on with such a device it    *)
(* can rely on with the engine.                                                     *)
THEOREM UpdateImplementsTool == Spec => ToolSpec
<1>1. Init => Host!ToolInit
  BY DEF Init
<1>2. QED
  BY <1>1, ToolNext, Invariance, PTL DEF Spec, ToolSpec, Host!Spec

(* Every variable of the two keeps its type. *)
THEOREM TypeCorrect == Spec => []TypeOK
<1>1. ASSUME IInv
      PROVE  TypeOK
  <2>1. Host!TypeOK
    <3>1. HostProofs!TypeOK
      BY <1>1, HostFits, HostProofs!IsTyped DEF IInv
    <3>2. QED
      BY <3>1 DEF HostProofs!TypeOK, HostProofs!Place, HostProofs!Sequence,
                  HostProofs!Report, HostProofs!OfferStatus, HostProofs!ContentStatus,
                  HostProofs!NoReport, HostProofs!Command, HostProofs!Offer,
                  HostProofs!ReaderPlace, Host!ReaderPlace, Host!TypeOK, Host!Place,
                  Host!Sequence, Host!Report, Host!OfferStatus, Host!ContentStatus,
                  Host!NoReport, Host!Command, Host!Offer
  <2>2. Engine!TypeOK
    BY <1>1 DEF IInv, EngineProofs!IInv, EngineProofs!TypeOK, EngineProofs!StoreId,
                EngineProofs!OfferCommand, EngineProofs!NoOffer,
                EngineProofs!OfferResponse, EngineProofs!OfferStatus,
                EngineProofs!ContentResponse, EngineProofs!ContentStatus,
                EngineProofs!NoResponse, EngineProofs!CallbackKinds,
                Engine!CallbackKinds, Engine!TypeOK, Engine!StoreId,
                Engine!OfferCommand, Engine!NoOffer, Engine!OfferResponse,
                Engine!OfferStatus, Engine!ContentResponse, Engine!ContentStatus,
                Engine!NoResponse
  <2>3. QED
    BY <1>1, <2>1, <2>2 DEF IInv, HistoryOK, ServingGuard, TypeOK, Engine!StoreId,
                            EngineProofs!StoreId
<1>2. QED
  BY <1>1, Invariance, PTL

(* What CfuEngineProofs shows of the engine alone holds of it here as well, where *)
(* commands write at any address, and data that may be of no image: a component   *)
(* that has taken an image never ends a session that was begun after that, no     *)
(* handler calls through a registration it has not found, and a bank swap that is *)
(* waited for is that of the component the session is of.                         *)
THEOREM EngineKeepsItsGuarantees ==
  Spec => [](Engine!NoStaleCompletion /\ Engine!SessionIsRegistered
               /\ Engine!SwapIsOfOneComponent)
<1>1. IInv => Engine!NoStaleCompletion /\ Engine!SessionIsRegistered
                /\ Engine!SwapIsOfOneComponent
  BY DEF IInv, EngineProofs!IInv, EngineProofs!NoStaleCompletion,
         EngineProofs!SessionIsRegistered, EngineProofs!SwapIsOfOneComponent,
         Engine!NoStaleCompletion, Engine!SessionIsRegistered,
         Engine!SwapIsOfOneComponent
<1>2. QED
  BY <1>1, Invariance, PTL

-------------------------------------------------------------------------------
(* One run of the tool: it sends content only when it has been granted an offer. *)
OneRun == HostProofs!OneRun

(* Every acceptance that is on its way tells of an offer that has been granted. *)
IsGrant(report) == report.kind = "offer" /\ report.status \in {"ACCEPT", "COMMAND_READY"}

GrantsAreGranted ==
  \A t \in Tool :
    /\ \A i \in DOMAIN inputReports[t] :
         IsGrant(inputReports[t][i]) => inputReports[t][i].to \in granted
    /\ IsGrant(inputReportBuffer[t]) => inputReportBuffer[t].to \in granted

SendersAreGranted ==
  \A t \in Tool :
    main[t] \in {"count", "rewind", "send", "awaitContent", "checkContent"} => t \in granted

GrantInv == GrantsAreGranted /\ SendersAreGranted /\ DeliversOnlyIfAccepted

(* At first no report is under way that could grant an offer. *)
LEMMA InitGrant == Init => GrantInv
BY DEF Init, Host!ToolInit, Host!NoReport, GrantInv, GrantsAreGranted, SendersAreGranted,
       DeliversOnlyIfAccepted, IsGrant

(* Granted is never taken back. *)
LEMMA GrantedStays ==
  ASSUME [Next]_vars
  PROVE  granted \subseteq granted'
BY DEF Next, vars, HostStep, HostUnchanged, Dispatch, HandlerRunsOn, CallbackRuns,
       SendAnswer,
       Restart, historyVars

(* The tool goes on to send content only upon a report that grants its offer. *)
LEMMA HostGrant ==
  ASSUME IInv, OneRun, GrantInv, HostStep
  PROVE  GrantInv'
<1>1. PICK t \in Tool : Host!Start(t) \/ Host!ToolStep(t)
  BY DEF HostStep
<1>2. Tool = {t} /\ UNCHANGED granted
  BY DEF OneRun, HostProofs!OneRun, HostStep, HostUnchanged, historyVars
<1>3. HostProofs!Start(t) \/ HostProofs!MainStep(t) \/ HostProofs!ReaderStep(t)
  BY <1>1, SameMainStep, SameReaderStep DEF Host!ToolStep
<1>4. /\ main \in [Tool -> HostProofs!Place]
      /\ inputReportBuffer \in [Tool -> HostProofs!Report \cup {HostProofs!NoReport}]
      /\ inputReports \in [Tool -> Seq(HostProofs!Report)]
      /\ commands \in Seq(HostProofs!Command)
  BY DEF IInv, HostProofs!IInv, HostProofs!MainOK, HostProofs!TransportOK
<1> USE DEF HostProofs!mainVars, HostProofs!fileVars, HostProofs!readerVars,
            HostProofs!deviceVars, HostProofs!Goto
<1>5. GrantsAreGranted'
  <2>1. CASE HostProofs!ReadReport(t)
    <3>1. /\ inputReports[t] \in Seq(HostProofs!Report) /\ inputReports[t] # <<>>
          /\ inputReportBuffer'[t] = Head(inputReports[t])
          /\ inputReports'[t] = Tail(inputReports[t])
      BY <1>4, <2>1 DEF HostProofs!BeginRead, HostProofs!ReadReport
    <3>2. /\ inputReportBuffer'[t] = inputReports[t][1]
          /\ 1 \in DOMAIN inputReports[t]
          /\ \A i \in DOMAIN inputReports'[t] :
               i + 1 \in DOMAIN inputReports[t]
                 /\ inputReports'[t][i] = inputReports[t][i + 1]
      BY <3>1
    <3>3. QED
      BY <1>2, <3>2 DEF GrantInv, GrantsAreGranted
  <2>2. CASE HostProofs!CloseHandles(t) \/ HostProofs!Abort(t)
    <3>1. inputReports'[t] = <<>> /\ UNCHANGED inputReportBuffer
      BY <1>4, <2>2 DEF HostProofs!CloseHandles, HostProofs!Abort
    <3>2. QED
      BY <1>2, <3>1 DEF GrantInv, GrantsAreGranted
  <2>3. CASE UNCHANGED <<inputReports, inputReportBuffer>>
    BY <1>2, <2>3 DEF GrantInv, GrantsAreGranted
  <2>4. QED
    BY <1>3, <2>1, <2>2, <2>3
 DEF HostProofs!Start, HostProofs!MainStep, HostProofs!ReaderStep, HostProofs!SendOffer,
     HostProofs!OfferAnswered, HostProofs!OfferTimeout, HostProofs!TakeEvent,
     HostProofs!CheckOffer, HostProofs!CountPacket, HostProofs!CountEnds,
     HostProofs!Rewind, HostProofs!Abort, HostProofs!SendPacket, HostProofs!AllSent,
     HostProofs!ContentAnswered, HostProofs!CheckContent, HostProofs!Exit,
     HostProofs!CancelRead, HostProofs!BeginRead, HostProofs!SignalMain,
     HostProofs!ReadAgain, HostProofs!ReaderEnds
<1>6. SendersAreGranted'
  <2>1. CASE HostProofs!CheckOffer(t)
    <3>1. CASE t \in granted
      BY <1>2, <3>1 DEF SendersAreGranted
    <3>2. CASE HostProofs!OfferStatusIn(inputReportBuffer[t]) \in {"ACCEPT", "COMMAND_READY"}
      <4>1. IsGrant(inputReportBuffer[t])
        BY <3>2 DEF HostProofs!OfferStatusIn, IsGrant
      <4>2. inputReportBuffer[t] \in HostProofs!Report
        BY <1>4, <4>1 DEF IsGrant, HostProofs!NoReport
      <4>3. inputReportBuffer[t].to \in Tool
        BY <4>2 DEF HostProofs!Report
      <4>4. t \in granted
        BY <1>2, <4>1, <4>3 DEF GrantInv, GrantsAreGranted
      <4>5. QED
        BY <3>1, <4>4
    <3>3. CASE HostProofs!OfferStatusIn(inputReportBuffer[t]) \notin {"ACCEPT", "COMMAND_READY"}
      BY <1>2, <1>4, <2>1, <3>3 DEF HostProofs!CheckOffer, SendersAreGranted
    <3>4. QED
      BY <3>2, <3>3
  <2>2. CASE ~HostProofs!CheckOffer(t)
    <3>1. main'[t] \in {"count", "rewind", "send", "awaitContent", "checkContent"} =>
            main[t] \in {"count", "rewind", "send", "awaitContent", "checkContent"}
      BY <1>3, <1>4, <2>2
 DEF HostProofs!Start, HostProofs!MainStep, HostProofs!ReaderStep, HostProofs!SendOffer,
     HostProofs!OfferAnswered, HostProofs!OfferTimeout, HostProofs!TakeEvent,
     HostProofs!CheckOffer, HostProofs!CountPacket, HostProofs!CountEnds,
     HostProofs!Rewind, HostProofs!Abort, HostProofs!SendPacket, HostProofs!AllSent,
     HostProofs!ContentAnswered, HostProofs!CheckContent, HostProofs!Acknowledged,
     HostProofs!Exit, HostProofs!CancelRead, HostProofs!CloseHandles,
     HostProofs!BeginRead, HostProofs!ReadReport, HostProofs!SignalMain,
     HostProofs!ReadAgain, HostProofs!ReaderEnds
    <3>2. QED
      BY <1>2, <3>1 DEF GrantInv, SendersAreGranted
  <2>3. QED
    BY <2>1, <2>2
<1>7. DeliversOnlyIfAccepted'
  <2>1. ASSUME NEW x, commands' = Append(commands, x), x.kind = "content" => x.from \in granted
        PROVE  DeliversOnlyIfAccepted'
    <3>1. \A i \in DOMAIN commands' :
            (i \in DOMAIN commands /\ commands'[i] = commands[i]) \/ commands'[i] = x
      BY <1>4, <2>1
    <3>2. QED
      BY <1>2, <2>1, <3>1 DEF GrantInv, DeliversOnlyIfAccepted
  <2>2. CASE UNCHANGED commands
    BY <1>2, <2>2 DEF GrantInv, DeliversOnlyIfAccepted
  <2>3. CASE HostProofs!SendOffer(t)
    BY <2>1, <2>2, <2>3 DEF HostProofs!SendOffer, HostProofs!Offer
  <2>4. CASE HostProofs!SendPacket(t)
    <3>1. t \in granted
      BY <1>2, <2>4 DEF HostProofs!SendPacket, GrantInv, SendersAreGranted
    <3>2. \/ UNCHANGED commands
          \/ \E flags, seq, address, whole :
               commands' = Append(commands,
                                  HostProofs!Content(t, flags, seq, address, whole))
      BY <2>4 DEF HostProofs!SendPacket
    <3>3. QED
      BY <2>1, <2>2, <3>1, <3>2 DEF HostProofs!Content
  <2>5. QED
    BY <1>3, <2>2, <2>3, <2>4
 DEF HostProofs!Start, HostProofs!MainStep, HostProofs!ReaderStep,
     HostProofs!OfferAnswered, HostProofs!OfferTimeout, HostProofs!TakeEvent,
     HostProofs!CheckOffer, HostProofs!CountPacket, HostProofs!CountEnds,
     HostProofs!Rewind, HostProofs!Abort, HostProofs!AllSent,
     HostProofs!ContentAnswered, HostProofs!Exit, HostProofs!CancelRead,
     HostProofs!CloseHandles, HostProofs!CheckContent, HostProofs!BeginRead,
     HostProofs!ReadReport, HostProofs!SignalMain, HostProofs!ReadAgain,
     HostProofs!ReaderEnds
<1>8. QED
  BY <1>5, <1>6, <1>7 DEF GrantInv

(* Where the commands lose their head or nothing, DeliversOnlyIfAccepted stays. *)
LEMMA TailGrant ==
  ASSUME IInv, DeliversOnlyIfAccepted, granted \subseteq granted',
         commands' = commands \/ (commands # <<>> /\ commands' = Tail(commands))
  PROVE  DeliversOnlyIfAccepted'
<1>1. commands \in Seq(HostProofs!Command)
  BY DEF IInv, HostProofs!IInv, HostProofs!TransportOK
<1>2. CASE commands' = commands
  BY <1>2 DEF DeliversOnlyIfAccepted
<1>3. CASE commands # <<>> /\ commands' = Tail(commands)
  <2>1. \A i \in DOMAIN commands' :
          i + 1 \in DOMAIN commands /\ commands'[i] = commands[i + 1]
    BY <1>1, <1>3
  <2>2. QED
    BY <2>1 DEF DeliversOnlyIfAccepted
<1>4. QED
  BY <1>2, <1>3

(* The engine sends such a report only of an offer that it has granted. *)
LEMMA SendAnswerGrant ==
  ASSUME IInv, GrantInv, SendAnswer
  PROVE  GrantInv'
<1>1. /\ granted \subseteq granted' /\ UNCHANGED <<main, inputReportBuffer>>
      /\ commands # <<>> /\ commands' = Tail(commands)
      /\ Host!Broadcast(Report)
      /\ inputReports \in [Tool -> Seq(HostProofs!Report)]
  BY DEF SendAnswer, mainVars, readerVars, IInv, ServingGuard, HostProofs!IInv,
         HostProofs!TransportOK
<1>2. IsGrant(Report) => Report.to \in granted'
  BY DEF Report, Host!OfferReport, Host!ContentReport, IsGrant, SendAnswer, Grants
<1>3. GrantsAreGranted'
  <2>1. PICK report : report = Report
    OBVIOUS
  <2>2. ASSUME NEW t \in Tool, NEW i \in DOMAIN inputReports'[t]
        PROVE  \/ i \in DOMAIN inputReports[t] /\ inputReports'[t][i] = inputReports[t][i]
               \/ inputReports'[t][i] = report
    <3>1. inputReports[t] \in Seq(HostProofs!Report)
      BY <1>1
    <3>2. inputReports'[t] = inputReports[t] \/ inputReports'[t] = Append(inputReports[t], report)
      BY <1>1, <2>1 DEF Host!Broadcast
    <3>3. QED
      BY <2>2, <3>1, <3>2
  <2>3. QED
    BY <1>1, <1>2, <2>1, <2>2 DEF GrantInv, GrantsAreGranted, IsGrant
<1>4. SendersAreGranted'
  BY <1>1 DEF GrantInv, SendersAreGranted
<1>5. QED
  BY <1>1, <1>3, <1>4, TailGrant DEF GrantInv

(* GrantInv is inductive for one run. *)
LEMMA NextGrant ==
  ASSUME IInv, OneRun, GrantInv, [Next]_vars
  PROVE  GrantInv'
<1>1. CASE HostStep
  BY <1>1, HostGrant
<1>2. CASE SendAnswer
  BY <1>2, SendAnswerGrant
<1>3. CASE Dispatch \/ HandlerRunsOn \/ CallbackRuns \/ Restart \/ UNCHANGED vars
  <2>1. UNCHANGED <<main, inputReports, inputReportBuffer, granted>>
    BY <1>3 DEF Dispatch, HandlerRunsOn, CallbackRuns, Restart, vars, hostVars, mainVars,
                readerVars, historyVars
  <2>2. commands' = commands \/ (commands # <<>> /\ commands' = Tail(commands))
    BY <1>3 DEF Dispatch, HandlerRunsOn, CallbackRuns, Restart, vars, hostVars, IInv,
                ServingGuard
  <2>3. DeliversOnlyIfAccepted'
    BY <2>1, <2>2, TailGrant DEF GrantInv
  <2>4. QED
    BY <2>1, <2>3 DEF GrantInv, GrantsAreGranted, SendersAreGranted
<1>4. QED
  BY <1>1, <1>2, <1>3 DEF Next

(* The one run delivers no content before its offer has been granted, whenever *)
(* the controller restarts and whatever becomes of the session it was granted. *)
THEOREM DeliversOnlyIfAcceptedCorrect == OneRun /\ Spec => []DeliversOnlyIfAccepted
<1>1. ASSUME OneRun
      PROVE  Spec => []DeliversOnlyIfAccepted
  <2>1. IInv /\ GrantInv /\ [Next]_vars => GrantInv'
    BY <1>1, NextGrant
  <2>2. GrantInv => DeliversOnlyIfAccepted
    BY DEF GrantInv
  <2>3. QED
    BY <2>1, <2>2, InitGrant, Invariance, PTL DEF Spec
<1>2. QED
  BY <1>1

-------------------------------------------------------------------------------
(* One run of the tool: its success is the success of the update.  The engine says *)
(* SUCCESS to a last block only when it has handed the image over.                 *)

FilesHavePackets == \A f \in Files : Host!PacketCount(f) > 0

IsInstalled(t) == <<Target[t], t>> \in installed

(* The next packet to be acknowledged is the last. *)
Final(t) == contentPacketsSent[t] + 1 = HostProofs!PacketCount(file[t])

EngineSaysInstalled(t) ==
  /\ activeComponentId \in {0, Target[t]}
  /\ pc \in {"arm", "commit"} => offer.componentId = Target[t]
  /\ pc = "swap" => IsInstalled(t)
  /\ /\ serving /\ pc = "idle"
     /\ Command.kind = "content" /\ Command.flags = "LAST" /\ response.status = "SUCCESS"
     => IsInstalled(t)

AnswerSaysInstalled(t) ==
  /\ main[t] = "awaitContent" /\ commands # <<>> =>
       (Command.flags = "LAST" <=> Final(t))
  /\ main[t] = "awaitContent" /\ Final(t) =>
       /\ inputReports[t] # <<>> /\ Head(inputReports[t]).status = "SUCCESS" =>
            IsInstalled(t)
       /\ reader[t] = "read" \/ readEvent[t] =>
            (inputReportBuffer[t].status = "SUCCESS" => IsInstalled(t))
  /\ main[t] = "checkContent" /\ Final(t) /\ inputReportBuffer[t].status = "SUCCESS" =>
       IsInstalled(t)
  /\ contentPacketsSent[t] = HostProofs!PacketCount(file[t]) => IsInstalled(t)

InstallInv == \A t \in Tool : EngineSaysInstalled(t) /\ AnswerSaysInstalled(t)

(* What the proof rests on. *)
OneUpdate == /\ OneRun
             /\ 0 \notin Registered
             /\ IInv
             /\ HostProofs!OneInv

(* At first nothing is acknowledged, and the file has a packet to come. *)
LEMMA InitInstall == FilesHavePackets /\ Init => InstallInv
<1> SUFFICES ASSUME FilesHavePackets, Init, NEW t \in Tool
             PROVE  EngineSaysInstalled(t) /\ AnswerSaysInstalled(t)
  BY DEF InstallInv
<1>1. HostProofs!PacketCount(file[t]) > 0
  BY SamePackets DEF FilesHavePackets, Init, Host!ToolInit
<1>2. EngineSaysInstalled(t)
  BY DEF Init, Engine!Init, EngineSaysInstalled
<1>3. AnswerSaysInstalled(t)
  BY <1>1 DEF Init, Host!ToolInit, AnswerSaysInstalled
<1>4. QED
  BY <1>2, <1>3

(* What is installed is never taken back. *)
LEMMA InstalledStays ==
  ASSUME NEW t \in Tool, IsInstalled(t), [Next]_vars
  PROVE  IsInstalled(t)'
<1> DEFINE new == {<<activeComponentId, i>> :
                     i \in {j \in Tool : \A a \in Cell : store'[activeComponentId][a] = j}}
<1>1. Dispatch => installed' = installed \cup new \/ installed' = installed
  BY DEF Dispatch
<1> HIDE DEF new
<1>2. installed \subseteq installed'
  BY <1>1 DEF Next, vars, HostStep, HostUnchanged, HandlerRunsOn, CallbackRuns,
              SendAnswer,
              Restart, historyVars
<1>3. QED
  BY <1>2 DEF IsInstalled

(* A file keeps its packets. *)
LEMMA PacketsStay ==
  ASSUME NEW t \in Tool, file' = file
  PROVE  /\ HostProofs!PacketCount(file[t])' = HostProofs!PacketCount(file[t])
         /\ Final(t)' <=> contentPacketsSent'[t] + 1 = HostProofs!PacketCount(file[t])
<1>1. HostProofs!PacketCount(file[t])' = HostProofs!PacketCount(file[t])
  BY DEF HostProofs!PacketCount, HostProofs!ProcessSrecBin, HostProofs!LengthRead,
         HostProofs!MaxPayload
<1>2. QED
  BY <1>1 DEF Final

(* What tool and transport leave alone still says the same. *)
LEMMA AnswerStays ==
  ASSUME NEW t \in Tool, AnswerSaysInstalled(t), IsInstalled(t) => IsInstalled(t)',
         UNCHANGED <<mainVars, readerVars, inputReports, commands>>
  PROVE  AnswerSaysInstalled(t)'
<1>1. UNCHANGED <<main, file, contentPacketsSent, reader, inputReportBuffer, readEvent,
                  inputReports, commands>>
  BY DEF mainVars, readerVars
<1>2. /\ HostProofs!PacketCount(file[t])' = HostProofs!PacketCount(file[t])
      /\ Final(t)' <=> Final(t)
  BY <1>1, PacketsStay DEF Final
<1>3. QED
  BY <1>1, <1>2 DEF AnswerSaysInstalled, Command

(* What the tool sends, reads and counts agrees with what is installed. *)
LEMMA HostInstall ==
  ASSUME OneUpdate, HostStep, NEW t \in Tool, EngineSaysInstalled(t), AnswerSaysInstalled(t)
  PROVE  EngineSaysInstalled(t)' /\ AnswerSaysInstalled(t)'
<1>1. /\ UNCHANGED <<activeComponentId, pc, offer, response, serving, installed>>
      /\ IsInstalled(t)' <=> IsInstalled(t)
  BY DEF HostStep, HostUnchanged, engineVars, historyVars, IsInstalled
<1>2. EngineSaysInstalled(t)'
  <2>1. serving => Command' = Command
    BY HeadStays DEF OneUpdate, IInv, ServingGuard, Command
  <2>2. QED
    BY <1>1, <2>1 DEF EngineSaysInstalled
<1>3. /\ HostProofs!AnswerGuard(t) /\ HostProofs!RunGuard(t)
      /\ main \in [Tool -> HostProofs!Place]
      /\ contentPacketsSent \in [Tool -> Nat] /\ filePathStream \in [Tool -> Nat]
      /\ file[t] \in Files
      /\ inputReportBuffer \in [Tool -> HostProofs!Report \cup {HostProofs!NoReport}]
      /\ inputReports \in [Tool -> Seq(HostProofs!Report)]
      /\ readEvent \in [Tool -> BOOLEAN]
      /\ reader \in [Tool -> HostProofs!ReaderPlace]
      /\ commands \in Seq(HostProofs!Command)
  BY DEF OneUpdate, HostProofs!OneInv, HostProofs!IInv, HostProofs!MainOK,
         HostProofs!TransportOK
<1>4. HostProofs!Start(t) \/ HostProofs!MainStep(t) \/ HostProofs!ReaderStep(t)
  BY SameMainStep, SameReaderStep
     DEF HostStep, Host!ToolStep, OneUpdate, OneRun, HostProofs!OneRun
<1>5. HostProofs!PacketCount(file[t]) \in Nat
  BY <1>3, HostFits, HostProofs!PacketsAreCounted
<1>6. file' = file
  BY <1>4 DEF HostProofs!mainVars, HostProofs!fileVars, HostProofs!Start,
              HostProofs!MainStep, HostProofs!ReaderStep, HostProofs!SendOffer,
              HostProofs!OfferAnswered, HostProofs!OfferTimeout, HostProofs!TakeEvent,
              HostProofs!CheckOffer, HostProofs!CountPacket, HostProofs!CountEnds,
              HostProofs!Rewind, HostProofs!Abort, HostProofs!SendPacket,
              HostProofs!AllSent, HostProofs!ContentAnswered, HostProofs!CheckContent,
              HostProofs!Exit, HostProofs!CancelRead, HostProofs!CloseHandles,
              HostProofs!BeginRead, HostProofs!ReadReport, HostProofs!SignalMain,
              HostProofs!ReadAgain, HostProofs!ReaderEnds
<1>7. Final(t)' <=> contentPacketsSent'[t] + 1 = HostProofs!PacketCount(file[t])
  BY <1>6, PacketsStay
<1> DEFINE Says(place, cmds, final, reports, read, signaled, buffer, sent) ==
      /\ place = "awaitContent" /\ cmds # <<>> => (Head(cmds).flags = "LAST" <=> final)
      /\ place = "awaitContent" /\ final =>
           /\ reports # <<>> /\ Head(reports).status = "SUCCESS" => IsInstalled(t)
           /\ read = "read" \/ signaled => (buffer.status = "SUCCESS" => IsInstalled(t))
      /\ place = "checkContent" /\ final /\ buffer.status = "SUCCESS" => IsInstalled(t)
      /\ sent = HostProofs!PacketCount(file[t]) => IsInstalled(t)
<1>8. Says(main[t], commands, Final(t), inputReports[t], reader[t], readEvent[t],
           inputReportBuffer[t], contentPacketsSent[t])
  BY DEF AnswerSaysInstalled, Command
<1>9. SUFFICES Says(main'[t], commands', Final(t)', inputReports'[t], reader'[t],
                    readEvent'[t], inputReportBuffer'[t], contentPacketsSent'[t])
  BY <1>1, <1>2, <1>6, PacketsStay DEF AnswerSaysInstalled, Command
<1> USE DEF HostProofs!mainVars, HostProofs!fileVars, HostProofs!readerVars,
            HostProofs!deviceVars, HostProofs!Goto
<1>10. CASE main'[t] \notin {"awaitContent", "checkContent"}
            /\ contentPacketsSent'[t] = contentPacketsSent[t]
  BY <1>7, <1>8, <1>10 DEF Final
<1>11. CASE HostProofs!SendPacket(t) /\ main'[t] = "awaitContent"
  <2> DEFINE packet == HostProofs!Packet(file[t], filePathStream[t])
  <2>1. /\ main[t] = "send"
        /\ commands' = Append(commands,
             HostProofs!Content(t, HostProofs!Flags(t), sequenceNumber[t],
                                HostProofs!Offset(t, packet.address), packet.whole))
        /\ UNCHANGED <<contentPacketsSent, reader, readEvent, inputReports>>
    BY <1>3, <1>11 DEF HostProofs!SendPacket
  <2>2. HostProofs!Quiet(t)
    BY <1>3, <2>1 DEF HostProofs!AnswerGuard
  <2>3. HostProofs!Flags(t) = "LAST" <=> Final(t)
    BY <1>3, <2>1 DEF HostProofs!Flags, HostProofs!RunGuard, Final
  <2>4. Head(commands').flags = HostProofs!Flags(t)
    BY <2>1, <2>2 DEF HostProofs!Quiet, HostProofs!Content
  <2>5. Final(t)' <=> Final(t)
    BY <1>7, <2>1 DEF Final
  <2>6. QED
    BY <1>8, <1>11, <2>1, <2>2, <2>3, <2>4, <2>5 DEF HostProofs!Quiet
<1>12. CASE HostProofs!ContentAnswered(t)
  <2>1. /\ main[t] = "awaitContent" /\ main'[t] = "checkContent" /\ readEvent[t]
        /\ UNCHANGED <<contentPacketsSent, inputReportBuffer>>
    BY <1>3, <1>12 DEF HostProofs!ContentAnswered, HostProofs!TakeEvent
  <2>2. Final(t)' <=> Final(t)
    BY <1>7, <2>1 DEF Final
  <2>3. QED
    BY <1>8, <2>1, <2>2
<1>13. CASE HostProofs!CheckContent(t)
  <2>1. /\ main[t] = "checkContent" /\ HostProofs!IsAnswer(t, inputReportBuffer[t])
    BY <1>3, <1>13 DEF HostProofs!CheckContent, HostProofs!AnswerGuard
  <2>2. /\ HostProofs!SequenceIn(inputReportBuffer[t]) = sequenceNumber[t]
        /\ HostProofs!StatusIn(inputReportBuffer[t]) = inputReportBuffer[t].status
    BY <2>1 DEF HostProofs!IsAnswer, HostProofs!SequenceIn, HostProofs!StatusIn
  <2>3. CASE inputReportBuffer[t].status # "SUCCESS"
    <3>1. main'[t] = "exit" /\ UNCHANGED contentPacketsSent
      BY <1>3, <1>13, <2>2, <2>3 DEF HostProofs!CheckContent
    <3>2. QED
      BY <1>10, <3>1
  <2>4. CASE inputReportBuffer[t].status = "SUCCESS"
    <3>1. main'[t] = "send" /\ contentPacketsSent'[t] = contentPacketsSent[t] + 1
      BY <1>3, <1>13, <2>2, <2>4 DEF HostProofs!CheckContent, HostProofs!Acknowledged
    <3>2. Final(t) => IsInstalled(t)
      BY <1>8, <2>1, <2>4
    <3>3. QED
      BY <1>8, <3>1, <3>2 DEF Final
  <2>5. QED
    BY <2>3, <2>4
<1>14. CASE HostProofs!ReaderStep(t)
  <2>1. /\ UNCHANGED <<main, contentPacketsSent, commands>>
        /\ Final(t)' <=> Final(t)
    BY <1>7, <1>14 DEF HostProofs!ReaderStep, HostProofs!BeginRead,
                       HostProofs!ReadReport, HostProofs!SignalMain,
         HostProofs!ReadAgain, HostProofs!ReaderEnds, Final
  <2>2. CASE main[t] \notin {"awaitContent", "checkContent"}
    BY <1>10, <2>1, <2>2
  <2>3. CASE HostProofs!ReadReport(t) /\ main[t] \in {"awaitContent", "checkContent"}
    <3>1. /\ inputReports[t] # <<>>
          /\ inputReportBuffer'[t] = Head(inputReports[t])
          /\ inputReports'[t] = Tail(inputReports[t])
      BY <1>3, <2>3 DEF HostProofs!BeginRead, HostProofs!ReadReport
    <3>2. main[t] = "awaitContent" /\ HostProofs!Waits(t)
      BY <1>3, <2>3, <3>1 DEF HostProofs!AnswerGuard, HostProofs!UnderWay,
                              HostProofs!Quiet,
           HostProofs!WithDevice, HostProofs!IsRead, HostProofs!IsSignaled
    <3>3. inputReports'[t] = <<>>
      <4>1. inputReports[t] \in Seq(HostProofs!Report) /\ Len(inputReports[t]) = 1
        BY <1>3, <3>2 DEF HostProofs!Waits
      <4>2. /\ inputReports'[t] \in Seq(HostProofs!Report)
            /\ Len(inputReports'[t]) = 0
        BY <3>1, <4>1, HeadTailProperties
      <4>3. QED
        BY <4>2, EmptySeq
    <3>4. QED
      BY <1>8, <2>1, <3>1, <3>2, <3>3
  <2>4. CASE HostProofs!SignalMain(t) /\ main[t] \in {"awaitContent", "checkContent"}
    <3>1. reader[t] = "read" /\ UNCHANGED <<inputReports, inputReportBuffer>>
      BY <1>3, <2>4 DEF HostProofs!SignalMain
    <3>2. QED
      BY <1>8, <2>1, <3>1
  <2>5. CASE HostProofs!BeginRead(t) \/ HostProofs!ReadAgain(t) \/ HostProofs!ReaderEnds(t)
    <3>1. /\ reader'[t] # "read"
          /\ UNCHANGED <<inputReports, inputReportBuffer, readEvent>>
      BY <1>3, <2>5 DEF HostProofs!BeginRead, HostProofs!ReadAgain, HostProofs!ReaderEnds
    <3>2. QED
      BY <1>8, <2>1, <3>1
  <2>6. QED
    BY <1>14, <2>2, <2>3, <2>4, <2>5 DEF HostProofs!ReaderStep
<1>15. CASE /\ HostProofs!Start(t) \/ HostProofs!MainStep(t)
            /\ main'[t] \notin {"awaitContent", "checkContent"}
            /\ ~HostProofs!CheckContent(t)
  <2>1. contentPacketsSent'[t] = contentPacketsSent[t]
    BY <1>15 DEF HostProofs!Start, HostProofs!MainStep, HostProofs!SendOffer,
                 HostProofs!OfferAnswered, HostProofs!OfferTimeout,
                 HostProofs!TakeEvent, HostProofs!CheckOffer, HostProofs!CountPacket,
                 HostProofs!CountEnds, HostProofs!Rewind, HostProofs!Abort,
                 HostProofs!SendPacket, HostProofs!AllSent, HostProofs!ContentAnswered,
                 HostProofs!CheckContent, HostProofs!Exit, HostProofs!CancelRead,
                 HostProofs!CloseHandles
  <2>2. QED
    BY <1>10, <1>15, <2>1
<1>16. CASE /\ HostProofs!Start(t) \/ HostProofs!MainStep(t)
            /\ main'[t] \in {"awaitContent", "checkContent"}
  <2>1. \/ HostProofs!SendPacket(t) /\ main'[t] = "awaitContent"
        \/ HostProofs!ContentAnswered(t)
        \/ HostProofs!CheckContent(t)
    BY <1>3, <1>16 DEF HostProofs!Start, HostProofs!MainStep, HostProofs!SendOffer,
                       HostProofs!OfferAnswered, HostProofs!OfferTimeout,
                       HostProofs!TakeEvent, HostProofs!CheckOffer,
                       HostProofs!CountPacket, HostProofs!CountEnds, HostProofs!Rewind,
                       HostProofs!Abort, HostProofs!SendPacket, HostProofs!AllSent,
                       HostProofs!Exit, HostProofs!CancelRead, HostProofs!CloseHandles
  <2>2. QED
    BY <1>11, <1>12, <1>13, <2>1
<1>17. QED
  BY <1>2, <1>4, <1>13, <1>14, <1>15, <1>16

(* A last block is answered with SUCCESS only after a hand-over. *)
LEMMA RefusedIsNoSuccess ==
  ASSUME NEW a, NEW image, EngineProofs!ContentLastRefused(a, image)
  PROVE  response'.status # "SUCCESS" /\ pc' = "idle"
BY DEF EngineProofs!ContentLastRefused, EngineProofs!Answer, EngineProofs!ContentReply

(* The content handler answers a last block with SUCCESS only after the hand-over, *)
(* and hands the image over to the component of the one run's offer.               *)
LEMMA DispatchInstall ==
  ASSUME OneUpdate, Dispatch, NEW t \in Tool, EngineSaysInstalled(t), AnswerSaysInstalled(t)
  PROVE  EngineSaysInstalled(t)' /\ AnswerSaysInstalled(t)'
<1>1. /\ IsInstalled(t) => IsInstalled(t)'
      /\ UNCHANGED <<hostVars, Command>> /\ commands # <<>>
  BY InstalledStays DEF Dispatch, Next, hostVars, Command
<1>2. AnswerSaysInstalled(t)'
  BY <1>1, AnswerStays DEF hostVars
<1>3. Tool = {t}
  BY DEF OneUpdate, OneRun, HostProofs!OneRun
<1>4. CASE DispatchOffer
  <2>1. /\ OfferOf(Command.from) \in EngineProofs!OfferCommand
        /\ EngineProofs!OfferStep(OfferOf(Command.from))
    BY <1>4, DispatchedOffer DEF OneUpdate
  <2>2. /\ pc' \in {"idle", "arm"} /\ UNCHANGED activeComponentId
        /\ pc' = "arm" => offer' = OfferOf(Command.from)
    BY <2>1, OfferOutcome
       DEF EngineProofs!OfferStep, EngineProofs!OfferBusy, EngineProofs!OfferGetStatus,
           EngineProofs!OfferSwapPending, EngineProofs!OfferUnmatched,
           EngineProofs!OfferPresented, EngineProofs!Examined, EngineProofs!Refuse,
           EngineProofs!offerVars
  <2>3. Command \in HostProofs!Command
    BY <1>1 DEF Command, OneUpdate, IInv, HostProofs!IInv, HostProofs!TransportOK
  <2>4. Command.from = t
    BY <1>3, <2>3, HostFits, HostProofs!CommandFields
  <2>5. OfferOf(Command.from).componentId = Target[t]
    BY <2>4 DEF OfferOf
  <2>6. Command'.kind = "offer"
    BY <1>1, <1>4 DEF DispatchOffer
  <2>7. QED
    BY <1>2, <2>2, <2>5, <2>6 DEF EngineSaysInstalled
<1>5. CASE DispatchContent
  <2> DEFINE a == Command.address
             image == ImageIn(Command)
  <2>1. /\ image \in Tool \cup {"erased"}
        /\ EngineProofs!ContentStep(a, image)
    BY <1>5, DispatchedContent DEF OneUpdate
  <2>2. \/ pc' = "idle" /\ response' \in EngineProofs!ContentResponse
        \/ pc' = "swap"
    BY <2>1, ContentOutcome DEF OneUpdate, IInv, EngineProofs!IInv
  <2>3. UNCHANGED activeComponentId
    BY <2>1 DEF EngineProofs!ContentStep, EngineProofs!ContentFirst,
         EngineProofs!ContentMiddle, EngineProofs!WriteBlock, EngineProofs!Answer,
         EngineProofs!ContentLastRefused, EngineProofs!ContentLastHandOver,
         EngineProofs!offerVars
  <2>4. CASE pc' = "swap"
    <3>1. EngineProofs!IInv'
      BY EngineNext DEF OneUpdate, Next
    <3>2. activeComponentId \in Registered /\ EngineProofs!IsImage(store'[activeComponentId])
      BY <2>3, <2>4, <3>1 DEF EngineProofs!IInv, EngineProofs!SessionIsRegistered,
           EngineProofs!HandOverGuard, EngineProofs!IsImage
    <3>3. activeComponentId = Target[t]
      BY <3>2 DEF EngineSaysInstalled, OneUpdate
    <3>4. t \in {j \in Tool : \A c \in Cell : store'[activeComponentId][c] = j}
      BY <1>3, <3>2 DEF EngineProofs!IsImage
    <3>5. IsInstalled(t)'
      BY <2>4, <3>3, <3>4 DEF Dispatch, IsInstalled
    <3>6. QED
      BY <1>2, <2>3, <2>4, <3>5 DEF EngineSaysInstalled
  <2>5. CASE pc' = "idle"
    <3>1. CASE Command.flags = "LAST"
      <4>1. Engine!ContentLastRefused(a, image) \/ Engine!ContentLastHandOver(a, image)
        BY <1>5, <3>1 DEF DispatchContent, ImageIn
      <4>2. EngineProofs!ContentLastRefused(a, image)
        BY <2>5, <4>1, SameContentStep DEF EngineProofs!ContentLastHandOver
      <4>3. response'.status # "SUCCESS"
        BY <4>2, RefusedIsNoSuccess
      <4>4. QED
        BY <1>2, <2>3, <2>5, <4>3 DEF EngineSaysInstalled
    <3>2. CASE Command.flags # "LAST"
      BY <1>1, <1>2, <2>3, <2>5, <3>2 DEF EngineSaysInstalled
    <3>3. QED
      BY <3>1, <3>2
  <2>6. QED
    BY <2>2, <2>4, <2>5
<1>6. QED
  BY <1>4, <1>5 DEF Dispatch

(* What the handler has left to do, and the callbacks, leave its answer as it is. *)
LEMMA EngineInstall ==
  ASSUME OneUpdate, HandlerRunsOn \/ CallbackRuns, NEW t \in Tool,
         EngineSaysInstalled(t), AnswerSaysInstalled(t)
  PROVE  EngineSaysInstalled(t)' /\ AnswerSaysInstalled(t)'
<1>1. /\ UNCHANGED <<hostVars, Command, serving, installed>>
      /\ IsInstalled(t)' <=> IsInstalled(t)
  BY DEF HandlerRunsOn, CallbackRuns, hostVars, historyVars, Command, IsInstalled
<1>2. AnswerSaysInstalled(t)'
  BY <1>1, AnswerStays DEF hostVars
<1>3. ServingGuard
  BY DEF OneUpdate, IInv
<1>4. CASE Engine!OfferArm
  BY <1>1, <1>2, <1>4 DEF Engine!OfferArm, Engine!offerVars, EngineSaysInstalled
<1>5. CASE Engine!OfferCommit
  <2>1. pc = "commit" /\ pc' = "idle" /\ activeComponentId' = offer.componentId
    BY <1>5 DEF Engine!OfferCommit
  <2>2. serving /\ Command.kind # "content"
    BY <1>3, <2>1 DEF ServingGuard
  <2>3. QED
    BY <1>1, <1>2, <2>1, <2>2 DEF EngineSaysInstalled
<1>6. CASE Engine!ContentSwap
  BY <1>1, <1>2, <1>6 DEF Engine!ContentSwap, Engine!offerVars, EngineSaysInstalled
<1>7. CASE Engine!ReadCompleteCallback
  BY <1>1, <1>2, <1>7 DEF Engine!ReadCompleteCallback, EngineSaysInstalled
<1>8. CASE Engine!TimerStep
  <2>1. UNCHANGED <<activeComponentId, pc, offer, response>>
    BY <1>8 DEF Engine!TimerStep, Engine!ExpireAtOnce, Engine!ExpireQueued,
         Engine!UpdateTimerCallback, Engine!UpdateTimerCallbackClear,
         Engine!UpdateTimerCallbackStop, Engine!offerVars
  <2>2. QED
    BY <1>1, <1>2, <2>1 DEF EngineSaysInstalled
<1>9. QED
  BY <1>4, <1>5, <1>6, <1>7, <1>8 DEF HandlerRunsOn, CallbackRuns

(* The answer says to the tool what it said in the engine. *)
LEMMA SendAnswerInstall ==
  ASSUME OneUpdate, SendAnswer, NEW t \in Tool, EngineSaysInstalled(t),
         AnswerSaysInstalled(t)
  PROVE  EngineSaysInstalled(t)' /\ AnswerSaysInstalled(t)'
<1>1. /\ UNCHANGED <<mainVars, readerVars, engineVars, installed>> /\ serving' = FALSE
      /\ serving /\ pc = "idle" /\ commands' = Tail(commands)
      /\ IsInstalled(t)' <=> IsInstalled(t)
      /\ Final(t)' <=> Final(t)
      /\ Host!Broadcast(Report)
  BY PacketsStay DEF SendAnswer, IsInstalled, Final, mainVars
<1>2. EngineSaysInstalled(t)'
  BY <1>1 DEF EngineSaysInstalled, engineVars
<1>3. /\ HostProofs!AnswerGuard(t) /\ ServingGuard
      /\ commands \in Seq(HostProofs!Command)
      /\ inputReports \in [Tool -> Seq(HostProofs!Report)]
  BY DEF OneUpdate, IInv, HostProofs!OneInv, HostProofs!IInv, HostProofs!TransportOK
<1>4. commands # <<>>
  BY <1>1, <1>3 DEF ServingGuard
<1>5. CASE main[t] # "awaitContent"
  BY <1>1, <1>2, <1>5, PacketsStay DEF AnswerSaysInstalled, mainVars, readerVars
<1>6. CASE main[t] = "awaitContent"
  <2>1. HostProofs!WithDevice(t)
    BY <1>3, <1>4, <1>6 DEF HostProofs!AnswerGuard, HostProofs!UnderWay, HostProofs!Quiet,
         HostProofs!Waits, HostProofs!IsRead, HostProofs!IsSignaled
  <2>2. /\ inputReports[t] = <<>> /\ reader[t] # "read" /\ ~readEvent[t]
        /\ Len(commands) = 1 /\ commands[1].kind = "content"
    BY <1>6, <2>1 DEF HostProofs!WithDevice, HostProofs!IsCommand
  <2>3. commands' = <<>>
    <3>1. commands' \in Seq(HostProofs!Command) /\ Len(commands') = 0
      BY <1>1, <1>3, <1>4, <2>2, HeadTailProperties
    <3>2. QED
      BY <3>1, EmptySeq
  <2>4. Command.kind = "content"
    BY <1>3, <1>4, <2>2 DEF Command
  <2>5. response \in EngineProofs!ContentResponse
    BY <1>1, <1>3, <2>4 DEF ServingGuard
  <2>6. PICK report : report = Report
    OBVIOUS
  <2>7. Head(inputReports'[t]) = report
    <3>1. Host!Open(t)
      BY <1>6 DEF Host!Open
    <3>2. inputReports'[t] = Append(inputReports[t], report)
      BY <1>1, <2>6, <3>1 DEF Host!Broadcast
    <3>3. QED
      BY <2>2, <3>2
  <2>8. report.status = "SUCCESS" => response.status = "SUCCESS"
    BY <2>5, <2>6 DEF Report, Host!ContentReport, EngineProofs!ContentResponse
  <2>9. Final(t) /\ report.status = "SUCCESS" => IsInstalled(t)
    BY <1>1, <1>4, <1>6, <2>4, <2>8 DEF AnswerSaysInstalled, EngineSaysInstalled
  <2>10. UNCHANGED <<main, reader, readEvent, inputReportBuffer, contentPacketsSent, file>>
    BY <1>1 DEF mainVars, readerVars
  <2>11. contentPacketsSent'[t] = HostProofs!PacketCount(file[t])' => IsInstalled(t)
    BY <2>10, PacketsStay DEF AnswerSaysInstalled
  <2>12. AnswerSaysInstalled(t)'
    BY <1>1, <1>6, <2>2, <2>3, <2>7, <2>9, <2>10, <2>11 DEF AnswerSaysInstalled
  <2>13. QED
    BY <1>2, <2>12
<1>7. QED
  BY <1>5, <1>6

(* A restart loses the command in the works, and with it the answer. *)
LEMMA RestartInstall ==
  ASSUME OneUpdate, Restart, NEW t \in Tool, EngineSaysInstalled(t), AnswerSaysInstalled(t)
  PROVE  EngineSaysInstalled(t)' /\ AnswerSaysInstalled(t)'
<1>1. /\ UNCHANGED <<mainVars, readerVars, inputReports, installed>> /\ serving' = FALSE
      /\ commands' = IF serving THEN Tail(commands) ELSE commands
      /\ IsInstalled(t)' <=> IsInstalled(t)
      /\ Final(t)' <=> Final(t)
  BY PacketsStay DEF Restart, IsInstalled, Final, mainVars, historyVars
<1>2. EngineSaysInstalled(t)'
  BY <1>1 DEF EngineSaysInstalled, Restart, Engine!Reset
<1>3. /\ HostProofs!AnswerGuard(t) /\ ServingGuard
      /\ commands \in Seq(HostProofs!Command)
  BY DEF OneUpdate, IInv, HostProofs!OneInv, HostProofs!IInv, HostProofs!TransportOK
<1>4. CASE commands' = commands \/ main[t] # "awaitContent"
  <2>1. commands' = commands => Command' = Command
    BY DEF Command
  <2>2. AnswerSaysInstalled(t)'
    BY <1>1, <1>4, <2>1, PacketsStay DEF AnswerSaysInstalled, mainVars, readerVars
  <2>3. QED
    BY <1>2, <2>2
<1>5. CASE serving /\ main[t] = "awaitContent"
  <2>1. commands # <<>>
    BY <1>3, <1>5 DEF ServingGuard
  <2>2. Len(commands) = 1
    BY <1>3, <1>5, <2>1 DEF HostProofs!AnswerGuard, HostProofs!UnderWay, HostProofs!Quiet,
         HostProofs!WithDevice, HostProofs!Waits, HostProofs!IsRead, HostProofs!IsSignaled
  <2>3. commands' \in Seq(HostProofs!Command) /\ Len(commands') = 0
    BY <1>1, <1>3, <1>5, <2>1, <2>2, HeadTailProperties
  <2>4. commands' = <<>>
    BY <2>3, EmptySeq
  <2>5. AnswerSaysInstalled(t)'
    BY <1>1, <2>4, PacketsStay DEF AnswerSaysInstalled, mainVars, readerVars
  <2>6. QED
    BY <1>2, <2>5
<1>6. QED
  BY <1>1, <1>4, <1>5

(* InstallInv is inductive for one run on components other than zero. *)
LEMMA NextInstall ==
  ASSUME OneUpdate, InstallInv, [Next]_vars
  PROVE  InstallInv'
<1> SUFFICES ASSUME NEW t \in Tool
             PROVE  EngineSaysInstalled(t)' /\ AnswerSaysInstalled(t)'
  BY DEF InstallInv
<1>1. EngineSaysInstalled(t) /\ AnswerSaysInstalled(t)
  BY DEF InstallInv
<1>2. CASE UNCHANGED vars
  <2>1. IsInstalled(t)' <=> IsInstalled(t)
    BY <1>2 DEF vars, historyVars, IsInstalled
  <2>2. AnswerSaysInstalled(t)'
    BY <1>1, <1>2, <2>1, AnswerStays DEF vars, hostVars
  <2>3. QED
    BY <1>1, <1>2, <2>1, <2>2 DEF vars, hostVars, engineVars, EngineSaysInstalled, Command
<1>3. QED
  BY <1>1, <1>2, HostInstall, DispatchInstall, EngineInstall, SendAnswerInstall,
     RestartInstall DEF Next

(* A run that reports success has had its image handed over to the component it   *)
(* was offered for, whatever timer, components and restarts do to the session.    *)
(* This asks for files that yield a packet (see the run update_empty), and that   *)
(* no component has the id zero: it is what the engine writes to before the first *)
(* acceptance and after a restart.                                                *)
THEOREM SuccessMeansInstalledCorrect ==
  OneRun /\ FilesHavePackets /\ 0 \notin Registered /\ Spec => []SuccessMeansInstalled
<1>1. ASSUME OneRun, FilesHavePackets, 0 \notin Registered
      PROVE  Spec => []SuccessMeansInstalled
  <2>1. Init => InstallInv
    BY <1>1, InitInstall
  <2>2. Init => HostProofs!OneInv
    BY SameToolInit, HostFits, HostProofs!InitMain, HostProofs!InitTransport,
       HostProofs!InitOne DEF Init, HostProofs!IInv, HostProofs!OneInv
  <2>3. IInv /\ HostProofs!OneInv /\ [Next]_vars => HostProofs!OneInv'
    BY <1>1, ToolNext, SameToolNext, HostFits, HostProofs!NextOne DEF OneRun
  <2>4. IInv /\ HostProofs!OneInv /\ InstallInv /\ [Next]_vars => InstallInv'
    BY <1>1, NextInstall DEF OneUpdate
  <2>5. HostProofs!OneInv /\ InstallInv => SuccessMeansInstalled
    BY DEF HostProofs!OneInv, HostProofs!IInv, HostProofs!MainOK, HostProofs!RunGuard,
           HostProofs!Over, InstallInv, AnswerSaysInstalled, IsInstalled,
           SuccessMeansInstalled
  <2>6. QED
    BY <2>1, <2>2, <2>3, <2>4, <2>5, Invariance, PTL DEF Spec
<1>2. QED
  BY <1>1
===============================================================================
