------------------------------- MODULE CfuUpdate -------------------------------
(***************************************************************************)
(* Runs of the update tool against a controller that runs the CFU engine:  *)
(* CfuTool and CfuEngine put together.  The engine takes the head of the   *)
(* commands, works on it for as many steps as it needs, and its answer     *)
(* goes to every open handle.  The components' callbacks, the fail-safe    *)
(* timer and a restart of the controller come at any moment in between.    *)
(*                                                                         *)
(* Every run has an image of its own, named like the run, and offers it    *)
(* for one component.  Its file may have been damaged, though not at its   *)
(* start; a packet carries the block of the image at its offset, or, when  *)
(* its record was cut short, data that is of no image.                     *)
(***************************************************************************)
EXTENDS Naturals, Sequences

CONSTANTS Tool, Files, AddressModulus, SeqModulus, Concurrent,   \* see CfuTool
          Registered, CrcExempt, TimerTasks,       \* see CfuEngine
          Blocks,      \* how many blocks an image has
          Target,      \* per run, the component that it offers its image to
          Restarts     \* a bound: how often the controller restarts

ASSUME UpdateAssumption ==
  /\ Target \in [Tool -> Registered]
  /\ Blocks \in Nat \ {0}
  /\ Restarts \in Nat

VARIABLES
  main, ret, file, filePathStream, totalContentPacketCount, contentPacketsSent,
  sequenceNumber, reader, inputReportBuffer, readEvent, inputReports, commands, accepted,
  activeComponentId, updateInProgress, bankSwapPending, pc, offer, timer,
  timerCallback, timerTask, readComplete, store, handed, response,
  serving,     \* whether the engine works on the head of the commands
  granted,     \* the runs whose offers the engine has answered with an acceptance
  installed,   \* the <<component, image>> pairs that the engine has handed over
  restarts     \* the number of restarts

Host == INSTANCE CfuTool WITH Lossy <- TRUE

Cell == 0 .. Blocks - 1

(* What the image store holds of a block of no image: no better than erased. *)
NoImage == "erased"

Engine == INSTANCE CfuEngine WITH OfferedId <- Registered, Image <- Tool, Token <- Tool

(* What the two modules ask of their constants. *)
ASSUME PartsAssumption ==
  /\ Host!ToolAssumption
  /\ Engine!IdAssumption
  /\ Engine!DataAssumption
  /\ Engine!TimerTaskAssumption

mainVars == <<main, ret, file, filePathStream, totalContentPacketCount, contentPacketsSent,
              sequenceNumber>>
readerVars == <<reader, inputReportBuffer, readEvent>>
hostVars == <<mainVars, readerVars, inputReports, commands, accepted>>
engineVars == <<activeComponentId, updateInProgress, bankSwapPending, pc, offer, timer,
                timerCallback, timerTask, readComplete, store, handed, response>>
historyVars == <<granted, installed>>
vars == <<hostVars, engineVars, serving, historyVars, restarts>>

Command == Head(commands)

-------------------------------------------------------------------------------
(* The engine's side: the dispatch of a command, and the answer to it. *)

OfferOf(t) == [componentId |-> Target[t], token |-> t,
               forceIgnoreVersion |-> FALSE, getStatus |-> FALSE]

DispatchOffer ==
  /\ Command.kind = "offer"
  /\ Engine!OfferStep(OfferOf(Command.from))

(* The handler tests FIRST_BLOCK before LAST_BLOCK, and takes one branch. *)
DispatchContent ==
  LET cell == Command.address
      image == IF Command.whole THEN Command.from ELSE NoImage
  IN  /\ Command.kind = "content"
      /\ \/ Command.flags = "FIRST" /\ Engine!ContentFirst(cell, image)
         \/ Command.flags = "NONE" /\ Engine!ContentMiddle(cell, image)
         \/ /\ Command.flags = "LAST"
            /\ \/ Engine!ContentLastRefused(cell, image)
               \/ Engine!ContentLastHandOver(cell, image)

Dispatch ==
  /\ ~serving
  /\ commands # <<>>
  /\ DispatchOffer \/ DispatchContent
  /\ serving' = TRUE
  /\ installed' = IF pc' = "swap"
                  THEN installed \cup {<<activeComponentId, i>> :
                         i \in {j \in Tool : \A a \in Cell : store'[activeComponentId][a] = j}}
                  ELSE installed
  /\ UNCHANGED <<hostVars, granted, restarts>>

(* The steps of a handler that has started. *)
HandlerRunsOn ==
  /\ Engine!OfferArm \/ Engine!OfferCommit \/ Engine!ContentSwap
  /\ UNCHANGED <<hostVars, serving, historyVars, restarts>>

CallbackRuns ==
  /\ Engine!ReadCompleteCallback \/ Engine!TimerStep
  /\ UNCHANGED <<hostVars, serving, historyVars, restarts>>

Report ==
  IF response.kind = "offer"
    THEN Host!OfferReport(Command.from, response.status)
    ELSE Host!ContentReport(Command.from, Command.seq,
                            IF response.status = "SUCCESS" THEN "SUCCESS" ELSE "ERROR")

(* The answer that the tool takes for an acceptance. *)
Grants == response.kind = "offer" /\ response.status \in {"ACCEPT", "COMMAND_READY"}

(* Slip: the answer is sent when the handler returns and again by the transport. *)
SendAnswerSlip ==
  /\ serving
  /\ pc = "idle"
  /\ Host!Broadcast(Report)
  /\ accepted' = IF response = Engine!ContentReply("SUCCESS")
                 THEN [accepted EXCEPT ![Command.from] = @ + 1] ELSE accepted
  /\ serving' \in BOOLEAN
  /\ commands' = IF serving' THEN commands ELSE Tail(commands)
  /\ granted' = IF Grants THEN granted \cup {Command.from} ELSE granted
  /\ UNCHANGED <<mainVars, readerVars, engineVars, installed, restarts>>

(* Slip: the transport sends only the answers that say success. *)
SendAnswerQuiet ==
  /\ serving
  /\ pc = "idle"
  /\ IF response.kind = "offer" \/ response.status = "SUCCESS"
       THEN Host!Broadcast(Report) ELSE UNCHANGED inputReports
  /\ commands' = Tail(commands)
  /\ accepted' = IF response = Engine!ContentReply("SUCCESS")
                 THEN [accepted EXCEPT ![Command.from] = @ + 1] ELSE accepted
  /\ serving' = FALSE
  /\ granted' = IF Grants THEN granted \cup {Command.from} ELSE granted
  /\ UNCHANGED <<mainVars, readerVars, engineVars, installed, restarts>>

(* The handler has returned: the response it filled in is sent. *)
SendAnswer ==
  /\ serving
  /\ pc = "idle"
  /\ Host!Broadcast(Report)
  /\ commands' = Tail(commands)
  /\ accepted' = IF response = Engine!ContentReply("SUCCESS")
                 THEN [accepted EXCEPT ![Command.from] = @ + 1] ELSE accepted
  /\ serving' = FALSE
  /\ granted' = IF Grants THEN granted \cup {Command.from} ELSE granted
  /\ UNCHANGED <<mainVars, readerVars, engineVars, installed, restarts>>

(* A command that the restart finds in the works is never answered. *)
Restart ==
  /\ restarts < Restarts
  /\ restarts' = restarts + 1
  /\ Engine!Reset
  /\ serving' = FALSE
  /\ commands' = IF serving THEN Tail(commands) ELSE commands
  /\ UNCHANGED <<mainVars, readerVars, inputReports, accepted, historyVars>>

-------------------------------------------------------------------------------
HostUnchanged == UNCHANGED <<engineVars, serving, historyVars, restarts>>

HostStep == (\E t \in Tool : Host!Start(t) \/ Host!ToolStep(t)) /\ HostUnchanged

Init ==
  /\ Host!ToolInit
  /\ Engine!Init
  /\ serving = FALSE
  /\ granted = {}
  /\ installed = {}
  /\ restarts = 0

Next == \/ HostStep \/ Dispatch \/ HandlerRunsOn \/ CallbackRuns \/ SendAnswer
        \/ Restart

Spec == Init /\ [][Next]_vars

(* The threads of a run are scheduled, and so is the engine's task; nothing is *)
(* asked of the timer, of the components or of a restart.                      *)
Fairness ==
  /\ \A t \in Tool :
       /\ WF_vars(~Host!CloseWaits(t) /\ Host!MainStep(t) /\ HostUnchanged)
       /\ WF_vars(Host!ReaderStep(t) /\ HostUnchanged)
  /\ WF_vars(Dispatch) /\ WF_vars(HandlerRunsOn) /\ WF_vars(SendAnswer)

FairSpec == Spec /\ Fairness

-------------------------------------------------------------------------------
TypeOK ==
  /\ Host!TypeOK
  /\ Engine!TypeOK
  /\ serving \in BOOLEAN
  /\ granted \subseteq Tool
  /\ installed \subseteq (Engine!StoreId \X Tool)
  /\ restarts \in 0..Restarts
  /\ serving => commands # <<>>

(* A run that reports success (main.cpp prints what FwUpdateOfferSrec returns) *)
(* has had its whole image verified by the engine and handed to the component  *)
(* it was offered for, although the session may have timed out, been ended by  *)
(* the component, or been forgotten in a restart half way through the packets, *)
(* and although the tool takes a file that was cut off for a complete one.     *)
SuccessMeansInstalled == \A t \in Tool : ret[t] => <<Target[t], t>> \in installed

(* FwUpdate.cpp 315-316: the tool offers the image "and then if the offer is *)
(* accepted delivers the payload": whoever sends content has been granted an *)
(* offer.  Nothing in the tool ties the answer it reads to its own offer.    *)
DeliversOnlyIfAccepted ==
  \A i \in DOMAIN commands :
    commands[i].kind = "content" => commands[i].from \in granted

(* The engine is a device as CfuTool assumes it: commands are answered in  *)
(* their order and at most once, however many steps the engine takes over  *)
(* one of them and whatever happens in between.                            *)
ToolSpec == Host!Spec

(* The two ends never wait for each other: unless the controller restarts with  *)
(* a command in the works, a run comes to an end as RunEnds says, whatever      *)
(* timer and components do to its session.  The tool's wait for a content       *)
(* answer (lines 590-625) has no other end than the answer, so the engine must  *)
(* answer everything.                                                           *)
RunEndsUnlessRestarted == [](restarts = 0) => Host!RunEnds
===============================================================================
