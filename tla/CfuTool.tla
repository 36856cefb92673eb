-------------------------------- MODULE CfuTool --------------------------------
(***************************************************************************)
(* The stand-alone update tool: FwUpdateOfferSrec (FwUpdate.cpp) and its   *)
(* read thread, AsynchReadThreadProc (HidCommands.h), for any number of    *)
(* runs of the tool, against one device.                                   *)
(*                                                                         *)
(* The two threads of a run share the input report buffer and an event     *)
(* that resets itself when a wait takes it.  A command goes to the device  *)
(* with SetOutputReport; the HID class driver gives every input report of  *)
(* the device to every handle that is open at the time, so a run also gets *)
(* the answers to the commands of another.                                 *)
(*                                                                         *)
(* The image file is read twice, once to count its packets and once to     *)
(* send them; SrecFile says what a read finds.                             *)
(***************************************************************************)
EXTENDS Naturals, Sequences, SrecFile

CONSTANTS
  Tool,         (* the runs of the tool                                     *)
  Files,        (* the contents that the image file of a run may have       *)
  AddressModulus, (* addresses are UINT32: 2^32 in the code                 *)
  SeqModulus,   (* sequenceNumber is a UINT16: 2^16 in the code             *)
  Concurrent,   (* whether one run may start before another has ended       *)
  Lossy         (* whether the device may leave a command unanswered        *)

ASSUME ToolAssumption ==
  /\ \A f \in Files : IsFile(f)
  /\ AddressModulus \in Nat \ {0}
  /\ SeqModulus \in Nat \ {0}
  /\ Concurrent \in BOOLEAN
  /\ Lossy \in BOOLEAN

VARIABLES
  main,               \* where the main thread of the run is
  ret,                \* the result of FwUpdateOfferSrec
  file,               \* the image file
  filePathStream,     \* how many of its records have been read
  totalContentPacketCount,
  contentPacketsSent,
  sequenceNumber,     \* contentdata.sequenceNumber
  reader,             \* where the read thread is
  inputReportBuffer,  \* deviceRead.InputReportBuffer
  readEvent,          \* whether the event is signaled
  inputReports,       \* input reports that wait for the read thread
  commands,           \* output reports that wait for the device
  accepted            \* per run, its packets that the device answered SUCCESS

fileVars == <<file, filePathStream, totalContentPacketCount>>
mainVars == <<main, ret, fileVars, contentPacketsSent, sequenceNumber>>
readerVars == <<reader, inputReportBuffer>>
deviceVars == <<commands, accepted>>
vars == <<mainVars, readerVars, readEvent, inputReports, deviceVars>>

OfferStatus == {"SKIP", "ACCEPT", "REJECT", "BUSY", "COMMAND_READY"}
ContentStatus == {"SUCCESS", "ERROR"}
Sequence == 0 .. SeqModulus - 1

Offer(t) == [kind |-> "offer", from |-> t]
Content(t, flags, seq, address, whole) ==
  [kind |-> "content", from |-> t, flags |-> flags, seq |-> seq, address |-> address,
   whole |-> whole]

OfferReport(t, status) == [kind |-> "offer", to |-> t, status |-> status]
ContentReport(t, seq, status) ==
  [kind |-> "content", to |-> t, seq |-> seq, status |-> status]

NoReport == [kind |-> "none"]

(***************************************************************************)
(* The tool looks at no report id: it reads whatever report is in the      *)
(* buffer through the layout of the answer it waits for.  A content answer *)
(* read as an offer answer has zero, SKIP, where the status should be; an  *)
(* offer answer read as a content answer has zeros both in place of the    *)
(* sequence number and in place of the status, where zero is SUCCESS.      *)
(***************************************************************************)
OfferStatusIn(report) == IF report.kind = "offer" THEN report.status ELSE "SKIP"
StatusIn(report) == IF report.kind = "content" THEN report.status ELSE "SUCCESS"
SequenceIn(report) == IF report.kind = "content" THEN report.seq ELSE 0

(* The handles of the run are open. *)
Open(t) == main[t] \notin {"new", "ended", "aborted"}

TerminateThread(t) == main[t] \in {"cancel", "close", "ended"}

(* The read thread is inside ReadFile; see BeginRead. *)
Reading(t) == reader[t] \in {"reading", "late"}

-------------------------------------------------------------------------------
(* The main thread. *)

Goto(t, place) == main' = [main EXCEPT ![t] = place]

(* The handles are opened and the read thread is created; the files of the *)
(* offer and of the image, opened next, may be missing.                    *)
Start(t) ==
  /\ main[t] = "new"
  /\ Concurrent \/ \A u \in Tool : ~Open(u)
  /\ \E place \in {"offer", "exit"} : Goto(t, place)
  /\ reader' = [reader EXCEPT ![t] = "starting"]
  /\ UNCHANGED <<ret, fileVars, contentPacketsSent, sequenceNumber, inputReportBuffer,
                 readEvent, inputReports, deviceVars>>

(* A failure of SetOutputReport is logged and the tool waits all the same. *)
SendOffer(t) ==
  /\ main[t] = "offer"
  /\ Goto(t, "awaitOffer")
  /\ commands' \in {commands, Append(commands, Offer(t))}
  /\ UNCHANGED <<ret, fileVars, contentPacketsSent, sequenceNumber, readerVars, readEvent,
                 inputReports, accepted>>

(* WaitForSingleObject returns with the event, which it resets. *)
TakeEvent(t, from, to) ==
  /\ main[t] = from
  /\ readEvent[t]
  /\ readEvent' = [readEvent EXCEPT ![t] = FALSE]
  /\ Goto(t, to)
  /\ UNCHANGED <<ret, fileVars, contentPacketsSent, sequenceNumber, readerVars, inputReports,
                 deviceVars>>

OfferAnswered(t) == TakeEvent(t, "awaitOffer", "checkOffer")

(* Slip: a wait that times out goes on as if the offer had been accepted. *)
OfferTimeoutSlip(t) ==
  /\ main[t] = "awaitOffer"
  /\ ~readEvent[t]
  /\ Goto(t, "send")
  /\ UNCHANGED <<ret, fileVars, contentPacketsSent, sequenceNumber, readerVars, readEvent,
                 inputReports, deviceVars>>

(* The wait of one second ends with no answer: the run is given up. *)
OfferTimeout(t) ==
  /\ main[t] = "awaitOffer"
  /\ ~readEvent[t]
  /\ Goto(t, "exit")
  /\ UNCHANGED <<ret, fileVars, contentPacketsSent, sequenceNumber, readerVars, readEvent,
                 inputReports, deviceVars>>

CheckOffer(t) ==
  /\ main[t] = "checkOffer"
  /\ IF OfferStatusIn(inputReportBuffer[t]) \in {"ACCEPT", "COMMAND_READY"}
       THEN Goto(t, "count")
       ELSE Goto(t, "exit")
  /\ UNCHANGED <<ret, fileVars, contentPacketsSent, sequenceNumber, readerVars, readEvent,
                 inputReports, deviceVars>>

(* The first pass over the file, a packet at a time. *)
CountPacket(t) ==
  /\ main[t] = "count"
  /\ ProcessSrecBin(file[t], filePathStream[t])
  /\ totalContentPacketCount' = [totalContentPacketCount EXCEPT ![t] = @ + 1]
  /\ filePathStream' = [filePathStream EXCEPT ![t] = @ + 1]
  /\ UNCHANGED <<main, ret, file, contentPacketsSent, sequenceNumber, readerVars, readEvent,
                 inputReports, deviceVars>>

(* A pass ends: ProcessSrecBin returns FALSE. *)
FileEnds(t) ==
  /\ ~ProcessSrecBin(file[t], filePathStream[t])
  /\ ~Overruns(file[t], filePathStream[t])

(* Slip: the call that finds the end of the file is counted too. *)
CountEndsSlip(t) ==
  /\ main[t] = "count"
  /\ FileEnds(t)
  /\ totalContentPacketCount' = [totalContentPacketCount EXCEPT ![t] = @ + 1]
  /\ Goto(t, "rewind")
  /\ UNCHANGED <<ret, file, filePathStream, contentPacketsSent, sequenceNumber, readerVars,
                 readEvent, inputReports, deviceVars>>

CountEnds(t) ==
  /\ main[t] = "count"
  /\ FileEnds(t)
  /\ Goto(t, "rewind")
  /\ UNCHANGED <<ret, fileVars, contentPacketsSent, sequenceNumber, readerVars, readEvent,
                 inputReports, deviceVars>>

(* Slip: a stream that has failed is not cleared, and seekg leaves it there. *)
RewindSlip(t) ==
  /\ main[t] = "rewind"
  /\ filePathStream' = [filePathStream EXCEPT ![t] = IF @ = Len(file[t]) THEN @ ELSE 0]
  /\ Goto(t, "send")
  /\ UNCHANGED <<ret, file, totalContentPacketCount, contentPacketsSent, sequenceNumber,
                 readerVars, readEvent, inputReports, deviceVars>>

(* The stream, at its end or in failure, is cleared and set to the start. *)
Rewind(t) ==
  /\ main[t] = "rewind"
  /\ filePathStream' = [filePathStream EXCEPT ![t] = 0]
  /\ Goto(t, "send")
  /\ UNCHANGED <<ret, file, totalContentPacketCount, contentPacketsSent, sequenceNumber,
                 readerVars, readEvent, inputReports, deviceVars>>

(* A record is too long for its packet, and the process goes down. *)
Abort(t) ==
  /\ main[t] \in {"count", "send"}
  /\ Overruns(file[t], filePathStream[t])
  /\ Goto(t, "aborted")
  /\ reader' = [reader EXCEPT ![t] = "ended"]
  /\ inputReports' = [inputReports EXCEPT ![t] = <<>>]
  /\ UNCHANGED <<ret, fileVars, contentPacketsSent, sequenceNumber, inputReportBuffer,
                 readEvent, deviceVars>>

(* The flags are assigned, not combined: the only packet of an image has LAST. *)
Flags(t) == IF contentPacketsSent[t] + 1 = totalContentPacketCount[t] THEN "LAST"
            ELSE IF contentPacketsSent[t] = 0 THEN "FIRST"
            ELSE "NONE"

(* The address of the first packet is subtracted from those of all. *)
Offset(t, address) ==
  (address + AddressModulus - Packet(file[t], 0).address) % AddressModulus

(* The second pass: a packet is read and sent. *)
SendPacket(t) ==
  /\ main[t] = "send"
  /\ ProcessSrecBin(file[t], filePathStream[t])
  /\ filePathStream' = [filePathStream EXCEPT ![t] = @ + 1]
  /\ \/ /\ LET packet == Packet(file[t], filePathStream[t])
           IN  commands' = Append(commands, Content(t, Flags(t), sequenceNumber[t],
                                                    Offset(t, packet.address), packet.whole))
        /\ Goto(t, "awaitContent")
     \/ Goto(t, "exit") /\ UNCHANGED commands
  /\ UNCHANGED <<ret, file, totalContentPacketCount, contentPacketsSent, sequenceNumber,
                 readerVars, readEvent, inputReports, accepted>>

(* The file is at its end.  The share of the packets that has been sent is    *)
(* compared to 100 percent; with no packets it is 0/0, which is not below it. *)
AllSent(t) ==
  /\ main[t] = "send"
  /\ FileEnds(t)
  /\ ret' = [ret EXCEPT ![t] = contentPacketsSent[t] >= totalContentPacketCount[t]]
  /\ Goto(t, "exit")
  /\ UNCHANGED <<fileVars, contentPacketsSent, sequenceNumber, readerVars, readEvent,
                 inputReports, deviceVars>>

(* A wait that times out is repeated, without end. *)
ContentAnswered(t) == TakeEvent(t, "awaitContent", "checkContent")

(* Slip: the sequence number is wider than the field that carries it. *)
AcknowledgedSlip(t) ==
  /\ Goto(t, "send")
  /\ sequenceNumber' = [sequenceNumber EXCEPT ![t] = @ + 1]
  /\ contentPacketsSent' = [contentPacketsSent EXCEPT ![t] = @ + 1]

Acknowledged(t) ==
  /\ Goto(t, "send")
  /\ sequenceNumber' = [sequenceNumber EXCEPT ![t] = (@ + 1) % SeqModulus]
  /\ contentPacketsSent' = [contentPacketsSent EXCEPT ![t] = @ + 1]

CheckContent(t) ==
  /\ main[t] = "checkContent"
  /\ LET report == inputReportBuffer[t]
     IN  \/ /\ StatusIn(report) # "SUCCESS"
            /\ Goto(t, "exit")
            /\ UNCHANGED <<sequenceNumber, contentPacketsSent>>
         \/ /\ StatusIn(report) = "SUCCESS"
            /\ SequenceIn(report) # sequenceNumber[t]
            /\ Goto(t, "awaitContent")
            /\ UNCHANGED <<sequenceNumber, contentPacketsSent>>
         \/ /\ StatusIn(report) = "SUCCESS"
            /\ SequenceIn(report) = sequenceNumber[t]
            /\ Acknowledged(t)
  /\ UNCHANGED <<ret, fileVars, readerVars, readEvent, inputReports, deviceVars>>

(* TerminateThread is set. *)
Exit(t) ==
  /\ main[t] = "exit"
  /\ Goto(t, "cancel")
  /\ UNCHANGED <<ret, fileVars, contentPacketsSent, sequenceNumber, readerVars, readEvent,
                 inputReports, deviceVars>>

(* Slip: the read is not cancelled, in the belief that the flag ends the thread. *)
CancelReadSlip(t) ==
  /\ main[t] = "cancel"
  /\ Goto(t, "close")
  /\ UNCHANGED <<ret, fileVars, contentPacketsSent, sequenceNumber, readerVars, readEvent,
                 inputReports, deviceVars>>

(* CancelSynchronousIo ends a read that is under way, and with it the thread, *)
(* which sees the flag then.  It does nothing to a read that begins later.    *)
CancelRead(t) ==
  /\ main[t] = "cancel"
  /\ Goto(t, "close")
  /\ reader' = [reader EXCEPT ![t] = IF @ = "reading" THEN "ended" ELSE @]
  /\ UNCHANGED <<ret, fileVars, contentPacketsSent, sequenceNumber, inputReportBuffer,
                 readEvent, inputReports, deviceVars>>

(***************************************************************************)
(* The handles are closed and the run is over; a read that is still under  *)
(* way fails.  The handles were opened for synchronous reads, so closing   *)
(* them may also wait for the read: see CloseWaits.                        *)
(***************************************************************************)
CloseHandles(t) ==
  /\ main[t] = "close"
  /\ Goto(t, "ended")
  /\ reader' = [reader EXCEPT ![t] = IF Reading(t) THEN "ended" ELSE @]
  /\ inputReports' = [inputReports EXCEPT ![t] = <<>>]
  /\ UNCHANGED <<ret, fileVars, contentPacketsSent, sequenceNumber, inputReportBuffer,
                 readEvent, deviceVars>>

MainStep(t) == \/ SendOffer(t) \/ OfferAnswered(t) \/ OfferTimeout(t) \/ CheckOffer(t)
               \/ CountPacket(t) \/ CountEnds(t) \/ Rewind(t) \/ Abort(t)
               \/ SendPacket(t) \/ AllSent(t) \/ ContentAnswered(t) \/ CheckContent(t)
               \/ Exit(t) \/ CancelRead(t) \/ CloseHandles(t)

-------------------------------------------------------------------------------
(* The read thread.  It starts the next read, into the same buffer, as soon as *)
(* it has set the event, whether or not the main thread has read the buffer.   *)

(* ReadFile, which waits for a report.  A read that begins when the main thread *)
(* has already cancelled is "late": nobody will cancel it.                      *)
BeginRead(t) ==
  /\ reader[t] = "starting"
  /\ Open(t)
  /\ reader' = [reader EXCEPT ![t] = IF main[t] = "close" THEN "late" ELSE "reading"]
  /\ UNCHANGED <<mainVars, inputReportBuffer, readEvent, inputReports, deviceVars>>

ReadReport(t) ==
  /\ Reading(t)
  /\ inputReports[t] # <<>>
  /\ inputReportBuffer' = [inputReportBuffer EXCEPT ![t] = Head(inputReports[t])]
  /\ inputReports' = [inputReports EXCEPT ![t] = Tail(@)]
  /\ reader' = [reader EXCEPT ![t] = "read"]
  /\ UNCHANGED <<mainVars, readEvent, deviceVars>>

SignalMain(t) ==
  /\ reader[t] = "read"
  /\ ~TerminateThread(t)
  /\ readEvent' = [readEvent EXCEPT ![t] = TRUE]
  /\ reader' = [reader EXCEPT ![t] = "check"]
  /\ UNCHANGED <<mainVars, inputReportBuffer, inputReports, deviceVars>>

(* The last look at TerminateThread before the next read. *)
ReadAgain(t) ==
  /\ reader[t] = "check"
  /\ ~TerminateThread(t)
  /\ reader' = [reader EXCEPT ![t] = "starting"]
  /\ UNCHANGED <<mainVars, inputReportBuffer, readEvent, inputReports, deviceVars>>

(* TerminateThread is seen, or ReadFile fails on a handle that is closed. *)
ReaderEnds(t) ==
  /\ \/ TerminateThread(t) /\ reader[t] \in {"read", "check"}
     \/ main[t] = "ended" /\ reader[t] = "starting"
  /\ reader' = [reader EXCEPT ![t] = "ended"]
  /\ UNCHANGED <<mainVars, inputReportBuffer, readEvent, inputReports, deviceVars>>

ReaderStep(t) == \/ BeginRead(t) \/ ReadReport(t) \/ SignalMain(t) \/ ReadAgain(t)
                 \/ ReaderEnds(t)

ToolStep(t) == MainStep(t) \/ ReaderStep(t)

-------------------------------------------------------------------------------
(* An input report reaches every open handle. *)
Broadcast(report) ==
  inputReports' = [t \in Tool |-> IF Open(t) THEN Append(inputReports[t], report)
                                  ELSE inputReports[t]]

(* Any device that takes the commands in order and answers each at most once. *)
DeviceAnswers ==
  /\ commands # <<>>
  /\ commands' = Tail(commands)
  /\ LET command == Head(commands)
         t == command.from
     IN  \/ /\ command.kind = "offer"
            /\ \E status \in OfferStatus : Broadcast(OfferReport(t, status))
            /\ UNCHANGED accepted
         \/ /\ command.kind = "content"
            /\ \E status \in ContentStatus :
                 /\ Broadcast(ContentReport(t, command.seq, status))
                 /\ accepted' = [accepted EXCEPT ![t] = IF status = "SUCCESS" THEN @ + 1 ELSE @]
         \/ Lossy /\ UNCHANGED <<inputReports, accepted>>
  /\ UNCHANGED <<mainVars, readerVars, readEvent>>

ToolInit ==
  /\ main = [t \in Tool |-> "new"]
  /\ ret = [t \in Tool |-> FALSE]
  /\ file \in [Tool -> Files]
  /\ filePathStream = [t \in Tool |-> 0]
  /\ totalContentPacketCount = [t \in Tool |-> 0]
  /\ contentPacketsSent = [t \in Tool |-> 0]
  /\ sequenceNumber = [t \in Tool |-> 0]
  /\ reader = [t \in Tool |-> "new"]
  /\ inputReportBuffer = [t \in Tool |-> NoReport]
  /\ readEvent = [t \in Tool |-> FALSE]
  /\ inputReports = [t \in Tool |-> <<>>]
  /\ commands = <<>>
  /\ accepted = [t \in Tool |-> 0]

Next == \/ \E t \in Tool : Start(t) \/ ToolStep(t)
        \/ DeviceAnswers

Spec == ToolInit /\ [][Next]_vars

(* Both threads of a run keep running, and so does the device.  A run is     *)
(* started when its user pleases.  Nothing is asked of the main thread while *)
(* it closes the handles with a read under way.                              *)
CloseWaits(t) == main[t] = "close" /\ Reading(t)

Fairness == /\ \A t \in Tool : WF_vars(~CloseWaits(t) /\ MainStep(t)) /\ WF_vars(ReaderStep(t))
            /\ WF_vars(DeviceAnswers)

FairSpec == Spec /\ Fairness

-------------------------------------------------------------------------------
Place == {"new", "offer", "awaitOffer", "checkOffer", "count", "rewind", "send",
          "awaitContent", "checkContent", "exit", "cancel", "close", "ended", "aborted"}
ReaderPlace == {"new", "starting", "reading", "late", "read", "check", "ended"}
Command == {Offer(t) : t \in Tool}
             \cup [kind : {"content"}, from : Tool, flags : {"FIRST", "LAST", "NONE"},
                   seq : Sequence, address : 0 .. AddressModulus - 1, whole : BOOLEAN]
Report == [kind : {"offer"}, to : Tool, status : OfferStatus]
            \cup [kind : {"content"}, to : Tool, seq : Sequence, status : ContentStatus]

TypeOK ==
  /\ main \in [Tool -> Place]
  /\ ret \in [Tool -> BOOLEAN]
  /\ file \in [Tool -> Files]
  /\ filePathStream \in [Tool -> Nat]
  /\ totalContentPacketCount \in [Tool -> Nat]
  /\ contentPacketsSent \in [Tool -> Nat]
  /\ \A t \in Tool : contentPacketsSent[t] <= filePathStream[t]
  /\ \A t \in Tool : filePathStream[t] <= Len(file[t])
  /\ sequenceNumber \in [Tool -> Sequence]
  /\ reader \in [Tool -> ReaderPlace]
  /\ inputReportBuffer \in [Tool -> Report \cup {NoReport}]
  /\ readEvent \in [Tool -> BOOLEAN]
  /\ inputReports \in [Tool -> Seq(Report)]
  /\ commands \in Seq(Command)
  /\ accepted \in [Tool -> Nat]

(* The tool counts a packet as sent (line 628) only when the device has      *)
(* answered SUCCESS to it, although it takes any report in its buffer for    *)
(* the answer, and looks at its status before its sequence number.           *)
NoPhantomAcknowledgement == \A t \in Tool : contentPacketsSent[t] <= accepted[t]

(* The report the main thread looks at is the answer to its own last command:  *)
(* the read thread has not replaced it in the meantime (HidCommands.h 378-380, *)
(* "we then block on the display event until the main thread says it has       *)
(* properly displayed the new data"), nor is it another run's.                 *)
ReadsItsAnswer ==
  \A t \in Tool :
    /\ main[t] = "checkOffer" =>
         inputReportBuffer[t].kind = "offer" /\ inputReportBuffer[t].to = t
    /\ main[t] = "checkContent" =>
         /\ inputReportBuffer[t].kind = "content" /\ inputReportBuffer[t].to = t
         /\ inputReportBuffer[t].seq = sequenceNumber[t]

(* The result that main.cpp prints tells a finished delivery from a broken one:  *)
(* it is TRUE when, and only when, every packet that the file yields has been     *)
(* acknowledged.  A file that yields none is another matter; see                  *)
(* SuccessMeansInstalled in CfuUpdate.                                            *)
ResultTellsDelivery ==
  \A t \in Tool :
    main[t] = "ended" /\ PacketCount(file[t]) > 0 =>
      (ret[t] <=> contentPacketsSent[t] = PacketCount(file[t]))

(* The second pass over the file finds the packets that the first has counted  *)
(* (lines 541-553), and sends them all or gives up: one that reaches the end of *)
(* the file never finds a packet short, so the check of line 639 never fails.   *)
PassesAgree ==
  \A t \in Tool : main[t] = "send" /\ FileEnds(t) =>
                   contentPacketsSent[t] = totalContentPacketCount[t]

(* A run comes to an end, and its read thread with it, when the device answers *)
(* every command; or else the thread has begun to read after the one attempt   *)
(* to cancel its reads, and lines 654-663 may wait for a report for ever.      *)
RunEnds ==
  \A t \in Tool :
    main[t] # "new" ~> \/ main[t] \in {"ended", "aborted"} /\ reader[t] = "ended"
                      \/ [](main[t] = "close" /\ reader[t] = "late")
===============================================================================
