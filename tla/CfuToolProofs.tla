----------------------------- MODULE CfuToolProofs -----------------------------
(* What CfuTool guarantees for any image files and any device, proved: for any    *)
(* number of runs where the runs do not disturb each other, and for one run where *)
(* they do.                                                                       *)
EXTENDS CfuTool, NaturalFacts, SequenceTheorems

(* The run is on its way out, or the process has gone down. *)
Over(t) == main[t] \in {"exit", "cancel", "close", "ended", "aborted"}

(* The stream of a run is where its place and its packets say, in front of the *)
(* end of the packets, and so in both passes.  Only the end of the run tells a *)
(* delivery.                                                                   *)
RunGuard(t) ==
  /\ main[t] \in {"new", "offer", "awaitOffer", "checkOffer"} => filePathStream[t] = 0
  /\ main[t] \in {"new", "offer", "awaitOffer", "checkOffer", "count"} =>
       totalContentPacketCount[t] = filePathStream[t]
  /\ main[t] \in {"new", "offer", "awaitOffer", "checkOffer", "count", "rewind"} =>
       contentPacketsSent[t] = 0
  /\ main[t] = "send" => filePathStream[t] = contentPacketsSent[t]
  /\ main[t] \in {"awaitContent", "checkContent"} =>
       filePathStream[t] = contentPacketsSent[t] + 1
  /\ main[t] \in {"rewind", "send", "awaitContent", "checkContent"} =>
       totalContentPacketCount[t] = PacketCount(file[t])
  /\ contentPacketsSent[t] <= filePathStream[t]
  /\ filePathStream[t] <= PacketCount(file[t])
  /\ ~Over(t) => ~ret[t]
  /\ ret[t] => contentPacketsSent[t] = PacketCount(file[t])
  /\ Over(t) /\ main[t] # "aborted" /\ ~ret[t] /\ PacketCount(file[t]) > 0 =>
       contentPacketsSent[t] # PacketCount(file[t])

(* The inductive invariant of any number of runs, first the part of the main threads. *)
MainOK ==
  /\ main \in [Tool -> Place]
  /\ ret \in [Tool -> BOOLEAN]
  /\ file \in [Tool -> Files]
  /\ filePathStream \in [Tool -> Nat]
  /\ totalContentPacketCount \in [Tool -> Nat]
  /\ contentPacketsSent \in [Tool -> Nat]
  /\ sequenceNumber \in [Tool -> Sequence]
  /\ \A t \in Tool : RunGuard(t)

TransportOK ==
  /\ reader \in [Tool -> ReaderPlace]
  /\ inputReportBuffer \in [Tool -> Report \cup {NoReport}]
  /\ readEvent \in [Tool -> BOOLEAN]
  /\ inputReports \in [Tool -> Seq(Report)]
  /\ commands \in Seq(Command)
  /\ accepted \in [Tool -> Nat]

IInv == MainOK /\ TransportOK

-------------------------------------------------------------------------------
(* The operators. *)

(* The packets of a file are those in front of the first call that finds none. *)
LEMMA PacketsAreCounted ==
  ASSUME NEW f \in Files
  PROVE  /\ PacketCount(f) \in Nat
         /\ PacketCount(f) <= Len(f)
         /\ ~ProcessSrecBin(f, PacketCount(f))
         /\ \A k \in Nat : k < PacketCount(f) => ProcessSrecBin(f, k)
<1>1. f \in Seq(Record) /\ Len(f) \in Nat
  BY ToolAssumption DEF IsFile
<1> DEFINE T == {n \in Nat : ~ProcessSrecBin(f, n)}
<1>2. Len(f) \in T
  BY <1>1 DEF ProcessSrecBin
<1>3. PICK n \in T : \A i \in T : n <= i
  BY <1>2, LeastMember
<1>4. /\ n \in 0 .. Len(f)
      /\ ~ProcessSrecBin(f, n)
      /\ \A k \in 0 .. n - 1 : ProcessSrecBin(f, k)
  BY <1>1, <1>2, <1>3
<1> DEFINE P(m) == /\ ~ProcessSrecBin(f, m)
                   /\ \A k \in 0 .. m - 1 : ProcessSrecBin(f, k)
<1>5. PacketCount(f) = CHOOSE m \in 0 .. Len(f) : P(m)
  BY DEF PacketCount
<1>6. PacketCount(f) \in 0 .. Len(f) /\ P(PacketCount(f))
  <2>1. n \in 0 .. Len(f) /\ P(n)
    BY <1>4
  <2> HIDE DEF P
  <2>2. QED
    BY <1>5, <2>1
<1>7. QED
  BY <1>1, <1>6

(* What a packet puts on the wire has the type of a command. *)
LEMMA ContentIsCommand ==
  ASSUME MainOK, NEW t \in Tool, filePathStream[t] < Len(file[t])
  PROVE  Content(t, Flags(t), sequenceNumber[t],
                 Offset(t, Packet(file[t], filePathStream[t]).address),
                 Packet(file[t], filePathStream[t]).whole) \in Command
<1> DEFINE n == filePathStream[t]
           packet == Packet(file[t], n)
<1>1. file[t] \in Seq(Record) /\ n \in Nat /\ n < Len(file[t])
  BY ToolAssumption DEF MainOK, IsFile
<1>2. file[t][n + 1] \in Record /\ file[t][1] \in Record
  BY <1>1
<1>3. /\ packet.address \in Nat /\ packet.whole \in BOOLEAN
      /\ Packet(file[t], 0).address \in Nat
  BY <1>1, <1>2 DEF Packet, Record
<1>4. Offset(t, packet.address) \in 0 .. AddressModulus - 1
  BY <1>3, ToolAssumption DEF Offset
<1>5. Flags(t) \in {"FIRST", "LAST", "NONE"}
  BY DEF Flags
<1>6. sequenceNumber[t] \in Sequence
  BY DEF MainOK
<1> HIDE DEF n, packet
<1>7. QED
  BY <1>3, <1>4, <1>5, <1>6 DEF Content, Command, n, packet

-------------------------------------------------------------------------------
(* A step of one main thread leaves the others as they are. *)
LEMMA OthersStay ==
  ASSUME NEW t \in Tool, NEW u \in Tool, RunGuard(u),
         main'[u] = main[u], ret'[u] = ret[u], file'[u] = file[u],
         filePathStream'[u] = filePathStream[u],
         totalContentPacketCount'[u] = totalContentPacketCount[u],
         contentPacketsSent'[u] = contentPacketsSent[u]
  PROVE  RunGuard(u)'
BY DEF RunGuard, Over

(* A run starts at the front of its file with nothing sent. *)
LEMMA InitMain == ToolInit => MainOK
<1> SUFFICES ASSUME ToolInit
             PROVE  MainOK
  OBVIOUS
<1>1. \A t \in Tool : file[t] \in Files
  BY DEF ToolInit
<1>2. \A t \in Tool : PacketCount(file[t]) \in Nat
  BY <1>1, PacketsAreCounted
<1>3. \A t \in Tool : RunGuard(t)
  BY <1>2 DEF ToolInit, RunGuard
<1>4. 0 \in Sequence
  BY ToolAssumption DEF Sequence
<1>5. QED
  BY <1>3, <1>4 DEF ToolInit, MainOK, Place

(* No report and no command is under way at first. *)
LEMMA InitTransport == ToolInit => TransportOK
<1>1. ASSUME ToolInit
      PROVE  commands \in Seq(Command) /\ \A t \in Tool : <<>> \in Seq(Report)
  BY <1>1, EmptySeq DEF ToolInit
<1>2. QED
  BY <1>1 DEF ToolInit, TransportOK, ReaderPlace

(* The main threads keep their part; each step changes the places of one. *)
LEMMA MainStepMain ==
  ASSUME MainOK, NEW t \in Tool, Start(t) \/ MainStep(t)
  PROVE  MainOK'
<1>1. /\ file' = file /\ file[t] \in Files
      /\ PacketCount(file[t]) \in Nat /\ PacketCount(file[t]) <= Len(file[t])
      /\ ~ProcessSrecBin(file[t], PacketCount(file[t]))
      /\ \A k \in Nat : k < PacketCount(file[t]) => ProcessSrecBin(file[t], k)
  <2>1. file' = file
    BY DEF Start, MainStep, SendOffer, OfferAnswered, OfferTimeout, TakeEvent, CheckOffer,
           CountPacket, CountEnds, Rewind, Abort, SendPacket, AllSent, ContentAnswered, CheckContent, Exit, CancelRead, CloseHandles, fileVars
  <2>2. file[t] \in Files
    BY DEF MainOK
  <2>3. QED
    BY <2>1, <2>2, PacketsAreCounted
<1>2. /\ main[t] \in Place /\ ret[t] \in BOOLEAN
      /\ filePathStream[t] \in Nat /\ contentPacketsSent[t] \in Nat
      /\ RunGuard(t)
  BY DEF MainOK
<1>3. SUFFICES
        /\ main' = [main EXCEPT ![t] = main'[t]] /\ main'[t] \in Place
        /\ ret' = [ret EXCEPT ![t] = ret'[t]] /\ ret'[t] \in BOOLEAN
        /\ filePathStream' = [filePathStream EXCEPT ![t] = filePathStream'[t]]
        /\ filePathStream'[t] \in Nat
        /\ totalContentPacketCount' = [totalContentPacketCount EXCEPT ![t] = totalContentPacketCount'[t]]
        /\ totalContentPacketCount'[t] \in Nat
        /\ contentPacketsSent' = [contentPacketsSent EXCEPT ![t] = contentPacketsSent'[t]]
        /\ contentPacketsSent'[t] \in Nat
        /\ sequenceNumber' = [sequenceNumber EXCEPT ![t] = sequenceNumber'[t]]
        /\ sequenceNumber'[t] \in Sequence
        /\ RunGuard(t)'
  <2>1. /\ main' \in [Tool -> Place] /\ ret' \in [Tool -> BOOLEAN]
        /\ filePathStream' \in [Tool -> Nat] /\ totalContentPacketCount' \in [Tool -> Nat]
        /\ contentPacketsSent' \in [Tool -> Nat] /\ sequenceNumber' \in [Tool -> Sequence]
    BY <1>3 DEF MainOK
  <2>2. ASSUME NEW u \in Tool, u # t
        PROVE  RunGuard(u)'
    <3>1. /\ main'[u] = main[u] /\ ret'[u] = ret[u] /\ file'[u] = file[u]
          /\ filePathStream'[u] = filePathStream[u]
          /\ totalContentPacketCount'[u] = totalContentPacketCount[u]
          /\ contentPacketsSent'[u] = contentPacketsSent[u]
      BY <1>1, <1>3, <2>2 DEF MainOK
    <3>2. RunGuard(u)
      BY DEF MainOK
    <3>3. QED
      BY <3>1, <3>2, OthersStay
  <2>3. QED
    BY <1>1, <1>3, <2>1, <2>2 DEF MainOK
<1>4. /\ main = [main EXCEPT ![t] = main[t]] /\ ret = [ret EXCEPT ![t] = ret[t]]
      /\ filePathStream = [filePathStream EXCEPT ![t] = filePathStream[t]]
      /\ totalContentPacketCount =
           [totalContentPacketCount EXCEPT ![t] = totalContentPacketCount[t]]
      /\ contentPacketsSent = [contentPacketsSent EXCEPT ![t] = contentPacketsSent[t]]
      /\ sequenceNumber = [sequenceNumber EXCEPT ![t] = sequenceNumber[t]]
      /\ totalContentPacketCount[t] \in Nat /\ sequenceNumber[t] \in Sequence
  BY DEF MainOK
<1> USE DEF fileVars, Goto
<1>5. CASE Start(t)
  <2>1. PICK place \in {"offer", "exit"} : main' = [main EXCEPT ![t] = place]
    BY <1>5 DEF Start
  <2>2. /\ main[t] = "new" /\ main'[t] = place
        /\ UNCHANGED <<ret, filePathStream, totalContentPacketCount, contentPacketsSent,
                       sequenceNumber>>
    BY <1>5, <2>1 DEF Start, MainOK
  <2>3. RunGuard(t)'
    BY <1>1, <1>2, <2>2 DEF RunGuard, Over
  <2>4. QED
    BY <1>2, <1>4, <2>1, <2>2, <2>3 DEF Place
<1>6. CASE SendOffer(t)
  BY <1>1, <1>2, <1>4, <1>6 DEF SendOffer, RunGuard, Over, MainOK, Place
<1>7. CASE OfferAnswered(t)
  BY <1>1, <1>2, <1>4, <1>7 DEF OfferAnswered, TakeEvent, RunGuard, Over, MainOK, Place
<1>8. CASE OfferTimeout(t)
  BY <1>1, <1>2, <1>4, <1>8 DEF OfferTimeout, RunGuard, Over, MainOK, Place
<1>9. CASE CheckOffer(t)
  BY <1>1, <1>2, <1>4, <1>9 DEF CheckOffer, RunGuard, Over, MainOK, Place
<1>10. CASE CountPacket(t) \/ CountEnds(t) \/ Rewind(t) \/ Abort(t)
  <2>1. CASE CountPacket(t)
    <3>1. /\ main[t] = "count" /\ main' = main
          /\ ProcessSrecBin(file[t], filePathStream[t])
          /\ filePathStream' = [filePathStream EXCEPT ![t] = filePathStream[t] + 1]
          /\ totalContentPacketCount' =
               [totalContentPacketCount EXCEPT ![t] = totalContentPacketCount[t] + 1]
          /\ filePathStream'[t] = filePathStream[t] + 1
          /\ totalContentPacketCount'[t] = totalContentPacketCount[t] + 1
          /\ UNCHANGED <<ret, contentPacketsSent, sequenceNumber>>
      BY <2>1 DEF CountPacket, MainOK
    <3>2. /\ filePathStream[t] < PacketCount(file[t])
          /\ filePathStream[t] + 1 \in Nat /\ totalContentPacketCount[t] + 1 \in Nat
      <4>1. filePathStream[t] # PacketCount(file[t])
        BY <1>1, <3>1
      <4>2. QED
        BY <1>1, <1>2, <1>4, <4>1 DEF RunGuard, Over
    <3>3. RunGuard(t)'
      BY <1>1, <1>2, <1>4, <3>1, <3>2 DEF RunGuard, Over
    <3>4. QED
      BY <1>2, <1>4, <3>1, <3>2, <3>3
  <2>2. CASE CountEnds(t)
    <3>1. /\ main[t] = "count" /\ main' = [main EXCEPT ![t] = "rewind"]
          /\ main'[t] = "rewind"
          /\ ~ProcessSrecBin(file[t], filePathStream[t])
          /\ UNCHANGED <<ret, filePathStream, totalContentPacketCount, contentPacketsSent,
                         sequenceNumber>>
      BY <2>2 DEF CountEnds, FileEnds, MainOK
    <3>2. filePathStream[t] = PacketCount(file[t])
      <4>1. ~(filePathStream[t] < PacketCount(file[t]))
        BY <1>1, <1>2, <3>1
      <4>2. QED
        BY <1>1, <1>2, <4>1 DEF RunGuard, Over
    <3>3. RunGuard(t)'
      BY <1>1, <1>2, <1>4, <3>1, <3>2 DEF RunGuard, Over
    <3>4. QED
      BY <1>2, <1>4, <3>1, <3>3 DEF Place
  <2>3. CASE Rewind(t)
    <3>1. /\ main[t] = "rewind" /\ main' = [main EXCEPT ![t] = "send"]
          /\ main'[t] = "send" /\ filePathStream'[t] = 0
          /\ filePathStream' = [filePathStream EXCEPT ![t] = 0]
          /\ UNCHANGED <<ret, totalContentPacketCount, contentPacketsSent, sequenceNumber>>
      BY <2>3 DEF Rewind, MainOK
    <3>2. RunGuard(t)'
      BY <1>1, <1>2, <3>1 DEF RunGuard, Over
    <3>3. filePathStream' = [filePathStream EXCEPT ![t] = filePathStream'[t]]
      BY <3>1, Zenon
    <3>4. filePathStream'[t] \in Nat
      BY <3>1
    <3>5. main' = [main EXCEPT ![t] = main'[t]] /\ main'[t] \in Place
      BY <3>1, Zenon DEF Place
    <3>6. /\ ret' = [ret EXCEPT ![t] = ret'[t]] /\ ret'[t] \in BOOLEAN
          /\ totalContentPacketCount' =
               [totalContentPacketCount EXCEPT ![t] = totalContentPacketCount'[t]]
          /\ totalContentPacketCount'[t] \in Nat
          /\ contentPacketsSent' = [contentPacketsSent EXCEPT ![t] = contentPacketsSent'[t]]
          /\ contentPacketsSent'[t] \in Nat
          /\ sequenceNumber' = [sequenceNumber EXCEPT ![t] = sequenceNumber'[t]]
          /\ sequenceNumber'[t] \in Sequence
      BY <1>2, <1>4, <3>1
    <3>7. QED
      BY <3>2, <3>3, <3>4, <3>5, <3>6, Zenon
  <2>4. CASE Abort(t)
    <3>1. /\ main[t] \in {"count", "send"} /\ main' = [main EXCEPT ![t] = "aborted"]
          /\ main'[t] = "aborted"
          /\ UNCHANGED <<ret, filePathStream, totalContentPacketCount, contentPacketsSent,
                         sequenceNumber>>
      BY <2>4 DEF Abort, MainOK
    <3>2. RunGuard(t)'
      BY <1>1, <1>2, <3>1 DEF RunGuard, Over
    <3>3. QED
      BY <1>2, <1>4, <3>1, <3>2 DEF Place
  <2>5. QED
    BY <1>10, <2>1, <2>2, <2>3, <2>4
<1>11. CASE SendPacket(t)
  <2>1. PICK place \in {"awaitContent", "exit"} : main' = [main EXCEPT ![t] = place]
    BY <1>11 DEF SendPacket
  <2>2. /\ main[t] = "send" /\ main'[t] = place
        /\ ProcessSrecBin(file[t], filePathStream[t])
        /\ filePathStream' = [filePathStream EXCEPT ![t] = filePathStream[t] + 1]
        /\ filePathStream'[t] = filePathStream[t] + 1
        /\ UNCHANGED <<ret, totalContentPacketCount, contentPacketsSent, sequenceNumber>>
    BY <1>11, <2>1 DEF SendPacket, MainOK
  <2>3. filePathStream[t] + 1 \in Nat /\ filePathStream[t] < PacketCount(file[t])
    <3>1. filePathStream[t] # PacketCount(file[t])
      BY <1>1, <2>2
    <3>2. QED
      BY <1>1, <1>2, <3>1 DEF RunGuard, Over
  <2>4. RunGuard(t)'
    BY <1>1, <1>2, <2>2, <2>3 DEF RunGuard, Over
  <2>5. QED
    BY <1>2, <1>4, <2>1, <2>2, <2>3, <2>4 DEF Place
<1>12. CASE AllSent(t)
  <2>1. /\ main[t] = "send" /\ main' = [main EXCEPT ![t] = "exit"] /\ main'[t] = "exit"
        /\ ~ProcessSrecBin(file[t], filePathStream[t])
        /\ UNCHANGED <<filePathStream, totalContentPacketCount, contentPacketsSent,
                       sequenceNumber>>
    BY <1>12 DEF AllSent, FileEnds, MainOK
  <2>2. /\ totalContentPacketCount[t] = PacketCount(file[t])
        /\ filePathStream[t] = contentPacketsSent[t]
        /\ contentPacketsSent[t] = PacketCount(file[t])
    <3>1. ~(filePathStream[t] < PacketCount(file[t]))
      BY <1>1, <1>2, <2>1
    <3>2. QED
      BY <1>1, <1>2, <2>1, <3>1 DEF RunGuard, Over
  <2>3. ret' = [ret EXCEPT ![t] = TRUE] /\ ret'[t]
    <3>1. contentPacketsSent[t] >= totalContentPacketCount[t]
      BY <1>2, <2>2
    <3>2. QED
      BY <1>12, <3>1 DEF AllSent, MainOK
  <2>4. RunGuard(t)'
    BY <1>1, <1>2, <2>1, <2>2, <2>3 DEF RunGuard, Over
  <2>5. QED
    BY <1>2, <1>4, <2>1, <2>3, <2>4 DEF Place
<1>13. CASE ContentAnswered(t)
  BY <1>1, <1>2, <1>4, <1>13 DEF ContentAnswered, TakeEvent, RunGuard, Over, MainOK, Place
<1>14. CASE CheckContent(t)
  <2>1. PICK place \in {"send", "awaitContent", "exit"} : main' = [main EXCEPT ![t] = place]
    BY <1>14 DEF CheckContent, Acknowledged
  <2>2. /\ main[t] = "checkContent" /\ main'[t] = place
        /\ UNCHANGED <<ret, filePathStream, totalContentPacketCount>>
    BY <1>14, <2>1 DEF CheckContent, MainOK
  <2>3. CASE UNCHANGED <<sequenceNumber, contentPacketsSent>> /\ place # "send"
    <3>1. RunGuard(t)'
      BY <1>1, <1>2, <2>2, <2>3 DEF RunGuard, Over
    <3>2. QED
      BY <1>2, <1>4, <2>1, <2>2, <2>3, <3>1 DEF Place
  <2>4. CASE Acknowledged(t)
    <3>1. /\ contentPacketsSent' = [contentPacketsSent EXCEPT ![t] = contentPacketsSent[t] + 1]
          /\ sequenceNumber' =
               [sequenceNumber EXCEPT ![t] = (sequenceNumber[t] + 1) % SeqModulus]
          /\ contentPacketsSent'[t] = contentPacketsSent[t] + 1
          /\ main'[t] = "send"
      BY <2>4 DEF Acknowledged, MainOK
    <3>2. contentPacketsSent[t] + 1 \in Nat /\ (sequenceNumber[t] + 1) % SeqModulus \in Sequence
      BY <1>2, <1>4, ToolAssumption DEF Sequence
    <3>3. RunGuard(t)'
      BY <1>1, <1>2, <2>2, <3>1 DEF RunGuard, Over
    <3>4. QED
      BY <1>2, <1>4, <2>1, <2>2, <3>1, <3>2, <3>3 DEF Place
  <2>5. QED
    <3>1. \/ UNCHANGED <<sequenceNumber, contentPacketsSent>> /\ main'[t] # "send"
          \/ Acknowledged(t)
      BY <1>14 DEF CheckContent, MainOK
    <3>2. QED
      BY <2>2, <2>3, <2>4, <3>1
<1>15. CASE Exit(t) \/ CancelRead(t) \/ CloseHandles(t)
  <2>1. PICK place \in {"cancel", "close", "ended"} : main' = [main EXCEPT ![t] = place]
    BY <1>15 DEF Exit, CancelRead, CloseHandles
  <2>2. /\ main[t] \in {"exit", "cancel", "close"} /\ main'[t] = place
        /\ UNCHANGED <<ret, filePathStream, totalContentPacketCount, contentPacketsSent,
                       sequenceNumber>>
    BY <1>15, <2>1 DEF Exit, CancelRead, CloseHandles, MainOK
  <2>3. RunGuard(t)'
    BY <1>1, <1>2, <2>2 DEF RunGuard, Over
  <2>4. QED
    BY <1>2, <1>4, <2>1, <2>2, <2>3 DEF Place
<1>16. QED
  BY <1>5, <1>6, <1>7, <1>8, <1>9, <1>10, <1>11, <1>12, <1>13, <1>14, <1>15 DEF MainStep

(* The reports and the commands keep their types. *)
LEMMA MainStepTransport ==
  ASSUME IInv, NEW t \in Tool, Start(t) \/ MainStep(t)
  PROVE  TransportOK'
<1>1. /\ inputReports' = inputReports \/ inputReports' = [inputReports EXCEPT ![t] = <<>>]
      /\ readEvent' = readEvent \/ readEvent' = [readEvent EXCEPT ![t] = FALSE]
      /\ reader' = reader \/ \E place \in ReaderPlace : reader' = [reader EXCEPT ![t] = place]
      /\ UNCHANGED <<inputReportBuffer, accepted>>
  <2> USE DEF readerVars, deviceVars
  <2>1. CASE Start(t)
    BY <2>1 DEF Start, ReaderPlace
  <2>2. CASE SendOffer(t) \/ OfferAnswered(t) \/ OfferTimeout(t) \/ CheckOffer(t) \/ Exit(t)
    BY <2>2 DEF SendOffer, OfferAnswered, TakeEvent, OfferTimeout, CheckOffer, Exit
  <2>3. CASE CountPacket(t) \/ CountEnds(t) \/ Rewind(t) \/ AllSent(t)
    BY <2>3 DEF CountPacket, CountEnds, Rewind, AllSent
  <2>4. CASE SendPacket(t) \/ ContentAnswered(t) \/ CheckContent(t)
    BY <2>4 DEF SendPacket, ContentAnswered, TakeEvent, CheckContent
  <2>5. CASE Abort(t)
    BY <2>5 DEF Abort, ReaderPlace
  <2>6. CASE CancelRead(t) \/ CloseHandles(t)
    <3>1. reader[t] \in ReaderPlace
      BY DEF IInv, TransportOK
    <3>2. QED
      BY <2>6, <3>1 DEF CancelRead, CloseHandles, ReaderPlace
  <2>7. QED
    BY <2>1, <2>2, <2>3, <2>4, <2>5, <2>6 DEF MainStep
<1>2. commands' \in Seq(Command)
  <2>1. CASE commands' = commands
    BY <2>1 DEF IInv, TransportOK
  <2>2. CASE SendOffer(t)
    <3>1. Offer(t) \in Command
      BY DEF Command
    <3>2. commands' = commands \/ commands' = Append(commands, Offer(t))
      BY <2>2 DEF SendOffer
    <3>3. Append(commands, Offer(t)) \in Seq(Command)
      BY <3>1, AppendProperties DEF IInv, TransportOK
    <3>4. QED
      BY <3>2, <3>3 DEF IInv, TransportOK
  <2>3. CASE SendPacket(t)
    <3> DEFINE packet == Packet(file[t], filePathStream[t])
               content == Content(t, Flags(t), sequenceNumber[t],
                                  Offset(t, packet.address), packet.whole)
    <3>1. commands' = commands \/ commands' = Append(commands, content)
      BY <2>3 DEF SendPacket
    <3>2. filePathStream[t] < Len(file[t])
      BY <2>3 DEF SendPacket, ProcessSrecBin
    <3>3. content \in Command
      BY <3>2, ContentIsCommand DEF IInv
    <3> HIDE DEF content
    <3>4. Append(commands, content) \in Seq(Command)
      BY <3>3, AppendProperties DEF IInv, TransportOK
    <3>5. QED
      BY <3>1, <3>4 DEF IInv, TransportOK
  <2>4. QED
    BY <2>1, <2>2, <2>3
       DEF Start, MainStep, OfferAnswered, OfferTimeout, TakeEvent, CheckOffer,
           CountPacket, CountEnds, Rewind, Abort, AllSent, ContentAnswered, CheckContent, Exit, CancelRead, CloseHandles, deviceVars
<1>3. <<>> \in Seq(Report)
  BY EmptySeq
<1>4. QED
  BY <1>1, <1>2, <1>3 DEF IInv, TransportOK

(* The read thread moves reports, and touches nothing of the main thread. *)
LEMMA ReaderStepInv ==
  ASSUME IInv, NEW t \in Tool, ReaderStep(t)
  PROVE  IInv'
<1>1. MainOK'
  BY DEF IInv, MainOK, RunGuard, Over, ReaderStep, BeginRead, ReadReport, SignalMain,
         ReadAgain, ReaderEnds, mainVars, fileVars
<1>2. commands' \in Seq(Command) /\ UNCHANGED accepted
  BY DEF IInv, TransportOK, ReaderStep, BeginRead, ReadReport, SignalMain, ReadAgain,
         ReaderEnds, deviceVars
<1>3. CASE ReadReport(t)
  <2>1. inputReports[t] \in Seq(Report) /\ inputReports[t] # <<>>
    BY <1>3 DEF ReadReport, IInv, TransportOK
  <2>2. Head(inputReports[t]) \in Report /\ Tail(inputReports[t]) \in Seq(Report)
    BY <2>1, HeadTailProperties
  <2>3. QED
    BY <1>1, <1>2, <1>3, <2>2 DEF ReadReport, IInv, TransportOK, ReaderPlace
<1>4. CASE BeginRead(t) \/ SignalMain(t) \/ ReadAgain(t) \/ ReaderEnds(t)
  BY <1>1, <1>2, <1>4 DEF BeginRead, SignalMain, ReadAgain, ReaderEnds, IInv, TransportOK,
                          ReaderPlace
<1>5. QED
  BY <1>3, <1>4 DEF ReaderStep

(* Whatever the device answers is a report, and reaches the open handles. *)
LEMMA BroadcastType ==
  ASSUME TransportOK, NEW report \in Report, Broadcast(report)
  PROVE  inputReports' \in [Tool -> Seq(Report)]
<1>1. \A t \in Tool : Append(inputReports[t], report) \in Seq(Report)
  BY AppendProperties DEF TransportOK
<1>2. QED
  BY <1>1 DEF Broadcast, TransportOK

(* A command names the run it is from. *)
LEMMA CommandFields ==
  ASSUME NEW c \in Command
  PROVE  /\ c.from \in Tool
         /\ c.kind = "content" => c.seq \in Sequence
BY DEF Command, Offer

(* The device takes the first command and gives out reports; the runs stay where *)
(* they are.                                                                     *)
LEMMA DeviceInv ==
  ASSUME IInv, DeviceAnswers
  PROVE  IInv'
<1>1. MainOK'
  BY DEF IInv, MainOK, RunGuard, Over, DeviceAnswers, mainVars, fileVars
<1>2. /\ commands \in Seq(Command) /\ commands # <<>> /\ TransportOK
      /\ UNCHANGED <<reader, inputReportBuffer, readEvent>>
      /\ commands' = Tail(commands)
  BY DEF IInv, TransportOK, DeviceAnswers, readerVars
<1> DEFINE c == Head(commands)
<1>3. c \in Command /\ commands' \in Seq(Command)
  BY <1>2, HeadTailProperties
<1>4. c.from \in Tool /\ (c.kind = "content" => c.seq \in Sequence)
  BY <1>3, CommandFields
<1>5. \/ UNCHANGED <<inputReports, accepted>>
      \/ /\ \E report \in Report : Broadcast(report)
         /\ accepted' = accepted \/ accepted' = [accepted EXCEPT ![c.from] = @ + 1]
  <2>1. CASE /\ c.kind = "offer"
             /\ \E status \in OfferStatus : Broadcast(OfferReport(c.from, status))
             /\ UNCHANGED accepted
    <3>1. PICK status \in OfferStatus : Broadcast(OfferReport(c.from, status))
      BY <2>1
    <3>2. OfferReport(c.from, status) \in Report
      BY <1>4 DEF OfferReport, Report
    <3>3. QED
      BY <2>1, <3>1, <3>2
  <2>2. CASE /\ c.kind = "content"
             /\ \E status \in ContentStatus :
                  /\ Broadcast(ContentReport(c.from, c.seq, status))
                  /\ accepted' = [accepted EXCEPT ![c.from] =
                                    IF status = "SUCCESS" THEN @ + 1 ELSE @]
    <3>1. PICK status \in ContentStatus :
                 /\ Broadcast(ContentReport(c.from, c.seq, status))
                 /\ accepted' = [accepted EXCEPT ![c.from] =
                                   IF status = "SUCCESS" THEN @ + 1 ELSE @]
      BY <2>2
    <3>2. ContentReport(c.from, c.seq, status) \in Report
      BY <1>4, <2>2 DEF ContentReport, Report
    <3>3. accepted' = accepted \/ accepted' = [accepted EXCEPT ![c.from] = @ + 1]
      BY <1>2, <3>1 DEF TransportOK
    <3>4. QED
      BY <3>1, <3>2, <3>3
  <2>3. QED
    BY <2>1, <2>2 DEF DeviceAnswers
<1>6. inputReports' \in [Tool -> Seq(Report)]
  BY <1>2, <1>5, BroadcastType DEF TransportOK
<1>7. accepted' \in [Tool -> Nat]
  BY <1>2, <1>4, <1>5 DEF TransportOK
<1>8. QED
  BY <1>1, <1>2, <1>3, <1>6, <1>7 DEF IInv, TransportOK

(* The invariant is inductive, for any number of runs. *)
LEMMA NextInv == IInv /\ [Next]_vars => IInv'
<1> SUFFICES ASSUME IInv, [Next]_vars
             PROVE  IInv'
  OBVIOUS
<1>1. ASSUME NEW t \in Tool, Start(t) \/ MainStep(t)
      PROVE  IInv'
  BY <1>1, MainStepMain, MainStepTransport DEF IInv
<1>2. ASSUME NEW t \in Tool, ReaderStep(t)
      PROVE  IInv'
  BY <1>2, ReaderStepInv
<1>3. CASE DeviceAnswers
  BY <1>3, DeviceInv
<1>4. CASE UNCHANGED vars
  BY <1>4 DEF IInv, MainOK, TransportOK, RunGuard, Over, vars, mainVars, fileVars,
              readerVars,
              deviceVars
<1>5. QED
  BY <1>1, <1>2, <1>3, <1>4 DEF Next, ToolStep

(* The inductive invariant holds of every behaviour of any number of runs on any *)
(* device that takes commands in order, whether or not it answers them.          *)
THEOREM Invariance == Spec => []IInv
<1>1. ToolInit => IInv
  BY InitMain, InitTransport DEF IInv
<1>2. QED
  BY <1>1, NextInv, PTL DEF Spec

-------------------------------------------------------------------------------
(* What any number of runs may rely on. *)

(* The bounds of TypeOK on what is read and sent follow from those of *)
(* PacketsAreCounted.                                                 *)
LEMMA IsTyped == IInv => TypeOK
<1> SUFFICES ASSUME IInv
             PROVE  TypeOK
  OBVIOUS
<1>1. /\ \A t \in Tool : contentPacketsSent[t] <= filePathStream[t]
      /\ \A t \in Tool : filePathStream[t] <= Len(file[t])
  <2>1. ASSUME NEW t \in Tool
        PROVE  /\ contentPacketsSent[t] <= filePathStream[t]
               /\ filePathStream[t] <= Len(file[t])
    <3>1. file[t] \in Files /\ filePathStream[t] \in Nat /\ RunGuard(t)
      BY DEF IInv, MainOK
    <3>2. /\ PacketCount(file[t]) \in Nat /\ PacketCount(file[t]) <= Len(file[t])
          /\ Len(file[t]) \in Nat
      BY <3>1, PacketsAreCounted, ToolAssumption DEF IsFile
    <3>3. QED
      BY <3>1, <3>2 DEF RunGuard, Over
  <2>2. QED
    BY <2>1
<1>2. QED
  BY <1>1 DEF IInv, MainOK, TransportOK, TypeOK

(* Every variable has its type, and no run has read further into its file *)
(* than there are records, nor had more packets answered than it has read.  *)
THEOREM TypeCorrect == Spec => []TypeOK
BY IsTyped, Invariance, PTL

(* The result of FwUpdateOfferSrec tells a finished delivery from a broken one,  *)
(* for any image files, however they were cut and whatever lengths their records *)
(* claim: one that overruns the packet ends the process, which reports nothing.  *)
THEOREM ResultTellsDeliveryCorrect == Spec => []ResultTellsDelivery
<1>1. ASSUME IInv
      PROVE  ResultTellsDelivery
  BY <1>1 DEF IInv, MainOK, RunGuard, Over, ResultTellsDelivery
<1>2. QED
  BY <1>1, Invariance, PTL

(* Both passes find the same packets, for any image files. *)
THEOREM PassesAgreeCorrect == Spec => []PassesAgree
<1> SUFFICES IInv => PassesAgree
  BY Invariance, PTL
<1>1. ASSUME IInv, NEW t \in Tool, main[t] = "send", FileEnds(t)
      PROVE  contentPacketsSent[t] = totalContentPacketCount[t]
  <2>1. file[t] \in Files /\ filePathStream[t] \in Nat /\ RunGuard(t)
    BY <1>1 DEF IInv, MainOK
  <2>2. /\ PacketCount(file[t]) \in Nat
        /\ \A k \in Nat : k < PacketCount(file[t]) => ProcessSrecBin(file[t], k)
    BY <2>1, PacketsAreCounted
  <2>3. ~(filePathStream[t] < PacketCount(file[t]))
    BY <1>1, <2>1, <2>2 DEF FileEnds
  <2>4. QED
    BY <1>1, <2>1, <2>2, <2>3 DEF RunGuard
<1>2. QED
  BY <1>1 DEF PassesAgree

-------------------------------------------------------------------------------
(* What a run may rely on that has the device to itself.  One command is under  *)
(* way at a time: the main thread sends the next only when it has read the      *)
(* answer to the last, unless it has given up.                                  *)
OneRun == \A t, u \in Tool : t = u

(* The answer to the last command, which says nothing but what the device did. *)
IsAnswer(t, report) ==
  IF main[t] \in {"awaitOffer", "checkOffer"}
    THEN report.kind = "offer" /\ report.to = t
    ELSE /\ report.kind = "content" /\ report.to = t
         /\ report.seq = sequenceNumber[t]
         /\ report.status = "SUCCESS" => contentPacketsSent[t] < accepted[t]

IsCommand(t, command) ==
  IF main[t] = "awaitOffer"
    THEN command.kind = "offer" /\ command.from = t
    ELSE command.kind = "content" /\ command.from = t /\ command.seq = sequenceNumber[t]

(* Nothing is with the device, waits for the read thread, or has been read by it. *)
Quiet(t) == commands = <<>> /\ inputReports[t] = <<>> /\ reader[t] # "read" /\ ~readEvent[t]

(* The command is with the device, or its answer waits, is read, or is signaled. *)
WithDevice(t) ==
  /\ Len(commands) = 1 /\ IsCommand(t, commands[1])
  /\ inputReports[t] = <<>> /\ reader[t] # "read" /\ ~readEvent[t]

Waits(t) ==
  /\ commands = <<>>
  /\ Len(inputReports[t]) = 1 /\ IsAnswer(t, inputReports[t][1])
  /\ reader[t] # "read" /\ ~readEvent[t]

IsRead(t) ==
  /\ commands = <<>> /\ inputReports[t] = <<>>
  /\ IsAnswer(t, inputReportBuffer[t])
  /\ reader[t] = "read" /\ ~readEvent[t]

IsSignaled(t) ==
  /\ commands = <<>> /\ inputReports[t] = <<>>
  /\ IsAnswer(t, inputReportBuffer[t])
  /\ reader[t] # "read" /\ readEvent[t]

UnderWay(t) == Quiet(t) \/ WithDevice(t) \/ Waits(t) \/ IsRead(t) \/ IsSignaled(t)

AnswerGuard(t) ==
  /\ main[t] \in {"new", "offer", "count", "rewind", "send"} => Quiet(t)
  /\ main[t] \in {"awaitOffer", "awaitContent"} => UnderWay(t)
  /\ main[t] \in {"checkOffer", "checkContent"} =>
       Quiet(t) /\ IsAnswer(t, inputReportBuffer[t])
  /\ contentPacketsSent[t] <= accepted[t]

(* The inductive invariant of one run. *)
OneInv == IInv /\ \A t \in Tool : AnswerGuard(t)

(* Nothing is under way before a run has begun. *)
LEMMA InitOne == ToolInit => \A t \in Tool : AnswerGuard(t)
BY DEF ToolInit, AnswerGuard, Quiet

(* The main thread sends when nothing is under way, and takes the event of its own *)
(* answer.                                                                         *)
LEMMA MainStepOne ==
  ASSUME OneInv, NEW t \in Tool, Start(t) \/ MainStep(t)
  PROVE  AnswerGuard(t)'
<1>1. /\ AnswerGuard(t)
      /\ main[t] \in Place /\ t \in DOMAIN main
      /\ contentPacketsSent[t] \in Nat /\ accepted[t] \in Nat
      /\ t \in DOMAIN readEvent /\ t \in DOMAIN reader
      /\ inputReportBuffer[t] \in Report \cup {NoReport}
      /\ commands \in Seq(Command)
  BY DEF OneInv, IInv, MainOK, TransportOK
<1> USE DEF fileVars, Goto, readerVars, deviceVars
<1>2. CASE Start(t)
  BY <1>1, <1>2 DEF Start, AnswerGuard, Quiet
<1>3. CASE SendOffer(t)
  <2>1. commands' = commands \/ commands' = <<Offer(t)>>
    BY <1>1, <1>3 DEF SendOffer, AnswerGuard, Quiet
  <2>2. main'[t] = "awaitOffer" /\ Quiet(t) /\ contentPacketsSent[t] <= accepted[t]
        /\ UNCHANGED <<inputReports, reader, readEvent, contentPacketsSent, accepted>>
    BY <1>1, <1>3 DEF SendOffer, AnswerGuard
  <2>3. CASE commands' = commands
    BY <2>2, <2>3 DEF AnswerGuard, UnderWay, Quiet
  <2>4. CASE commands' = <<Offer(t)>>
    <3>1. WithDevice(t)'
      BY <2>2, <2>4 DEF WithDevice, IsCommand, Quiet, Offer
    <3>2. QED
      BY <2>2, <3>1 DEF AnswerGuard, UnderWay
  <2>5. QED
    BY <2>1, <2>3, <2>4
<1>4. CASE OfferAnswered(t)
  <2>1. /\ IsSignaled(t) /\ main'[t] = "checkOffer" /\ main[t] = "awaitOffer"
        /\ ~readEvent'[t] /\ contentPacketsSent[t] <= accepted[t]
        /\ UNCHANGED <<commands, inputReports, reader, inputReportBuffer,
                       contentPacketsSent, accepted>>
    BY <1>1, <1>4 DEF OfferAnswered, TakeEvent, AnswerGuard, UnderWay, Quiet, WithDevice,
                      Waits, IsRead
  <2>2. Quiet(t)' /\ IsAnswer(t, inputReportBuffer[t])'
    BY <2>1 DEF IsSignaled, Quiet, IsAnswer
  <2>3. QED
    BY <2>1, <2>2 DEF AnswerGuard
<1>5. CASE OfferTimeout(t)
  BY <1>1, <1>5 DEF OfferTimeout, AnswerGuard
<1>6. CASE CheckOffer(t)
  BY <1>1, <1>6 DEF CheckOffer, AnswerGuard, Quiet
<1>7. CASE CountPacket(t) \/ CountEnds(t) \/ Rewind(t) \/ Abort(t)
  BY <1>1, <1>7 DEF CountPacket, CountEnds, Rewind, Abort, AnswerGuard, Quiet
<1>8. CASE SendPacket(t)
  <2> DEFINE packet == Packet(file[t], filePathStream[t])
             content == Content(t, Flags(t), sequenceNumber[t],
                                Offset(t, packet.address), packet.whole)
  <2>1. /\ Quiet(t) /\ contentPacketsSent[t] <= accepted[t]
        /\ UNCHANGED <<inputReports, reader, readEvent, contentPacketsSent, accepted,
                       sequenceNumber>>
        /\ \/ main'[t] = "exit"
           \/ main'[t] = "awaitContent" /\ commands' = Append(commands, content)
    BY <1>1, <1>8 DEF SendPacket, AnswerGuard
  <2>2. content.kind = "content" /\ content.from = t /\ content.seq = sequenceNumber[t]
    BY DEF Content
  <2> HIDE DEF content
  <2>3. CASE main'[t] = "exit"
    BY <2>1, <2>3 DEF AnswerGuard
  <2>4. CASE main'[t] = "awaitContent" /\ commands' = Append(commands, content)
    <3>1. Len(commands') = 1 /\ commands'[1] = content
      BY <2>1, <2>4 DEF Quiet
    <3>2. WithDevice(t)'
      BY <2>1, <2>2, <2>4, <3>1 DEF WithDevice, IsCommand, Quiet
    <3>3. QED
      BY <2>1, <2>4, <3>2 DEF AnswerGuard, UnderWay
  <2>5. QED
    BY <2>1, <2>3, <2>4
<1>9. CASE AllSent(t)
  BY <1>1, <1>9 DEF AllSent, AnswerGuard
<1>10. CASE ContentAnswered(t)
  <2>1. /\ IsSignaled(t) /\ main'[t] = "checkContent" /\ main[t] = "awaitContent"
        /\ ~readEvent'[t] /\ contentPacketsSent[t] <= accepted[t]
        /\ UNCHANGED <<commands, inputReports, reader, inputReportBuffer,
                       contentPacketsSent, accepted, sequenceNumber>>
    BY <1>1, <1>10 DEF ContentAnswered, TakeEvent, AnswerGuard, UnderWay, Quiet,
                       WithDevice,
                       Waits, IsRead
  <2>2. Quiet(t)' /\ IsAnswer(t, inputReportBuffer[t])'
    BY <2>1 DEF IsSignaled, Quiet, IsAnswer
  <2>3. QED
    BY <2>1, <2>2 DEF AnswerGuard
<1>11. CASE CheckContent(t)
  <2>1. /\ Quiet(t) /\ IsAnswer(t, inputReportBuffer[t]) /\ main[t] = "checkContent"
        /\ contentPacketsSent[t] <= accepted[t]
        /\ UNCHANGED <<commands, inputReports, reader, readEvent, accepted>>
    BY <1>1, <1>11 DEF CheckContent, AnswerGuard
  <2>2. SequenceIn(inputReportBuffer[t]) = sequenceNumber[t]
    BY <2>1 DEF IsAnswer, SequenceIn
  <2>3. CASE StatusIn(inputReportBuffer[t]) # "SUCCESS"
    <3>1. main'[t] = "exit" /\ UNCHANGED contentPacketsSent
      BY <1>1, <1>11, <2>3 DEF CheckContent
    <3>2. QED
      BY <2>1, <3>1 DEF AnswerGuard
  <2>4. CASE StatusIn(inputReportBuffer[t]) = "SUCCESS"
    <3>1. Acknowledged(t)
      BY <1>11, <2>2, <2>4 DEF CheckContent
    <3>2. main'[t] = "send" /\ contentPacketsSent'[t] = contentPacketsSent[t] + 1
      BY <1>1, <3>1 DEF Acknowledged, OneInv, IInv, MainOK
    <3>3. contentPacketsSent[t] < accepted[t]
      BY <2>1, <2>4 DEF IsAnswer, StatusIn
    <3>4. QED
      BY <1>1, <2>1, <3>2, <3>3 DEF AnswerGuard, Quiet
  <2>5. QED
    BY <2>3, <2>4
<1>12. CASE Exit(t) \/ CancelRead(t) \/ CloseHandles(t)
  BY <1>1, <1>12 DEF Exit, CancelRead, CloseHandles, AnswerGuard
<1>13. QED
  BY <1>2, <1>3, <1>4, <1>5, <1>6, <1>7, <1>8, <1>9, <1>10, <1>11, <1>12 DEF MainStep

(* The read thread carries the one answer from the queue to the buffer and signals *)
(* it.                                                                             *)
LEMMA ReaderStepOne ==
  ASSUME OneInv, NEW t \in Tool, ReaderStep(t)
  PROVE  AnswerGuard(t)'
<1>1. /\ AnswerGuard(t)
      /\ reader \in [Tool -> ReaderPlace]
      /\ readEvent \in [Tool -> BOOLEAN]
      /\ inputReports \in [Tool -> Seq(Report)]
      /\ t \in DOMAIN inputReportBuffer
      /\ UNCHANGED <<main, contentPacketsSent, sequenceNumber, commands, accepted>>
  BY DEF OneInv, IInv, MainOK, TransportOK, ReaderStep, BeginRead, ReadReport, SignalMain,
         ReadAgain, ReaderEnds, mainVars, deviceVars
<1>2. CASE Over(t)
  BY <1>1, <1>2 DEF AnswerGuard, Over
<1>3. CASE ReadReport(t) /\ ~Over(t)
  <2>1. /\ inputReports[t] # <<>> /\ reader'[t] = "read"
        /\ inputReportBuffer'[t] = Head(inputReports[t])
        /\ inputReports'[t] = Tail(inputReports[t])
        /\ UNCHANGED readEvent
    BY <1>1, <1>3 DEF ReadReport
  <2>2. main[t] \in {"awaitOffer", "awaitContent"} /\ Waits(t)
    BY <1>1, <1>3, <2>1
       DEF AnswerGuard, UnderWay, Quiet, WithDevice, IsRead, IsSignaled, OneInv, IInv,
           MainOK, Place, Over
  <2>3. /\ inputReports'[t] = <<>>
        /\ inputReportBuffer'[t] = inputReports[t][1]
    <3>1. /\ inputReports[t] \in Seq(Report) /\ Len(inputReports[t]) = 1
          /\ inputReports[t] # <<>>
      BY <1>1, <2>1, <2>2 DEF Waits
    <3>2. /\ Tail(inputReports[t]) \in Seq(Report) /\ Len(Tail(inputReports[t])) = 0
          /\ Head(inputReports[t]) = inputReports[t][1]
      BY <3>1, HeadTailProperties
    <3>3. Tail(inputReports[t]) = <<>>
      BY <3>2, EmptySeq
    <3>4. QED
      BY <2>1, <3>2, <3>3
  <2>4. IsRead(t)'
    BY <1>1, <2>1, <2>2, <2>3 DEF Waits, IsRead, IsAnswer
  <2>5. QED
    BY <1>1, <2>2, <2>4 DEF AnswerGuard, UnderWay
<1>4. CASE SignalMain(t) /\ ~Over(t)
  <2>1. /\ reader[t] = "read" /\ reader'[t] = "check" /\ readEvent'[t]
        /\ UNCHANGED <<inputReports, inputReportBuffer>>
    BY <1>1, <1>4 DEF SignalMain
  <2>2. main[t] \in {"awaitOffer", "awaitContent"} /\ IsRead(t)
    BY <1>1, <1>4, <2>1
       DEF AnswerGuard, UnderWay, Quiet, WithDevice, Waits, IsSignaled, OneInv, IInv,
           MainOK, Place, Over
  <2>3. IsSignaled(t)'
    BY <1>1, <2>1, <2>2 DEF IsRead, IsSignaled, IsAnswer
  <2>4. QED
    BY <1>1, <2>2, <2>3 DEF AnswerGuard, UnderWay
<1>5. CASE BeginRead(t) \/ ReadAgain(t)
  <2>1. /\ reader[t] # "read" /\ reader'[t] # "read"
        /\ UNCHANGED <<inputReports, inputReportBuffer, readEvent>>
    BY <1>1, <1>5 DEF BeginRead, ReadAgain
  <2>2. QED
    BY <1>1, <2>1 DEF AnswerGuard, UnderWay, Quiet, WithDevice, Waits, IsRead, IsSignaled,
                      IsAnswer, IsCommand
<1>6. QED
  BY <1>2, <1>3, <1>4, <1>5 DEF ReaderStep, ReaderEnds, TerminateThread, Over

(* The device turns the one command into the one answer. *)
LEMMA DeviceOne ==
  ASSUME OneInv, OneRun, DeviceAnswers, NEW t \in Tool
  PROVE  AnswerGuard(t)'
<1>1. /\ AnswerGuard(t)
      /\ main[t] \in Place
      /\ commands \in Seq(Command) /\ commands # <<>> /\ commands' = Tail(commands)
      /\ inputReports \in [Tool -> Seq(Report)]
      /\ accepted \in [Tool -> Nat] /\ contentPacketsSent[t] \in Nat
      /\ UNCHANGED <<main, contentPacketsSent, sequenceNumber, reader, inputReportBuffer,
                     readEvent>>
  BY DEF OneInv, IInv, MainOK, TransportOK, DeviceAnswers, mainVars, readerVars
<1> DEFINE c == Head(commands)
<1>2. c \in Command /\ c = commands[1] /\ c.from = t
  <2>1. c \in Command /\ c = commands[1]
    BY <1>1, HeadTailProperties
  <2>2. QED
    BY <2>1, CommandFields DEF OneRun
<1>3. /\ accepted'[t] \in {accepted[t], accepted[t] + 1}
      /\ \/ inputReports' = inputReports
         \/ /\ c.kind = "offer"
            /\ \E status \in OfferStatus : Broadcast(OfferReport(t, status))
         \/ /\ c.kind = "content"
            /\ \E status \in ContentStatus :
                 /\ Broadcast(ContentReport(t, c.seq, status))
                 /\ status = "SUCCESS" => accepted'[t] = accepted[t] + 1
  BY <1>1, <1>2 DEF DeviceAnswers
<1>4. contentPacketsSent'[t] <= accepted'[t]
  BY <1>1, <1>3 DEF AnswerGuard
<1>5. CASE Over(t)
  BY <1>1, <1>4, <1>5 DEF AnswerGuard, Over
<1>6. CASE ~Over(t)
  <2>1. main[t] \in {"awaitOffer", "awaitContent"} /\ WithDevice(t)
    BY <1>1, <1>6 DEF AnswerGuard, UnderWay, Quiet, Waits, IsRead, IsSignaled, Place, Over
  <2>2. commands' = <<>>
    BY <1>1, <2>1, HeadTailProperties, EmptySeq DEF WithDevice
  <2>3. CASE inputReports' = inputReports
    <3>1. Quiet(t)'
      BY <1>1, <2>1, <2>2, <2>3 DEF WithDevice, Quiet
    <3>2. QED
      BY <1>1, <1>4, <2>1, <3>1 DEF AnswerGuard, UnderWay
  <2>4. ASSUME NEW report, Broadcast(report), IsAnswer(t, report)'
        PROVE  AnswerGuard(t)'
    <3>1. inputReports'[t] = <<report>>
      <4>1. Open(t) /\ inputReports[t] = <<>>
        BY <1>6, <2>1 DEF Open, WithDevice
      <4>2. inputReports'[t] = Append(inputReports[t], report)
        BY <2>4, <4>1 DEF Broadcast
      <4>3. QED
        BY <4>1, <4>2
    <3>2. Waits(t)'
      BY <1>1, <2>1, <2>2, <2>4, <3>1 DEF Waits, WithDevice
    <3>3. QED
      BY <1>1, <1>4, <2>1, <3>2 DEF AnswerGuard, UnderWay
  <2>5. CASE /\ c.kind = "offer"
             /\ \E status \in OfferStatus : Broadcast(OfferReport(t, status))
    <3>1. main[t] = "awaitOffer"
      BY <1>2, <2>1, <2>5 DEF WithDevice, IsCommand
    <3>2. \A status \in OfferStatus : IsAnswer(t, OfferReport(t, status))'
      BY <1>1, <3>1 DEF IsAnswer, OfferReport
    <3>3. QED
      BY <2>4, <2>5, <3>2
  <2>6. CASE /\ c.kind = "content"
             /\ \E status \in ContentStatus :
                  /\ Broadcast(ContentReport(t, c.seq, status))
                  /\ status = "SUCCESS" => accepted'[t] = accepted[t] + 1
    <3>1. PICK status \in ContentStatus :
                 /\ Broadcast(ContentReport(t, c.seq, status))
                 /\ status = "SUCCESS" => accepted'[t] = accepted[t] + 1
      BY <2>6
    <3>2. PICK seq : seq = c.seq
      OBVIOUS
    <3>3. main[t] = "awaitContent" /\ seq = sequenceNumber[t]
      BY <1>2, <2>1, <2>6, <3>2 DEF WithDevice, IsCommand
    <3>4. status = "SUCCESS" => contentPacketsSent'[t] < accepted'[t]
      BY <1>1, <3>1 DEF AnswerGuard
    <3>5. IsAnswer(t, ContentReport(t, seq, status))'
      BY <1>1, <3>3, <3>4 DEF IsAnswer, ContentReport
    <3>6. QED
      BY <2>4, <3>1, <3>2, <3>5
  <2>7. QED
    BY <1>3, <2>3, <2>5, <2>6
<1>7. QED
  BY <1>5, <1>6

(* The invariant of one run is inductive. *)
LEMMA NextOne == OneRun /\ OneInv /\ [Next]_vars => OneInv'
<1> SUFFICES ASSUME OneRun, OneInv, [Next]_vars
             PROVE  OneInv'
  OBVIOUS
<1>1. IInv'
  BY NextInv DEF OneInv
<1>2. ASSUME NEW t \in Tool
      PROVE  AnswerGuard(t)'
  <2>1. CASE \E u \in Tool : Start(u) \/ ToolStep(u)
    <3>1. Start(t) \/ ToolStep(t)
      BY <2>1 DEF OneRun
    <3>2. QED
      BY <3>1, MainStepOne, ReaderStepOne DEF ToolStep
  <2>2. CASE DeviceAnswers
    BY <2>2, DeviceOne
  <2>3. CASE UNCHANGED vars
    BY <2>3 DEF OneInv, AnswerGuard, UnderWay, Quiet, WithDevice, Waits, IsRead,
                IsSignaled,
                IsAnswer, IsCommand, vars, mainVars, fileVars, readerVars, deviceVars
  <2>4. QED
    BY <2>1, <2>2, <2>3 DEF Next
<1>3. QED
  BY <1>1, <1>2 DEF OneInv

(* A run that has the device to itself has one command under way at most, and the *)
(* report in its buffer answers it when the main thread looks: there the two      *)
(* threads do not race.                                                           *)
THEOREM OneInvariance == OneRun /\ Spec => []OneInv
<1>1. ToolInit => OneInv
  BY InitMain, InitTransport, InitOne DEF IInv, OneInv
<1>2. ASSUME OneRun
      PROVE  Spec => []OneInv
  <2>1. OneInv /\ [Next]_vars => OneInv'
    BY <1>2, NextOne
  <2>2. QED
    BY <1>1, <2>1, PTL DEF Spec
<1>3. QED
  BY <1>2

(* The one run counts a packet as sent only when the device has accepted it, *)
(* whether or not the device answers everything.                             *)
THEOREM NoPhantomAcknowledgementCorrect == OneRun /\ Spec => []NoPhantomAcknowledgement
<1>1. OneInv => NoPhantomAcknowledgement
  BY DEF OneInv, AnswerGuard, NoPhantomAcknowledgement
<1>2. QED
  BY <1>1, OneInvariance, PTL

(* The report that the one run looks at is the answer to its own last command. *)
THEOREM ReadsItsAnswerCorrect == OneRun /\ Spec => []ReadsItsAnswer
<1>1. OneInv => ReadsItsAnswer
  BY DEF OneInv, AnswerGuard, IsAnswer, ReadsItsAnswer
<1>2. QED
  BY <1>1, OneInvariance, PTL
===============================================================================
