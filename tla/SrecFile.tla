-------------------------------- MODULE SrecFile --------------------------------
(***************************************************************************)
(* The image files of the update tool, as ProcessSrecBin (SrecParser.h)    *)
(* reads them: records of an address in four bytes, a length in one and    *)
(* as many bytes of content.  A file may have been cut at any byte, so its *)
(* last record may be without content or without a whole header.           *)
(*                                                                         *)
(* A file is the sequence of its records and a stream on it is the number  *)
(* of records read.  Content is not modelled: a whole record holds the     *)
(* block of the image that belongs at its address, and a cut one does not. *)
(***************************************************************************)
EXTENDS Naturals, Sequences

(* MAX_HID_CONTENT_PAYLOAD *)
MaxPayload == 52

Record == [address : Nat, length : 0 .. 255, cut : {"no", "content", "header"}]

(***************************************************************************)
(* Both reads go to the start of one buffer.  When the file ends inside a  *)
(* header the read of the length brings nothing, and what is taken for the *)
(* length is what the read of the address left there: its lowest byte.     *)
(***************************************************************************)
LengthRead(record) ==
  IF record.cut = "header" THEN record.address % 256 ELSE record.length

IsFile(file) ==
  /\ file \in Seq(Record)
  /\ \A i \in DOMAIN file : i < Len(file) => file[i].cut = "no"

(***************************************************************************)
(* The length is not compared to the room there is.  Beyond MaxPayload     *)
(* memcpy_s calls the invalid parameter handler, which ends the process;   *)
(* beyond 64 the content has run over the end of pBuff before that.        *)
(***************************************************************************)
Overruns(file, n) == n < Len(file) /\ LengthRead(file[n + 1]) > MaxPayload

(***************************************************************************)
(* What ProcessSrecBin returns, if it does, when n records have been read. *)
(* At the end of the file, and at a record of length zero, there is no     *)
(* packet.  A record cut short is a packet like any other.                 *)
(***************************************************************************)
ProcessSrecBin(file, n) == n < Len(file) /\ LengthRead(file[n + 1]) \in 1 .. MaxPayload

(* The packet that it fills in then. *)
Packet(file, n) == [address |-> file[n + 1].address, whole |-> file[n + 1].cut = "no"]

(* How often it returns TRUE from the start of the file. *)
PacketCount(file) ==
  CHOOSE n \in 0 .. Len(file) :
    /\ ~ProcessSrecBin(file, n)
    /\ \A k \in 0 .. n - 1 : ProcessSrecBin(file, k)
===============================================================================
