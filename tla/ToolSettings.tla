------------------------------ MODULE ToolSettings ------------------------------
(***************************************************************************)
(* The protocol settings file of the update tool, as                       *)
(* ReadProtocolSettingsFile (main.cpp) reads it.                           *)
(*                                                                         *)
(* A line is its tag, its value and whether it is too long for the buffer  *)
(* of 512 characters.  Lines with fewer than two tokens, or with another   *)
(* tag, have a tag that is not in Tag.                                     *)
(***************************************************************************)
EXTENDS Integers, Sequences

Line == [tag : STRING, value : Nat, long : BOOLEAN]

Tag == {"VID", "PID", "USAGEPAGE", "USAGECOLLECTION", "VERSION_FEATURE_USAGE",
        "CONTENT_OUTPUT_USAGE", "CONTENT_RESPONSE_INPUT_USAGE", "OFFER_OUTPUT_USAGE",
        "OFFER_RESPONSE_INPUT_USAGE"}

(* The memset leaves zeros, which for a report also say HidP_Input. *)
Unset == -1

UINT16Modulus == 65536

UINT16(n) == n % UINT16Modulus

Word == 0 .. UINT16Modulus - 1

(* What a setting may be. *)
Number == {Unset} \cup Word

(* Slip: a tag that has been read is not read again. *)
SetFirst(settings, line) ==
  IF line.tag \in Tag /\ settings[line.tag] = Unset
    THEN [settings EXCEPT ![line.tag] = UINT16(line.value)]
    ELSE settings

(* Slip: the number is kept as strtoul returns it. *)
SetWide(settings, line) ==
  IF line.tag \in Tag THEN [settings EXCEPT ![line.tag] = line.value] ELSE settings

(* What a line does to the settings. *)
Set(settings, line) ==
  IF line.tag \in Tag THEN [settings EXCEPT ![line.tag] = UINT16(line.value)] ELSE settings

(* A line that does not fit fails the stream, which ends the loop before it. *)
StreamFailed(file, n) == \E i \in 1 .. n : file[i].long

(* The settings after each of the lines; those after the last are the result. *)
SettingsAfter(file) ==
  LET settings[n \in 0 .. Len(file)] ==
        IF n = 0 THEN [tag \in Tag |-> Unset]
        ELSE IF StreamFailed(file, n) THEN settings[n - 1]
        ELSE Set(settings[n - 1], file[n])
  IN  settings

ReadProtocolSettingsFile(file) == SettingsAfter(file)[Len(file)]

(* The number that the tool finds in the place of a setting. *)
Value(settings, tag) == IF settings[tag] = Unset THEN 0 ELSE settings[tag]
===============================================================================
