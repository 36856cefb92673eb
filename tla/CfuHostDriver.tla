----------------------------- MODULE CfuHostDriver -----------------------------
(***************************************************************************)
(* The Windows update driver of Host/ComponentFirmwareUpdateDriver: it     *)
(* reads its configuration and the names of the firmware files from the    *)
(* registry when the device is added (Registry.c), creates the protocol    *)
(* and transport modules of the driver framework if there is anything to   *)
(* offer (DmfInterface.c), and hands the protocol module the contents of   *)
(* the files, which it reads on the first request and keeps (Firmware.c).  *)
(* The framework's modules are external; the callbacks run one at a time.  *)
(***************************************************************************)
EXTENDS Naturals, Sequences

CONSTANTS
  Subkeys,     (* the number of subkeys under the registry key CFU            *)
  Complete,    (* the subkeys, by position, with an Offer and a Payload value *)
  FileSize,    (* the size of a firmware file, in reads                       *)
  Faults,      (* what may fail, see the uses                                 *)
  Restarts     (* a bound: how often the framework adds the device again      *)

AllFaults == {"config", "enumerate", "values", "open", "alloc", "read", "bind", "start"}

ASSUME DriverAssumption ==
  /\ Subkeys \in Nat
  /\ Complete \subseteq 1..Subkeys
  /\ FileSize \in Nat \ {0}
  /\ Faults \subseteq AllFaults
  /\ Restarts \in Nat

VARIABLES
  phase,       \* what the driver is doing, see TypeOK
  keyIndex,    \* the subkey that is enumerated next
  collection,  \* FirmwareBlobCollection
  misread,     \* the subkeys that could not be read in this enumeration
  components,  \* NumberOfFirmwareComponents, as the protocol module was told
  bound,       \* whether the protocol module is bound to the transport
  started,     \* whether the protocol module has been started
  asked,       \* history: the pair and the kind of file of the last request
  served,      \* the content that the last OfferGet or PayloadGet returned
  restarts

enumVars == <<keyIndex, collection, misread>>
moduleVars == <<bound, started>>
requestVars == <<asked, served>>
vars == <<phase, enumVars, components, moduleVars, requestVars, restarts>>

Fault(f) == f \in Faults

Kind == {"Offer", "Payload"}

(* A request is for one of the two files of a subkey. *)
File(subkey, kind) == [subkey |-> subkey, kind |-> kind]

(* The memory object of a file, and how much of the file was read into it. *)
Content(subkey, kind, amount) == [subkey |-> subkey, kind |-> kind, read |-> amount]
Contents == [subkey : 1..Subkeys, kind : Kind, read : 0..FileSize]
NoHandle == [kind |-> "none"]
Whole(content) == content # NoHandle /\ content.read = FileSize

(* A DRIVER_FIRMWARE_INFORMATION: the file names of a subkey, and the lazily *)
(* read contents of the files.                                               *)
Information(subkey) == [subkey |-> subkey, contents |-> [kind \in Kind |-> NoHandle]]

-------------------------------------------------------------------------------
(* The device is added: ComponentFirmwareUpdateDeviceModulesAdd. *)

(* The device hardware key, its values and the key CFU.  A value that cannot *)
(* be read has a default; a transport protocol out of range ends it all.     *)
ConfigurationGet ==
  /\ phase = "configuring"
  /\ \/ phase' = "enumerating"
     \/ Fault("config") /\ phase' = "inert"
  /\ UNCHANGED <<enumVars, components, moduleVars, requestVars, restarts>>

(* Slip: the loop runs to the count of subkeys, inclusive. *)
EnumeratingSlip == phase = "enumerating" /\ keyIndex <= Subkeys + 1

Enumerating == phase = "enumerating" /\ keyIndex <= Subkeys

(* Slip: a subkey without a payload is taken into the collection. *)
FirmwareInformationSlip ==
  /\ Enumerating
  /\ collection' = Append(collection, Information(keyIndex))
  /\ keyIndex' = keyIndex + 1
  /\ UNCHANGED <<phase, misread, components, moduleVars, requestVars, restarts>>

(* Both values are there and could be read. *)
FirmwareInformationAdd ==
  /\ Enumerating
  /\ keyIndex \in Complete
  /\ collection' = Append(collection, Information(keyIndex))
  /\ keyIndex' = keyIndex + 1
  /\ UNCHANGED <<phase, misread, components, moduleVars, requestVars, restarts>>

(* Slip: a subkey that yields nothing ends the enumeration. *)
FirmwareInformationStops ==
  /\ Enumerating
  /\ keyIndex \notin Complete \/ Fault("values")
  /\ misread' = misread \cup {keyIndex}
  /\ keyIndex' = Subkeys + 1
  /\ UNCHANGED <<phase, collection, components, moduleVars, requestVars, restarts>>

(* A subkey that yields nothing, or cannot be read, does not end the enumeration. *)
FirmwareInformationSkip ==
  /\ Enumerating
  /\ keyIndex \notin Complete \/ Fault("values")
  /\ misread' = misread \cup {keyIndex}
  /\ keyIndex' = keyIndex + 1
  /\ UNCHANGED <<phase, collection, components, moduleVars, requestVars, restarts>>

(***************************************************************************)
(* RegQueryInfoKey and RegEnumKeyEx answer Win32 codes, which are positive *)
(* when they fail: NT_SUCCESS takes them for success.  The first then       *)
(* leaves a count of no subkeys; the second leaves an empty name, which     *)
(* opens CFU itself, which has no values, or opens nothing.  A subkey that   *)
(* does not open, for that or any other reason, ends the enumeration with an *)
(* error, and with it the adding of the modules.                            *)
(***************************************************************************)
QueryInfoKeyFails ==
  /\ Fault("enumerate")
  /\ phase = "enumerating"
  /\ keyIndex = 1
  /\ misread' = 1..Subkeys
  /\ keyIndex' = Subkeys + 1
  /\ UNCHANGED <<phase, collection, components, moduleVars, requestVars, restarts>>

EnumKeyFails ==
  /\ Fault("enumerate")
  /\ Enumerating
  /\ misread' = misread \cup {keyIndex}
  /\ \/ phase' = "inert" /\ UNCHANGED keyIndex
     \/ keyIndex' = keyIndex + 1 /\ UNCHANGED phase
  /\ UNCHANGED <<collection, components, moduleVars, requestVars, restarts>>

(* With no firmware information the modules are not created. *)
ModulesAdd ==
  /\ phase = "enumerating"
  /\ keyIndex > Subkeys
  /\ IF collection = <<>>
       THEN phase' = "inert" /\ UNCHANGED components
       ELSE phase' = "closed" /\ components' = Len(collection)
  /\ UNCHANGED <<enumVars, moduleVars, requestVars, restarts>>

-------------------------------------------------------------------------------
(* CFUHidTransport_PostOpen_Callback. *)

BindFails ==
  /\ Fault("bind")
  /\ phase = "closed"
  /\ phase' = "open"
  /\ UNCHANGED <<enumVars, components, moduleVars, requestVars, restarts>>

(* WdfDeviceSetFailed: the framework removes the device and adds it again. *)
StartFails ==
  /\ Fault("start")
  /\ phase = "closed"
  /\ phase' = "failed"
  /\ bound' = TRUE
  /\ UNCHANGED <<enumVars, components, started, requestVars, restarts>>

PostOpen ==
  /\ phase = "closed"
  /\ phase' = "open"
  /\ bound' = TRUE
  /\ started' = TRUE
  /\ UNCHANGED <<enumVars, components, requestVars, restarts>>

(* CFUHidTransport_PreClose_Callback stops and unbinds, whatever PostOpen did. *)
PreClose ==
  /\ phase = "open"
  /\ phase' = "closed"
  /\ bound' = FALSE
  /\ started' = FALSE
  /\ UNCHANGED <<enumVars, components, requestVars, restarts>>

-------------------------------------------------------------------------------
(* Firmware.c: the requests of the protocol module.  OfferGet and PayloadGet  *)
(* are one function but for the file, which is the kind here.                 *)

(* Firmware_FileContentRead: the results it may have.  If the buffer cannot be *)
(* created, the result is still the TRUE of GetFileSizeEx; if a read fails,    *)
(* the caller gets the buffer together with the FALSE.                         *)
FileContentRead(subkey, kind) ==
  {[success |-> TRUE, memory |-> Content(subkey, kind, FileSize)]}
  \cup (IF Fault("open") THEN {[success |-> FALSE, memory |-> NoHandle]} ELSE {})
  \cup (IF Fault("alloc") THEN {[success |-> TRUE, memory |-> NoHandle]} ELSE {})
  \cup (IF Fault("read") THEN [success : {FALSE},
                               memory : {Content(subkey, kind, n) : n \in 0..FileSize - 1}]
        ELSE {})

(* Slip: both requests return the buffer of the offer, as in a copied body. *)
BufferSlip(information, kind) == information.contents["Offer"]

(* The buffer that a request returns. *)
Buffer(information, kind) == information.contents[kind]

Serving == phase = "open" /\ started

(* The first request for a file, which reads it.  Without a memory object *)
(* there is no buffer to get, and the driver's process goes down.         *)
GetUnread(index, kind) ==
  LET information == collection[index]
  IN  /\ Serving
      /\ information.contents[kind] = NoHandle
      /\ asked' = File(information.subkey, kind)
      /\ \E result \in FileContentRead(information.subkey, kind) :
           LET filled == [information EXCEPT !.contents[kind] = result.memory]
           IN  /\ collection' = [collection EXCEPT ![index] = filled]
               /\ served' = IF result.success THEN Buffer(filled, kind) ELSE NoHandle
               /\ phase' = IF result.success /\ Buffer(filled, kind) = NoHandle
                           THEN "failed" ELSE phase
      /\ UNCHANGED <<keyIndex, misread, components, moduleVars, restarts>>

(* Every later request is served from the memory object, whatever is in it. *)
GetCached(index, kind) ==
  /\ Serving
  /\ collection[index].contents[kind] # NoHandle
  /\ asked' = File(collection[index].subkey, kind)
  /\ served' = Buffer(collection[index], kind)
  /\ UNCHANGED <<phase, enumVars, components, moduleVars, restarts>>

-------------------------------------------------------------------------------
Init ==
  /\ phase = "configuring"
  /\ keyIndex = 1
  /\ collection = <<>>
  /\ misread = {}
  /\ components = 0
  /\ bound = FALSE
  /\ started = FALSE
  /\ asked = NoHandle
  /\ served = NoHandle
  /\ restarts = 0

(* The device is removed, with its context, and added again. *)
DeviceAdd ==
  /\ phase \in {"inert", "closed", "failed"}
  /\ restarts < Restarts
  /\ restarts' = restarts + 1
  /\ phase' = "configuring"
  /\ keyIndex' = 1
  /\ collection' = <<>>
  /\ misread' = {}
  /\ components' = 0
  /\ bound' = FALSE
  /\ started' = FALSE
  /\ asked' = NoHandle
  /\ served' = NoHandle

Enumerate == \/ FirmwareInformationAdd \/ FirmwareInformationSkip
             \/ QueryInfoKeyFails \/ EnumKeyFails

(* The protocol module asks for the files of the components it was told of. *)
Request == \E index \in 1..components, kind \in Kind :
             GetUnread(index, kind) \/ GetCached(index, kind)

Next == \/ ConfigurationGet \/ Enumerate \/ ModulesAdd
        \/ PostOpen \/ BindFails \/ StartFails \/ PreClose
        \/ Request
        \/ DeviceAdd

Spec == Init /\ [][Next]_vars

-------------------------------------------------------------------------------
TypeOK ==
  /\ phase \in {"configuring", "enumerating", "inert", "closed", "open", "failed"}
  /\ keyIndex \in 1..Subkeys + 1
  /\ \A i \in DOMAIN collection :
       collection[i] \in [subkey : 1..Subkeys, contents : [Kind -> Contents \cup {NoHandle}]]
  /\ misread \subseteq 1..Subkeys
  /\ components \in 0..Subkeys
  /\ bound \in BOOLEAN
  /\ started \in BOOLEAN
  /\ asked \in [subkey : 1..Subkeys, kind : Kind] \cup {NoHandle}
  /\ served \in Contents \cup {NoHandle}

(* Whatever fails while the registry is read, a pair that the protocol module *)
(* may ask for exists (the ASSERTs at Firmware.c 220 and 291), both its files *)
(* are named, and pairs keep the order of their subkeys, each at most once.   *)
PairsAreNamed ==
  /\ phase \in {"closed", "open"} => components = Len(collection) /\ components > 0
  /\ \A i \in DOMAIN collection : collection[i].subkey \in Complete
  /\ \A i, j \in DOMAIN collection : i < j => collection[i].subkey < collection[j].subkey

(* A subkey that yields nothing, or cannot be read, costs only itself (Registry.c *)
(* 231): once the modules exist they are told of every other complete one.  (One  *)
(* that cannot be opened, Registry.c 205, costs all: the modules never exist.)    *)
EveryCompletePairIsOffered ==
  phase \in {"closed", "open"} =>
    \A k \in Complete \ misread : \E i \in 1..components : collection[i].subkey = k

(* The content that a request returns (Firmware.c 241, 312) is of the file it    *)
(* asked for: neither the partner's of its pair nor another pair's, whether the *)
(* file was read for this request or kept from an earlier one.                  *)
ServesTheRequestedFile ==
  served # NoHandle => served.kind = asked.kind /\ served.subkey = asked.subkey

(* Firmware.c 264: PayloadGet "reads and returns contents of payload file", not *)
(* of the part of it that could be read.                                        *)
ServesOnlyWholeFiles == served # NoHandle => Whole(served)
===============================================================================
