------------------------------ MODULE CfuToolMain ------------------------------
(***************************************************************************)
(* The stand-alone update tool around the update: the command line and the *)
(* settings file (main.cpp), the search for devices that answer a version  *)
(* query (RetrieveDevicesWithVersions and GetVersion in FwUpdate.cpp), and *)
(* the choice among them.  The update itself is the subject of CfuTool;    *)
(* here it is only known to return, to go down, or to wait.                *)
(*                                                                         *)
(* A HID interface of kind "controller" belongs to a controller with the   *)
(* CFU engine: its version report is written by the walk over the          *)
(* registrations, CfuRegistration, while tasks still register.  One of     *)
(* kind "fixed" answers with a version of its own.                         *)
(***************************************************************************)
EXTENDS Integers, Sequences, FiniteSets, ToolSettings, CfuRegistration

CONSTANTS
  FixedVersions,   (* the versions that interfaces of kind fixed report      *)
  CommandLines,    (* the command lines: the command and argc              *)
  SettingsFiles,   (* the contents that the settings file may have         *)
  InterfaceLists,  (* the lists of HID interfaces that Windows may return  *)
  Entries          (* what the user may enter                              *)

(* What a HID interface has of interest, to the tool and to its query. *)
Interface ==
  [kind : {"controller"}, vid : Word, pid : Word, usagePage : Word, usage : Word,
   features : SUBSET Word, hasInput : BOOLEAN, reportLength : Nat]
    \cup [kind : {"fixed"}, vid : Word, pid : Word, usagePage : Word, usage : Word,
          features : SUBSET Word, hasInput : BOOLEAN, reportLength : Nat, version : FixedVersions]

ASSUME MainAssumption ==
  /\ CommandLines \subseteq
       [command : {"none", "other", "update", "version"}, argc : Nat \ {0}]
  /\ \A file \in SettingsFiles : file \in Seq(Line)
  /\ \A list \in InterfaceLists : list \in Seq(Interface)
  /\ Entries \subseteq Int

VARIABLES
  place,             \* where the program is
  argv,              \* its command line
  ret,               \* its exit code
  settingsFile,
  protocolSettings,
  interfaces,        \* pInterfaceList
  pInterface,        \* which of them is asked for its version
  hr,                \* of RetrieveDevicesWithVersions
  version,           \* the VersionReport that every call of GetVersion fills in
  vectorInterfaces,  \* the devices found
  selection,         \* the one that is updated
  cin                \* whether std::cin is still good

fileVars == <<argv, settingsFile, protocolSettings>>
searchVars == <<interfaces, pInterface, hr, version, vectorInterfaces>>
userVars == <<selection, cin>>
mainVars == <<place, ret, fileVars, searchVars, userVars>>
vars == <<mainVars, registrationVars>>

(* A report of zeros. *)
ZeroVersion == "zero"

(* sizeof(VersionReport) *)
VersionReportSize == 13

-------------------------------------------------------------------------------
Goto(where) == place' = where /\ UNCHANGED ret

Return(code) == place' = "ended" /\ ret' = code

(* The FALSE of a failed CoInitializeEx is a zero too, as S_OK is. *)
Tmain ==
  /\ place = "start"
  /\ argv' \in CommandLines
  /\ \/ argv'.argc = 1 /\ Return("S_OK")
     \/ argv'.argc > 1 /\ Return("FALSE")
     \/ argv'.argc > 1 /\ argv'.command = "other" /\ Return("S_OK")
     \/ /\ argv'.argc > 1
        /\ \/ argv'.command = "update" /\ argv'.argc < 5
           \/ argv'.command = "version" /\ argv'.argc # 3
        /\ Return("E_INVALIDARG")
     \/ /\ \/ argv'.command = "update" /\ argv'.argc >= 5
           \/ argv'.command = "version" /\ argv'.argc = 3
        /\ Goto("settings")
  /\ UNCHANGED <<settingsFile, protocolSettings, searchVars, userVars, registrationVars>>

ReadSettings ==
  /\ place = "settings"
  /\ \/ Return("E_FAIL") /\ UNCHANGED <<settingsFile, protocolSettings>>
     \/ /\ settingsFile' \in SettingsFiles
        /\ protocolSettings' = ReadProtocolSettingsFile(settingsFile')
        /\ Goto("list")
  /\ UNCHANGED <<argv, searchVars, userVars, registrationVars>>

-------------------------------------------------------------------------------
(* RetrieveDevicesWithVersions and GetVersion. *)

GetInterfaceList ==
  /\ place = "list"
  /\ \/ Return("ERROR") /\ UNCHANGED searchVars
     \/ /\ interfaces' \in InterfaceLists
        /\ pInterface' = 1
        /\ hr' = "S_OK"
        /\ version' = ZeroVersion
        /\ vectorInterfaces' = <<>>
        /\ Goto("query")
  /\ UNCHANGED <<fileVars, userVars, registrationVars>>

Setting(tag) == Value(protocolSettings, tag)

(* Without a product id the vendor's id must do. *)
MatchesVidPid(d) ==
  /\ d.vid = Setting("VID")
  /\ Setting("VID") # 0 /\ Setting("PID") # 0 => d.pid = Setting("PID")

MatchesUsage(d) ==
  /\ d.usagePage = Setting("USAGEPAGE")
  /\ Setting("USAGECOLLECTION") # 0 => d.usage = Setting("USAGECOLLECTION")

(* HidP_GetSpecificValueCaps, to which usage zero is any usage. *)
VersionCaps(d) == {u \in d.features : Setting("VERSION_FEATURE_USAGE") \in {0, u}}

PopulateReportId(d) ==
  IF protocolSettings["VERSION_FEATURE_USAGE"] = Unset THEN d.hasInput
                                                       ELSE VersionCaps(d) # {}

(* The device that GetVersion works on, if it is one to ask. *)
Queried(d) ==
  /\ place = "query"
  /\ pInterface <= Len(interfaces)
  /\ d = interfaces[pInterface]

Suits(d) == MatchesVidPid(d) /\ MatchesUsage(d) /\ PopulateReportId(d)

NotFound ==
  /\ Goto("query")
  /\ pInterface' = pInterface + 1
  /\ version' = ZeroVersion
  /\ hr' = "ERROR"
  /\ UNCHANGED <<interfaces, vectorInterfaces>>

Found(v) ==
  /\ Goto("query")
  /\ pInterface' = pInterface + 1
  /\ version' = v
  /\ hr' = "S_OK"
  /\ vectorInterfaces' = Append(vectorInterfaces, [interface |-> pInterface, version |-> v])
  /\ UNCHANGED interfaces

(* Slip: the list is not advanced past a device that is filtered out. *)
GetVersionFailsStays(d) ==
  /\ Queried(d)
  /\ version' = ZeroVersion
  /\ hr' = "ERROR"
  /\ UNCHANGED <<place, ret, interfaces, pInterface, vectorInterfaces>>
  /\ UNCHANGED <<fileVars, userVars, registrationVars>>

(* The device does not match, or a call to open it or to describe it fails. *)
GetVersionFails(d) ==
  /\ Queried(d)
  /\ NotFound
  /\ UNCHANGED <<fileVars, userVars, registrationVars>>

(* Slip: the report is not cleared first. *)
GetVersionUnansweredSlip(d) ==
  /\ Queried(d)
  /\ Suits(d)
  /\ Found(version)
  /\ UNCHANGED <<fileVars, userVars, registrationVars>>

(* GetFeatureReport has no success, and GetVersion returns S_OK all the same. *)
GetVersionUnanswered(d) ==
  /\ Queried(d)
  /\ Suits(d)
  /\ Found(ZeroVersion)
  /\ UNCHANGED <<fileVars, userVars, registrationVars>>

Askable(d) == Suits(d) /\ Cardinality(VersionCaps(d)) = 1

GetVersionFixed(d) ==
  /\ Queried(d)
  /\ d.kind = "fixed"
  /\ Askable(d)
  /\ IF d.reportLength < VersionReportSize THEN NotFound ELSE Found(d.version)
  /\ UNCHANGED <<fileVars, userVars, registrationVars>>

(* The controller begins to write its report. *)
AskController(d) ==
  /\ Queried(d)
  /\ d.kind = "controller"
  /\ Askable(d)
  /\ GetFWVersion
  /\ Goto("asked")
  /\ UNCHANGED <<fileVars, searchVars, userVars>>

(* The tool reads one version: that of the component visited first. *)
ControllerAnswers ==
  /\ place = "asked"
  /\ GetFWVersionEnd
  /\ Found(IF opening = NULL THEN ZeroVersion ELSE opening)
  /\ UNCHANGED <<fileVars, userVars>>

(* The request fails before the controller has answered it. *)
ControllerFails ==
  /\ place = "asked"
  /\ Found(ZeroVersion)
  /\ UNCHANGED <<fileVars, userVars, registrationVars>>

GetVersion == \/ \E d \in {interfaces[i] : i \in DOMAIN interfaces} :
                   \/ GetVersionFails(d) \/ GetVersionUnanswered(d) \/ GetVersionFixed(d)
                   \/ AskController(d)
              \/ ControllerAnswers \/ ControllerFails

(* The last query's result, unless a device has been found. *)
RetrieveResult == IF vectorInterfaces # <<>> THEN "S_OK" ELSE hr

EndOfList ==
  /\ place = "query"
  /\ pInterface > Len(interfaces)
  /\ hr' = RetrieveResult
  /\ IF argv.command = "version" \/ hr' # "S_OK" THEN Return(hr') ELSE Goto("select")
  /\ UNCHANGED <<fileVars, interfaces, pInterface, version, vectorInterfaces, userVars,
                 registrationVars>>

-------------------------------------------------------------------------------
(* DeviceSelect, and the use of what it returns. *)

(* With no device it returns NULL, and FwUpdateMain reads deviceInterfaces[0]. *)
DeviceSelectAuto ==
  /\ place = "select"
  /\ Len(vectorInterfaces) < 2
  /\ IF vectorInterfaces = <<>> THEN Goto("undefined") /\ UNCHANGED selection
                                ELSE Goto("update") /\ selection' = 0
  /\ UNCHANGED <<fileVars, searchVars, cin, registrationVars>>

Prompts == place = "select" /\ Len(vectorInterfaces) >= 2 /\ cin = "good"

(* Slip: the size is taken for the last index. *)
OutOfRangeSlip(n) == n > Len(vectorInterfaces) \/ n < 0

OutOfRange(n) == n > Len(vectorInterfaces) - 1 \/ n < 0

(* vectorInterfaces[n], of a number that has passed the test or not. *)
Select(n) ==
  \/ OutOfRange(n) /\ UNCHANGED <<place, ret, selection>>
  \/ /\ ~OutOfRange(n)
     /\ selection' = n
     /\ IF n < Len(vectorInterfaces) THEN Goto("update") ELSE Goto("undefined")

EnterNumber(n) ==
  /\ Prompts
  /\ Select(n)
  /\ UNCHANGED <<fileVars, searchVars, cin, registrationVars>>

(* A word fails the stream, and the number read is zero. *)
EnterWord ==
  /\ Prompts
  /\ cin' = "failed"
  /\ Select(0)
  /\ UNCHANGED <<fileVars, searchVars, registrationVars>>

(* A number too large for an int, and the end of the input, fail the stream and *)
(* leave the loop with nothing to read: it prompts without end.                 *)
EnterNothing ==
  /\ Prompts
  /\ cin' = "failed"
  /\ UNCHANGED <<place, ret, selection, fileVars, searchVars, registrationVars>>

DeviceSelect == (\E n \in Entries : EnterNumber(n)) \/ EnterWord \/ EnterNothing

(* The result of the update is printed, unless it takes the process down. *)
UpdateReturns == \E code \in {"S_OK", "E_FAIL", "aborted"} : Return(code)

(* FwUpdateOfferSrec, whichever result it has.  It may come to wait: for an answer *)
(* to content that the device does not send, or for its handles to close.          *)
Update ==
  /\ place = "update"
  /\ UpdateReturns \/ Goto("waiting")
  /\ UNCHANGED <<fileVars, searchVars, userVars, registrationVars>>

(* What it waits for comes after all. *)
UpdateWaited ==
  /\ place = "waiting"
  /\ UpdateReturns
  /\ UNCHANGED <<fileVars, searchVars, userVars, registrationVars>>

-------------------------------------------------------------------------------
(* The firmware: the tasks register, and a walk that has begun goes on, *)
(* whether or not the tool still waits for it.                          *)
FirmwareRuns ==
  /\ \/ Registering
     \/ GetFWVersionNext
     \/ place # "asked" /\ GetFWVersionEnd
  /\ UNCHANGED mainVars

Init ==
  /\ place = "start"
  /\ argv = [command |-> "none", argc |-> 1]
  /\ ret = "S_OK"
  /\ settingsFile = <<>>
  /\ protocolSettings = [tag \in Tag |-> Unset]
  /\ interfaces = <<>>
  /\ pInterface = 1
  /\ hr = "S_OK"
  /\ version = ZeroVersion
  /\ vectorInterfaces = <<>>
  /\ selection = -1
  /\ cin = "good"
  /\ RegistrationInit

ProgramStep == \/ ReadSettings \/ GetInterfaceList \/ GetVersion \/ EndOfList
               \/ DeviceSelectAuto \/ Update

Next == Tmain \/ ProgramStep \/ DeviceSelect \/ UpdateWaited \/ FirmwareRuns

Spec == Init /\ [][Next]_vars

(* The program runs, the walk of the version report goes on, and a user who is *)
(* asked for a number gives one that is shown at some time.  An update that     *)
(* waits may wait for ever.                                                     *)
Fairness ==
  /\ WF_vars(ProgramStep)
  /\ WalkFairness
  /\ WF_vars(\E n \in 0 .. Len(vectorInterfaces) - 1 : EnterNumber(n))

FairSpec == Spec /\ Fairness

-------------------------------------------------------------------------------
Place == {"start", "settings", "list", "query", "asked", "select", "update", "waiting",
          "ended", "undefined"}
Version(d) == IF d.kind = "fixed" THEN {ZeroVersion, d.version}
                                  ELSE {ZeroVersion} \cup called

AnyVersion == {ZeroVersion} \cup FixedVersions \cup Registration

MainTypeOK ==
  /\ place \in Place
  /\ argv \in CommandLines \cup {[command |-> "none", argc |-> 1]}
  /\ ret \in {"S_OK", "FALSE", "E_FAIL", "E_INVALIDARG", "ERROR", "aborted"}
  /\ settingsFile \in SettingsFiles \cup {<<>>}
  /\ protocolSettings \in [Tag -> Number]
  /\ interfaces \in InterfaceLists \cup {<<>>}
  /\ pInterface \in 1 .. Len(interfaces) + 1
  /\ hr \in {"S_OK", "ERROR"}
  /\ version \in AnyVersion
  /\ vectorInterfaces \in Seq([interface : DOMAIN interfaces, version : AnyVersion])
  /\ selection \in Int
  /\ cin \in {"good", "failed"}
  /\ place = "asked" => walking

TypeOK == RegistrationTypeOK /\ MainTypeOK

(* The list that the tool prints (lines 124-140) gives each device its own version *)
(* or none: one VersionReport serves all the queries, and a query whose feature    *)
(* report fails is a success, so a report that is left over would be shown.         *)
ListedVersionIsItsOwn ==
  \A i \in DOMAIN vectorInterfaces :
    vectorInterfaces[i].version \in Version(interfaces[vectorInterfaces[i].interface])

(* The tool indexes its list of devices out of range (main.cpp 296 and 378) in one *)
(* case only: Windows knows no HID interface at all.  If it knows some and none    *)
(* answers, the result of the last query keeps the tool from going on.             *)
IndexIsInRange == place = "undefined" => interfaces = <<>>

(* An image goes to no device but one of the vendor, the product and the usage     *)
(* page that the settings file says, where later lines override earlier ones (main.cpp *)
(* 443-501), whatever else is plugged in.  With a vendor of zero no product is      *)
(* compared (FwUpdate.cpp 192, "vid is mandatory").  A line too long for the buffer *)
(* is apart: the file then ends there for the tool.                                *)
TargetIsNamed ==
  place \in {"update", "waiting"} /\ (\A i \in DOMAIN settingsFile : ~settingsFile[i].long) =>
    LET d == interfaces[vectorInterfaces[selection + 1].interface]
        Says(tag, n) ==
          \A i \in DOMAIN settingsFile :
            /\ settingsFile[i].tag = tag
            /\ \A j \in i + 1 .. Len(settingsFile) : settingsFile[j].tag # tag
            => UINT16(settingsFile[i].value) = n
    IN  Says("VID", d.vid) /\ (Says("PID", d.pid) \/ Says("PID", 0) \/ d.vid = 0)
          /\ Says("USAGEPAGE", d.usagePage)

(* A command comes to an end, whatever devices are there and whatever they answer, *)
(* or goes wrong in one of the three ways the code has: the empty list, an input   *)
(* stream that has failed while the tool prompts (lines 367-377), and an update    *)
(* whose waits do not end (FwUpdate.cpp 590-625 and 654-663; see RunEnds).         *)
CommandEnds ==
  place # "start" ~> \/ place \in {"ended", "undefined"}
                     \/ place = "select" /\ cin = "failed"
                     \/ [](place = "waiting")
===============================================================================
