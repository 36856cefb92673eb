--------------------------- MODULE CfuToolMainProofs ---------------------------
(* What CfuToolMain guarantees for any settings files, interfaces, entries and *)
(* registrations, proved.                                                       *)
EXTENDS CfuToolMain, CfuRegistrationProofs, NaturalFacts,
        SequenceTheorems

Settings == [Tag -> Number]

(* A setting after n lines is the number of the last of them with its tag. *)
LastSays(file, n, settings) ==
  \A tag \in Tag :
    \/ settings[tag] = Unset /\ \A i \in 1 .. n : file[i].tag # tag
    \/ \E i \in 1 .. n :
         /\ file[i].tag = tag
         /\ settings[tag] = UINT16(file[i].value)
         /\ \A j \in i + 1 .. n : file[j].tag # tag

(* One round of the loop. *)
Round(file, n, settings) ==
  IF StreamFailed(file, n) THEN settings ELSE Set(settings, file[n])

Searching == place \in {"query", "asked", "select", "update", "waiting"}

(* The settings are those of the file that was read, from then on. *)
SettingsGuard ==
  place = "list" \/ Searching =>
    settingsFile \in SettingsFiles /\ protocolSettings = ReadProtocolSettingsFile(settingsFile)

(* Every device found suits the settings, and so does the one that is asked. *)
FoundGuard ==
  /\ Searching => \A i \in DOMAIN vectorInterfaces :
                    Suits(interfaces[vectorInterfaces[i].interface])
  /\ place = "asked" =>
       /\ pInterface <= Len(interfaces)
       /\ Suits(interfaces[pInterface])
       /\ interfaces[pInterface].kind = "controller"

(* While nothing has been found, the result is that of a query that failed, unless *)
(* there has been none.                                                             *)
NothingFound ==
  /\ place \in {"query", "asked"} /\ vectorInterfaces = <<>> => hr = "ERROR" \/ pInterface = 1
  /\ place = "select" /\ vectorInterfaces = <<>> => interfaces = <<>>

Selected ==
  place \in {"update", "waiting"} => selection + 1 \in DOMAIN vectorInterfaces

(* The inductive invariant of the program. *)
MainInv == /\ MainTypeOK
           /\ SettingsGuard
           /\ FoundGuard
           /\ NothingFound
           /\ Selected
           /\ IndexIsInRange
           /\ ListedVersionIsItsOwn

(* What a report begins with has been passed to the registering function; it needs *)
(* no critical section.                                                             *)
OpeningGuard ==
  /\ inserting \in [Task -> called \cup {NULL}]
  /\ called \subseteq Registration
  /\ first \in called \cup {NULL}
  /\ opening \in called \cup {NULL}

-------------------------------------------------------------------------------
(* The settings file. *)

(* The cut to 16 bits gives a word. *)
LEMMA UINT16Type ==
  ASSUME NEW n \in Nat
  PROVE  UINT16(n) \in Number /\ UINT16(n) # Unset
<1>1. UINT16(n) \in Word
  <2>1. UINT16Modulus \in Nat \ {0}
    BY DEF UINT16Modulus
  <2>2. QED
    BY <2>1 DEF UINT16, Word
<1>2. \A i \in Word : i # Unset
  BY SMT DEF Word, Unset
<1>3. \A i \in Word : i \in Number
  BY Zenon DEF Number
<1>4. QED
  BY <1>1, <1>2, <1>3, Zenon

(* A round of the loop over the lines leaves settings. *)
LEMMA RoundType ==
  ASSUME NEW file \in Seq(Line), NEW n \in 1 .. Len(file), NEW settings \in Settings
  PROVE  Round(file, n, settings) \in Settings
<1>1. file[n] \in Line
  OBVIOUS
<1>2. file[n].value \in Nat
  BY <1>1 DEF Line
<1>3. UINT16(file[n].value) \in Number
  BY <1>2, UINT16Type, Zenon
<1>4. Set(settings, file[n]) \in Settings
  BY <1>3 DEF Set, Settings
<1>5. QED
  BY <1>4 DEF Round

(* The recursion describes one function: the settings after each line. *)
LEMMA SettingsExist ==
  ASSUME NEW file \in Seq(Line)
  PROVE  /\ SettingsAfter(file) \in [0 .. Len(file) -> Settings]
         /\ SettingsAfter(file)[0] = [tag \in Tag |-> Unset]
         /\ \A n \in 1 .. Len(file) :
              SettingsAfter(file)[n] = Round(file, n, SettingsAfter(file)[n - 1])
<1> DEFINE Empty == [tag \in Tag |-> Unset]
           IsRun(run, n) ==
             /\ run \in [0 .. n -> Settings]
             /\ run[0] = Empty
             /\ \A i \in 1 .. n : run[i] = Round(file, i, run[i - 1])
           S == {n \in Nat : n <= Len(file) => \E run \in [0 .. n -> Settings] : IsRun(run, n)}
<1>1. Empty \in Settings
  BY DEF Settings, Number
<1>2. 0 \in S
  <2>1. IsRun([i \in 0 .. 0 |-> Empty], 0)
    BY <1>1
  <2>2. QED
    BY <1>1, <2>1
<1>3. ASSUME NEW n \in S
      PROVE  n + 1 \in S
  <2> SUFFICES ASSUME n + 1 <= Len(file)
               PROVE  \E run \in [0 .. n + 1 -> Settings] : IsRun(run, n + 1)
    OBVIOUS
  <2>1. n \in Nat /\ Len(file) \in Nat /\ n <= Len(file) /\ n + 1 \in 1 .. Len(file)
    OBVIOUS
  <2>2. PICK run \in [0 .. n -> Settings] : IsRun(run, n)
    BY <2>1
  <2> DEFINE next == Round(file, n + 1, run[n])
             longer == [i \in 0 .. n + 1 |-> IF i = n + 1 THEN next ELSE run[i]]
  <2>3. next \in Settings
    BY <2>1, <2>2, RoundType
  <2> HIDE DEF next
  <2>4. longer \in [0 .. n + 1 -> Settings]
    BY <2>1, <2>2, <2>3
  <2>5. longer[0] = Empty
    BY <2>1, <2>2
  <2>6. \A i \in 1 .. n : longer[i] = run[i] /\ longer[i - 1] = run[i - 1]
    BY <2>1
  <2>7. longer[n + 1] = next /\ longer[(n + 1) - 1] = run[n]
    BY <2>1
  <2>8. \A i \in 1 .. n + 1 : longer[i] = Round(file, i, longer[i - 1])
    <3> SUFFICES ASSUME NEW i \in 1 .. n + 1
                 PROVE  longer[i] = Round(file, i, longer[i - 1])
      OBVIOUS
    <3> HIDE DEF longer
    <3>1. CASE i = n + 1
      BY <2>7, <3>1 DEF next
    <3>2. CASE i \in 1 .. n
      BY <2>2, <2>6, <3>2
    <3>3. QED
      BY <2>1, <3>1, <3>2
  <2> HIDE DEF longer
  <2>9. QED
    BY <2>4, <2>5, <2>8
<1>4. Len(file) \in S
  <2> HIDE DEF S
  <2>1. S \in SUBSET Nat
    BY DEF S
  <2>2. S = Nat
    BY <1>2, <1>3, <2>1, SetInduction
  <2>3. QED
    BY <2>2
<1>5. PICK run \in [0 .. Len(file) -> Settings] : IsRun(run, Len(file))
  BY <1>4
<1> DEFINE Loop(settings) ==
      [n \in 0 .. Len(file) |-> IF n = 0 THEN Empty
                                ELSE IF StreamFailed(file, n) THEN settings[n - 1]
                                ELSE Set(settings[n - 1], file[n])]
<1>6. SettingsAfter(file) = CHOOSE settings : settings = Loop(settings)
  BY DEF SettingsAfter
<1>7. run = Loop(run)
  <2>1. \A n \in 0 .. Len(file) : run[n] = Loop(run)[n]
    BY <1>5 DEF Round
  <2>2. QED
    BY <1>5, <2>1
<1>8. SettingsAfter(file) = Loop(SettingsAfter(file))
  <2> HIDE DEF Loop
  <2>1. QED
    BY <1>6, <1>7, Zenon
<1> DEFINE after == SettingsAfter(file)
<1>9. /\ DOMAIN after = 0 .. Len(file)
      /\ after[0] = Empty
      /\ \A n \in 1 .. Len(file) : after[n] = Round(file, n, after[n - 1])
      /\ after = [n \in 0 .. Len(file) |-> after[n]]
  <2> HIDE DEF after
  <2>1. after = Loop(after)
    BY <1>8 DEF after
  <2>2. Len(file) \in Nat
    OBVIOUS
  <2>3. /\ DOMAIN after = 0 .. Len(file)
        /\ after[0] = Empty
        /\ after = [n \in 0 .. Len(file) |-> after[n]]
    BY <2>1, <2>2
  <2>4. ASSUME NEW n \in 1 .. Len(file)
        PROVE  after[n] = Round(file, n, after[n - 1])
    <3>1. n \in 0 .. Len(file) /\ n # 0
      BY <2>2
    <3>2. after[n] = IF StreamFailed(file, n) THEN after[n - 1] ELSE Set(after[n - 1], file[n])
      BY <2>1, <3>1
    <3>3. QED
      BY <3>2 DEF Round
  <2>5. QED
    BY <2>3, <2>4
<1> DEFINE T == {n \in Nat : n <= Len(file) => after[n] \in Settings}
<1>10. T = Nat
  <2> HIDE DEF after
  <2>1. 0 \in T
    BY <1>1, <1>9
  <2>2. ASSUME NEW n \in T
        PROVE  n + 1 \in T
    <3> SUFFICES ASSUME n + 1 <= Len(file)
                 PROVE  after[n + 1] \in Settings
      OBVIOUS
    <3>1. n \in Nat /\ Len(file) \in Nat /\ n + 1 \in 1 .. Len(file) /\ (n + 1) - 1 = n
          /\ after[n] \in Settings
      OBVIOUS
    <3>2. after[n + 1] = Round(file, n + 1, after[n])
      BY <1>9, <3>1
    <3>3. QED
      BY <3>1, <3>2, RoundType
  <2>3. T \in SUBSET Nat
    OBVIOUS
  <2> HIDE DEF T
  <2>4. QED
    BY <2>1, <2>2, <2>3, SetInduction
<1>11. \A n \in 0 .. Len(file) : after[n] \in Settings
  BY <1>10
<1>12. QED
  BY <1>9, <1>11

(* So does the loop. *)
LEMMA SettingsType ==
  ASSUME NEW file \in Seq(Line)
  PROVE  ReadProtocolSettingsFile(file) \in Settings
<1>1. Len(file) \in 0 .. Len(file)
  OBVIOUS
<1>2. QED
  BY <1>1, SettingsExist DEF ReadProtocolSettingsFile

(* Later lines override earlier ones. *)
LEMMA LastLineSays ==
  ASSUME NEW file \in Seq(Line), \A i \in DOMAIN file : ~file[i].long
  PROVE  LastSays(file, Len(file), ReadProtocolSettingsFile(file))
<1> DEFINE after == SettingsAfter(file)
<1>1. /\ after \in [0 .. Len(file) -> Settings]
      /\ after[0] = [tag \in Tag |-> Unset]
      /\ \A n \in 1 .. Len(file) : after[n] = Round(file, n, after[n - 1])
  BY SettingsExist
<1> HIDE DEF after
<1> DEFINE T == {n \in Nat : n <= Len(file) => LastSays(file, n, after[n])}
<1>2. 0 \in T
  <2>1. \A tag \in Tag : after[0][tag] = Unset
    BY <1>1
  <2>2. QED
    BY <2>1 DEF LastSays
<1>3. ASSUME NEW n \in T
      PROVE  n + 1 \in T
  <2> SUFFICES ASSUME n + 1 <= Len(file)
               PROVE  LastSays(file, n + 1, after[n + 1])
    OBVIOUS
  <2>1. /\ n \in Nat /\ Len(file) \in Nat /\ n + 1 \in 1 .. Len(file) /\ (n + 1) - 1 = n
        /\ n \in 0 .. Len(file)
        /\ LastSays(file, n, after[n])
    OBVIOUS
  <2>2. ~StreamFailed(file, n + 1)
    BY <2>1 DEF StreamFailed
  <2>3. after[n + 1] = Set(after[n], file[n + 1]) /\ after[n] \in Settings
    BY <1>1, <2>1, <2>2 DEF Round
  <2> SUFFICES ASSUME NEW tag \in Tag
               PROVE  \/ after[n + 1][tag] = Unset /\ \A i \in 1 .. n + 1 : file[i].tag # tag
                      \/ \E i \in 1 .. n + 1 :
                           /\ file[i].tag = tag
                           /\ after[n + 1][tag] = UINT16(file[i].value)
                           /\ \A j \in i + 1 .. n + 1 : file[j].tag # tag
    BY DEF LastSays
  <2>4. CASE file[n + 1].tag = tag
    <3>1. after[n + 1][tag] = UINT16(file[n + 1].value)
      BY <2>3, <2>4 DEF Set, Settings
    <3>2. n + 1 \in 1 .. n + 1 /\ \A j \in (n + 1) + 1 .. n + 1 : FALSE
      BY <2>1
    <3>3. QED
      BY <2>4, <3>1, <3>2
  <2>5. CASE file[n + 1].tag # tag
    <3>1. after[n + 1][tag] = after[n][tag]
      BY <2>3, <2>5 DEF Set, Settings
    <3>2. \/ after[n][tag] = Unset /\ \A i \in 1 .. n : file[i].tag # tag
          \/ \E i \in 1 .. n :
               /\ file[i].tag = tag
               /\ after[n][tag] = UINT16(file[i].value)
               /\ \A j \in i + 1 .. n : file[j].tag # tag
      BY <2>1 DEF LastSays
    <3>3. \A i \in 1 .. n + 1 : i \in 1 .. n \/ i = n + 1
      BY <2>1
    <3>4. CASE \A i \in 1 .. n : file[i].tag # tag
      <4>1. \A i \in 1 .. n + 1 : file[i].tag # tag
        BY <2>5, <3>3, <3>4
      <4>2. after[n][tag] = Unset
        BY <3>2, <3>4
      <4>3. QED
        BY <3>1, <4>1, <4>2
    <3>5. CASE \E i \in 1 .. n :
                 /\ file[i].tag = tag
                 /\ after[n][tag] = UINT16(file[i].value)
                 /\ \A j \in i + 1 .. n : file[j].tag # tag
      <4>1. PICK i \in 1 .. n :
                 /\ file[i].tag = tag
                 /\ after[n][tag] = UINT16(file[i].value)
                 /\ \A j \in i + 1 .. n : file[j].tag # tag
        BY <3>5
      <4>2. i \in 1 .. n + 1 /\ \A j \in i + 1 .. n + 1 : j \in i + 1 .. n \/ j = n + 1
        BY <2>1
      <4>3. \A j \in i + 1 .. n + 1 : file[j].tag # tag
        BY <2>5, <4>1, <4>2
      <4>4. QED
        BY <3>1, <4>1, <4>2, <4>3
    <3>6. QED
      BY <3>2, <3>4, <3>5
  <2>6. QED
    BY <2>4, <2>5
<1>4. T = Nat
  <2>1. T \in SUBSET Nat
    OBVIOUS
  <2> HIDE DEF T
  <2>2. QED
    BY <1>2, <1>3, <2>1, SetInduction
<1>5. Len(file) \in T
  BY <1>4
<1>6. QED
  BY <1>5 DEF after, ReadProtocolSettingsFile

-------------------------------------------------------------------------------
(* The controller's side of a step. *)

(* Every step of the two together is one of the registration, or leaves it alone. *)
LEMMA RegistrationStep == [Next]_vars => [RegistrationNext]_registrationVars
<1> SUFFICES ASSUME [Next]_vars
             PROVE  RegistrationNext \/ UNCHANGED registrationVars
  OBVIOUS
<1>1. CASE FirmwareRuns
  BY <1>1 DEF FirmwareRuns, RegistrationNext, Walk
<1>2. CASE GetVersion
  BY <1>2 DEF GetVersion, GetVersionFails, GetVersionUnanswered, GetVersionFixed, AskController,
              ControllerAnswers, ControllerFails, RegistrationNext, Walk
<1>3. CASE Tmain \/ ReadSettings \/ GetInterfaceList \/ EndOfList \/ DeviceSelectAuto \/ Update
           \/ UpdateWaited \/ DeviceSelect \/ UNCHANGED vars
  BY <1>3 DEF Tmain, ReadSettings, GetInterfaceList, EndOfList, DeviceSelectAuto, Update,
              UpdateWaited, DeviceSelect, EnterNumber, EnterWord, EnterNothing, vars
<1>4. QED
  BY <1>1, <1>2, <1>3 DEF Next, ProgramStep

(* The guard holds whether or not the registrations are guarded. *)
LEMMA OpeningStep ==
  ASSUME OpeningGuard, [RegistrationNext]_registrationVars
  PROVE  OpeningGuard' /\ called \subseteq called'
<1> USE DEF OpeningGuard
<1>1. ASSUME NEW t \in Task, NEW r \in Registration, RegisterComponent(t, r)
      PROVE  OpeningGuard' /\ called \subseteq called'
  BY <1>1 DEF RegisterComponent, walkVars
<1>2. ASSUME NEW t \in Task, RegisterComponentHead(t)
      PROVE  OpeningGuard' /\ called \subseteq called'
  BY <1>2 DEF RegisterComponentHead, walkVars
<1>3. CASE Walk \/ UNCHANGED registrationVars
  BY <1>3 DEF Walk, GetFWVersion, GetFWVersionNext, GetFWVersionEnd, registrationVars, listVars,
              walkVars
<1>4. QED
  BY <1>1, <1>2, <1>3 DEF RegistrationNext, Registering

(* The controller's list and walk are those of CfuRegistration, whatever the tool *)
(* does: the tool asks for a report and receives what the walk has written.        *)
THEOREM RunsTheRegistration == Spec => RegistrationSpec
<1>1. Init => RegistrationInit
  BY DEF Init
<1>2. QED
  BY <1>1, RegistrationStep, PTL DEF Spec, RegistrationSpec

(* A version report that the tool asks for counts the registrations that were *)
(* complete when it asked.                                                     *)
THEOREM ReportedToTheTool == Guarded /\ Spec => []ReportIsSnapshot
<1>1. QED
  BY RunsTheRegistration, ReportIsSnapshotCorrect

-------------------------------------------------------------------------------
(* The cleared report is a version. *)
LEMMA ZeroIsVersion == ZeroVersion \in AnyVersion
  BY DEF AnyVersion

(* What Windows lists is a sequence of interfaces. *)
LEMMA InterfacesAreSequence ==
  ASSUME MainTypeOK
  PROVE  interfaces \in Seq(Interface)
  BY MainAssumption DEF MainTypeOK

(* The program starts with nothing read, found or selected. *)
LEMMA InitMain == Init => MainInv /\ OpeningGuard
<1> SUFFICES ASSUME Init
             PROVE  MainInv /\ OpeningGuard
  OBVIOUS
<1> USE DEF Init
<1>1. protocolSettings \in [Tag -> Number] /\ version \in AnyVersion
  BY ZeroIsVersion DEF Number
<1>2. Len(interfaces) = 0 /\ pInterface \in 1 .. Len(interfaces) + 1
  OBVIOUS
<1>3. vectorInterfaces \in Seq([interface : DOMAIN interfaces, version : AnyVersion])
  OBVIOUS
<1>4. MainTypeOK
  BY <1>1, <1>2, <1>3 DEF MainTypeOK, Place
<1>5. /\ SettingsGuard /\ FoundGuard /\ NothingFound /\ Selected /\ IndexIsInRange
      /\ ListedVersionIsItsOwn
  BY DEF SettingsGuard, FoundGuard, NothingFound, Selected, IndexIsInRange,
         ListedVersionIsItsOwn, Searching
<1>6. OpeningGuard
  BY DEF RegistrationInit, OpeningGuard
<1>7. QED
  BY <1>4, <1>5, <1>6 DEF MainInv

(* The listed versions stay right while more registrations come. *)
LEMMA ListedKept ==
  ASSUME ListedVersionIsItsOwn, UNCHANGED <<interfaces, vectorInterfaces>>,
         called \subseteq called'
  PROVE  ListedVersionIsItsOwn'
  BY DEF ListedVersionIsItsOwn, Version

(* Before a device has been searched for. *)
LEMMA BeginStep ==
  ASSUME MainInv, called \subseteq called', Tmain \/ ReadSettings \/ GetInterfaceList
  PROVE  MainInv'
<1> USE DEF MainInv
<1>1. CASE Tmain
  <2>1. /\ place' \in {"ended", "settings"}
        /\ ret' \in {"S_OK", "FALSE", "E_FAIL", "E_INVALIDARG", "ERROR", "aborted"}
        /\ argv' \in CommandLines
        /\ UNCHANGED <<settingsFile, protocolSettings, interfaces, pInterface, hr, version,
                       vectorInterfaces, selection, cin>>
    BY <1>1 DEF Tmain, Return, Goto, searchVars, userVars, MainTypeOK
  <2>2. MainTypeOK'
    BY <2>1 DEF MainTypeOK, Place
  <2>3. ListedVersionIsItsOwn'
    BY <2>1, ListedKept
  <2>4. SettingsGuard' /\ FoundGuard' /\ NothingFound' /\ Selected' /\ IndexIsInRange'
    BY <2>1 DEF SettingsGuard, FoundGuard, NothingFound, Selected, IndexIsInRange, Searching
  <2>5. QED
    BY <2>2, <2>3, <2>4
<1>2. CASE ReadSettings
  <2>1. /\ \/ place' = "ended" /\ UNCHANGED <<settingsFile, protocolSettings>>
           \/ /\ place' = "list"
              /\ settingsFile' \in SettingsFiles
              /\ protocolSettings' = ReadProtocolSettingsFile(settingsFile')
        /\ ret' \in {"S_OK", "FALSE", "E_FAIL", "E_INVALIDARG", "ERROR", "aborted"}
        /\ UNCHANGED <<argv, interfaces, pInterface, hr, version, vectorInterfaces, selection, cin>>
    BY <1>2 DEF ReadSettings, Return, Goto, searchVars, userVars, MainTypeOK
  <2>2. protocolSettings' \in [Tag -> Number]
    BY <2>1, SettingsType, MainAssumption DEF Settings, MainTypeOK
  <2>3. MainTypeOK'
    BY <2>1, <2>2 DEF MainTypeOK, Place
  <2>4. ListedVersionIsItsOwn'
    BY <2>1, ListedKept
  <2>5. SettingsGuard' /\ FoundGuard' /\ NothingFound' /\ Selected' /\ IndexIsInRange'
    BY <2>1 DEF SettingsGuard, FoundGuard, NothingFound, Selected, IndexIsInRange, Searching
  <2>6. QED
    BY <2>3, <2>4, <2>5
<1>3. CASE GetInterfaceList
  <2>1. UNCHANGED <<argv, settingsFile, protocolSettings, selection, cin>> /\ place = "list"
    BY <1>3 DEF GetInterfaceList, fileVars, userVars
  <2>2. CASE Return("ERROR") /\ UNCHANGED searchVars
    <3>1. MainTypeOK'
      BY <2>1, <2>2 DEF MainTypeOK, Place, Return, searchVars
    <3>2. ListedVersionIsItsOwn'
      BY <2>2, ListedKept DEF searchVars
    <3>3. SettingsGuard' /\ FoundGuard' /\ NothingFound' /\ Selected' /\ IndexIsInRange'
      BY <2>1, <2>2 DEF SettingsGuard, FoundGuard, NothingFound, Selected, IndexIsInRange,
                        Searching, Return
    <3>4. QED
      BY <3>1, <3>2, <3>3
  <2>3. CASE /\ interfaces' \in InterfaceLists
             /\ pInterface' = 1
             /\ hr' = "S_OK"
             /\ version' = ZeroVersion
             /\ vectorInterfaces' = <<>>
             /\ Goto("query")
    <3>1. pInterface' \in 1 .. Len(interfaces') + 1
      BY <2>3, MainAssumption
    <3>2. /\ version' \in AnyVersion
          /\ vectorInterfaces' \in
               Seq([interface : DOMAIN interfaces', version : AnyVersion])
      BY <2>3, ZeroIsVersion
    <3>3. MainTypeOK'
      BY <2>1, <2>3, <3>1, <3>2 DEF MainTypeOK, Place, Goto
    <3>4. ListedVersionIsItsOwn'
      BY <2>3 DEF ListedVersionIsItsOwn
    <3>5. SettingsGuard' /\ FoundGuard' /\ NothingFound' /\ Selected' /\ IndexIsInRange'
      BY <2>1, <2>3 DEF SettingsGuard, FoundGuard, NothingFound, Selected, IndexIsInRange,
                        Searching, Goto
    <3>6. QED
      BY <3>3, <3>4, <3>5
  <2>4. QED
    BY <1>3, <2>2, <2>3 DEF GetInterfaceList
<1>4. QED
  BY <1>1, <1>2, <1>3

(* A query that finds nothing. *)
LEMMA NotFoundStep ==
  ASSUME MainInv, place = "query", pInterface <= Len(interfaces), NotFound,
         UNCHANGED <<fileVars, userVars>>, called \subseteq called'
  PROVE  MainInv'
<1> USE DEF MainInv
<1>1. /\ place' = "query" /\ pInterface' = pInterface + 1 /\ version' = ZeroVersion
      /\ hr' = "ERROR"
      /\ UNCHANGED <<ret, argv, settingsFile, protocolSettings, interfaces, vectorInterfaces,
                     selection, cin>>
  BY DEF NotFound, Goto, fileVars, userVars
<1>2. pInterface' \in 1 .. Len(interfaces) + 1
  <2>1. Len(interfaces) \in Nat
    BY InterfacesAreSequence
  <2>2. QED
    BY <1>1, <2>1 DEF MainTypeOK
<1>3. MainTypeOK'
  BY <1>1, <1>2, ZeroIsVersion DEF MainTypeOK, Place
<1>4. ListedVersionIsItsOwn'
  BY <1>1, ListedKept
<1>5. FoundGuard'
  BY <1>1 DEF FoundGuard, Searching, Suits, MatchesVidPid, MatchesUsage, PopulateReportId,
              Setting, VersionCaps
<1>6. SettingsGuard' /\ NothingFound' /\ Selected' /\ IndexIsInRange'
  BY <1>1 DEF SettingsGuard, NothingFound, Selected, IndexIsInRange, Searching
<1>7. QED
  BY <1>3, <1>4, <1>5, <1>6

(* A query that finds the device that it was about, with a version of its own. *)
LEMMA FoundStep ==
  ASSUME MainInv, place \in {"query", "asked"}, pInterface <= Len(interfaces),
         Suits(interfaces[pInterface]),
         NEW v, Found(v), v \in AnyVersion,
         v \in Version(interfaces[pInterface]),
         UNCHANGED <<fileVars, userVars>>, called \subseteq called'
  PROVE  MainInv'
<1> USE DEF MainInv
<1> DEFINE device == [interface |-> pInterface, version |-> v]
           Device == [interface : DOMAIN interfaces, version : AnyVersion]
<1>1. /\ place' = "query" /\ pInterface' = pInterface + 1 /\ version' = v /\ hr' = "S_OK"
      /\ vectorInterfaces' = Append(vectorInterfaces, device)
      /\ UNCHANGED <<ret, argv, settingsFile, protocolSettings, interfaces, selection, cin>>
  BY DEF Found, Goto, fileVars, userVars
<1>2. pInterface' \in 1 .. Len(interfaces) + 1 /\ pInterface \in DOMAIN interfaces
  <2>1. Len(interfaces) \in Nat /\ DOMAIN interfaces = 1 .. Len(interfaces)
    BY InterfacesAreSequence
  <2>2. QED
    BY <1>1, <2>1 DEF MainTypeOK
<1>3. device \in Device /\ vectorInterfaces \in Seq(Device)
  BY <1>2 DEF MainTypeOK
<1>4. /\ vectorInterfaces' \in Seq(Device) /\ vectorInterfaces' # <<>>
      /\ \A i \in DOMAIN vectorInterfaces' :
           \/ vectorInterfaces'[i] = device
           \/ i \in DOMAIN vectorInterfaces /\ vectorInterfaces'[i] = vectorInterfaces[i]
  <2> HIDE DEF device, Device
  <2>1. /\ Append(vectorInterfaces, device) \in Seq(Device)
        /\ Len(Append(vectorInterfaces, device)) = Len(vectorInterfaces) + 1
        /\ \A i \in 1 .. Len(vectorInterfaces) :
             Append(vectorInterfaces, device)[i] = vectorInterfaces[i]
        /\ Append(vectorInterfaces, device)[Len(vectorInterfaces) + 1] = device
    BY <1>3, AppendProperties
  <2>2. DOMAIN vectorInterfaces = 1 .. Len(vectorInterfaces) /\ Len(vectorInterfaces) \in Nat
    BY <1>3
  <2>3. \A i \in 1 .. Len(vectorInterfaces) + 1 :
          i \in 1 .. Len(vectorInterfaces) \/ i = Len(vectorInterfaces) + 1
    BY <2>2
  <2>4. DOMAIN vectorInterfaces' = 1 .. Len(vectorInterfaces) + 1 /\ vectorInterfaces' # <<>>
    BY <1>1, <2>1, <2>2
  <2>5. QED
    BY <1>1, <2>1, <2>2, <2>3, <2>4
<1>5. MainTypeOK'
  BY <1>1, <1>2, <1>4 DEF MainTypeOK, Place
<1>6. ListedVersionIsItsOwn'
  <2>1. \A d : Version(d) \subseteq Version(d)'
    BY DEF Version
  <2> SUFFICES ASSUME NEW i \in DOMAIN vectorInterfaces'
               PROVE  vectorInterfaces'[i].version
                        \in Version(interfaces[vectorInterfaces'[i].interface])
    BY <1>1, <2>1 DEF ListedVersionIsItsOwn
  <2>2. CASE vectorInterfaces'[i] = device
    BY <2>2
  <2>3. CASE i \in DOMAIN vectorInterfaces /\ vectorInterfaces'[i] = vectorInterfaces[i]
    BY <2>3 DEF ListedVersionIsItsOwn
  <2>4. QED
    BY <1>4, <2>2, <2>3
<1>7. FoundGuard'
  <2>1. Searching
    BY DEF Searching
  <2>2. \A i \in DOMAIN vectorInterfaces' : Suits(interfaces[vectorInterfaces'[i].interface])
    BY <1>4, <2>1 DEF FoundGuard
  <2>3. QED
    BY <1>1, <2>2 DEF FoundGuard, Searching, Suits, MatchesVidPid, MatchesUsage,
                      PopulateReportId, Setting, VersionCaps
<1>8. SettingsGuard' /\ NothingFound' /\ Selected' /\ IndexIsInRange'
  BY <1>1, <1>4 DEF SettingsGuard, NothingFound, Selected, IndexIsInRange, Searching
<1>9. QED
  BY <1>5, <1>6, <1>7, <1>8

(* A query lists a device only with the version that it has just given, or none. *)
LEMMA GetVersionStep ==
  ASSUME MainInv, OpeningGuard, called \subseteq called', GetVersion
  PROVE  MainInv'
<1> USE DEF MainInv
<1>1. \A d : Queried(d) => /\ place = "query" /\ pInterface <= Len(interfaces)
                           /\ d = interfaces[pInterface]
  BY DEF Queried
<1>2. \A d : ZeroVersion \in Version(d)
  BY DEF Version
<1>3. ASSUME NEW d, GetVersionFails(d)
      PROVE  MainInv'
  BY <1>1, <1>3, NotFoundStep DEF GetVersionFails
<1>4. ASSUME NEW d, GetVersionUnanswered(d)
      PROVE  MainInv'
  BY <1>1, <1>2, <1>4, ZeroIsVersion, FoundStep DEF GetVersionUnanswered
<1>5. ASSUME NEW d, GetVersionFixed(d)
      PROVE  MainInv'
  <2>1. /\ Queried(d) /\ Suits(d) /\ d.kind = "fixed"
        /\ UNCHANGED <<fileVars, userVars>>
    BY <1>5 DEF GetVersionFixed, Askable
  <2>2. CASE NotFound
    BY <1>1, <2>1, <2>2, NotFoundStep
  <2>3. CASE Found(d.version)
    <3>1. d \in Interface
      <4>1. interfaces \in Seq(Interface)
        BY InterfacesAreSequence
      <4>2. pInterface \in 1 .. Len(interfaces)
        BY <1>1, <2>1, <4>1 DEF MainTypeOK
      <4>3. QED
        BY <1>1, <2>1, <4>1, <4>2
    <3>2. d.version \in AnyVersion /\ d.version \in Version(d)
      BY <2>1, <3>1 DEF Interface, Version, AnyVersion
    <3>3. QED
      BY <1>1, <2>1, <2>3, <3>2, FoundStep
  <2>4. QED
    BY <1>5, <2>2, <2>3 DEF GetVersionFixed
<1>6. ASSUME NEW d, AskController(d)
      PROVE  MainInv'
  <2>1. /\ Suits(interfaces[pInterface]) /\ interfaces[pInterface].kind = "controller"
        /\ place = "query" /\ place' = "asked" /\ walking' = TRUE
        /\ pInterface <= Len(interfaces)
        /\ UNCHANGED <<ret, argv, settingsFile, protocolSettings, interfaces, pInterface, hr,
                       version, vectorInterfaces, selection, cin>>
    BY <1>1, <1>6 DEF AskController, Askable, GetFWVersion, Goto, fileVars, searchVars, userVars
  <2>2. MainTypeOK'
    BY <2>1 DEF MainTypeOK, Place
  <2>3. ListedVersionIsItsOwn'
    BY <2>1, ListedKept
  <2>4. FoundGuard'
    BY <2>1 DEF FoundGuard, Searching, Suits, MatchesVidPid, MatchesUsage, PopulateReportId,
                Setting, VersionCaps
  <2>5. SettingsGuard' /\ NothingFound' /\ Selected' /\ IndexIsInRange'
    BY <2>1 DEF SettingsGuard, NothingFound, Selected, IndexIsInRange, Searching
  <2>6. QED
    BY <2>2, <2>3, <2>4, <2>5
<1>7. CASE ControllerAnswers
  <2> DEFINE v == IF opening = NULL THEN ZeroVersion ELSE opening
  <2>1. /\ place = "asked" /\ Found(v) /\ UNCHANGED <<fileVars, userVars>>
        /\ pInterface <= Len(interfaces)
        /\ Suits(interfaces[pInterface]) /\ interfaces[pInterface].kind = "controller"
    BY <1>7 DEF ControllerAnswers, FoundGuard
  <2>2. v \in AnyVersion
    BY ZeroIsVersion DEF OpeningGuard, AnyVersion
  <2>3. v \in Version(interfaces[pInterface])
    BY <2>1 DEF OpeningGuard, Version
  <2> HIDE DEF v
  <2>4. QED
    BY <2>1, <2>2, <2>3, FoundStep
<1>8. CASE ControllerFails
  <2>1. /\ place = "asked" /\ Found(ZeroVersion) /\ UNCHANGED <<fileVars, userVars>>
        /\ pInterface <= Len(interfaces) /\ Suits(interfaces[pInterface])
    BY <1>8 DEF ControllerFails, FoundGuard
  <2>2. QED
    BY <1>2, <2>1, ZeroIsVersion, FoundStep
<1>9. QED
  BY <1>3, <1>4, <1>5, <1>6, <1>7, <1>8 DEF GetVersion

(* The end of the list: the program goes on to the choice only with a device, or *)
(* if there was no query.                                                         *)
LEMMA EndOfListStep ==
  ASSUME MainInv, called \subseteq called', EndOfList
  PROVE  MainInv'
<1> USE DEF MainInv
<1>1. /\ place = "query" /\ pInterface > Len(interfaces)
      /\ hr' = RetrieveResult
      /\ \/ place' = "ended" /\ ret' = hr'
         \/ place' = "select" /\ hr' = "S_OK" /\ ret' = ret
      /\ UNCHANGED <<argv, settingsFile, protocolSettings, interfaces, pInterface, version,
                     vectorInterfaces, selection, cin>>
  BY DEF EndOfList, Return, Goto, fileVars, userVars
<1>2. hr' \in {"S_OK", "ERROR"}
  BY <1>1 DEF RetrieveResult, MainTypeOK
<1>3. MainTypeOK'
  BY <1>1, <1>2 DEF MainTypeOK, Place
<1>4. ListedVersionIsItsOwn'
  BY <1>1, ListedKept
<1>5. FoundGuard'
  BY <1>1 DEF FoundGuard, Searching, Suits, MatchesVidPid, MatchesUsage, PopulateReportId,
              Setting, VersionCaps
<1>6. NothingFound'
  <2> SUFFICES ASSUME place' = "select", vectorInterfaces = <<>>
               PROVE  interfaces = <<>>
    BY <1>1 DEF NothingFound
  <2>1. hr = "S_OK"
    BY <1>1 DEF RetrieveResult
  <2>2. pInterface = 1
    BY <1>1, <2>1 DEF NothingFound
  <2>3. interfaces \in Seq(Interface) /\ Len(interfaces) = 0
    BY <1>1, <2>2, InterfacesAreSequence
  <2>4. QED
    BY <2>3, EmptySeq
<1>7. SettingsGuard' /\ Selected' /\ IndexIsInRange'
  BY <1>1 DEF SettingsGuard, Selected, IndexIsInRange, Searching
<1>8. QED
  BY <1>3, <1>4, <1>5, <1>6, <1>7

(* The choice among the devices, and the update. *)
LEMMA SelectStep ==
  ASSUME MainInv, called \subseteq called',
         DeviceSelectAuto \/ DeviceSelect \/ Update \/ UpdateWaited
  PROVE  MainInv'
<1> USE DEF MainInv
<1>1. /\ place \in {"select", "update", "waiting"}
      /\ UNCHANGED <<argv, settingsFile, protocolSettings, interfaces, pInterface, hr, version,
                     vectorInterfaces>>
  BY DEF DeviceSelectAuto, DeviceSelect, EnterNumber, EnterWord, EnterNothing, Prompts, Update,
         UpdateWaited, fileVars, searchVars
<1>2. Len(vectorInterfaces) \in Nat /\ DOMAIN vectorInterfaces = 1 .. Len(vectorInterfaces)
      /\ (vectorInterfaces # <<>> => Len(vectorInterfaces) > 0)
  BY DEF MainTypeOK
<1>3. ASSUME NEW n \in Int, Select(n), place = "select"
      PROVE  /\ place' \in {"select", "update"} /\ ret' = ret /\ selection' \in Int
             /\ place' = "update" => selection' + 1 \in DOMAIN vectorInterfaces
  <2>1. CASE OutOfRange(n)
    BY <1>3, <2>1 DEF Select, MainTypeOK
  <2>2. CASE ~OutOfRange(n)
    BY <1>2, <1>3, <2>2 DEF Select, OutOfRange, Goto
  <2>3. QED
    BY <2>1, <2>2
<1> DEFINE Outcome ==
      /\ place' \in {"select", "update", "waiting", "ended", "undefined"}
      /\ place' = "select" => place = "select"
      /\ place' = "undefined" => place = "select" /\ vectorInterfaces = <<>>
      /\ place' \in {"update", "waiting"} => selection' + 1 \in DOMAIN vectorInterfaces
      /\ ret' \in {"S_OK", "FALSE", "E_FAIL", "E_INVALIDARG", "ERROR", "aborted"}
      /\ selection' \in Int /\ cin' \in {"good", "failed"}
<1>4. Outcome
  <2>1. CASE DeviceSelectAuto
    BY <1>2, <2>1 DEF DeviceSelectAuto, Goto, MainTypeOK
  <2>2. ASSUME NEW n \in Entries, EnterNumber(n)
        PROVE  Outcome
    <3>1. n \in Int /\ Select(n) /\ place = "select" /\ cin' = cin
      BY <2>2, MainAssumption DEF EnterNumber, Prompts
    <3>2. QED
      BY <1>3, <3>1 DEF MainTypeOK
  <2>3. CASE EnterWord
    <3>1. 0 \in Int /\ Select(0) /\ place = "select" /\ cin' = "failed"
      BY <2>3 DEF EnterWord, Prompts
    <3>2. QED
      BY <1>3, <3>1 DEF MainTypeOK
  <2>4. CASE EnterNothing
    BY <2>4 DEF EnterNothing, Prompts, MainTypeOK
  <2>5. CASE Update \/ UpdateWaited
    BY <2>5 DEF Update, UpdateWaited, UpdateReturns, Return, Goto, userVars, Selected,
                MainTypeOK
  <2>6. QED
    BY <2>1, <2>2, <2>3, <2>4, <2>5 DEF DeviceSelect
<1>5. MainTypeOK'
  BY <1>1, <1>4 DEF MainTypeOK, Place
<1>6. ListedVersionIsItsOwn'
  BY <1>1, ListedKept
<1>7. FoundGuard'
  BY <1>1, <1>4 DEF FoundGuard, Searching, Suits, MatchesVidPid, MatchesUsage,
                    PopulateReportId, Setting, VersionCaps
<1>8. SettingsGuard' /\ Selected' /\ NothingFound' /\ IndexIsInRange'
  BY <1>1, <1>4 DEF SettingsGuard, Selected, NothingFound, IndexIsInRange, Searching
<1>9. QED
  BY <1>5, <1>6, <1>7, <1>8

(* The controller goes on by itself. *)
LEMMA FirmwareStep ==
  ASSUME MainInv, called \subseteq called', FirmwareRuns \/ UNCHANGED vars
  PROVE  MainInv'
<1> USE DEF MainInv
<1>1. UNCHANGED <<place, ret, argv, settingsFile, protocolSettings, interfaces, pInterface, hr,
                  version, vectorInterfaces, selection, cin>>
  BY DEF FirmwareRuns, vars, mainVars, fileVars, searchVars, userVars
<1>2. place = "asked" => walking'
  <2>1. CASE place # "asked" \/ UNCHANGED vars
    BY <2>1 DEF MainTypeOK, vars, registrationVars, walkVars
  <2>2. CASE place = "asked" /\ FirmwareRuns
    BY <2>2 DEF FirmwareRuns, MainTypeOK, Registering, RegisterComponent, RegisterComponentHead,
                GetFWVersionNext, walkVars
  <2>3. QED
    BY <2>1, <2>2
<1>3. MainTypeOK'
  BY <1>1, <1>2 DEF MainTypeOK
<1>4. ListedVersionIsItsOwn'
  BY <1>1, ListedKept
<1>5. FoundGuard'
  BY <1>1 DEF FoundGuard, Searching, Suits, MatchesVidPid, MatchesUsage, PopulateReportId,
              Setting, VersionCaps
<1>6. SettingsGuard' /\ Selected' /\ NothingFound' /\ IndexIsInRange'
  BY <1>1 DEF SettingsGuard, Selected, NothingFound, IndexIsInRange, Searching
<1>7. QED
  BY <1>3, <1>4, <1>5, <1>6

(* The invariant of the program is inductive, whatever the registrations do. *)
LEMMA NextMain == MainInv /\ OpeningGuard /\ [Next]_vars => MainInv' /\ OpeningGuard'
<1> SUFFICES ASSUME MainInv, OpeningGuard, [Next]_vars
             PROVE  MainInv' /\ OpeningGuard'
  OBVIOUS
<1>1. OpeningGuard' /\ called \subseteq called'
  BY RegistrationStep, OpeningStep
<1>2. MainInv'
  BY <1>1, BeginStep, GetVersionStep, EndOfListStep, SelectStep, FirmwareStep
     DEF Next, ProgramStep
<1>3. QED
  BY <1>1, <1>2

(* The inductive invariant holds of every behaviour of the program. *)
LEMMA MainInvariance == Spec => [](MainInv /\ OpeningGuard)
<1>1. QED
  BY InitMain, NextMain, PTL DEF Spec

-------------------------------------------------------------------------------
(* Type correctness, with a controller whose critical section is there: in *)
(* particular the tool waits for a version report only while it is written. *)
THEOREM TypeCorrect == Guarded /\ Spec => []TypeOK
<1>1. MainInv => MainTypeOK
  BY DEF MainInv
<1>2. QED
  BY <1>1, MainInvariance, RunsTheRegistration, RegistrationTypeCorrect, PTL DEF TypeOK

(* Whatever devices are there and whatever they answer, each is listed with its *)
(* own version or none, also where the registrations are not guarded.           *)
THEOREM ListedVersionCorrect == Spec => []ListedVersionIsItsOwn
<1>1. MainInv => ListedVersionIsItsOwn
  BY DEF MainInv
<1>2. QED
  BY <1>1, MainInvariance, PTL

(* Whatever the user enters, the list of devices is indexed out of range only *)
(* where there is no interface at all.                                         *)
THEOREM IndexCorrect == Spec => []IndexIsInRange
<1>1. MainInv => IndexIsInRange
  BY DEF MainInv
<1>2. QED
  BY <1>1, MainInvariance, PTL

(* For every settings file without overlong lines, the device that is updated is *)
(* one that the last lines with each tag name: the loop over the lines has the   *)
(* effect of the last of them (LastLineSays), and what is found suits it.         *)
THEOREM TargetCorrect == Spec => []TargetIsNamed
<1>1. MainInv => TargetIsNamed
  <2> SUFFICES ASSUME MainInv, place \in {"update", "waiting"},
                      \A i \in DOMAIN settingsFile : ~settingsFile[i].long
               PROVE  TargetIsNamed
    BY DEF TargetIsNamed
  <2> DEFINE d == interfaces[vectorInterfaces[selection + 1].interface]
             Says(tag, n) ==
               \A i \in DOMAIN settingsFile :
                 /\ settingsFile[i].tag = tag
                 /\ \A j \in i + 1 .. Len(settingsFile) : settingsFile[j].tag # tag
                 => UINT16(settingsFile[i].value) = n
  <2>1. /\ settingsFile \in Seq(Line)
        /\ protocolSettings = ReadProtocolSettingsFile(settingsFile)
    BY MainAssumption DEF MainInv, SettingsGuard, Searching
  <2>2. LastSays(settingsFile, Len(settingsFile), protocolSettings)
    BY <2>1, LastLineSays
  <2>3. ASSUME NEW tag \in Tag, NEW i \in DOMAIN settingsFile,
               settingsFile[i].tag = tag,
               \A j \in i + 1 .. Len(settingsFile) : settingsFile[j].tag # tag
        PROVE  UINT16(settingsFile[i].value) = Setting(tag)
    <3>1. DOMAIN settingsFile = 1 .. Len(settingsFile) /\ Len(settingsFile) \in Nat
          /\ settingsFile[i].value \in Nat
      <4>1. settingsFile[i] \in Line
        BY <2>1
      <4>2. settingsFile[i].value \in Nat
        BY <4>1 DEF Line
      <4>3. QED
        BY <2>1, <4>2
    <3>2. PICK k \in 1 .. Len(settingsFile) :
            /\ settingsFile[k].tag = tag
            /\ protocolSettings[tag] = UINT16(settingsFile[k].value)
            /\ \A j \in k + 1 .. Len(settingsFile) : settingsFile[j].tag # tag
      BY <2>2, <2>3, <3>1 DEF LastSays
    <3>3. k = i
      <4>1. ~(k < i) /\ ~(i < k)
        BY <2>3, <3>1, <3>2
      <4>2. QED
        BY <3>1, <4>1
    <3>4. UINT16(settingsFile[i].value) # Unset
      BY <3>1, UINT16Type
    <3>5. QED
      BY <3>2, <3>3, <3>4 DEF Setting, Value
  <2>4. \A tag \in Tag : Says(tag, Setting(tag))
    BY <2>3
  <2>5. Suits(d)
    BY DEF MainInv, FoundGuard, Selected, Searching
  <2>6. {"VID", "PID", "USAGEPAGE"} \subseteq Tag
    BY DEF Tag
  <2> HIDE DEF Says, d
  <2>7. Says("VID", d.vid) /\ Says("USAGEPAGE", d.usagePage)
    BY <2>4, <2>5, <2>6 DEF Suits, MatchesVidPid, MatchesUsage
  <2>8. Says("PID", d.pid) \/ Says("PID", 0) \/ d.vid = 0
    BY <2>4, <2>5, <2>6 DEF Suits, MatchesVidPid
  <2>9. QED
    BY <2>7, <2>8 DEF TargetIsNamed, Says, d
<1>2. QED
  BY <1>1, MainInvariance, PTL
===============================================================================
