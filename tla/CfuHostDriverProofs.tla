-------------------------- MODULE CfuHostDriverProofs --------------------------
(* What CfuHostDriver guarantees for any registry, any files and any faults, proved. *)
EXTENDS CfuHostDriver, TLAPS

Member == [subkey : 1..Subkeys, contents : [Kind -> Contents \cup {NoHandle}]]

(* The collection is what the subkeys before keyIndex have yielded, in their *)
(* order, none twice.                                                        *)
CollectionGuard ==
  /\ collection \in Seq(Member)
  /\ Len(collection) < keyIndex
  /\ \A i \in DOMAIN collection :
       collection[i].subkey \in Complete /\ collection[i].subkey < keyIndex
  /\ \A i, j \in DOMAIN collection : i < j => collection[i].subkey < collection[j].subkey

(* They have yielded every complete pair that could be read. *)
NothingIsLost ==
  \A k \in Complete \ misread :
    k < keyIndex => \E i \in DOMAIN collection : collection[i].subkey = k

(* The modules exist only after the enumeration, for the collection as it is then. *)
ModulesGuard ==
  /\ components \in {0, Len(collection)}
  /\ phase \in {"configuring", "enumerating"} => components = 0
  /\ phase \in {"closed", "open"} =>
       keyIndex = Subkeys + 1 /\ components = Len(collection) /\ components > 0

(* What is kept for a file of a pair is of that file. *)
CacheGuard ==
  \A i \in DOMAIN collection, kind \in Kind :
    LET content == collection[i].contents[kind]
    IN  content # NoHandle => content.kind = kind /\ content.subkey = collection[i].subkey

(* The inductive invariant. *)
IInv == /\ TypeOK
        /\ CollectionGuard
        /\ NothingIsLost
        /\ ModulesGuard
        /\ CacheGuard
        /\ ServesTheRequestedFile

-------------------------------------------------------------------------------
(* A result of Firmware_FileContentRead has in its memory object, if it has one, *)
(* content of the file that was asked for.                                       *)
LEMMA ReadIsOfTheFile ==
  ASSUME NEW subkey \in 1..Subkeys, NEW kind \in Kind,
         NEW result \in FileContentRead(subkey, kind)
  PROVE  /\ result.memory \in Contents \cup {NoHandle}
         /\ result.memory # NoHandle =>
              result.memory.kind = kind /\ result.memory.subkey = subkey
<1>1. \A n \in 0..FileSize :
        /\ Content(subkey, kind, n) \in Contents
        /\ Content(subkey, kind, n).kind = kind
        /\ Content(subkey, kind, n).subkey = subkey
  BY DEF Content, Contents
<1> DEFINE cut == {Content(subkey, kind, n) : n \in 0..FileSize - 1}
<1>2. \/ result = [success |-> TRUE, memory |-> Content(subkey, kind, FileSize)]
      \/ \E value \in BOOLEAN : result = [success |-> value, memory |-> NoHandle]
      \/ result \in [success : {FALSE}, memory : cut]
  BY DEF FileContentRead
<1>3. FileSize \in 0..FileSize /\ \A content \in cut :
        \E n \in 0..FileSize : content = Content(subkey, kind, n)
  BY DriverAssumption
<1> HIDE DEF cut
<1>4. \/ result.memory = NoHandle
      \/ \E n \in 0..FileSize : result.memory = Content(subkey, kind, n)
  <2>1. \/ result.memory = Content(subkey, kind, FileSize)
        \/ result.memory = NoHandle
        \/ result.memory \in cut
    <3>1. CASE result \in [success : {FALSE}, memory : cut]
      BY <3>1
    <3>2. CASE result = [success |-> TRUE, memory |-> Content(subkey, kind, FileSize)]
      BY <3>2
    <3>3. CASE \E value \in BOOLEAN : result = [success |-> value, memory |-> NoHandle]
      BY <3>3
    <3>4. QED
      BY <1>2, <3>1, <3>2, <3>3
  <2>2. QED
    BY <1>3, <2>1, Zenon
<1>5. QED
  BY <1>1, <1>4

(* The driver starts with an empty collection. *)
LEMMA InitInv == Init => IInv
<1> SUFFICES ASSUME Init
             PROVE  IInv
  OBVIOUS
<1>1. collection = <<>> /\ DOMAIN collection = {} /\ Len(collection) = 0
  BY DEF Init
<1>2. TypeOK
  <2>1. keyIndex \in 1..Subkeys + 1 /\ components \in 0..Subkeys
    BY DriverAssumption DEF Init
  <2>2. QED
    BY <1>1, <2>1 DEF Init, TypeOK
<1>3. keyIndex = 1 /\ phase = "configuring" /\ components = 0
  BY DEF Init
<1>4. CollectionGuard
  <2>1. collection \in Seq(Member)
    BY <1>1
  <2>2. QED
    BY <1>1, <1>3, <2>1 DEF CollectionGuard
<1>5. NothingIsLost
  <2>1. \A k \in Complete : ~(k < 1)
    BY DriverAssumption
  <2>2. QED
    BY <1>3, <2>1 DEF NothingIsLost
<1>6. ModulesGuard
  BY <1>3 DEF ModulesGuard
<1>7. CacheGuard /\ ServesTheRequestedFile
  BY <1>1 DEF Init, CacheGuard, ServesTheRequestedFile
<1>8. QED
  BY <1>2, <1>4, <1>5, <1>6, <1>7 DEF IInv

(* A complete subkey adds its pair to the end of the collection. *)
LEMMA AddStep == IInv /\ FirmwareInformationAdd => IInv'
<1> SUFFICES ASSUME IInv, FirmwareInformationAdd
             PROVE  IInv'
  OBVIOUS
<1> USE DEF IInv
<1> DEFINE new == Information(keyIndex)
<1>1. /\ phase = "enumerating" /\ phase' = "enumerating"
      /\ keyIndex \in 1..Subkeys /\ keyIndex \in Complete
      /\ keyIndex' = keyIndex + 1
      /\ collection' = Append(collection, new)
      /\ UNCHANGED <<misread, components, bound, started, asked, served>>
  BY DEF FirmwareInformationAdd, Enumerating, TypeOK, moduleVars, requestVars
<1>2. new \in Member /\ new.subkey = keyIndex /\ \A kind \in Kind : new.contents[kind] = NoHandle
  BY <1>1 DEF Information, Member
<1> HIDE DEF new
<1>3. /\ collection' \in Seq(Member)
      /\ Len(collection') = Len(collection) + 1
      /\ DOMAIN collection = 1..Len(collection)
      /\ DOMAIN collection' = 1..Len(collection) + 1
      /\ collection'[Len(collection) + 1] = new
      /\ \A i \in DOMAIN collection : collection'[i] = collection[i]
  BY <1>1, <1>2 DEF CollectionGuard
<1>4. \A i \in DOMAIN collection' :
        (i \in DOMAIN collection /\ collection'[i] = collection[i]) \/ collection'[i] = new
  BY <1>3 DEF CollectionGuard
<1>5. TypeOK'
  BY <1>1, <1>2, <1>4, DriverAssumption DEF TypeOK, Member
<1>6. CollectionGuard'
  <2>1. /\ Len(collection)' < keyIndex'
        /\ \A i \in DOMAIN collection' :
             collection'[i].subkey \in Complete /\ collection'[i].subkey < keyIndex'
    BY <1>1, <1>2, <1>3, <1>4, DriverAssumption DEF CollectionGuard, TypeOK
  <2>2. ASSUME NEW i \in DOMAIN collection', NEW j \in DOMAIN collection', i < j
        PROVE  collection'[i].subkey < collection'[j].subkey
    <3>1. i \in DOMAIN collection /\ collection'[i] = collection[i]
      BY <1>3, <2>2
    <3>2. CASE j \in DOMAIN collection
      BY <1>3, <2>2, <3>1, <3>2 DEF CollectionGuard
    <3>3. CASE j = Len(collection) + 1
      BY <1>2, <1>3, <3>1, <3>3 DEF CollectionGuard
    <3>4. QED
      BY <1>3, <3>2, <3>3
  <2>3. QED
    BY <1>3, <2>1, <2>2 DEF CollectionGuard
<1>7. NothingIsLost'
  <2> SUFFICES ASSUME NEW k \in Complete \ misread, k < keyIndex + 1
               PROVE  \E i \in DOMAIN collection' : collection'[i].subkey = k
    BY <1>1 DEF NothingIsLost
  <2>1. CASE k = keyIndex
    BY <1>2, <1>3, <2>1 DEF CollectionGuard
  <2>2. CASE k < keyIndex
    BY <1>3, <2>2 DEF NothingIsLost, CollectionGuard
  <2>3. k \in Nat /\ keyIndex \in Nat
    BY <1>1, DriverAssumption
  <2>4. QED
    BY <2>1, <2>2, <2>3
<1>8. ModulesGuard'
  BY <1>1, <1>3 DEF ModulesGuard, TypeOK
<1>9. CacheGuard' /\ ServesTheRequestedFile'
  BY <1>1, <1>2, <1>4 DEF CacheGuard, ServesTheRequestedFile
<1>10. QED
  BY <1>5, <1>6, <1>7, <1>8, <1>9

(* A step of the enumeration that yields no pair: it goes to a later subkey, *)
(* and past a complete one only if that could not be read.                    *)
LEMMA NoPairStep ==
  ASSUME IInv,
         phase = "enumerating", phase' \in {"enumerating", "inert"},
         keyIndex' \in keyIndex..Subkeys + 1,
         misread' \subseteq 1..Subkeys,
         misread \subseteq misread',
         \A k \in Complete \ misread' : k < keyIndex' => k < keyIndex,
         UNCHANGED <<collection, components, moduleVars, requestVars, restarts>>
  PROVE  IInv'
<1> USE DEF IInv
<1>1. keyIndex \in 1..Subkeys + 1 /\ keyIndex' \in 1..Subkeys + 1 /\ keyIndex <= keyIndex'
  BY DriverAssumption DEF TypeOK
<1>2. TypeOK'
  BY <1>1 DEF TypeOK, moduleVars, requestVars
<1>3. CollectionGuard'
  <2>1. Len(collection) \in Nat /\ \A i \in DOMAIN collection : collection[i].subkey \in Nat
    BY DriverAssumption DEF CollectionGuard, TypeOK
  <2>2. QED
    BY <1>1, <2>1, DriverAssumption DEF CollectionGuard
<1>4. NothingIsLost'
  BY <1>1 DEF NothingIsLost
<1>5. ModulesGuard' /\ CacheGuard' /\ ServesTheRequestedFile'
  BY DEF ModulesGuard, CacheGuard, ServesTheRequestedFile, requestVars
<1>6. QED
  BY <1>2, <1>3, <1>4, <1>5

(* Every step of the enumeration keeps the invariant. *)
LEMMA EnumerateStep == IInv /\ Enumerate => IInv'
<1> SUFFICES ASSUME IInv, Enumerate
             PROVE  IInv'
  OBVIOUS
<1>1. keyIndex \in 1..Subkeys + 1 /\ misread \subseteq 1..Subkeys /\ Subkeys \in Nat
      /\ \A k \in Complete : k \in 1..Subkeys
  BY DriverAssumption DEF IInv, TypeOK
<1>2. CASE FirmwareInformationAdd
  BY <1>2, AddStep
<1>3. CASE FirmwareInformationSkip
  <2>1. /\ phase = "enumerating" /\ phase' = phase
        /\ keyIndex' = keyIndex + 1 /\ keyIndex \in 1..Subkeys
        /\ misread' = misread \cup {keyIndex}
        /\ UNCHANGED <<collection, components, moduleVars, requestVars, restarts>>
    BY <1>1, <1>3 DEF FirmwareInformationSkip, Enumerating
  <2>2. \A k \in Complete \ misread' : k < keyIndex' => k < keyIndex
    BY <1>1, <2>1
  <2>3. misread' \subseteq 1..Subkeys /\ misread \subseteq misread'
        /\ keyIndex' \in keyIndex..Subkeys + 1
    BY <1>1, <2>1
  <2>4. QED
    BY <2>1, <2>2, <2>3, NoPairStep
<1>4. CASE QueryInfoKeyFails
  <2>1. /\ phase = "enumerating" /\ phase' = phase
        /\ keyIndex' \in keyIndex..Subkeys + 1
        /\ misread' = 1..Subkeys
        /\ UNCHANGED <<collection, components, moduleVars, requestVars, restarts>>
    BY <1>1, <1>4 DEF QueryInfoKeyFails
  <2>2. misread \subseteq misread' /\ Complete \ misread' = {}
    BY <1>1, <2>1
  <2>3. QED
    BY <2>1, <2>2, NoPairStep
<1>5. CASE EnumKeyFails
  <2>1. /\ phase = "enumerating" /\ phase' \in {"enumerating", "inert"}
        /\ keyIndex' \in {keyIndex, keyIndex + 1} /\ keyIndex \in 1..Subkeys
        /\ misread' = misread \cup {keyIndex}
        /\ UNCHANGED <<collection, components, moduleVars, requestVars, restarts>>
    BY <1>1, <1>5 DEF EnumKeyFails, Enumerating
  <2>2. \A k \in Complete \ misread' : k < keyIndex' => k < keyIndex
    BY <1>1, <2>1
  <2>3. misread' \subseteq 1..Subkeys /\ misread \subseteq misread'
        /\ keyIndex' \in keyIndex..Subkeys + 1
    BY <1>1, <2>1
  <2>4. QED
    BY <2>1, <2>2, <2>3, NoPairStep
<1>6. QED
  BY <1>2, <1>3, <1>4, <1>5 DEF Enumerate

(* The enumeration ends: the modules are told of the pairs that it has yielded. *)
LEMMA ModulesAddStep == IInv /\ ModulesAdd => IInv'
<1> SUFFICES ASSUME IInv, ModulesAdd
             PROVE  IInv'
  OBVIOUS
<1> USE DEF IInv
<1>1. UNCHANGED <<keyIndex, collection, misread, bound, started, asked, served>>
  BY DEF ModulesAdd, enumVars, moduleVars, requestVars
<1>2. keyIndex = Subkeys + 1
  BY DriverAssumption DEF ModulesAdd, TypeOK
<1>3. Len(collection) \in 0..Subkeys /\ (collection # <<>> => Len(collection) > 0)
  BY <1>2, DriverAssumption DEF CollectionGuard
<1>4. \/ phase' = "inert" /\ components' = 0
      \/ phase' = "closed" /\ components' = Len(collection) /\ Len(collection) > 0
  BY <1>3 DEF ModulesAdd, ModulesGuard
<1>5. TypeOK'
  BY <1>1, <1>3, <1>4, DriverAssumption DEF TypeOK
<1>6. CollectionGuard' /\ NothingIsLost' /\ CacheGuard' /\ ServesTheRequestedFile'
  BY <1>1 DEF CollectionGuard, NothingIsLost, CacheGuard, ServesTheRequestedFile
<1>7. ModulesGuard'
  BY <1>1, <1>2, <1>4 DEF ModulesGuard
<1>8. QED
  BY <1>5, <1>6, <1>7

(* Opening, closing and a request served from memory change neither the *)
(* collection nor what the modules were told.                           *)
LEMMA ModuleStep ==
  ASSUME IInv,
         \/ ConfigurationGet
         \/ PostOpen \/ BindFails \/ StartFails \/ PreClose
         \/ \E index \in 1..components, kind \in Kind : GetCached(index, kind)
         \/ UNCHANGED vars
  PROVE  IInv'
<1> USE DEF IInv
<1>1. UNCHANGED <<keyIndex, collection, misread, components>>
  BY DEF ConfigurationGet, PostOpen, BindFails, StartFails, PreClose, GetCached, vars, enumVars
<1>2. /\ phase' \in {"configuring", "enumerating", "inert", "closed", "open", "failed"}
      /\ phase' \in {"configuring", "enumerating"} => phase \in {"configuring", "enumerating"}
      /\ phase' \in {"closed", "open"} => phase \in {"closed", "open"}
  BY DEF ConfigurationGet, PostOpen, BindFails, StartFails, PreClose, GetCached, vars, TypeOK
<1>3. bound' \in BOOLEAN /\ started' \in BOOLEAN
  BY DEF ConfigurationGet, PostOpen, BindFails, StartFails, PreClose, GetCached, vars,
         moduleVars, TypeOK
<1>4. /\ asked' \in [subkey : 1..Subkeys, kind : Kind] \cup {NoHandle}
      /\ served' \in Contents \cup {NoHandle}
      /\ ServesTheRequestedFile'
  <2>1. ASSUME NEW index \in 1..components, NEW kind \in Kind, GetCached(index, kind)
        PROVE  /\ asked' \in [subkey : 1..Subkeys, kind : Kind]
               /\ served' \in Contents \cup {NoHandle}
               /\ ServesTheRequestedFile'
    <3>1. index \in DOMAIN collection
      BY DEF ModulesGuard, CollectionGuard
    <3>2. /\ asked' = File(collection[index].subkey, kind)
          /\ served' = collection[index].contents[kind]
      BY <2>1 DEF GetCached, Buffer
    <3>3. collection[index].subkey \in 1..Subkeys
      BY <3>1 DEF TypeOK
    <3>4. asked' \in [subkey : 1..Subkeys, kind : Kind]
      BY <3>2, <3>3 DEF File
    <3>5. served' \in Contents \cup {NoHandle}
      BY <3>1, <3>2 DEF TypeOK
    <3>6. served' # NoHandle =>
            served'.kind = asked'.kind /\ served'.subkey = asked'.subkey
      BY <3>1, <3>2 DEF CacheGuard, File
    <3>7. QED
      BY <3>4, <3>5, <3>6 DEF ServesTheRequestedFile
  <2>2. CASE UNCHANGED requestVars
    BY <2>2 DEF requestVars, TypeOK, ServesTheRequestedFile
  <2>3. QED
    BY <2>1, <2>2 DEF ConfigurationGet, PostOpen, BindFails, StartFails, PreClose, vars
<1>5. TypeOK'
  BY <1>1, <1>2, <1>3, <1>4 DEF TypeOK
<1>6. CollectionGuard' /\ NothingIsLost' /\ CacheGuard'
  BY <1>1 DEF CollectionGuard, NothingIsLost, CacheGuard
<1>7. ModulesGuard'
  BY <1>1, <1>2 DEF ModulesGuard
<1>8. QED
  BY <1>4, <1>5, <1>6, <1>7

(* A first request keeps what was read of the requested file in its place. *)
LEMMA ReadStep ==
  ASSUME IInv, NEW index \in 1..components, NEW kind \in Kind, GetUnread(index, kind)
  PROVE  IInv'
<1> USE DEF IInv
<1>1. index \in DOMAIN collection /\ collection[index] \in Member
  <2>1. components \in {0, Len(collection)} /\ collection \in Seq(Member)
    BY DEF ModulesGuard, CollectionGuard
  <2>2. QED
    BY <2>1
<1> DEFINE subkey == collection[index].subkey
<1>2. PICK result \in FileContentRead(subkey, kind) :
        /\ collection' = [collection EXCEPT ![index] =
                            [collection[index] EXCEPT !.contents[kind] = result.memory]]
        /\ served' \in {result.memory, NoHandle}
        /\ phase' \in {"failed", phase}
  <2>1. PICK read \in FileContentRead(subkey, kind) :
          LET filled == [collection[index] EXCEPT !.contents[kind] = read.memory]
          IN  /\ collection' = [collection EXCEPT ![index] = filled]
              /\ served' = IF read.success THEN Buffer(filled, kind) ELSE NoHandle
              /\ phase' = IF read.success /\ Buffer(filled, kind) = NoHandle
                          THEN "failed" ELSE phase
    BY DEF GetUnread
  <2>2. Buffer([collection[index] EXCEPT !.contents[kind] = read.memory], kind) = read.memory
    BY <1>1 DEF Buffer, Member
  <2>3. QED
    BY <2>1, <2>2
<1>3. /\ result.memory \in Contents \cup {NoHandle}
      /\ result.memory # NoHandle =>
           result.memory.kind = kind /\ result.memory.subkey = subkey
  BY <1>1, ReadIsOfTheFile DEF Member
<1>4. /\ UNCHANGED <<keyIndex, misread, components, bound, started>> /\ phase = "open"
      /\ asked' = File(subkey, kind)
      /\ asked' \in [subkey : 1..Subkeys, kind : Kind]
  BY <1>1 DEF GetUnread, Serving, moduleVars, File, Member
<1>5. /\ DOMAIN collection' = DOMAIN collection
      /\ Len(collection') = Len(collection)
      /\ \A i \in DOMAIN collection :
           /\ collection'[i].subkey = collection[i].subkey
           /\ collection'[i] \in Member
           /\ \A other \in Kind :
                collection'[i].contents[other] = IF i = index /\ other = kind
                                                 THEN result.memory
                                                 ELSE collection[i].contents[other]
  <2>1. collection \in Seq(Member)
    BY DEF CollectionGuard
  <2>2. [collection[index] EXCEPT !.contents[kind] = result.memory] \in Member
    BY <1>1, <1>3 DEF Member
  <2>3. collection' = [collection EXCEPT ![index] =
                         [collection[index] EXCEPT !.contents[kind] = result.memory]]
    BY <1>2
  <2>4. \A i \in DOMAIN collection : collection[i] \in Member
    BY <2>1
  <2>5. DOMAIN collection' = DOMAIN collection /\ Len(collection') = Len(collection)
    BY <2>1, <2>2, <2>3, <1>1
  <2>6. ASSUME NEW i \in DOMAIN collection
        PROVE  /\ collection'[i].subkey = collection[i].subkey
               /\ collection'[i] \in Member
               /\ \A other \in Kind :
                    collection'[i].contents[other] = IF i = index /\ other = kind
                                                     THEN result.memory
                                                     ELSE collection[i].contents[other]
    <3>1. CASE i = index
      BY <2>1, <2>2, <2>3, <2>4, <3>1, <1>1 DEF Member
    <3>2. CASE i # index
      BY <2>3, <2>4, <3>2
    <3>3. QED
      BY <3>1, <3>2
  <2>7. QED
    BY <2>5, <2>6
<1>6. collection' \in Seq(Member)
  <2>1. collection \in [1..Len(collection) -> Member] /\ Len(collection) \in Nat
    BY DEF CollectionGuard
  <2>2. collection' \in [1..Len(collection) -> Member]
    BY <1>2, <1>5, <2>1
  <2>3. QED
    BY <2>1, <2>2
<1>7. TypeOK'
  BY <1>2, <1>3, <1>4, <1>5 DEF TypeOK, Member
<1>8. CollectionGuard'
  BY <1>4, <1>5, <1>6 DEF CollectionGuard
<1>9. NothingIsLost'
  BY <1>4, <1>5 DEF NothingIsLost
<1>10. ModulesGuard'
  BY <1>2, <1>4, <1>5 DEF ModulesGuard
<1>11. CacheGuard' /\ ServesTheRequestedFile'
  <2>1. CacheGuard'
    BY <1>3, <1>5 DEF CacheGuard
  <2>2. ServesTheRequestedFile'
    BY <1>2, <1>3, <1>4 DEF ServesTheRequestedFile, File
  <2>3. QED
    BY <2>1, <2>2
<1>12. QED
  BY <1>7, <1>8, <1>9, <1>10, <1>11

(* The device is added again, with a new context. *)
LEMMA DeviceAddStep == IInv /\ DeviceAdd => IInv'
<1> SUFFICES ASSUME DeviceAdd
             PROVE  IInv'
  OBVIOUS
<1>1. collection' = <<>> /\ DOMAIN collection' = {} /\ Len(collection') = 0
  BY DEF DeviceAdd
<1>2. TypeOK'
  <2>1. /\ phase' = "configuring" /\ keyIndex' = 1 /\ misread' = {} /\ components' = 0
        /\ bound' = FALSE /\ started' = FALSE
        /\ asked' = NoHandle /\ served' = NoHandle
    BY DEF DeviceAdd
  <2>2. keyIndex' \in 1..Subkeys + 1 /\ components' \in 0..Subkeys
    BY <2>1, DriverAssumption
  <2>3. QED
    BY <1>1, <2>1, <2>2 DEF TypeOK
<1>3. keyIndex' = 1 /\ phase' = "configuring" /\ components' = 0
  BY DEF DeviceAdd
<1>4. CollectionGuard'
  <2>1. collection' \in Seq(Member)
    BY <1>1
  <2>2. QED
    BY <1>1, <1>3, <2>1 DEF CollectionGuard
<1>5. NothingIsLost'
  <2>1. \A k \in Complete : ~(k < 1)
    BY DriverAssumption
  <2>2. QED
    BY <1>3, <2>1 DEF NothingIsLost
<1>6. ModulesGuard'
  BY <1>3 DEF ModulesGuard
<1>7. CacheGuard' /\ ServesTheRequestedFile'
  BY <1>1 DEF DeviceAdd, CacheGuard, ServesTheRequestedFile
<1>8. QED
  BY <1>2, <1>4, <1>5, <1>6, <1>7 DEF IInv

(* The invariant is inductive, the steps of the modules and of the failures *)
(* included.                                                                *)
LEMMA NextInv == IInv /\ [Next]_vars => IInv'
<1> SUFFICES ASSUME IInv, [Next]_vars
             PROVE  IInv'
  OBVIOUS
<1>1. CASE Enumerate
  BY <1>1, EnumerateStep
<1>2. CASE ModulesAdd
  BY <1>2, ModulesAddStep
<1>3. CASE Request
  BY <1>3, ModuleStep, ReadStep DEF Request
<1>4. CASE DeviceAdd
  BY <1>4, DeviceAddStep
<1>5. CASE ConfigurationGet \/ PostOpen \/ BindFails \/ StartFails \/ PreClose \/ UNCHANGED vars
  BY <1>5, ModuleStep
<1>6. QED
  BY <1>1, <1>2, <1>3, <1>4, <1>5 DEF Next

(* The inductive invariant holds of every behaviour of the driver. *)
LEMMA Invariance == Spec => []IInv
<1>1. QED
  BY InitInv, NextInv, PTL DEF Spec

-------------------------------------------------------------------------------
(* Type correctness: in particular the enumeration stops after the last subkey. *)
THEOREM TypeCorrect == Spec => []TypeOK
<1>1. IInv => TypeOK
  BY DEF IInv
<1>2. QED
  BY <1>1, Invariance, PTL

(* Whatever fails, the protocol module may ask only for pairs that exist, with *)
(* both files named, in the order of their subkeys and none twice.              *)
THEOREM PairsAreNamedCorrect == Spec => []PairsAreNamed
<1>1. IInv => PairsAreNamed
  BY DEF IInv, CollectionGuard, ModulesGuard, PairsAreNamed
<1>2. QED
  BY <1>1, Invariance, PTL

(* A subkey that yields nothing, or that cannot be read, costs no other one its *)
(* place among the pairs that the modules are told of (Registry.c 231).         *)
THEOREM EveryCompletePairIsOfferedCorrect == Spec => []EveryCompletePairIsOffered
<1>1. IInv => EveryCompletePairIsOffered
  <2> SUFFICES ASSUME IInv, phase \in {"closed", "open"}, NEW k \in Complete \ misread
               PROVE  \E i \in 1..components : collection[i].subkey = k
    BY DEF EveryCompletePairIsOffered
  <2>1. k < keyIndex
    BY DriverAssumption DEF IInv, ModulesGuard
  <2>2. QED
    BY <2>1 DEF IInv, NothingIsLost, ModulesGuard, CollectionGuard
<1>2. QED
  BY <1>1, Invariance, PTL

(* A request is served content of the file that it asks for, or none. *)
THEOREM ServesTheRequestedFileCorrect == Spec => []ServesTheRequestedFile
<1>1. IInv => ServesTheRequestedFile
  BY DEF IInv
<1>2. QED
  BY <1>1, Invariance, PTL
===============================================================================
