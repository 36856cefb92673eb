------------------------- MODULE CfuRegistrationProofs -------------------------
(* What CfuRegistration guarantees for any registrations, tasks and walks, where *)
(* the platform has filled in the critical section, proved.                       *)
EXTENDS CfuRegistration, FiniteSetTheorems, TLAPS

(* A task that is between the two assignments is alone there, and its registration *)
(* already points to the head of the list.                                         *)
InsertGuard ==
  /\ \A t \in Task : inserting[t] # NULL =>
                       inserting[t] \in called /\ pNext[inserting[t]] = first
  /\ \A t, u \in Task : inserting[t] # NULL /\ inserting[u] # NULL => t = u

(* The i-th registration that was completed, and the end of the list before it. *)
Node(s, i) == IF i = 0 THEN NULL ELSE s[i]

(* The list holds the n complete registrations, each once, the latest first. *)
IsList(s, n) ==
  /\ s \in [1..n -> Registration]
  /\ \A i, j \in 1..n : s[i] = s[j] => i = j
  /\ Inserted = {s[i] : i \in 1..n}
  /\ first = Node(s, n)
  /\ \A i \in 1..n : pNext[s[i]] = Node(s, i - 1)

(* A walk that began when m were complete has come to the k-th: it has visited *)
(* those after k and counted them, in a count that has wrapped a few times, and  *)
(* no insertion since has put anything before them.                              *)
IsWalk(s, m, k) ==
  /\ opening = Node(s, m)
  /\ cursor = Node(s, k)
  /\ listed = {s[i] : i \in 1..m}
  /\ seen = {s[i] : i \in k + 1..m}
  /\ \E wraps \in Nat : m - k = wraps * CountModulus + count

ListGuard ==
  \E n \in Nat : \E s \in [1..n -> Registration] :
    /\ IsList(s, n)
    /\ walking => \E m \in 0..n : \E k \in 0..m : IsWalk(s, m, k)

(* The inductive invariant. *)
RegistrationInv == /\ RegistrationTypeOK
                   /\ IsFiniteSet(called)
                   /\ InsertGuard
                   /\ ListGuard

-------------------------------------------------------------------------------
(* A list that names each of n registrations once has n of them. *)
LEMMA ListCardinality ==
  ASSUME NEW m \in Nat, NEW s, NEW nodes,
         \A i, j \in 1..m : s[i] = s[j] => i = j,
         \A x : x \in nodes <=> \E i \in 1..m : x = s[i]
  PROVE  IsFiniteSet(nodes) /\ Cardinality(nodes) = m
<1> DEFINE f == [i \in 1..m |-> s[i]]
<1>1. IsFiniteSet(1..m) /\ Cardinality(1..m) = m
  BY FS_Interval
<1>2. f \in Bijection(1..m, nodes)
  <2>1. f \in [1..m -> nodes]
    OBVIOUS
  <2>2. \A i, j \in 1..m : f[i] = f[j] => i = j
    OBVIOUS
  <2>3. \A x \in nodes : \E i \in 1..m : f[i] = x
    OBVIOUS
  <2>4. QED
    BY <2>1, <2>2, <2>3, Zenon DEF Bijection, Injection, Surjection, IsInjective
<1>3. ExistsBijection(1..m, nodes)
  BY <1>2 DEF ExistsBijection
<1>4. QED
  BY <1>1, <1>3, FS_Bijection

(* A counter modulo M. *)
LEMMA Wraps ==
  ASSUME NEW M \in Nat \ {0}, NEW c \in 0..M - 1
  PROVE  /\ (c + 1) % M = IF c + 1 = M THEN 0 ELSE c + 1
         /\ \A q \in Nat : (q * M + c) % M = c
<1>1. c + 1 = M => (c + 1) % M = 0
  OBVIOUS
<1>2. c + 1 # M => (c + 1) % M = c + 1
  OBVIOUS
<1>3. \A q \in Nat : (q * M + c) % M = c
  OBVIOUS
<1>4. QED
  BY <1>1, <1>2, <1>3

(* The list starts empty, and no walk is under way. *)
LEMMA InitInv == RegistrationInit => RegistrationInv
<1> SUFFICES ASSUME RegistrationInit
             PROVE  RegistrationInv
  OBVIOUS
<1> USE DEF RegistrationInit
<1>1. IsFiniteSet(called) /\ Cardinality(called) = 0
  BY FS_EmptySet
<1>2. RegistrationTypeOK
  <2>1. count \in 0..CountModulus - 1 /\ walks \in 0..Walks
    BY RegistrationAssumption
  <2>2. count <= Cardinality(called)
    BY <1>1
  <2>3. QED
    BY <2>1, <2>2 DEF RegistrationTypeOK
<1>3. InsertGuard
  BY DEF InsertGuard
<1>4. ListGuard
  <2> DEFINE s == [i \in 1..0 |-> NULL]
  <2>1. s \in [1..0 -> Registration]
    OBVIOUS
  <2>2. Inserted = {} /\ {s[i] : i \in 1..0} = {}
    BY DEF Inserted
  <2>3. IsList(s, 0)
    BY <2>1, <2>2 DEF IsList, Node
  <2>4. QED
    BY <2>1, <2>3 DEF ListGuard
<1>5. QED
  BY <1>1, <1>2, <1>3, <1>4 DEF RegistrationInv

(* The walk sees no more of a registration that begins than its link, which is *)
(* not yet in the list.                                                        *)
LEMMA RegisterComponentStep ==
  ASSUME Guarded, RegistrationInv, NEW t \in Task, NEW r \in Registration, RegisterComponent(t, r)
  PROVE  RegistrationInv'
<1> USE DEF RegistrationInv
<1>1. \A u \in Task : inserting[u] = NULL
  BY DEF RegisterComponent, MayEnter
<1>2. /\ r \notin called /\ called' = called \cup {r}
      /\ pNext' = [pNext EXCEPT ![r] = first]
      /\ inserting' = [inserting EXCEPT ![t] = r]
      /\ UNCHANGED <<first, cursor, walking, listed, opening, seen, count, walks>>
  BY DEF RegisterComponent, walkVars
<1>3. NULL \notin Registration
  BY RegistrationAssumption DEF NULL
<1>4. IsFiniteSet(called') /\ Cardinality(called) <= Cardinality(called')
      /\ Cardinality(called) \in Nat /\ Cardinality(called') \in Nat
  <2>1. IsFiniteSet(called) /\ Cardinality(called) \in Nat
    BY FS_CardinalityType
  <2>2. IsFiniteSet(called \cup {r}) /\ Cardinality(called \cup {r}) = Cardinality(called) + 1
    BY <1>2, FS_AddElement
  <2>3. QED
    BY <1>2, <2>1, <2>2
<1>5. RegistrationTypeOK'
  BY <1>2, <1>4, RegistrationAssumption DEF RegistrationTypeOK
<1>6. InsertGuard'
  BY <1>1, <1>2, <1>3 DEF InsertGuard, RegistrationTypeOK
<1>7. Inserted' = called /\ Inserted = called
  BY <1>1, <1>2, <1>3 DEF Inserted, RegistrationTypeOK
<1>8. ListGuard'
  <2>1. PICK n \in Nat : \E s \in [1..n -> Registration] :
          /\ IsList(s, n)
          /\ walking => \E m \in 0..n : \E k \in 0..m : IsWalk(s, m, k)
    BY DEF ListGuard
  <2>2. PICK s \in [1..n -> Registration] :
          /\ IsList(s, n)
          /\ walking => \E m \in 0..n : \E k \in 0..m : IsWalk(s, m, k)
    BY <2>1
  <2>3. \A i \in 1..n : s[i] # r /\ pNext'[s[i]] = pNext[s[i]]
    BY <1>2, <1>7, <2>2 DEF IsList, RegistrationTypeOK
  <2>4. IsList(s, n)'
    BY <1>2, <1>7, <2>2, <2>3 DEF IsList
  <2>5. \A m, k : IsWalk(s, m, k) => IsWalk(s, m, k)'
    BY <1>2 DEF IsWalk
  <2>6. QED
    BY <1>2, <2>2, <2>4, <2>5 DEF ListGuard
<1>9. QED
  BY <1>4, <1>5, <1>6, <1>8

(* A registration that is completed comes before all others, and before every *)
(* one that a walk has yet to visit.                                          *)
LEMMA RegisterComponentHeadStep ==
  ASSUME RegistrationInv, NEW t \in Task, RegisterComponentHead(t)
  PROVE  RegistrationInv'
<1> USE DEF RegistrationInv
<1>1. PICK r \in Registration :
      /\ r = inserting[t] /\ r \in called /\ r # NULL /\ pNext[r] = first
      /\ first' = r
      /\ inserting' = [inserting EXCEPT ![t] = NULL]
      /\ UNCHANGED <<pNext, called, cursor, walking, listed, opening, seen, count, walks>>
  BY DEF RegisterComponentHead, walkVars, InsertGuard, RegistrationTypeOK
<1>2. \A u \in Task \ {t} : inserting[u] = NULL
  BY <1>1 DEF InsertGuard
<1>3. NULL \notin Registration
  BY RegistrationAssumption DEF NULL
<1>4. RegistrationTypeOK'
  BY <1>1 DEF RegistrationTypeOK
<1>5. \A u \in Task : inserting'[u] = NULL
  BY <1>1, <1>2 DEF RegistrationTypeOK
<1>6. InsertGuard'
  BY <1>5 DEF InsertGuard
<1>7. Inserted' = Inserted \cup {r} /\ r \notin Inserted
  BY <1>1, <1>2, <1>3, <1>5 DEF Inserted, RegistrationTypeOK
<1>8. ListGuard'
  <2>1. PICK n \in Nat : \E s \in [1..n -> Registration] :
          /\ IsList(s, n)
          /\ walking => \E m \in 0..n : \E k \in 0..m : IsWalk(s, m, k)
    BY DEF ListGuard
  <2>2. PICK s \in [1..n -> Registration] :
          /\ IsList(s, n)
          /\ walking => \E m \in 0..n : \E k \in 0..m : IsWalk(s, m, k)
    BY <2>1
  <2> DEFINE longer == [i \in 1..n + 1 |-> IF i = n + 1 THEN r ELSE s[i]]
  <2>3. /\ longer \in [1..n + 1 -> Registration] /\ longer[n + 1] = r
        /\ \A i \in 1..n : longer[i] = s[i]
    BY <1>1, <2>2
  <2>4. \A i \in 1..n : s[i] # r
    BY <1>7, <2>2 DEF IsList
  <2> HIDE DEF longer
  <2>5. \A i, j \in 1..n + 1 : longer[i] = longer[j] => i = j
    <3>1. \A i \in 1..n + 1 : i \in 1..n \/ i = n + 1
      OBVIOUS
    <3>2. QED
      BY <2>2, <2>3, <2>4, <3>1 DEF IsList
  <2>6. Inserted' = {longer[i] : i \in 1..n + 1}
    <3>1. 1..n + 1 = (1..n) \cup {n + 1}
      OBVIOUS
    <3>2. Inserted = {s[i] : i \in 1..n}
      BY <2>2 DEF IsList
    <3>3. QED
      BY <1>7, <2>3, <3>1, <3>2
  <2>7. \A i \in 1..n + 1 : pNext'[longer[i]] = Node(longer, i - 1)
    <3>1. \A i \in 1..n : pNext[s[i]] = Node(s, i - 1)
      BY <2>2 DEF IsList
    <3>2. \A i \in 0..n : Node(longer, i) = Node(s, i)
      BY <2>3 DEF Node
    <3>3. pNext[r] = Node(s, n)
      BY <1>1, <2>2 DEF IsList
    <3>4. QED
      BY <1>1, <2>3, <3>1, <3>2, <3>3
  <2>8. IsList(longer, n + 1)'
    BY <1>1, <2>3, <2>5, <2>6, <2>7 DEF IsList, Node
  <2>9. \A m \in 0..n : \A k \in 0..m : IsWalk(s, m, k) => IsWalk(longer, m, k)'
    <3> SUFFICES ASSUME NEW m \in 0..n, NEW k \in 0..m, IsWalk(s, m, k)
                 PROVE  IsWalk(longer, m, k)'
      OBVIOUS
    <3>1. Node(longer, m) = Node(s, m) /\ Node(longer, k) = Node(s, k)
      BY <2>3 DEF Node
    <3>2. {longer[i] : i \in 1..m} = {s[i] : i \in 1..m}
      BY <2>3
    <3>3. {longer[i] : i \in k + 1..m} = {s[i] : i \in k + 1..m}
      BY <2>3
    <3>4. QED
      BY <1>1, <3>1, <3>2, <3>3 DEF IsWalk
  <2>10. \A m \in 0..n : m \in 0..n + 1
    OBVIOUS
  <2>11. QED
    BY <1>1, <2>2, <2>3, <2>8, <2>9, <2>10 DEF ListGuard
<1>9. QED
  BY <1>1, <1>4, <1>6, <1>8

(* A version report begins at the head of the list. *)
LEMMA GetFWVersionStep == RegistrationInv /\ GetFWVersion => RegistrationInv'
<1> SUFFICES ASSUME RegistrationInv, GetFWVersion
             PROVE  RegistrationInv'
  OBVIOUS
<1> USE DEF RegistrationInv
<1>1. /\ walking' = TRUE /\ cursor' = first /\ opening' = first /\ listed' = Inserted
      /\ seen' = {} /\ count' = 0 /\ walks' = walks + 1 /\ walks < Walks
      /\ UNCHANGED <<first, pNext, inserting, called>>
  BY DEF GetFWVersion, listVars
<1>2. Cardinality(called) \in Nat
  BY FS_CardinalityType
<1>3. RegistrationTypeOK'
  <2>1. count' \in 0..CountModulus - 1 /\ walks' \in 0..Walks /\ count' <= Cardinality(called')
    BY <1>1, <1>2, RegistrationAssumption DEF RegistrationTypeOK
  <2>2. listed' \subseteq Registration
    BY <1>1 DEF RegistrationTypeOK, Inserted
  <2>3. QED
    BY <1>1, <2>1, <2>2 DEF RegistrationTypeOK
<1>4. InsertGuard' /\ IsFiniteSet(called')
  BY <1>1 DEF InsertGuard
<1>5. ListGuard'
  <2>1. PICK n \in Nat : \E s \in [1..n -> Registration] : IsList(s, n)
    BY DEF ListGuard
  <2>2. PICK s \in [1..n -> Registration] : IsList(s, n)
    BY <2>1
  <2>3. IsList(s, n)'
    BY <1>1, <2>2 DEF IsList, Inserted
  <2>4. IsWalk(s, n, n)'
    <3>1. {s[i] : i \in n + 1..n} = {}
      OBVIOUS
    <3>2. n - n = 0 * CountModulus + 0
      BY RegistrationAssumption
    <3>3. QED
      BY <1>1, <2>2, <3>1, <3>2 DEF IsWalk, IsList
  <2>5. n \in 0..n
    OBVIOUS
  <2>6. QED
    BY <1>1, <2>3, <2>4, <2>5 DEF ListGuard
<1>6. QED
  BY <1>3, <1>4, <1>5

(* The walk moves on to the registration that was completed before. *)
LEMMA GetFWVersionNextStep == RegistrationInv /\ GetFWVersionNext => RegistrationInv'
<1> SUFFICES ASSUME RegistrationInv, GetFWVersionNext
             PROVE  RegistrationInv'
  OBVIOUS
<1> USE DEF RegistrationInv
<1>1. /\ walking /\ cursor # NULL
      /\ seen' = seen \cup {cursor}
      /\ count' = (count + 1) % CountModulus
      /\ cursor' = pNext[cursor]
      /\ UNCHANGED <<walking, listed, opening, walks, first, pNext, inserting, called>>
  BY DEF GetFWVersionNext, listVars
<1>2. PICK n \in Nat : \E s \in [1..n -> Registration] :
        /\ IsList(s, n)
        /\ \E m \in 0..n : \E k \in 0..m : IsWalk(s, m, k)
  BY <1>1 DEF ListGuard
<1>3. PICK s \in [1..n -> Registration] :
        /\ IsList(s, n)
        /\ \E m \in 0..n : \E k \in 0..m : IsWalk(s, m, k)
  BY <1>2
<1>4. PICK m \in 0..n : \E k \in 0..m : IsWalk(s, m, k)
  BY <1>3
<1>5. PICK k \in 0..m : IsWalk(s, m, k)
  BY <1>4
<1>6. k \in 1..m /\ k \in 1..n /\ cursor = s[k] /\ k - 1 \in 0..m
  BY <1>1, <1>5 DEF IsWalk, Node
<1>7. cursor' = Node(s, k - 1) /\ cursor' \in Registration \cup {NULL}
  BY <1>1, <1>3, <1>6 DEF IsList, Node
<1>8. /\ count' = IF count + 1 = CountModulus THEN 0 ELSE count + 1
      /\ count' \in 0..CountModulus - 1
  <2>1. CountModulus \in Nat \ {0} /\ count \in 0..CountModulus - 1
    BY RegistrationAssumption DEF RegistrationTypeOK
  <2>2. count' = IF count + 1 = CountModulus THEN 0 ELSE count + 1
    BY <1>1, <2>1, Wraps
  <2>3. QED
    BY <2>1, <2>2
<1>9. \E wraps \in Nat : m - (k - 1) = wraps * CountModulus + count'
  <2>1. PICK wraps \in Nat : m - k = wraps * CountModulus + count
    BY <1>5 DEF IsWalk
  <2>2. count \in Nat /\ CountModulus \in Nat /\ wraps * CountModulus \in Nat
        /\ (wraps + 1) * CountModulus = wraps * CountModulus + CountModulus
    BY RegistrationAssumption DEF RegistrationTypeOK
  <2>3. CASE count + 1 = CountModulus
    <3>1. m - (k - 1) = (wraps + 1) * CountModulus + count'
      BY <1>6, <1>8, <2>1, <2>2, <2>3
    <3>2. QED
      BY <3>1
  <2>4. CASE count + 1 # CountModulus
    <3>1. m - (k - 1) = wraps * CountModulus + count'
      BY <1>6, <1>8, <2>1, <2>2, <2>4
    <3>2. QED
      BY <3>1
  <2>5. QED
    BY <2>3, <2>4
<1>10. count' <= Cardinality(called')
  <2>1. n = Cardinality(Inserted) /\ Inserted \subseteq called
    <3>1. /\ \A i, j \in 1..n : s[i] = s[j] => i = j
          /\ \A x : x \in Inserted <=> \E i \in 1..n : x = s[i]
      BY <1>3 DEF IsList
    <3>2. QED
      BY <3>1, ListCardinality DEF Inserted
  <2>2. n <= Cardinality(called) /\ Cardinality(called) \in Nat
    BY <2>1, FS_Subset, FS_CardinalityType
  <2>3. PICK wraps \in Nat : m - (k - 1) = wraps * CountModulus + count'
    BY <1>9
  <2>4. wraps * CountModulus \in Nat
    BY RegistrationAssumption
  <2>5. QED
    BY <1>1, <1>6, <1>8, <2>2, <2>3, <2>4
<1>11. seen' = {s[i] : i \in (k - 1) + 1..m} /\ seen' \subseteq Registration
  <2>1. k..m = {k} \cup (k + 1..m) /\ (k - 1) + 1 = k
    BY <1>6
  <2>2. seen = {s[i] : i \in k + 1..m}
    BY <1>5 DEF IsWalk
  <2>3. s[k] \in Registration
    BY <1>6
  <2>4. QED
    BY <1>1, <1>6, <2>1, <2>2, <2>3 DEF RegistrationTypeOK
<1>12. RegistrationTypeOK'
  BY <1>1, <1>7, <1>8, <1>10, <1>11 DEF RegistrationTypeOK
<1>13. InsertGuard' /\ IsFiniteSet(called')
  BY <1>1 DEF InsertGuard
<1>14. ListGuard'
  <2>1. IsList(s, n)'
    BY <1>1, <1>3 DEF IsList, Inserted
  <2>2. IsWalk(s, m, k - 1)'
    BY <1>1, <1>5, <1>7, <1>9, <1>11 DEF IsWalk
  <2>3. QED
    BY <1>6, <2>1, <2>2 DEF ListGuard
<1>15. QED
  BY <1>12, <1>13, <1>14

(* The end of a walk leaves the list and the count of the report as they are. *)
LEMMA GetFWVersionEndStep ==
  ASSUME RegistrationInv, GetFWVersionEnd \/ UNCHANGED registrationVars
  PROVE  RegistrationInv'
<1> USE DEF RegistrationInv
<1>1. /\ UNCHANGED <<cursor, listed, opening, seen, count, walks, first, pNext, inserting, called>>
      /\ walking' \in {FALSE, walking}
  BY DEF GetFWVersionEnd, registrationVars, walkVars, listVars
<1>2. RegistrationTypeOK' /\ InsertGuard' /\ IsFiniteSet(called')
  BY <1>1 DEF RegistrationTypeOK, InsertGuard
<1>3. (\A s, n : IsList(s, n) => IsList(s, n)') /\ \A s, m, k : IsWalk(s, m, k) => IsWalk(s, m, k)'
  BY <1>1 DEF IsList, IsWalk, Inserted
<1>4. ListGuard'
  <2>1. PICK n \in Nat : \E s \in [1..n -> Registration] :
          /\ IsList(s, n)
          /\ walking => \E m \in 0..n : \E k \in 0..m : IsWalk(s, m, k)
    BY DEF ListGuard
  <2>2. PICK s \in [1..n -> Registration] :
          /\ IsList(s, n)
          /\ walking => \E m \in 0..n : \E k \in 0..m : IsWalk(s, m, k)
    BY <2>1
  <2>3. walking' => walking
    BY <1>1
  <2>4. QED
    BY <1>3, <2>2, <2>3 DEF ListGuard
<1>5. QED
  BY <1>2, <1>4

(* The invariant is inductive, where the insertions are guarded. *)
LEMMA RegistrationNextInv ==
  ASSUME Guarded, RegistrationInv, [RegistrationNext]_registrationVars
  PROVE  RegistrationInv'
<1>1. CASE \E t \in Task, r \in Registration : RegisterComponent(t, r)
  BY <1>1, RegisterComponentStep
<1>2. CASE \E t \in Task : RegisterComponentHead(t)
  BY <1>2, RegisterComponentHeadStep
<1>3. CASE Walk
  BY <1>3, GetFWVersionStep, GetFWVersionNextStep, GetFWVersionEndStep DEF Walk
<1>4. CASE UNCHANGED registrationVars
  BY <1>4, GetFWVersionEndStep
<1>5. QED
  BY <1>1, <1>2, <1>3, <1>4 DEF RegistrationNext, Registering

(* Where the platform guards the insertions, the list is whole at every step: it *)
(* holds each complete registration once, and no insertion makes it a ring.      *)
THEOREM RegistrationInvariance == Guarded /\ RegistrationSpec => []RegistrationInv
<1>1. ASSUME Guarded
      PROVE  RegistrationSpec => []RegistrationInv
  <2>1. RegistrationInv /\ [RegistrationNext]_registrationVars => RegistrationInv'
    BY <1>1, RegistrationNextInv
  <2>2. QED
    BY <2>1, InitInv, PTL DEF RegistrationSpec
<1>2. QED
  BY <1>1

(* Type correctness of the list and of the report's fields: in particular a *)
(* report never counts more components than have been registered.           *)
THEOREM RegistrationTypeCorrect == Guarded /\ RegistrationSpec => []RegistrationTypeOK
<1>1. RegistrationInv => RegistrationTypeOK
  BY DEF RegistrationInv
<1>2. QED
  BY <1>1, RegistrationInvariance, PTL

(* A finished version report counts the registrations that were complete when it *)
(* began, each once, although others go on registering while it is written: they *)
(* come before the head that it started from.                                    *)
THEOREM ReportIsSnapshotCorrect == Guarded /\ RegistrationSpec => []ReportIsSnapshot
<1>1. RegistrationInv => ReportIsSnapshot
  <2> SUFFICES ASSUME RegistrationInv, walking, cursor = NULL
               PROVE  seen = listed /\ count = Cardinality(listed) % CountModulus
    BY DEF ReportIsSnapshot
  <2>1. PICK n \in Nat : \E s \in [1..n -> Registration] :
          /\ IsList(s, n)
          /\ \E m \in 0..n : \E k \in 0..m : IsWalk(s, m, k)
    BY DEF RegistrationInv, ListGuard
  <2>2. PICK s \in [1..n -> Registration] :
          /\ IsList(s, n)
          /\ \E m \in 0..n : \E k \in 0..m : IsWalk(s, m, k)
    BY <2>1
  <2>3. PICK m \in 0..n : \E k \in 0..m : IsWalk(s, m, k)
    BY <2>2
  <2>4. PICK k \in 0..m : IsWalk(s, m, k)
    BY <2>3
  <2>5. k = 0
    <3>1. \A i \in 1..n : s[i] # NULL
      BY <2>2, RegistrationAssumption DEF NULL
    <3>2. QED
      BY <2>4, <3>1 DEF IsWalk, Node
  <2>6. seen = listed
    BY <2>4, <2>5 DEF IsWalk
  <2>7. Cardinality(listed) = m
    <3>1. \A i, j \in 1..m : s[i] = s[j] => i = j
      BY <2>2 DEF IsList
    <3>2. \A x : x \in listed <=> \E i \in 1..m : x = s[i]
      BY <2>4 DEF IsWalk
    <3>3. m \in Nat
      OBVIOUS
    <3>4. QED
      BY <3>1, <3>2, <3>3, ListCardinality
  <2>8. PICK wraps \in Nat : m = wraps * CountModulus + count
    <3>1. m - 0 = m
      OBVIOUS
    <3>2. QED
      BY <2>4, <2>5, <3>1 DEF IsWalk
  <2>9. count = m % CountModulus
    BY <2>8, Wraps, RegistrationAssumption DEF RegistrationInv, RegistrationTypeOK
  <2>10. QED
    BY <2>6, <2>7, <2>9
<1>2. QED
  BY <1>1, RegistrationInvariance, PTL
===============================================================================
