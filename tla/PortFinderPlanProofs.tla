------------------------ MODULE PortFinderPlanProofs ------------------------
(***************************************************************************)
(* Theorems about PortFinderPlan, for any finite set of buses, any set of  *)
(* ports and any devices.                                                  *)
(***************************************************************************)
EXTENDS PortFinderPlan, FiniteSetTheorems, TLAPS

-----------------------------------------------------------------------------
(* The order on buses and size_t arithmetic                                *)

\* The comparison of buses is transitive
LEMMA BusLeqTransitive ==
  ASSUME NEW A, NEW B, NEW C, BusLeq(A, B), BusLeq(B, C)
  PROVE  BusLeq(A, C)
<1> SUFFICES ASSUME NEW a \in A PROVE \E c \in C : DeviceLeq(a, c)
  BY DEF BusLeq
<1>1. PICK b \in B : DeviceLeq(a, b)
  BY DEF BusLeq
<1>2. PICK c \in C : DeviceLeq(b, c)
  BY DEF BusLeq
<1>3. DeviceLeq(a, c)
  BY <1>1, <1>2 DEF DeviceLeq
<1> QED
  BY <1>3

\* Any set of buses has a cardinality which fits into size_t
LEMMA BusSet ==
  ASSUME NEW B \in SUBSET Buses
  PROVE  /\ IsFiniteSet(B)
         /\ Cardinality(B) \in 0 .. SIZE_MAX
<1>1. IsFiniteSet(B) /\ Cardinality(B) <= Cardinality(Buses)
  BY BusesFinite, FS_Subset
<1>2. Cardinality(B) \in Nat /\ Cardinality(Buses) \in Nat
  BY <1>1, BusesFinite, FS_CardinalityType
<1> QED
  BY <1>1, <1>2, SizeType

\* size_t arithmetic stays within size_t
LEMMA SizeArithmetic ==
  ASSUME NEW n \in 0 .. SIZE_MAX, NEW k \in 0 .. SIZE_MAX
  PROVE  /\ Plus(n, k) \in 0 .. SIZE_MAX
         /\ Minus(n, k) \in 0 .. SIZE_MAX
         /\ n + k <= SIZE_MAX => Plus(n, k) = n + k
         /\ k <= n => Minus(n, k) = n - k
         /\ Minus(Plus(n, 1), 1) = n
BY SizeType DEF Plus, Minus

\* A bus more among the available ones counts for those it ambiguates only
LEMMA AmbiguatorsAdd ==
  ASSUME NEW A \in SUBSET Buses, NEW b \in Buses, b \notin A, NEW x \in Buses
  PROVE  Cardinality(Ambiguators(A \cup {b}, x)) =
           IF Ambiguates(b, x) THEN Plus(Cardinality(Ambiguators(A, x)), 1)
                               ELSE Cardinality(Ambiguators(A, x))
<1>1. CASE Ambiguates(b, x)
  <2>1. Ambiguators(A \cup {b}, x) = Ambiguators(A, x) \cup {b}
    BY <1>1 DEF Ambiguators
  <2>2. b \notin Ambiguators(A, x) /\ Ambiguators(A, x) \subseteq Buses
    BY DEF Ambiguators
  <2>3. Cardinality(Ambiguators(A \cup {b}, x)) =
          Cardinality(Ambiguators(A, x)) + 1
    BY <2>1, <2>2, BusSet, FS_AddElement
  <2>4. Cardinality(Ambiguators(A, x)) \in 0 .. SIZE_MAX
    BY <2>2, BusSet
  <2>5. Cardinality(Ambiguators(A \cup {b}, x)) \in 0 .. SIZE_MAX
    BY <2>1, <2>2, BusSet
  <2> QED
    BY <1>1, <2>3, <2>4, <2>5, SizeType DEF Plus
<1>2. CASE ~ Ambiguates(b, x)
  <2>1. Ambiguators(A \cup {b}, x) = Ambiguators(A, x)
    BY <1>2 DEF Ambiguators
  <2> QED
    BY <1>2, <2>1
<1> QED
  BY <1>1, <1>2

-----------------------------------------------------------------------------
(* The inductive invariant                                                 *)

\* The invariant holds for the empty plan of the constructor
LEMMA InitInv == PlanInit => PlanInv
<1> SUFFICES ASSUME PlanInit PROVE PlanInv
  OBVIOUS
<1> USE DEF PlanInit
<1>1. PlanTypeOK
  BY SizeType DEF PlanTypeOK
<1>2. AssignedOnce
  BY DEF AssignedOnce
<1>3. AvailableIsUnassigned
  BY DEF AvailableIsUnassigned, On
<1>4. CountsAmbiguators
  BY DEF CountsAmbiguators, On
<1> QED
  BY <1>1, <1>2, <1>3, <1>4 DEF PlanInv

\* addBuses keeps the types
LEMMA AddBusesTypes ==
  ASSUME PlanTypeOK, NEW new_buses \in SUBSET Buses, AddBuses(new_buses)
  PROVE  PlanTypeOK'
<1> USE DEF PlanTypeOK
<1>1. known' \subseteq Buses /\ available' \in [Ports -> SUBSET Buses]
  BY DEF AddBuses, On
<1>2. assigned' \in [Ports -> Buses \cup {NoBus}]
  BY DEF AddBuses
<1>3. new_candidates' \subseteq Candidates
  BY DEF AddBuses
<1>4. ASSUME NEW p \in Ports, NEW b \in Buses
      PROVE  num_ambiguators'[p][b] \in 0 .. SIZE_MAX
  <2> DEFINE A == IF b \in known THEN On(new_buses, p)
                                 ELSE available[p] \cup On(new_buses, p)
             k == Cardinality(Ambiguators(A, b))
  <2>1. k \in 0 .. SIZE_MAX
    <3>1. Ambiguators(A, b) \in SUBSET Buses
      BY DEF Ambiguators, On
    <3> QED
      BY <3>1, BusSet
  <2>2. num_ambiguators[p][b] \in 0 .. SIZE_MAX
    OBVIOUS
  <2>3. Plus(num_ambiguators[p][b], k) \in 0 .. SIZE_MAX
    BY <2>1, <2>2, SizeArithmetic
  <2>4. num_ambiguators'[p][b] = IF b \in On(known', p)
                                 THEN Plus(num_ambiguators[p][b], k)
                                 ELSE num_ambiguators[p][b]
    BY DEF AddBuses
  <2> HIDE DEF k
  <2> QED
    BY <2>2, <2>3, <2>4
<1>5. num_ambiguators' = [p \in Ports |-> [b \in Buses |-> num_ambiguators'[p][b]]]
  BY DEF AddBuses
<1>6. num_ambiguators' \in [Ports -> [Buses -> 0 .. SIZE_MAX]]
  BY <1>4, <1>5
<1> QED
  BY <1>1, <1>2, <1>3, <1>6

\* assign keeps the types, for any bus and port
LEMMA AssignTypes ==
  ASSUME PlanTypeOK, NEW b \in Buses, NEW p \in Ports, Assign(b, p)
  PROVE  PlanTypeOK'
<1> USE DEF PlanTypeOK, Assign
<1>1. assigned' \in [Ports -> Buses \cup {NoBus}]
  OBVIOUS
<1>2. available' \in [Ports -> SUBSET Buses]
  OBVIOUS
<1>3. \A q \in Ports, x \in Buses :
        Minus(num_ambiguators[q][x], 1) \in 0 .. SIZE_MAX
  <2> TAKE q \in Ports, x \in Buses
  <2>1. num_ambiguators[q][x] \in 0 .. SIZE_MAX
    OBVIOUS
  <2> QED
    BY <2>1, SizeType DEF Minus
<1>4. num_ambiguators' \in [Ports -> [Buses -> 0 .. SIZE_MAX]]
  BY <1>3
<1>5. known' \subseteq Buses /\ new_candidates' \subseteq Candidates
  OBVIOUS
<1> QED
  BY <1>1, <1>2, <1>4, <1>5

\* Each operation keeps the types, for any buses and port it is called with
LEMMA TypeStep ==
  ASSUME PlanTypeOK, [PlanNext]_planVars
  PROVE  PlanTypeOK'
<1> USE DEF PlanTypeOK
<1>1. ASSUME NEW new_buses \in SUBSET Buses \ {{}}, AddBuses(new_buses)
      PROVE  PlanTypeOK'
  BY <1>1, AddBusesTypes
<1>2. ASSUME NEW b \in Buses, NEW p \in Ports, Confirm(b, p)
      PROVE  PlanTypeOK'
  BY <1>2, AssignTypes DEF Confirm
<1>3. ASSUME NEW p \in Ports, Unassign(p)
      PROVE  PlanTypeOK'
  <2> USE <1>3 DEF Unassign
  <2>1. assigned' \in [Ports -> Buses \cup {NoBus}]
    OBVIOUS
  <2>2. available' \in [Ports -> SUBSET Buses]
    <3>1. CASE assigned[p] = NoBus
      BY <3>1
    <3>2. CASE assigned[p] # NoBus
      <4>1. assigned[p] \in Buses
        BY <3>2
      <4> QED
        BY <3>2, <4>1
    <3> QED
      BY <3>1, <3>2
  <2>3. \A q \in Ports, x \in Buses :
          Plus(num_ambiguators[q][x], 1) \in 0 .. SIZE_MAX
    <3> TAKE q \in Ports, x \in Buses
    <3>1. num_ambiguators[q][x] \in 0 .. SIZE_MAX
      OBVIOUS
    <3> QED
      BY <3>1, SizeType DEF Plus
  <2>4. num_ambiguators' \in [Ports -> [Buses -> 0 .. SIZE_MAX]]
    BY <2>3
  <2>5. known' \subseteq Buses /\ new_candidates' \subseteq Candidates
    OBVIOUS
  <2> QED
    BY <2>1, <2>2, <2>4, <2>5
<1>4. CASE UNCHANGED planVars
  BY <1>4 DEF planVars
<1> QED
  BY <1>1, <1>2, <1>3, <1>4 DEF PlanNext

\* addBuses of new buses keeps the invariant
LEMMA AddBusesInv ==
  ASSUME PlanInv, NEW new_buses \in SUBSET Buses, AddBuses(new_buses)
  PROVE  AssignedOnce' /\ AvailableIsUnassigned' /\ CountsAmbiguators'
<1> USE DEF PlanInv, PlanTypeOK
<1>0. /\ known' = known \cup new_buses
      /\ new_buses \cap known = {}
      /\ assigned' = assigned
      /\ \A p \in Ports : available'[p] = available[p] \cup On(new_buses, p)
  BY DEF AddBuses
<1>1. AssignedOnce'
  BY <1>0 DEF AssignedOnce, On
<1>2. AvailableIsUnassigned'
  <2> SUFFICES ASSUME NEW p \in Ports
               PROVE  available'[p] = {b \in On(known', p) :
                        \A q \in Ports \ {p} : assigned'[q] # b}
    BY DEF AvailableIsUnassigned
  <2>1. \A b \in new_buses : \A q \in Ports : assigned[q] # b
    <3> SUFFICES ASSUME NEW b \in new_buses, NEW q \in Ports, assigned[q] = b
                 PROVE  FALSE
      OBVIOUS
    <3>1. b # NoBus
      BY NoBusIsNoBus
    <3>2. b \in known
      BY <3>1 DEF AssignedOnce, On
    <3> QED
      BY <1>0, <3>2
  <2>2. available[p] = {b \in On(known, p) :
                          \A q \in Ports \ {p} : assigned[q] # b}
    BY DEF AvailableIsUnassigned
  <2>3. available'[p] = available[p] \cup On(new_buses, p)
    BY <1>0
  <2>4. On(known', p) = On(known, p) \cup On(new_buses, p)
    BY <1>0 DEF On
  <2>5. \A b \in On(new_buses, p) : b \in new_buses
    BY DEF On
  <2> QED
    BY <1>0, <2>1, <2>2, <2>3, <2>4, <2>5
<1>3. CountsAmbiguators'
  <2> SUFFICES ASSUME NEW p \in Ports, NEW b \in Buses
               PROVE  num_ambiguators'[p][b] =
                        IF b \in On(known', p)
                        THEN Cardinality(Ambiguators(available'[p], b))
                        ELSE 0
    BY DEF CountsAmbiguators
  <2> DEFINE New == On(new_buses, p)
             Counted == IF b \in known THEN New ELSE available[p] \cup New
             k == Cardinality(Ambiguators(Counted, b))
  <2>1. num_ambiguators'[p][b] = IF b \in On(known', p)
                                 THEN Plus(num_ambiguators[p][b], k)
                                 ELSE num_ambiguators[p][b]
    BY DEF AddBuses
  <2>2. num_ambiguators[p][b] =
          IF b \in On(known, p) THEN Cardinality(Ambiguators(available[p], b))
                                ELSE 0
    BY DEF CountsAmbiguators
  <2>3. available'[p] = available[p] \cup New
    BY <1>0
  <2>4. CASE b \notin On(known', p)
    <3>1. b \notin On(known, p)
      BY <1>0, <2>4 DEF On
    <3> QED
      BY <2>1, <2>2, <2>4, <3>1
  <2>5. CASE b \in On(known', p) /\ b \notin known
    <3>1. b \notin On(known, p)
      BY <2>5 DEF On
    <3>2. k = Cardinality(Ambiguators(available'[p], b))
      BY <2>3, <2>5
    <3>3. k \in 0 .. SIZE_MAX
      <4>1. Ambiguators(Counted, b) \in SUBSET Buses
        BY DEF Ambiguators, On
      <4> QED
        BY <4>1, BusSet
    <3>4. Plus(0, k) = k
      BY <3>3, SizeType DEF Plus
    <3> QED
      BY <2>1, <2>2, <2>5, <3>1, <3>2, <3>4
  <2>6. CASE b \in On(known', p) /\ b \in known
    <3> DEFINE Old == Ambiguators(available[p], b)
               Added == Ambiguators(New, b)
    <3>1. b \in On(known, p)
      BY <2>6 DEF On
    <3>2. Old \in SUBSET Buses /\ Added \in SUBSET Buses
      BY DEF Ambiguators, On
    <3>3. Old \cap Added = {}
      <4>1. available[p] \subseteq known
        BY DEF AvailableIsUnassigned, On
      <4> QED
        BY <1>0, <4>1 DEF Ambiguators, On
    <3>4. Ambiguators(available'[p], b) = Old \cup Added
      BY <2>3 DEF Ambiguators
    <3>5. Cardinality(Old \cup Added) = Cardinality(Old) + Cardinality(Added)
      <4> HIDE DEF Old, Added
      <4>1. IsFiniteSet(Old) /\ IsFiniteSet(Added)
        BY <3>2, BusSet
      <4>2. Cardinality(Old \cap Added) = 0
        BY <3>3, FS_EmptySet
      <4>3. Cardinality(Old) \in Nat /\ Cardinality(Added) \in Nat
        BY <4>1, FS_CardinalityType
      <4>4. Cardinality(Old \cup Added) =
              Cardinality(Old) + Cardinality(Added) - Cardinality(Old \cap Added)
        BY <4>1, FS_Union
      <4> QED
        BY <4>2, <4>3, <4>4
    <3>6. /\ Cardinality(Old) \in 0 .. SIZE_MAX
          /\ Cardinality(Added) \in 0 .. SIZE_MAX
          /\ Cardinality(Old \cup Added) \in 0 .. SIZE_MAX
      <4>1. Old \cup Added \in SUBSET Buses
        BY <3>2
      <4> QED
        BY <3>2, <4>1, BusSet
    <3>7. Plus(Cardinality(Old), Cardinality(Added)) =
            Cardinality(Old \cup Added)
      BY <3>5, <3>6, SizeArithmetic
    <3>8. k = Cardinality(Added)
      BY <2>6
    <3> HIDE DEF k, Old, Added, New
    <3> QED
      BY <2>1, <2>2, <2>6, <3>1, <3>4, <3>7, <3>8 DEF Old
  <2> QED
    BY <2>4, <2>5, <2>6
<1> QED
  BY <1>1, <1>2, <1>3

\* A bus that is available on a free port is known, lists the port, and is
\* assigned nowhere
LEMMA AvailableMeans ==
  ASSUME PlanInv, NEW b \in Buses, NEW p \in Ports,
         assigned[p] = NoBus, b \in available[p]
  PROVE  /\ b # NoBus
         /\ b \in On(known, p)
         /\ \A q \in Ports : assigned[q] # b
BY NoBusIsNoBus DEF PlanInv, AvailableIsUnassigned

\* So is a feasible candidate
LEMMA FeasibleMeans ==
  ASSUME PlanInv, NEW b \in Buses, NEW p \in Ports, Feasible(b, p)
  PROVE  /\ b # NoBus
         /\ b \in On(known, p)
         /\ assigned[p] = NoBus
         /\ \A q \in Ports : assigned[q] # b
BY NoBusIsNoBus DEF PlanInv, AvailableIsUnassigned, Feasible

\* Assigning a bus that is available keeps the invariant
LEMMA AssignInv ==
  ASSUME PlanInv, NEW b \in Buses, NEW p \in Ports, Assign(b, p),
         assigned[p] = NoBus, b \in available[p]
  PROVE  AssignedOnce' /\ AvailableIsUnassigned' /\ CountsAmbiguators'
<1> DEFINE others == possible_serial_ports[b] \ {p}
<1> USE DEF PlanInv, PlanTypeOK
<1>1. /\ b # NoBus
      /\ b \in On(known, p)
      /\ assigned[p] = NoBus
      /\ \A q \in Ports : assigned[q] # b
  BY AvailableMeans
<1>2. /\ known' = known
      /\ assigned' = [assigned EXCEPT ![p] = b]
      /\ \A q \in Ports : available'[q] =
           IF q \in others THEN available[q] \ {b} ELSE available[q]
      /\ \A q \in Ports, x \in Buses : num_ambiguators'[q][x] =
           IF q \in others /\ x \in On(known, q) /\ Ambiguates(b, x)
           THEN Minus(num_ambiguators[q][x], 1)
           ELSE num_ambiguators[q][x]
  BY DEF Assign
<1>3. AssignedOnce'
  BY <1>1, <1>2 DEF AssignedOnce
<1>4. AvailableIsUnassigned'
  <2> SUFFICES ASSUME NEW q \in Ports
               PROVE  available'[q] = {x \in On(known', q) :
                        \A r \in Ports \ {q} : assigned'[r] # x}
    BY DEF AvailableIsUnassigned
  <2> DEFINE Free(x) == \A r \in Ports \ {q} : assigned[r] # x
             FreeNext(x) == \A r \in Ports \ {q} : assigned'[r] # x
  <2>1. available[q] = {x \in On(known, q) : Free(x)}
    BY DEF AvailableIsUnassigned
  <2>2. \A x \in Buses : FreeNext(x) <=> Free(x) /\ (q # p => x # b)
    BY <1>1, <1>2, NoBusIsNoBus
  <2>3. available'[q] = IF q \in others THEN available[q] \ {b}
                                        ELSE available[q]
    BY <1>2
  <2>4. On(known', q) = On(known, q) /\ On(known, q) \subseteq Buses
    BY <1>2 DEF On
  <2>5. q \in others <=> q # p /\ b \in On(known, q)
    BY <1>1 DEF On
  <2> HIDE DEF Free, FreeNext, others, PlanInv
  <2>6. available'[q] = {x \in On(known', q) : FreeNext(x)}
    BY <2>1, <2>2, <2>3, <2>4, <2>5
  <2> QED
    BY <2>6 DEF FreeNext
<1>5. CountsAmbiguators'
  <2> SUFFICES ASSUME NEW q \in Ports, NEW x \in Buses
               PROVE  num_ambiguators'[q][x] =
                        IF x \in On(known', q)
                        THEN Cardinality(Ambiguators(available'[q], x))
                        ELSE 0
    BY DEF CountsAmbiguators
  <2>1. num_ambiguators[q][x] =
          IF x \in On(known, q) THEN Cardinality(Ambiguators(available[q], x))
                                ELSE 0
    BY DEF CountsAmbiguators
  <2>2. CASE x \notin On(known, q)
    BY <1>2, <2>1, <2>2
  <2>3. CASE x \in On(known, q) /\ q \notin others
    BY <1>2, <2>1, <2>3
  <2>4. CASE x \in On(known, q) /\ q \in others
    <3> DEFINE Rest == available[q] \ {b}
    <3>1. b \in available[q]
      BY <1>1, <2>4 DEF AvailableIsUnassigned, On
    <3>2. available[q] = Rest \cup {b} /\ b \notin Rest
      BY <3>1
    <3>3. Rest \in SUBSET Buses
      OBVIOUS
    <3>4. available'[q] = Rest
      BY <1>2, <2>4
    <3> HIDE DEF Rest
    <3>5. Cardinality(Ambiguators(available[q], x)) =
            IF Ambiguates(b, x) THEN Plus(Cardinality(Ambiguators(Rest, x)), 1)
                                ELSE Cardinality(Ambiguators(Rest, x))
      BY <3>2, <3>3, AmbiguatorsAdd
    <3>6. Cardinality(Ambiguators(Rest, x)) \in 0 .. SIZE_MAX
      <4>1. Ambiguators(Rest, x) \in SUBSET Buses
        BY <3>3 DEF Ambiguators
      <4> QED
        BY <4>1, BusSet
    <3>7. Minus(Plus(Cardinality(Ambiguators(Rest, x)), 1), 1) =
            Cardinality(Ambiguators(Rest, x))
      BY <3>6, SizeArithmetic
    <3> QED
      BY <1>2, <2>1, <2>4, <3>4, <3>5, <3>7
  <2> QED
    BY <2>2, <2>3, <2>4
<1> QED
  BY <1>3, <1>4, <1>5

\* Confirming a feasible candidate keeps the invariant
LEMMA ConfirmInv ==
  ASSUME PlanInv, NEW b \in Buses, NEW p \in Ports, Confirm(b, p)
  PROVE  AssignedOnce' /\ AvailableIsUnassigned' /\ CountsAmbiguators'
BY AssignInv DEF Confirm, Feasible

\* unassign keeps the invariant
LEMMA UnassignInv ==
  ASSUME PlanInv, NEW p \in Ports, Unassign(p)
  PROVE  AssignedOnce' /\ AvailableIsUnassigned' /\ CountsAmbiguators'
<1> DEFINE b == assigned[p]
           others == IF b = NoBus THEN {} ELSE possible_serial_ports[b] \ {p}
<1> USE DEF PlanInv, PlanTypeOK
<1>1. /\ known' = known
      /\ assigned' = [assigned EXCEPT ![p] = NoBus]
      /\ \A q \in Ports : available'[q] =
           IF q \in others THEN available[q] \cup {b} ELSE available[q]
      /\ \A q \in Ports, x \in Buses : num_ambiguators'[q][x] =
           IF q \in others /\ x \in On(known, q) /\ Ambiguates(b, x)
           THEN Plus(num_ambiguators[q][x], 1)
           ELSE num_ambiguators[q][x]
  BY DEF Unassign
<1>2. b # NoBus => /\ b \in Buses
                   /\ b \in On(known, p)
                   /\ \A q \in Ports \ {p} : assigned[q] # b
  BY DEF AssignedOnce
<1>3. AssignedOnce'
  BY <1>1 DEF AssignedOnce
<1>4. AvailableIsUnassigned'
  <2> SUFFICES ASSUME NEW q \in Ports
               PROVE  available'[q] = {x \in On(known', q) :
                        \A r \in Ports \ {q} : assigned'[r] # x}
    BY DEF AvailableIsUnassigned
  <2> DEFINE Free(x) == \A r \in Ports \ {q} : assigned[r] # x
             FreeNext(x) == \A r \in Ports \ {q} : assigned'[r] # x
  <2>1. available[q] = {x \in On(known, q) : Free(x)}
    BY DEF AvailableIsUnassigned
  <2>2. \A x \in Buses : Free(x) <=> FreeNext(x) /\ (q # p => x # b)
    BY <1>1, NoBusIsNoBus
  <2>3. available'[q] = IF q \in others THEN available[q] \cup {b}
                                        ELSE available[q]
    BY <1>1
  <2>4. On(known', q) = On(known, q) /\ On(known, q) \subseteq Buses
    BY <1>1 DEF On
  <2>5. q \in others <=> q # p /\ b \in On(known, q)
    BY <1>2, <2>4, NoBusIsNoBus DEF On
  <2>6. b # NoBus => FreeNext(b)
    BY <1>1, <1>2
  <2>7. b \in On(known, q) => b # NoBus
    BY <2>4, NoBusIsNoBus
  <2> HIDE DEF Free, FreeNext, others, b, PlanInv
  <2>8. available'[q] = {x \in On(known', q) : FreeNext(x)}
    BY <2>1, <2>2, <2>3, <2>4, <2>5, <2>6, <2>7
  <2> QED
    BY <2>8 DEF FreeNext
<1>5. CountsAmbiguators'
  <2> SUFFICES ASSUME NEW q \in Ports, NEW x \in Buses
               PROVE  num_ambiguators'[q][x] =
                        IF x \in On(known', q)
                        THEN Cardinality(Ambiguators(available'[q], x))
                        ELSE 0
    BY DEF CountsAmbiguators
  <2>1. num_ambiguators[q][x] =
          IF x \in On(known, q) THEN Cardinality(Ambiguators(available[q], x))
                                ELSE 0
    BY DEF CountsAmbiguators
  <2>2. CASE x \notin On(known, q)
    BY <1>1, <2>1, <2>2
  <2>3. CASE x \in On(known, q) /\ q \notin others
    BY <1>1, <2>1, <2>3
  <2>4. CASE x \in On(known, q) /\ q \in others
    <3>1. b \in Buses
      BY <1>2, <2>4
    <3>2. b \notin available[q]
      BY <2>4 DEF AvailableIsUnassigned
    <3>3. available'[q] = available[q] \cup {b}
      BY <1>1, <2>4
    <3>4. available[q] \in SUBSET Buses
      OBVIOUS
    <3> HIDE DEF b
    <3>5. Cardinality(Ambiguators(available[q] \cup {b}, x)) =
            IF Ambiguates(b, x)
            THEN Plus(Cardinality(Ambiguators(available[q], x)), 1)
            ELSE Cardinality(Ambiguators(available[q], x))
      BY <3>1, <3>2, <3>4, AmbiguatorsAdd
    <3> QED
      BY <1>1, <2>1, <2>4, <3>3, <3>5
  <2> QED
    BY <2>2, <2>3, <2>4
<1> QED
  BY <1>3, <1>4, <1>5

\* The invariant is inductive
LEMMA InvStep == PlanInv /\ [PlanNext]_planVars => PlanInv'
<1> SUFFICES ASSUME PlanInv, [PlanNext]_planVars PROVE PlanInv'
  OBVIOUS
<1>1. PlanTypeOK'
  BY TypeStep DEF PlanInv
<1>2. ASSUME NEW new_buses \in SUBSET Buses \ {{}}, AddBuses(new_buses)
      PROVE  PlanInv'
  BY <1>1, <1>2, AddBusesInv DEF PlanInv
<1>3. ASSUME NEW b \in Buses, NEW p \in Ports, Confirm(b, p)
      PROVE  PlanInv'
  BY <1>1, <1>3, ConfirmInv DEF PlanInv
<1>4. ASSUME NEW p \in Ports, Unassign(p)
      PROVE  PlanInv'
  BY <1>1, <1>4, UnassignInv DEF PlanInv
<1>5. CASE UNCHANGED planVars
  BY <1>5 DEF planVars, PlanInv, PlanTypeOK, AssignedOnce,
     AvailableIsUnassigned, CountsAmbiguators
<1> QED
  BY <1>2, <1>3, <1>4, <1>5 DEF PlanNext

\* The plan's bookkeeping is right after any sequence of operations: every
\* variable has its type, no bus is assigned twice, `available' and
\* `num_ambiguators' are what their comments say (PortFinderPlan.cpp addBus,
\* assign, unassign).
THEOREM PlanInvariant == PlanSpec => []PlanInv
<1> QED
  BY InitInv, InvStep, PTL DEF PlanSpec

\* The types of the plan's variables: no counter leaves the range of size_t
THEOREM PlanTypeCorrect == PlanSpec => []PlanTypeOK
<1>1. PlanInv => PlanTypeOK
  BY DEF PlanInv
<1> QED
  BY <1>1, PlanInvariant, PTL

\* Candidate::confirm of a feasible candidate assigns its bus to one port only
THEOREM AssignmentCorrect == PlanSpec => []AssignedOnce
<1>1. PlanInv => AssignedOnce
  BY DEF PlanInv
<1> QED
  BY <1>1, PlanInvariant, PTL

\* Port::available always is what it is documented to be
THEOREM AvailableCorrect == PlanSpec => []AvailableIsUnassigned
<1>1. PlanInv => AvailableIsUnassigned
  BY DEF PlanInv
<1> QED
  BY <1>1, PlanInvariant, PTL

\* The increments and decrements of Port::num_ambiguators keep it correct
THEOREM CountersCorrect == PlanSpec => []CountsAmbiguators
<1>1. PlanInv => CountsAmbiguators
  BY DEF PlanInv
<1> QED
  BY <1>1, PlanInvariant, PTL

-----------------------------------------------------------------------------
(* What an operation returns                                               *)

\* addBuses returns what it makes feasible
LEMMA AddBusesReturns ==
  ASSUME PlanInv, NEW new_buses \in SUBSET Buses, AddBuses(new_buses)
  PROVE  new_candidates' = FeasibleCandidates' \ FeasibleCandidates
<1> SUFFICES ASSUME NEW b \in Buses, NEW p \in Ports
             PROVE  b \in new_buses /\ Feasible(b, p)' <=>
                      Feasible(b, p)' /\ ~ Feasible(b, p)
  BY DEF AddBuses, FeasibleCandidates, Candidates
<1>1. CASE b \in new_buses
  <2>1. b \notin known
    BY <1>1 DEF AddBuses
  <2>2. ~ Feasible(b, p)
    BY <2>1, FeasibleMeans DEF On
  <2> QED
    BY <1>1, <2>2
<1>2. CASE b \notin new_buses
  <2> SUFFICES ASSUME Feasible(b, p)' PROVE Feasible(b, p)
    BY <1>2
  <2> DEFINE Added == Ambiguators(On(new_buses, p), b)
  <2>1. assigned[p] = NoBus /\ b \in available'[p] /\ num_ambiguators'[p][b] = 0
    BY DEF Feasible, AddBuses
  <2>2. b \in available[p]
    BY <1>2, <2>1 DEF AddBuses, On
  <2>3. b \in On(known, p) /\ b \in known
    BY <2>2 DEF PlanInv, AvailableIsUnassigned, On
  <2>4. num_ambiguators'[p][b] = Plus(num_ambiguators[p][b], Cardinality(Added))
    BY <2>3 DEF AddBuses, On
  <2>5. num_ambiguators'[p][b] = Cardinality(Ambiguators(available'[p], b))
    BY <2>3, AddBusesInv DEF CountsAmbiguators, AddBuses, On
  <2>6. num_ambiguators[p][b] = Cardinality(Ambiguators(available[p], b))
    BY <2>3 DEF PlanInv, CountsAmbiguators
  <2>7. Ambiguators(available'[p], b) = {}
    <3>1. Ambiguators(available'[p], b) \in SUBSET Buses
      BY TypeStep DEF PlanNext, PlanInv, PlanTypeOK, AddBuses, Ambiguators, On
    <3>2. IsFiniteSet(Ambiguators(available'[p], b))
      BY <3>1, BusSet
    <3> QED
      BY <2>1, <2>5, <3>2, FS_EmptySet
  <2>8. Ambiguators(available[p], b) = {}
    BY <2>7 DEF AddBuses, Ambiguators
  <2>9. num_ambiguators[p][b] = 0
    BY <2>6, <2>8, FS_EmptySet
  <2> QED
    BY <2>1, <2>2, <2>9 DEF Feasible
<1> QED
  BY <1>1, <1>2

\* assign returns what it makes feasible
LEMMA AssignReturns ==
  ASSUME PlanInv, NEW b \in Buses, NEW p \in Ports, Assign(b, p),
         assigned[p] = NoBus, b \in available[p]
  PROVE  new_candidates' = FeasibleCandidates' \ FeasibleCandidates
<1> DEFINE others == possible_serial_ports[b] \ {p}
           Released(x, q) ==
             q \in others /\ x \in On(known, q) /\ Ambiguates(b, x)
<1> SUFFICES ASSUME NEW x \in Buses, NEW q \in Ports, Feasible(x, q)'
             PROVE  Released(x, q) <=> ~ Feasible(x, q)
  BY DEF Assign, FeasibleCandidates, Candidates
<1>1. /\ assigned'[q] = IF q = p THEN b ELSE assigned[q]
      /\ available'[q] \subseteq available[q]
      /\ num_ambiguators'[q][x] = IF Released(x, q)
                                  THEN Minus(num_ambiguators[q][x], 1)
                                  ELSE num_ambiguators[q][x]
  BY DEF Assign, PlanInv, PlanTypeOK
<1>2. /\ assigned'[q] = NoBus
      /\ x \in available'[q]
      /\ num_ambiguators'[q][x] = 0
  BY DEF Feasible
<1>3. assigned[q] = NoBus /\ x \in available[q]
  BY <1>1, <1>2, AvailableMeans
<1>4. CASE Released(x, q)
  <2>1. b \in Ambiguators(available[q], x)
    <3>1. b \in available[q]
      BY <1>4, AvailableMeans DEF PlanInv, AvailableIsUnassigned, On
    <3> QED
      BY <1>4, <3>1 DEF Ambiguators
  <2>2. IsFiniteSet(Ambiguators(available[q], x))
    <3>1. Ambiguators(available[q], x) \in SUBSET Buses
      BY DEF PlanInv, PlanTypeOK, Ambiguators
    <3> QED
      BY <3>1, BusSet
  <2>3. Cardinality(Ambiguators(available[q], x)) # 0
    BY <2>1, <2>2, FS_EmptySet
  <2>4. num_ambiguators[q][x] # 0
    BY <1>4, <2>3 DEF PlanInv, CountsAmbiguators
  <2> QED
    BY <1>4, <2>4 DEF Feasible
<1>5. CASE ~ Released(x, q)
  BY <1>1, <1>2, <1>3, <1>5 DEF Feasible
<1> QED
  BY <1>4, <1>5

\* confirm returns what it makes feasible
LEMMA ConfirmReturns ==
  ASSUME PlanInv, NEW b \in Buses, NEW p \in Ports, Confirm(b, p)
  PROVE  new_candidates' = FeasibleCandidates' \ FeasibleCandidates
BY AssignReturns DEF Confirm, Feasible

\* unassign returns what it makes feasible, though it counts ambiguators afterwards
LEMMA UnassignReturns ==
  ASSUME PlanInv, NEW p \in Ports, Unassign(p)
  PROVE  new_candidates' = FeasibleCandidates' \ FeasibleCandidates
<1> DEFINE b == assigned[p]
           others == IF b = NoBus THEN {} ELSE possible_serial_ports[b] \ {p}
           Retired(x, q) ==
             q \in others /\ x \in On(known, q) /\ Ambiguates(b, x)
           Detected(x, q) == \/ q \in others /\ x = b
                             \/ q = p /\ x \in On(known, p)
<1>1. ASSUME NEW x \in Buses, NEW q \in Ports
      PROVE  /\ assigned'[q] = IF q = p THEN NoBus ELSE assigned[q]
             /\ available'[q] = IF q \in others THEN available[q] \cup {b}
                                                ELSE available[q]
             /\ num_ambiguators'[q][x] = IF Retired(x, q)
                                         THEN Plus(num_ambiguators[q][x], 1)
                                         ELSE num_ambiguators[q][x]
  BY DEF Unassign, PlanInv, PlanTypeOK
<1>2. CASE b = NoBus
  <2>1. new_candidates' = {}
    BY <1>2 DEF Unassign
  <2>2. ASSUME NEW x \in Buses, NEW q \in Ports
        PROVE  Feasible(x, q)' <=> Feasible(x, q)
    BY <1>1, <1>2 DEF Feasible
  <2> QED
    BY <2>1, <2>2 DEF FeasibleCandidates, Candidates
<1>3. CASE b # NoBus
  <2>0. /\ b \in Buses
        /\ b \in On(known, p)
    BY <1>3 DEF PlanInv, PlanTypeOK, AssignedOnce
  <2>a. new_candidates' \subseteq Candidates
    BY <1>3 DEF Unassign
  <2>b. ASSUME NEW q \in Ports
        PROVE  available'[q] \subseteq available[q] \cup {b}
    <3> HIDE DEF b, others, Retired
    <3>1. PICK x \in Buses : TRUE
      BY <2>0
    <3> QED
      BY <1>1, <3>1
  <2> SUFFICES ASSUME NEW x \in Buses, NEW q \in Ports
               PROVE  <<x, q>> \in new_candidates' <=>
                        Feasible(x, q)' /\ ~ Feasible(x, q)
    BY <2>a DEF FeasibleCandidates, Candidates
  <2>1. <<x, q>> \in new_candidates' <=>
          /\ Detected(x, q)
          /\ assigned'[q] = NoBus
          /\ x \in available'[q]
          /\ num_ambiguators[q][x] = 0
    BY <1>3 DEF Unassign, Candidates
  <2>2. ASSUME Detected(x, q)
        PROVE  num_ambiguators'[q][x] = num_ambiguators[q][x] /\ ~ Feasible(x, q)
    <3>1. CASE q \in others /\ x = b
      <4>1. b \notin available[q]
        BY <3>1 DEF PlanInv, AvailableIsUnassigned
      <4>2. ~ Ambiguates(b, b)
        BY DEF Ambiguates
      <4> QED
        BY <1>1, <3>1, <4>1, <4>2 DEF Feasible
    <3>2. CASE q = p
      BY <1>1, <1>3, <3>2 DEF Feasible
    <3> QED
      BY <2>2, <3>1, <3>2
  <2>3. ASSUME Feasible(x, q)', ~ Feasible(x, q)
        PROVE  Detected(x, q)
    <3>0. /\ assigned'[q] = NoBus
          /\ x \in available'[q]
          /\ num_ambiguators'[q][x] = 0
      BY <2>3 DEF Feasible
    <3>1. CASE q = p
      <4>1. x \in available[p]
        BY <1>1, <3>0, <3>1
      <4> QED
        BY <3>1, <4>1 DEF PlanInv, AvailableIsUnassigned
    <3>2. CASE q # p /\ x = b
      <4>1. CASE q \in others
        BY <3>2, <4>1
      <4>2. CASE q \notin others
        <5>1. b \in available[q]
          BY <1>1, <3>0, <3>2, <4>2
        <5>2. q \in possible_serial_ports[b]
          BY <5>1 DEF PlanInv, AvailableIsUnassigned, On
        <5> QED
          BY <1>3, <3>2, <4>2, <5>2
      <4> QED
        BY <4>1, <4>2
    <3>3. CASE q # p /\ x # b
      <4>1. assigned[q] = NoBus /\ x \in available[q]
        <5> HIDE DEF b, others, Retired
        <5> QED
          BY <1>1, <2>b, <3>0, <3>3
      <4>2. num_ambiguators[q][x] # 0
        BY <2>3, <4>1 DEF Feasible
      <4>3. Retired(x, q)
        BY <1>1, <3>0, <4>2
      <4>4. num_ambiguators'[q][x] = Cardinality(Ambiguators(available'[q], x))
        BY <4>3, UnassignInv DEF CountsAmbiguators, Unassign, On
      <4>5. b \in Ambiguators(available'[q], x)
        BY <1>1, <4>3 DEF Ambiguators
      <4>6. IsFiniteSet(Ambiguators(available'[q], x))
        <5>1. Ambiguators(available'[q], x) \in SUBSET Buses
          <6>1. available'[q] \subseteq Buses
            BY <2>0, <2>b DEF PlanInv, PlanTypeOK
          <6> QED
            BY <6>1 DEF Ambiguators
        <5> QED
          BY <5>1, BusSet
      <4>7. num_ambiguators'[q][x] # 0
        BY <4>4, <4>5, <4>6, FS_EmptySet
      <4> QED
        BY <3>0, <4>7
    <3> QED
      BY <3>1, <3>2, <3>3
  <2>4. ASSUME Detected(x, q)
        PROVE  <<x, q>> \in new_candidates' <=> Feasible(x, q)'
    BY <2>1, <2>2, <2>4 DEF Feasible
  <2> QED
    BY <2>1, <2>2, <2>3, <2>4
<1> QED
  BY <1>2, <1>3

\* Every step of the plan returns what it makes feasible
LEMMA StepReturns ==
  PlanInv /\ [PlanNext]_planVars =>
    [new_candidates' = FeasibleCandidates' \ FeasibleCandidates]_planVars
<1> SUFFICES ASSUME PlanInv, PlanNext
             PROVE  new_candidates' = FeasibleCandidates' \ FeasibleCandidates
  OBVIOUS
<1> QED
  BY AddBusesReturns, ConfirmReturns, UnassignReturns DEF PlanNext

\* addBuses, confirm and unassign return exactly the candidates they make
\* feasible (PortFinderPlan::addCandidateIfFeasible).
THEOREM ReturnsExactly == PlanSpec => ReturnsNewlyFeasible
<1> QED
  BY InitInv, InvStep, StepReturns, PTL DEF PlanSpec, ReturnsNewlyFeasible

-----------------------------------------------------------------------------
(* Which buses are searched for                                            *)

\* In an unassigned port's available set, feasible is what nothing ambiguates
LEMMA FeasibleIsUnambiguous ==
  ASSUME PlanInv, NEW p \in Ports, NEW b \in Buses, assigned[p] = NoBus
  PROVE  Feasible(b, p) <=>
           b \in available[p] /\ Ambiguators(available[p], b) = {}
<1>1. IsFiniteSet(Ambiguators(available[p], b))
  <2>1. Ambiguators(available[p], b) \in SUBSET Buses
    BY DEF PlanInv, PlanTypeOK, Ambiguators
  <2> QED
    BY <2>1, BusSet
<1>2. b \in available[p] =>
        num_ambiguators[p][b] = Cardinality(Ambiguators(available[p], b))
  BY DEF PlanInv, AvailableIsUnassigned, CountsAmbiguators
<1> QED
  BY <1>1, <1>2, FS_EmptySet DEF Feasible

\* With the counters right, feasible buses are unambiguous
LEMMA UnambiguousInv == PlanInv => SearchIsUnambiguous
<1> SUFFICES ASSUME PlanInv, NEW p \in Ports, NEW b1 \in Buses, NEW b2 \in Buses,
                    Feasible(b1, p), Feasible(b2, p), Ambiguates(b1, b2)
             PROVE  FALSE
  BY DEF SearchIsUnambiguous, FeasibleCandidates, Candidates
<1>1. assigned[p] = NoBus /\ b1 \in available[p]
  BY DEF Feasible
<1>2. Ambiguators(available[p], b2) = {}
  BY <1>1, FeasibleIsUnambiguous
<1> QED
  BY <1>1, <1>2 DEF Ambiguators

\* Whatever answers on a port during the search is attributed to one bus:
\* of two buses that are searched for there, neither covers the other.
THEOREM Unambiguous == PlanSpec => []SearchIsUnambiguous
<1> QED
  BY PlanInvariant, UnambiguousInv, PTL

\* If no two available buses have the same registers, following ambiguities
\* upwards ends: a bus with the fewest ambiguators has none.
LEMMA SearchInv == PlanInv => SomethingToSearch
<1> SUFFICES ASSUME PlanInv, NEW p \in Ports,
                    assigned[p] = NoBus, available[p] # {},
                    \A b1, b2 \in available[p] :
                      ~ (Ambiguates(b1, b2) /\ Ambiguates(b2, b1))
             PROVE  \E b \in available[p] : Feasible(b, p)
  BY DEF SomethingToSearch
<1> DEFINE A == available[p]
           Above(b) == Ambiguators(A, b)
           T == {Above(b) : b \in A}
<1>1. A \in SUBSET Buses
  BY DEF PlanInv, PlanTypeOK
<1>2. FiniteSubsetsOf(Buses) = SUBSET Buses
  BY BusesFinite, FS_FiniteSubsetsOfFinite
<1>3. IsWellFoundedOn(StrictSubsetOrdering(Buses), SUBSET Buses)
  BY <1>2, FS_StrictSubsetOrderingWellFounded
<1>4. T \subseteq SUBSET Buses /\ T # {}
  BY <1>1 DEF Ambiguators
<1>5. PICK min \in T : \A t \in T : <<t, min>> \notin StrictSubsetOrdering(Buses)
  <2> HIDE DEF T
  <2> QED
    BY <1>3, <1>4, WFMin
<1>6. PICK b \in A : min = Above(b)
  OBVIOUS
<1>7. Above(b) = {}
  <2> SUFFICES ASSUME NEW o \in Above(b) PROVE FALSE
    OBVIOUS
  <2>1. o \in A /\ Ambiguates(o, b)
    BY DEF Ambiguators
  <2>2. ASSUME NEW x \in Above(o) PROVE x \in Above(b)
    <3>1. x \in A /\ Ambiguates(x, o)
      BY DEF Ambiguators
    <3>2. BusLeq(devices[b], devices[x])
      BY <2>1, <3>1, BusLeqTransitive DEF Ambiguates
    <3>3. x # b
      BY <2>1, <3>1
    <3> QED
      BY <3>1, <3>2, <3>3 DEF Ambiguators, Ambiguates
  <2>3. o \notin Above(o)
    BY DEF Ambiguators, Ambiguates
  <2>4. Above(o) \in T /\ Above(o) \subseteq Above(b) /\ Above(o) # Above(b)
    BY <2>1, <2>2, <2>3
  <2>5. <<Above(o), Above(b)>> \in StrictSubsetOrdering(Buses)
    <3>1. Above(o) \in SUBSET Buses /\ Above(b) \in SUBSET Buses
      BY <1>1 DEF Ambiguators
    <3> HIDE DEF Above
    <3> QED
      BY <2>4, <3>1 DEF StrictSubsetOrdering
  <2> QED
    BY <1>5, <1>6, <2>4, <2>5
<1> QED
  BY <1>1, <1>6, <1>7, FeasibleIsUnambiguous

\* A port without a bus is never left without a search while a bus may be
\* connected to it, unless two missing buses have the same registers.
THEOREM NoPortStarves == PlanSpec => []SomethingToSearch
<1> QED
  BY PlanInvariant, SearchInv, PTL

-----------------------------------------------------------------------------
(* Refinement                                                              *)

\* The counters and sets decide feasibility as PortFinderPlan.hpp words it
SameFeasibility == FeasibleCandidates = Abstract!FeasibleSearches

\* Feasibility of the plan and of the abstract assignment agree
LEMMA SameFeasible == PlanInv => SameFeasibility
<1> SUFFICES ASSUME PlanInv, NEW b \in Buses, NEW p \in Ports
             PROVE  Feasible(b, p) <=> Abstract!SearchFeasible(b, p)
  BY DEF SameFeasibility, FeasibleCandidates, Candidates,
     Abstract!FeasibleSearches, Abstract!Candidates
<1>1. CASE assigned[p] # NoBus
  BY <1>1 DEF Feasible, Abstract!SearchFeasible
<1>2. CASE assigned[p] = NoBus
  <2>1. ASSUME NEW x \in Buses
        PROVE  x \in available[p] <=> Abstract!Missing(x, p)
    BY <1>2, NoBusIsNoBus
    DEF PlanInv, AvailableIsUnassigned, On, Abstract!Missing
  <2>2. available[p] \subseteq Buses
    BY DEF PlanInv, PlanTypeOK
  <2>3. Ambiguators(available[p], b) = {} <=> ~ Abstract!Ambiguous(b, p)
    BY <2>1, <2>2 DEF Ambiguators, Ambiguates, Abstract!Ambiguous,
       Abstract!Ambiguates, BusLeq, DeviceLeq, Abstract!BusLeq,
       Abstract!DeviceLeq
  <2> QED
    BY <1>2, <2>1, <2>3, FeasibleIsUnambiguous DEF Abstract!SearchFeasible
<1> QED
  BY <1>1, <1>2

\* Initial states map to initial states
LEMMA AbstractInit == PlanInit => Abstract!Init
BY DEF PlanInit, Abstract!Init

\* Each operation maps to the abstract operation of its name
LEMMA AbstractStep ==
  PlanInv /\ SameFeasibility' /\ [PlanNext]_planVars =>
    [Abstract!Next]_Abstract!vars
<1> SUFFICES ASSUME PlanInv, SameFeasibility', [PlanNext]_planVars
             PROVE  [Abstract!Next]_Abstract!vars
  OBVIOUS
<1>1. CASE UNCHANGED planVars
  BY <1>1 DEF planVars, Abstract!vars
<1>2. CASE PlanNext
  <2>1. Abstract!Announce
    BY <1>2, SameFeasible, AddBusesReturns, ConfirmReturns, UnassignReturns
    DEF SameFeasibility, Abstract!Announce, PlanNext
  <2>2. ASSUME NEW new_buses \in SUBSET Buses \ {{}}, AddBuses(new_buses)
        PROVE  Abstract!Next
    BY <2>1, <2>2 DEF AddBuses, Abstract!AddBuses, Abstract!Next
  <2>3. ASSUME NEW b \in Buses, NEW p \in Ports, Confirm(b, p)
        PROVE  Abstract!Next
    <3>1. <<b, p>> \in FeasibleCandidates
      BY <2>3 DEF Confirm, FeasibleCandidates, Candidates
    <3>2. Abstract!SearchFeasible(b, p)
      BY <3>1, SameFeasible DEF SameFeasibility, Abstract!FeasibleSearches
    <3> QED
      BY <2>1, <2>3, <3>2
      DEF Confirm, Assign, Abstract!Assign, Abstract!Next
  <2>4. ASSUME NEW p \in Ports, Unassign(p)
        PROVE  Abstract!Next
    BY <2>1, <2>4 DEF Unassign, Abstract!Unassign, Abstract!Next
  <2> QED
    BY <1>2, <2>2, <2>3, <2>4 DEF PlanNext
<1> QED
  BY <1>1, <1>2

\* The plan implements the matching of buses and ports with its
\* announcements (PortAssignment).
THEOREM Refinement == PlanSpec => ImplementsAssignment
<1>1. PlanSpec => []PlanInv
  BY PlanInvariant
<1> QED
  BY <1>1, SameFeasible, AbstractInit, AbstractStep, PTL
  DEF PlanSpec, ImplementsAssignment, Abstract!Spec

=============================================================================
