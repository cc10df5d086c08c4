---------------------------- MODULE DriftProofs -----------------------------
(* Proofs about Drift, for all declarations, live resources, pages and ways  *)
(* to fold a name: the command's own query never yields a drift that is not  *)
(* there, although a resource is matched by its name alone, as long as that  *)
(* name is not a block label which is another resource's; and where the      *)
(* names and the page allow it, the report is the whole truth.               *)
EXTENDS Drift, FiniteSetTheorems, SequenceTheorems, WellFoundedInduction, TLAPS

\* Each row of the command's own query is a live resource, of a type that can
\* be compared, as it is.
RowsAreLive ==
  ~flags.query => \A i \in DOMAIN live : \E l \in cloud :
                    l.type \in ARMTypes /\ live[i] = Row(l, TRUE)

\* An answer that is not cut has them all.
AllAnswered ==
  pc = "compare" /\ ~flags.query /\ Cardinality(cloud) <= PageSize =>
    \A l \in cloud : l.type \in ARMTypes => \E i \in DOMAIN live : live[i] = Row(l, TRUE)

\* What is live for a declaration, and an attribute that differs from it.
Missing(i) == Comparable(declared[i]) /\ ~\E l \in cloud : Deployed(declared[i], l)
Differs(i, a) ==
  \E l \in cloud : /\ Deployed(declared[i], l)
                   /\ a \in DOMAIN declared[i].attributes
                   /\ a \in DOMAIN LiveAttributes(l)
                   /\ LiveAttributes(l)[a] # declared[i].attributes[a]

\* The report so far is that of the declarations before k.
ExactSoFar ==
  Favourable =>
    /\ notFound = {i \in 1..(k - 1) : Missing(i)}
    /\ \A f \in findings : f.resource \in 1..(k - 1)
    /\ \A i \in 1..(k - 1) : \A a :
         (\E f \in findings : f.resource = i /\ f.attribute = a) <=> Differs(i, a)

\* Every row is one of the cloud's, whole or without its properties.
RowsAreRows ==
  /\ DOMAIN live \subseteq Nat
  /\ \A i \in DOMAIN live : \E l \in cloud : \E whole \in BOOLEAN : live[i] = Row(l, whole)

\* What every step preserves.
IInv == /\ TypeOK /\ k <= Len(declared) + 1
        /\ RowsAreRows /\ RowsAreLive /\ AllAnswered /\ DriftIsReal /\ ExactSoFar
        /\ pc \in {"flags", "query"} => k = 1 /\ findings = {} /\ notFound = {}
-----------------------------------------------------------------------------
\* No property is known for two types (armAttrKeyMap): a row read as another
\* type has no attribute at all.
LEMMA KeysTellTypes ==
  ASSUME NEW s \in ARMTypes, NEW t \in ARMTypes, s # t
  PROVE  DOMAIN armAttrKeyMap[s] \cap DOMAIN armAttrKeyMap[t] = {}
BY DEF ARMTypes, armAttrKeyMap

\* A declaration that is compared is compared as one of the three types.
LEMMA ComparedType ==
  ASSUME NEW d, Comparable(d)
  PROVE  ArmType(d) \in ARMTypes
BY DEF Comparable, ArmType, ARMTypes, normalizedTypeToARMType

\* What is found has a first row.
LEMMA FirstRow ==
  ASSUME DOMAIN live \subseteq Nat, NEW name, findByName(name) # {}
  PROVE  (CHOOSE i \in findByName(name) : \A j \in findByName(name) : i <= j)
           \in findByName(name)
<1>1. findByName(name) \subseteq Nat
  BY DEF findByName
<1>2. PICK i \in findByName(name) :
        \A j \in findByName(name) : ~(<<j, i>> \in OpToRel(<, Nat))
  BY <1>1, WFMin, NatLessThanWellFounded, Zenon
<1>3. \A j \in findByName(name) : ~(j < i)
  BY <1>1, <1>2, Zenon DEF OpToRel
<1>4. \A j \in findByName(name) : i <= j
  BY <1>1, <1>3
<1> QED
  BY <1>4

\* An attribute of a row read as type t comes from a property known for t.
LEMMA AttributeHasKey ==
  ASSUME NEW t, NEW properties, NEW a \in DOMAIN CanonicalAttributes(t, properties)
  PROVE  DOMAIN armAttrKeyMap[t] \cap DOMAIN properties # {}
BY DEF CanonicalAttributes

\* So a difference is one to a live resource of the declared type.
LEMMA DifferenceIsReal ==
  ASSUME IInv, ~flags.query, NEW i, Comparable(declared[i]),
         NEW row \in findByName(Name(declared[i])),
         NEW f \in Differences(i, live[row])
  PROVE  \E l \in cloud : /\ l.type = ArmType(declared[i])
                          /\ Fold(l.name) = Fold(Name(declared[i]))
                          /\ f.attribute \in DOMAIN LiveAttributes(l)
                          /\ LiveAttributes(l)[f.attribute] = f.live
<1> DEFINE d == declared[i]
           attrs == CanonicalAttributes(ArmType(d), live[row].properties)
<1>1. PICK a \in DOMAIN d.attributes \cap DOMAIN attrs :
        f = [resource |-> i, attribute |-> a, declared |-> d.attributes[a], live |-> attrs[a]]
  BY DEF Differences
<1>2. row \in DOMAIN live /\ Fold(live[row].name) = Fold(Name(d))
  BY DEF findByName
<1>3. PICK l \in cloud : l.type \in ARMTypes /\ live[row] = Row(l, TRUE)
  BY <1>2 DEF IInv, RowsAreLive
<1>4. live[row].name = l.name /\ live[row].properties = l.properties
  BY <1>3 DEF Row
<1>5. DOMAIN l.properties \subseteq DOMAIN armAttrKeyMap[l.type]
  BY <1>3, DeployablesAssumption DEF IInv, TypeOK
<1>6. DOMAIN armAttrKeyMap[ArmType(d)] \cap DOMAIN l.properties # {}
  BY <1>1, <1>4, AttributeHasKey
<1>7. l.type = ArmType(d)
  BY <1>3, <1>5, <1>6, KeysTellTypes, ComparedType
<1>8. LiveAttributes(l) = attrs
  BY <1>4, <1>7 DEF LiveAttributes
<1> QED
  BY <1>1, <1>2, <1>4, <1>7, <1>8
-----------------------------------------------------------------------------
\* A list is its elements in the places 1..n.
LEMMA Listed ==
  ASSUME NEW T, NEW n \in Nat, NEW r \in [1..n -> T]
  PROVE  Len(r) = n /\ r \in Seq(T) /\ \A i \in 1..n : r[i] \in T
OBVIOUS

\* The attributes of a row come from its properties, and are scalars.
LEMMA AttributeText ==
  ASSUME NEW t, NEW properties, NEW a \in DOMAIN CanonicalAttributes(t, properties)
  PROVE  \E p \in DOMAIN properties :
           /\ CanonicalAttributes(t, properties)[a] = properties[p]
           /\ properties[p] # NotScalar
<1> DEFINE keyMap == armAttrKeyMap[t]
           known == {p \in DOMAIN keyMap \cap DOMAIN properties : properties[p] # NotScalar}
           key == CHOOSE p \in known : keyMap[p] = a
<1>1. a \in {keyMap[p] : p \in known}
  BY DEF CanonicalAttributes
<1>2. key \in known
  BY <1>1
<1>3. CanonicalAttributes(t, properties)[a] = properties[key]
  BY <1>1 DEF CanonicalAttributes
<1> HIDE DEF key
<1> QED
  BY <1>2, <1>3

\* A difference is of the type of a finding.
LEMMA DifferenceTypes ==
  ASSUME IInv, NEW i \in DOMAIN declared, NEW row \in DOMAIN live,
         NEW f \in Differences(i, live[row])
  PROVE  /\ f \in Findings /\ f.resource = i
         /\ f.attribute \in DOMAIN declared[i].attributes
         /\ f.declared = declared[i].attributes[f.attribute] /\ f.declared # f.live
<1> DEFINE d == declared[i]
           attrs == CanonicalAttributes(ArmType(d), live[row].properties)
<1>1. PICK a \in DOMAIN d.attributes \cap DOMAIN attrs :
        /\ f = [resource |-> i, attribute |-> a, declared |-> d.attributes[a], live |-> attrs[a]]
        /\ attrs[a] # d.attributes[a]
  BY DEF Differences
<1>2. d \in Declarations /\ i \in 1..MaxDeclared
  BY BoundsAssumption, ElementOfSeq DEF IInv, TypeOK
<1>3. a \in Attributes /\ d.attributes[a] \in Texts
  <2>1. d.attributes[a] \in {d.attributes[x] : x \in DOMAIN d.attributes}
    BY <1>1
  <2> QED
    BY <1>1, <1>2, <2>1, Zenon DEF Attributes, Texts
<1>4. PICK l \in cloud : \E whole \in BOOLEAN : live[row] = Row(l, whole)
  BY DEF IInv, RowsAreRows
<1>5. l \in Deployables /\ live[row].properties \in {l.properties, <<>>}
  BY <1>4 DEF IInv, TypeOK, Row
<1>6. PICK p \in DOMAIN live[row].properties :
        attrs[a] = live[row].properties[p] /\ live[row].properties[p] # NotScalar
  BY AttributeText
<1>7. live[row].properties = l.properties
  BY <1>5, <1>6
<1>8. attrs[a] \in Texts \ {NotScalar}
  <2>1. l.properties[p] \in {l.properties[x] : x \in DOMAIN l.properties}
    BY <1>6, <1>7
  <2>2. l.properties[p] \in Texts
    BY <1>5, <2>1, Zenon DEF Texts
  <2> QED
    BY <1>6, <1>7, <2>2
<1> QED
  BY <1>1, <1>2, <1>3, <1>8 DEF Findings
-----------------------------------------------------------------------------
\* Nothing is reported and no row is there before the query.
LEMMA InitInvariant == Init => IInv
<1> SUFFICES ASSUME Init PROVE IInv
  OBVIOUS
<1>1. declared \in Seq(Declarations) /\ Len(declared) <= MaxDeclared
  <2>1. PICK m \in 0..MaxDeclared : declared \in [1..m -> Declarations]
    BY DEF Init, BoundedSeq, SeqOf
  <2>2. m \in Nat /\ m <= MaxDeclared
    BY <2>1, BoundsAssumption
  <2> QED
    BY <2>1, <2>2, Listed
<1>2. TypeOK
  BY <1>1, BoundsAssumption DEF Init, TypeOK
<1>3. RowsAreRows /\ RowsAreLive /\ AllAnswered /\ DriftIsReal
  BY DEF Init, RowsAreRows, RowsAreLive, AllAnswered, DriftIsReal
<1>4. ExactSoFar
  BY DEF Init, ExactSoFar
<1> QED
  BY <1>2, <1>3, <1>4 DEF Init, IInv

\* What depends on the declarations and the cloud alone.
LEMMA SameWorld ==
  ASSUME declared' = declared, cloud' = cloud, flags' = flags
  PROVE  /\ Favourable' = Favourable
         /\ \A i : Missing(i)' = Missing(i)
         /\ \A i, a : Differs(i, a)' = Differs(i, a)
         /\ findings' = findings => DriftIsReal' = DriftIsReal
BY DEF Favourable, Missing, Differs, Deployed, LiveAttributes, LabelMisleads, DriftIsReal

\* The answer holds rows of the cloud, and all of them if it is not cut.
LEMMA QueryKeeps == IInv /\ Query => IInv'
<1> SUFFICES ASSUME IInv, Query PROVE IInv'
  OBVIOUS
<1>1. /\ declared' = declared /\ cloud' = cloud /\ flags' = flags /\ findings' = findings
      /\ k' = k /\ notFound' = notFound /\ pc = "query" /\ exit = -1
  BY DEF Query, IInv, TypeOK
<1>2. DriftIsReal' /\ ExactSoFar'
  BY <1>1, SameWorld DEF IInv, ExactSoFar
<1>3. \/ live' = live /\ pc' = "exited" /\ exit' = 1
      \/ pc' = "compare" /\ exit' = exit
  BY DEF Query, Exit, Goto
<1>4. Len(live') <= PageSize /\ RowsAreRows' /\ RowsAreLive' /\ AllAnswered'
  <2>1. CASE live' = live /\ pc' = "exited"
    BY <1>1, <2>1 DEF IInv, TypeOK, RowsAreRows, RowsAreLive, AllAnswered
  <2>2. CASE pc' = "compare"
    <3> DEFINE S == {l \in cloud : Selected(l)}
    <3>1. PICK rows \in SetToSeqs(S), whole \in IF flags.query THEN BOOLEAN ELSE {TRUE} :
            live' = [i \in 1..(IF Len(rows) < PageSize THEN Len(rows) ELSE PageSize)
                       |-> Row(rows[i], whole)]
      BY <2>2 DEF Query, Exit
    <3> DEFINE n == IF Len(rows) < PageSize THEN Len(rows) ELSE PageSize
    <3>2. /\ IsFiniteSet(S) /\ Cardinality(S) \in Nat /\ Cardinality(cloud) \in Nat
          /\ Cardinality(S) <= Cardinality(cloud)
      <4>1. IsFiniteSet(cloud)
        BY FiniteAssumption, FS_Subset DEF IInv, TypeOK
      <4> QED
        BY <4>1, FS_Subset, FS_CardinalityType
    <3>3. /\ Len(rows) = Cardinality(S) /\ \A i \in 1..Len(rows) : rows[i] \in S
          /\ \A l \in S : \E i \in 1..Len(rows) : rows[i] = l
      <4>1. SetToSeqs(S) \subseteq [1..Cardinality(S) -> S]
        BY Zenon DEF SetToSeqs
      <4>2. rows \in [1..Cardinality(S) -> S]
        BY <4>1
      <4>3. \A i, j \in 1..Cardinality(S) : i # j => rows[i] # rows[j]
        BY <3>1, Zenon DEF SetToSeqs
      <4>4. rows \in Injection(1..Cardinality(S), S)
        BY <4>2, <4>3 DEF Injection, IsInjective
      <4>5. Cardinality(1..Cardinality(S)) = Cardinality(S)
        BY <3>2, FS_Interval
      <4>6. rows \in Surjection(1..Cardinality(S), S)
        BY <3>2, <4>4, <4>5, FS_Injection
      <4>7. \A l \in S : \E i \in 1..Cardinality(S) : rows[i] = l
        BY <4>6 DEF Surjection
      <4> HIDE DEF S
      <4>8. Len(rows) = Cardinality(S) /\ \A i \in 1..Cardinality(S) : rows[i] \in S
        BY <3>2, <4>2, Listed
      <4> QED
        BY <4>7, <4>8
    <3>4. n \in Nat /\ n <= Len(rows) /\ n <= PageSize
      BY <3>2, <3>3, BoundsAssumption
    <3>5. live' = [i \in 1..n |-> Row(rows[i], whole)]
      BY <3>1
    <3>6. Cardinality(cloud) <= PageSize => n = Len(rows)
      BY <3>2, <3>3, BoundsAssumption
    <3> HIDE DEF n
    <3>7. DOMAIN live' = 1..n /\ Len(live') = n
      BY <3>4, <3>5
    <3>8. \A i \in 1..n : i \in 1..Len(rows)
      BY <3>2, <3>3, <3>4
    <3>9. ASSUME NEW i \in DOMAIN live'
          PROVE  /\ rows[i] \in cloud /\ live'[i] = Row(rows[i], whole)
                 /\ ~flags.query => rows[i].type \in ARMTypes /\ whole = TRUE
      BY <3>1, <3>3, <3>5, <3>7, <3>8, <3>9 DEF Selected
    <3>10. whole \in BOOLEAN
      BY <3>1
    <3>11. RowsAreLive' /\ RowsAreRows'
      <4>1. DOMAIN live' \subseteq Nat
        BY <3>4, <3>7
      <4>2. \A i \in DOMAIN live' : \E l \in cloud : \E w \in BOOLEAN : live'[i] = Row(l, w)
        BY <3>9, <3>10, Zenon
      <4>3. ~flags.query => \A i \in DOMAIN live' :
              \E l \in cloud : l.type \in ARMTypes /\ live'[i] = Row(l, TRUE)
        BY <3>9
      <4> QED
        BY <1>1, <4>1, <4>2, <4>3, Zenon DEF RowsAreLive, RowsAreRows
    <3>12. ASSUME ~flags.query, Cardinality(cloud) <= PageSize,
                  NEW l \in cloud, l.type \in ARMTypes
           PROVE  \E i \in DOMAIN live' : live'[i] = Row(l, TRUE)
      <4>1. l \in S
        BY <3>12 DEF Selected
      <4>2. PICK i \in 1..Len(rows) : rows[i] = l
        BY <3>3, <4>1
      <4>3. i \in DOMAIN live'
        BY <3>6, <3>7, <3>12, <4>2
      <4> QED
        BY <3>9, <3>12, <4>2, <4>3
    <3>13. AllAnswered'
      BY <1>1, <3>12 DEF AllAnswered
    <3> QED
      BY <3>4, <3>7, <3>11, <3>13
  <2> QED
    BY <1>3, <2>1, <2>2
<1>5. TypeOK'
  BY <1>1, <1>3, <1>4 DEF IInv, TypeOK
<1> QED
  BY <1>1, <1>2, <1>3, <1>4, <1>5 DEF IInv

\* What one turn of the loop does.
LEMMA CompareNextIs ==
  ASSUME IInv, CompareNext
  PROVE  /\ UNCHANGED <<declared, cloud, flags, pc, live, exit>>
         /\ pc = "compare" /\ k \in DOMAIN declared /\ k' = k + 1
         /\ \/ /\ ~Comparable(declared[k])
               /\ findings' = findings /\ notFound' = notFound
            \/ /\ Comparable(declared[k]) /\ findByName(Name(declared[k])) = {}
               /\ findings' = findings /\ notFound' = notFound \cup {k}
            \/ /\ Comparable(declared[k]) /\ notFound' = notFound
               /\ \E row \in findByName(Name(declared[k])) :
                    findings' = findings \cup Differences(k, live[row])
<1> DEFINE rows == findByName(Name(declared[k]))
           first == CHOOSE i \in rows : \A j \in rows : i <= j
<1>1. /\ UNCHANGED <<declared, cloud, flags, pc, live, exit>>
      /\ pc = "compare" /\ k <= Len(declared) /\ k' = k + 1
  BY DEF CompareNext
<1>2. k \in DOMAIN declared
  BY <1>1, BoundsAssumption DEF IInv, TypeOK
<1>3. \/ /\ ~Comparable(declared[k])
         /\ findings' = findings /\ notFound' = notFound
      \/ /\ Comparable(declared[k]) /\ rows = {}
         /\ findings' = findings /\ notFound' = notFound \cup {k}
      \/ /\ Comparable(declared[k]) /\ rows # {} /\ notFound' = notFound
         /\ findings' = findings \cup Differences(k, live[first])
  BY DEF CompareNext
<1>4. rows # {} => first \in rows
  BY FirstRow DEF IInv, RowsAreRows
<1> HIDE DEF rows, first
<1> QED
  BY <1>1, <1>2, <1>3, <1>4 DEF rows

\* Under the favourable conditions, what is found by its name is what the
\* declaration stands for.
LEMMA FoundIsDeployed ==
  ASSUME IInv, Favourable, pc = "compare", NEW i \in DOMAIN declared,
         Comparable(declared[i])
  PROVE  /\ \A row \in findByName(Name(declared[i])) :
              \E l \in cloud : live[row] = Row(l, TRUE) /\ Deployed(declared[i], l)
         /\ \A l \in cloud : Deployed(declared[i], l) => findByName(Name(declared[i])) # {}
<1> DEFINE d == declared[i]
<1>1. Fold(Name(d)) = Fold(d.name) /\ ~flags.query
  BY DEF Favourable
<1>2. ASSUME NEW row \in findByName(Name(d))
      PROVE  \E l \in cloud : live[row] = Row(l, TRUE) /\ Deployed(d, l)
  <2>1. row \in DOMAIN live /\ Fold(live[row].name) = Fold(Name(d))
    BY <1>2 DEF findByName
  <2>2. PICK l \in cloud : live[row] = Row(l, TRUE)
    BY <1>1, <2>1 DEF IInv, RowsAreLive
  <2>3. Fold(l.name) = Fold(d.name)
    BY <1>1, <2>1, <2>2 DEF Row
  <2> QED
    BY <2>2, <2>3 DEF Favourable
<1>3. ASSUME NEW l \in cloud, Deployed(d, l)
      PROVE  findByName(Name(d)) # {}
  <2>1. l.type \in ARMTypes /\ Fold(l.name) = Fold(Name(d))
    BY <1>1, <1>3, ComparedType DEF Deployed
  <2>2. PICK row \in DOMAIN live : live[row] = Row(l, TRUE)
    BY <1>1, <2>1 DEF IInv, AllAnswered, Favourable
  <2>3. live[row].name = l.name
    BY <2>2 DEF Row
  <2> QED
    BY <2>1, <2>2, <2>3 DEF findByName
<1> QED
  BY <1>2, <1>3

\* Then the differences are those to it.
LEMMA DifferencesAreAll ==
  ASSUME IInv, Favourable, pc = "compare", NEW i \in DOMAIN declared,
         Comparable(declared[i]), NEW row \in findByName(Name(declared[i])), NEW a
  PROVE  (\E f \in Differences(i, live[row]) : f.attribute = a) <=> Differs(i, a)
<1> DEFINE d == declared[i]
<1>1. PICK l \in cloud : live[row] = Row(l, TRUE) /\ Deployed(d, l)
  BY FoundIsDeployed
<1>2. CanonicalAttributes(ArmType(d), live[row].properties) = LiveAttributes(l)
  BY <1>1 DEF Row, Deployed, LiveAttributes
<1>3. \A m \in cloud : Deployed(d, m) => m = l
  BY <1>1 DEF Deployed, Favourable
<1>4. Differs(i, a) <=> /\ a \in DOMAIN d.attributes \cap DOMAIN LiveAttributes(l)
                        /\ LiveAttributes(l)[a] # d.attributes[a]
  BY <1>1, <1>3 DEF Differs
<1> DEFINE attrs == LiveAttributes(l)
           x == {y \in DOMAIN d.attributes \cap DOMAIN attrs : attrs[y] # d.attributes[y]}
           finding(y) == [resource |-> i, attribute |-> y, declared |-> d.attributes[y],
                          live |-> attrs[y]]
<1>5. Differences(i, live[row]) = {finding(y) : y \in x}
  BY <1>2 DEF Differences
<1>6. \A y : finding(y).attribute = y
  OBVIOUS
<1>7. a \in x <=> Differs(i, a)
  BY <1>4
<1> HIDE DEF x, finding
<1>8. (\E f \in {finding(y) : y \in x} : f.attribute = a) <=> a \in x
  BY <1>6
<1> QED
  BY <1>5, <1>7, <1>8

\* So the report is exact up to the next declaration.
LEMMA CompareIsExact ==
  ASSUME IInv, CompareNext, Favourable
  PROVE  /\ notFound' = {i \in 1..k : Missing(i)}
         /\ \A f \in findings' : f.resource \in 1..k
         /\ \A i \in 1..k : \A a :
              (\E f \in findings' : f.resource = i /\ f.attribute = a) <=> Differs(i, a)
<1>1. /\ pc = "compare" /\ k \in DOMAIN declared /\ k \in Nat /\ k >= 1
      /\ 1..k = 1..(k - 1) \cup {k} /\ k \notin 1..(k - 1)
  BY CompareNextIs, BoundsAssumption DEF IInv, TypeOK
<1>2. /\ notFound = {i \in 1..(k - 1) : Missing(i)}
      /\ \A f \in findings : f.resource \in 1..(k - 1)
      /\ \A i \in 1..(k - 1) : \A a :
           (\E f \in findings : f.resource = i /\ f.attribute = a) <=> Differs(i, a)
  BY DEF IInv, ExactSoFar
<1> DEFINE d == declared[k]
<1>3. CASE ~Comparable(d)
  <2>1. findings' = findings /\ notFound' = notFound
    BY <1>3, CompareNextIs
  <2>2. ~Missing(k) /\ \A a : ~Differs(k, a)
    BY <1>3 DEF Missing, Differs, Deployed
  <2> QED
    BY <1>1, <1>2, <2>1, <2>2
<1>4. CASE Comparable(d) /\ findByName(Name(d)) = {}
  <2>1. findings' = findings /\ notFound' = notFound \cup {k}
    BY <1>4, CompareNextIs
  <2>2. Missing(k) /\ \A a : ~Differs(k, a)
    BY <1>1, <1>4, FoundIsDeployed DEF Missing, Differs
  <2> QED
    BY <1>1, <1>2, <2>1, <2>2
<1>5. CASE Comparable(d) /\ findByName(Name(d)) # {}
  <2>1. PICK row \in findByName(Name(d)) :
          findings' = findings \cup Differences(k, live[row]) /\ notFound' = notFound
    BY <1>5, CompareNextIs
  <2>2. ~Missing(k)
    BY <1>1, <1>5, <2>1, FoundIsDeployed DEF Missing
  <2>3. \A f \in Differences(k, live[row]) : f.resource = k
    BY <1>1, DifferenceTypes, <2>1 DEF findByName
  <2>4. \A a : (\E f \in Differences(k, live[row]) : f.attribute = a) <=> Differs(k, a)
    BY <1>1, <1>5, <2>1, DifferencesAreAll
  <2>5. \A f \in findings' : f \in findings \/ f \in Differences(k, live[row])
    BY <2>1
  <2>6. \A f \in findings' : f.resource \in 1..k
    BY <1>1, <1>2, <2>3, <2>5
  <2>7. ASSUME NEW i \in 1..k, NEW a
        PROVE  (\E f \in findings' : f.resource = i /\ f.attribute = a) <=> Differs(i, a)
    <3>1. CASE i = k
      BY <1>1, <1>2, <2>1, <2>3, <2>4, <3>1
    <3>2. CASE i \in 1..(k - 1)
      BY <1>1, <1>2, <2>1, <2>3, <3>2
    <3> QED
      BY <1>1, <3>1, <3>2
  <2>8. notFound' = {i \in 1..k : Missing(i)}
    BY <1>1, <1>2, <2>1, <2>2
  <2> QED
    BY <2>6, <2>7, <2>8
<1> QED
  BY <1>3, <1>4, <1>5

\* A turn of the loop adds real differences only, and under the favourable
\* conditions all of them.
LEMMA CompareKeeps == IInv /\ CompareNext => IInv'
<1> SUFFICES ASSUME IInv, CompareNext PROVE IInv'
  OBVIOUS
<1>1. /\ UNCHANGED <<declared, cloud, flags, pc, live, exit>>
      /\ pc = "compare" /\ k \in DOMAIN declared /\ k' = k + 1
  BY CompareNextIs
<1>2. ASSUME NEW f \in findings', f \notin findings
      PROVE  /\ f \in Findings /\ f.resource = k /\ Comparable(declared[k])
             /\ f.attribute \in DOMAIN declared[k].attributes
             /\ f.declared = declared[k].attributes[f.attribute] /\ f.declared # f.live
             /\ \E row \in findByName(Name(declared[k])) : f \in Differences(k, live[row])
  <2>1. PICK row \in findByName(Name(declared[k])) : f \in Differences(k, live[row])
    BY <1>2, CompareNextIs
  <2>2. row \in DOMAIN live
    BY <2>1 DEF findByName
  <2>3. /\ f \in Findings /\ f.resource = k
        /\ f.attribute \in DOMAIN declared[k].attributes
        /\ f.declared = declared[k].attributes[f.attribute] /\ f.declared # f.live
    BY <1>1, <2>1, <2>2, DifferenceTypes
  <2>4. Comparable(declared[k])
    BY <1>2, CompareNextIs
  <2> QED
    BY <2>1, <2>3, <2>4
<1>3. TypeOK'
  <2>1. k' \in 1..(MaxDeclared + 1) /\ notFound' \subseteq DOMAIN declared
    BY <1>1, CompareNextIs, BoundsAssumption DEF IInv, TypeOK
  <2>2. findings' \subseteq Findings
    BY <1>2 DEF IInv, TypeOK
  <2> QED
    BY <1>1, <2>1, <2>2 DEF IInv, TypeOK
<1>4. DriftIsReal'
  <2> SUFFICES ASSUME NEW f \in findings', NEW d, d = declared[f.resource]
               PROVE  /\ f.attribute \in DOMAIN d.attributes
                      /\ f.declared = d.attributes[f.attribute] /\ f.declared # f.live
                      /\ ~flags.query /\ ~LabelMisleads(d) =>
                           \E l \in cloud : /\ Deployed(d, l)
                                            /\ f.attribute \in DOMAIN LiveAttributes(l)
                                            /\ LiveAttributes(l)[f.attribute] = f.live
    BY <1>1 DEF DriftIsReal, LabelMisleads, Deployed, LiveAttributes
  <2>1. CASE f \in findings
    BY <2>1 DEF IInv, DriftIsReal
  <2>2. CASE f \notin findings
    <3>1. ASSUME ~flags.query, ~LabelMisleads(d)
          PROVE  \E l \in cloud : /\ Deployed(d, l)
                                  /\ f.attribute \in DOMAIN LiveAttributes(l)
                                  /\ LiveAttributes(l)[f.attribute] = f.live
      <4>1. PICK l \in cloud : /\ l.type = ArmType(d) /\ Fold(l.name) = Fold(Name(d))
                               /\ f.attribute \in DOMAIN LiveAttributes(l)
                               /\ LiveAttributes(l)[f.attribute] = f.live
        BY <1>2, <2>2, <3>1, DifferenceIsReal
      <4> QED
        BY <3>1, <4>1 DEF LabelMisleads
    <3> QED
      BY <1>2, <2>2, <3>1
  <2> QED
    BY <2>1, <2>2
<1>5. ExactSoFar'
  <2>1. k' - 1 = k /\ Favourable' = Favourable
    BY <1>1, SameWorld, BoundsAssumption DEF IInv, TypeOK
  <2>2. \A i : Missing(i)' = Missing(i)
    BY <1>1, SameWorld
  <2>3. \A i, a : Differs(i, a)' = Differs(i, a)
    BY <1>1, SameWorld
  <2> QED
    BY <2>1, <2>2, <2>3, CompareIsExact DEF ExactSoFar
<1>6. k' <= Len(declared') + 1 /\ pc' \notin {"flags", "query"}
  BY <1>1, BoundsAssumption DEF IInv, TypeOK
<1> QED
  BY <1>1, <1>3, <1>4, <1>5, <1>6 DEF IInv, RowsAreLive, RowsAreRows, AllAnswered

\* Every step keeps the invariant.
LEMMA StepInvariant == IInv /\ [Next]_vars => IInv'
<1> SUFFICES ASSUME IInv, [Next]_vars PROVE IInv'
  OBVIOUS
<1>1. CASE ParseFlags \/ Finish \/ UNCHANGED vars
  <2>1. /\ UNCHANGED <<declared, cloud, flags, live, k, findings, notFound>>
        /\ \/ pc' = pc /\ exit' = exit
           \/ pc = "flags" /\ pc' = "query" /\ exit' = exit
           \/ pc' = "exited" /\ exit' \in {0, 1, 2}
    BY <1>1 DEF ParseFlags, Finish, vars, Exit, Goto
  <2>2. TypeOK'
    BY <2>1 DEF IInv, TypeOK
  <2>3. ExactSoFar' /\ DriftIsReal'
    BY <2>1, SameWorld DEF IInv, ExactSoFar
  <2> QED
    BY <2>1, <2>2, <2>3 DEF IInv, RowsAreLive, RowsAreRows, AllAnswered
<1> QED
  BY <1>1, QueryKeeps, CompareKeeps DEF Next

\* The invariant holds throughout.
LEMMA DriftInvariance == Spec => []IInv
BY InitInvariant, StepInvariant, PTL DEF Spec
-----------------------------------------------------------------------------
\* The types of a drift run.
THEOREM TypeCorrect == Spec => []TypeOK
<1>1. IInv => TypeOK
  BY DEF IInv
<1> QED
  BY <1>1, DriftInvariance, PTL

\* Where every row is in the answer, live names are distinct up to case and
\* declarations carry the names of what they stand for, missing resources and
\* differing attributes are exactly those of the cloud.
THEOREM WholeTruth == Spec => []ReportIsExact
<1>1. IInv => ReportIsExact
  <2> SUFFICES ASSUME IInv, Compared, Favourable
               PROVE  /\ notFound = {i \in DOMAIN declared : Missing(i)}
                      /\ \A i \in DOMAIN declared, a \in Attributes :
                           (\E f \in findings : f.resource = i /\ f.attribute = a)
                             <=> Differs(i, a)
    BY DEF ReportIsExact, Missing, Differs
  <2>1. 1..(k - 1) = DOMAIN declared
    BY BoundsAssumption DEF IInv, TypeOK, Compared
  <2> QED
    BY <2>1 DEF IInv, ExactSoFar
<1> QED
  BY <1>1, DriftInvariance, PTL

\* Every finding is of a declared and a live value that differ; with the
\* command's own query, and a label that is no other resource's name, the live
\* value is that of the resource declared, however rows are ordered and cut and
\* whoever else has its name.
THEOREM NoInventedDrift == Spec => []DriftIsReal
<1>1. IInv => DriftIsReal
  BY DEF IInv
<1> QED
  BY <1>1, DriftInvariance, PTL
=============================================================================
