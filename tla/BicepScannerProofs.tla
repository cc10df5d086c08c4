------------------------- MODULE BicepScannerProofs -------------------------
(* Why two counters are enough: for any key map and any file of the layout,  *)
(* of any length, the scanner's counters are functions of the blocks the     *)
(* line is in, so it takes exactly the pairs a resource declares.            *)
EXTENDS BicepScanner, SequenceTheorems, TLAPS

\* The inductive invariant: a resource in scanning has a type of the map's, and
\* the counters tell the path.
IInv == TypeOK /\ (InResource => r.type \in Types) /\ CountersTellPath

\* In a block of a resource that is, or is within, `properties`.
Within == InResource /\ Len(path) >= 2 /\ path[2] = "properties"

\* A resource stays one, of its type, when an attribute is set (what
\* ParseFile's assignments to r may do).
LEMMA WithAttributeType ==
  ASSUME NEW x \in Resources, NEW k, NEW v \in Values \cup Names
  PROVE  WithAttribute(x, k, v) \in Resources /\ WithAttribute(x, k, v).type = x.type
<1>1. CASE k \in Mapped(x.type)
  <2> DEFINE c == armAttrKeyMap[x.type][k]
  <2>1. WithAttribute(x, k, v) = [x EXCEPT !.attributes = [x.attributes EXCEPT ![c] = v]]
    BY <1>1 DEF WithAttribute
  <2>2. [x.attributes EXCEPT ![c] = v] \in [CanonicalKeys -> Values \cup Names \cup {Absent}]
    BY DEF Resources
  <2> HIDE DEF c
  <2> DEFINE a == [x.attributes EXCEPT ![c] = v]
  <2>3. [x EXCEPT !.attributes = a] \in Resources /\ [x EXCEPT !.attributes = a].type = x.type
    <3> HIDE DEF a
    <3> QED
      BY <2>2 DEF Resources, a
  <2> QED
    BY <2>1, <2>3
<1>2. CASE k \notin Mapped(x.type)
  BY <1>2 DEF WithAttribute
<1> QED
  BY <1>1, <1>2

\* A resource with a default for its name is one (ParseFile's `unnamed`).
LEMMA NameOrType ==
  ASSUME NEW x \in Resources
  PROVE  NameOr(x, Unnamed) \in Resources
BY DEF NameOr, Resources

\* No resource, and the resource a header begins, are in the type (the literal
\* ParseFile starts with).
LEMMA BlankType ==
  /\ Nothing \in Resources
  /\ \A t \in Types : Blank(t) \in Resources /\ Blank(t).type = t
BY DEF Nothing, Blank, Resources

\* A path without its last block (what a closing brace leaves).
LEMMA Outer ==
  ASSUME NEW s \in Seq(Blocks), Len(s) > 0
  PROVE  /\ SubSeq(s, 1, Len(s) - 1) \in Seq(Blocks)
         /\ Len(SubSeq(s, 1, Len(s) - 1)) = Len(s) - 1
         /\ \A i \in 1..(Len(s) - 1) : SubSeq(s, 1, Len(s) - 1)[i] = s[i]
<1> DEFINE n == Len(s) - 1
<1>1. n \in Nat /\ \A i \in 1..n : s[i] \in Blocks
  BY LenProperties, ElementOfSeq
<1> HIDE DEF n
<1>2. /\ SubSeq(s, 1, n) \in Seq(Blocks)
      /\ Len(SubSeq(s, 1, n)) = IF 1 <= n THEN n - 1 + 1 ELSE 0
      /\ \A i \in 1..(n - 1 + 1) : SubSeq(s, 1, n)[i] = s[1 + i - 1]
  BY <1>1, SubSeqProperties
<1>3. Len(SubSeq(s, 1, n)) = n
  <2>1. CASE n = 0
    BY <1>2, <2>1
  <2>2. CASE n > 0
    BY <1>1, <1>2, <2>2
  <2> QED
    BY <1>1, <2>1, <2>2
<1>4. ASSUME NEW i \in 1..n PROVE SubSeq(s, 1, n)[i] = s[i]
  <2>1. i \in 1..(n - 1 + 1) /\ 1 + i - 1 = i
    BY <1>1
  <2> QED
    BY <1>2, <2>1
<1> QED
  BY <1>2, <1>3, <1>4 DEF n

\* Only the empty path has no block.
LEMMA NoBlock ==
  ASSUME NEW s \in Seq(Blocks)
  PROVE  s # <<>> <=> Len(s) > 0
BY EmptySeq

\* The depth counts the blocks, and the cases Capture tells apart are told
\* apart by the two counters.
LEMMA DepthTells ==
  ASSUME IInv
  PROVE  /\ Len(path) \in Nat
         /\ depth \in Nat
         /\ InResource <=> depth > 0
         /\ InResource => depth = Len(path)
         /\ AtTop <=> depth = 1
         /\ InProperties <=> Within /\ depth = 2
         /\ propertiesDepth = IF Within THEN 2 ELSE 0
<1>1. path \in Seq(Blocks) /\ Len(path) \in Nat
  BY LenProperties DEF IInv, TypeOK
<1>2. path # <<>> <=> Len(path) > 0
  BY <1>1, EmptySeq
<1>3. AtTop <=> Len(path) = 1 /\ path[1] = "resource"
  BY <1>1 DEF AtTop
<1>4. InProperties <=> Len(path) = 2 /\ path[1] = "resource" /\ path[2] = "properties"
  BY <1>1 DEF InProperties
<1>5. depth = IF InResource THEN Len(path) ELSE 0
  BY DEF IInv, CountersTellPath
<1>6. propertiesDepth = IF Within THEN 2 ELSE 0
  BY <1>1, <1>2 DEF IInv, CountersTellPath, Within, InResource
<1> QED
  BY <1>1, <1>2, <1>3, <1>4, <1>5, <1>6 DEF InResource, Within

\* What is left to show of a step that moves the counters with the path.
LEMMA Rebuild ==
  ASSUME TypeOK, path' \in Seq(Blocks), Len(path') <= MaxDepth,
         depth' = IF InResource' THEN Len(path') ELSE 0,
         propertiesDepth' = IF Within' THEN 2 ELSE 0,
         r' \in Resources, InResource' => r'.type \in Types,
         ~InResource' => r' = Nothing,
         resources' \in Seq(Resources),
         declared' = [found |-> resources', current |-> r']
  PROVE  IInv'
<1>1. Len(path') \in Nat /\ (path' # <<>> <=> Len(path') > 0)
  BY LenProperties, EmptySeq
<1>2. MaxDepth \in Nat
  BY BoundsAssumption
<1>3. depth' \in 0..MaxDepth /\ propertiesDepth' \in {0, 2}
  BY <1>1, <1>2
<1>4. declared' \in [found : Seq(Resources), current : Resources]
      /\ declared'.current = r' /\ declared'.found = resources'
  OBVIOUS
<1>5. TypeOK'
  BY <1>3, <1>4 DEF TypeOK
<1>6. CountersTellPath'
  BY <1>1, <1>4 DEF CountersTellPath, Within, InResource
<1> QED
  BY <1>5, <1>6 DEF IInv

\* The found and the current resource are all there is to `declared`.
LEMMA DeclaredIs ==
  ASSUME IInv
  PROVE  declared = [found |-> resources, current |-> r]
BY DEF IInv, TypeOK, CountersTellPath

\* An opened block is one more on the path; as `properties` at the second level
\* it sets the second counter, anywhere else it leaves it (ScanLine on a line
\* that ends in a brace).
LEMMA OpenBlockKeeps ==
  ASSUME IInv, NEW b \in {"properties", "other"}, OpenBlock(b)
  PROVE  IInv'
<1> USE DepthTells
<1>1. path \in Seq(Blocks) /\ b \in Blocks
  BY DEF IInv, TypeOK, Blocks
<1>2. /\ path' = Append(path, b)
      /\ path' \in Seq(Blocks)
      /\ Len(path') = Len(path) + 1
      /\ \A i \in 1..Len(path) : path'[i] = path[i]
      /\ path'[Len(path) + 1] = b
  BY <1>1, AppendProperties DEF OpenBlock
<1>3. Len(path') <= MaxDepth
  BY <1>2, BoundsAssumption DEF OpenBlock
<1>4. declared' = declared
  BY DEF OpenBlock
<1>5. resources \in Seq(Resources) /\ r \in Resources
  BY DEF IInv, TypeOK
<1>6. CASE InResource
  <2>1. depth > 0 /\ depth = Len(path) /\ path[1] = "resource" /\ path # <<>>
    BY <1>6 DEF InResource
  <2>2. ScanLine(Opening(b))
    BY <2>1 DEF OpenBlock, Scan
  <2>3. depth' = depth + 1
    BY <2>2 DEF ScanLine, Opening
  <2>4. /\ r' = r /\ resources' = resources
        /\ propertiesDepth' = PropertiesAfter(Opening(b))
    BY <2>1, <2>2 DEF ScanLine, Opening, Capture
  <2>5. propertiesDepth' = IF depth = 1 /\ b = "properties" THEN 2 ELSE propertiesDepth
    BY <2>1, <2>4 DEF PropertiesAfter, Opening
  <2>6. InResource' /\ (Within' <=> IF depth = 1 THEN b = "properties" ELSE Within)
    BY <1>2, <1>6, <2>1, EmptySeq DEF InResource, Within
  <2>7. propertiesDepth' = IF Within' THEN 2 ELSE 0
    <3>1. CASE depth = 1
      <4>1. ~Within
        BY <2>1, <3>1 DEF Within
      <4>2. CASE b = "properties"
        BY <2>5, <2>6, <3>1, <4>2
      <4>3. CASE b # "properties"
        BY <2>5, <2>6, <3>1, <4>1, <4>3
      <4> QED
        BY <4>2, <4>3
    <3>2. CASE depth # 1 /\ Within
      BY <2>5, <2>6, <3>2
    <3>3. CASE depth # 1 /\ ~Within
      BY <2>5, <2>6, <3>3
    <3> QED
      BY <3>1, <3>2, <3>3
  <2>8. /\ TypeOK
        /\ InResource' => r'.type \in Types
        /\ depth' = IF InResource' THEN Len(path') ELSE 0
    BY <1>2, <1>6, <2>1, <2>3, <2>4, <2>6 DEF IInv
  <2>9. declared' = [found |-> resources', current |-> r']
    BY <1>4, <2>4, DeclaredIs
  <2> QED
    BY <1>2, <1>3, <1>5, <2>4, <2>6, <2>7, <2>8, <2>9, Rebuild
<1>7. CASE ~InResource
  <2>1. UNCHANGED <<depth, propertiesDepth, r, resources>>
    BY <1>7 DEF OpenBlock, Scan
  <2>2. ~InResource'
    <3>1. CASE path = <<>>
      BY <1>2, <3>1, EmptySeq DEF InResource
    <3>2. CASE path # <<>>
      BY <1>1, <1>2, <1>7, <3>2, EmptySeq DEF InResource
    <3> QED
      BY <3>1, <3>2
  <2>3. ~Within' /\ ~Within
    BY <1>7, <2>2 DEF Within
  <2>4. depth' = 0 /\ propertiesDepth' = 0 /\ r' = Nothing /\ TypeOK
    BY <1>7, <2>1, <2>3 DEF IInv, CountersTellPath
  <2>5. declared' = [found |-> resources', current |-> r']
    BY <1>4, <2>1, DeclaredIs
  <2> QED
    BY <1>2, <1>3, <1>5, <2>1, <2>2, <2>3, <2>4, <2>5, Rebuild
<1> QED
  BY <1>6, <1>7

\* A line that stays on its level keeps the counters where they are, even one
\* with `properties` opened and closed within it.
LEMMA SameLevel ==
  ASSUME IInv, NEW line, line.opens \in Nat, line.closes = line.opens,
         line.header = "properties" => line.opens > 0,
         Scan(line), path' = path
  PROVE  /\ depth' = depth /\ propertiesDepth' = propertiesDepth
         /\ resources' = resources
         /\ ~InResource => r' = r
         /\ InResource => r' = Capture(line, depth) /\ PropertiesAfter(line) = propertiesDepth
<1> USE DepthTells
<1>1. CASE InResource
  <2>1. ScanLine(line) /\ depth > 0
    BY <1>1 DEF Scan
  <2>2. depth' = depth /\ depth + line.opens - line.closes = depth
    BY <2>1 DEF ScanLine
  <2>3. /\ propertiesDepth' = PropertiesAfter(line) /\ r' = Capture(line, depth)
        /\ resources' = resources
    BY <2>1, <2>2 DEF ScanLine
  <2>4. PropertiesAfter(line) = propertiesDepth
    BY <1>1, <2>1, <2>2 DEF PropertiesAfter, Within
  <2> QED
    BY <1>1, <2>2, <2>3, <2>4
<1>2. CASE ~InResource
  BY <1>2 DEF Scan
<1> QED
  BY <1>1, <1>2

\* The path as it was: the counters tell it if they did, whatever the line
\* made of the resource.
LEMMA SamePath ==
  ASSUME IInv, path' = path, depth' = depth, propertiesDepth' = propertiesDepth,
         resources' = resources, r' \in Resources, r'.type = r.type,
         ~InResource => r' = r,
         declared' = [found |-> resources', current |-> r']
  PROVE  IInv'
<1>1. (InResource' <=> InResource) /\ (Within' <=> Within)
  BY DEF InResource, Within
<1>2. depth' = IF InResource' THEN Len(path') ELSE 0
  BY <1>1 DEF IInv, CountersTellPath
<1>3. propertiesDepth' = IF Within' THEN 2 ELSE 0
  BY <1>1, DepthTells
<1>4. ~InResource' => r' = Nothing
  BY <1>1 DEF IInv, CountersTellPath
<1>5. /\ TypeOK /\ path' \in Seq(Blocks) /\ Len(path') <= MaxDepth
      /\ resources' \in Seq(Resources)
      /\ InResource' => r'.type \in Types
  BY <1>1 DEF IInv, TypeOK
<1> QED
  BY <1>2, <1>3, <1>4, <1>5, Rebuild

\* A line without a pair, on its level, changes nothing at all.
LEMMA InlineBlockKeeps ==
  ASSUME IInv, NEW b \in {"properties", "other"}, InlineBlock(b)
  PROVE  IInv'
<1> DEFINE line == Inline(b)
<1>1. /\ line.opens = 1 /\ line.closes = 1 /\ line.key = Absent
  BY DEF Inline
<1>2. Scan(line) /\ path' = path /\ declared' = declared
  BY DEF InlineBlock
<1> HIDE DEF line
<1>3. /\ depth' = depth /\ propertiesDepth' = propertiesDepth
      /\ resources' = resources
      /\ ~InResource => r' = r
      /\ InResource => r' = Capture(line, depth)
  BY <1>1, <1>2, SameLevel
<1>4. Capture(line, depth) = r
  BY <1>1 DEF Capture
<1>5. r' = r /\ r \in Resources
  BY <1>3, <1>4 DEF IInv, TypeOK
<1> QED
  BY <1>2, <1>3, <1>5, DeclaredIs, SamePath

\* A pair is captured exactly where it is declared: at the resource's top level
\* and in its own `properties`, the two places the counters tell from all other
\* (Capture's atTopLevel and atPropertiesLevel).
LEMMA KeyAndValueKeeps ==
  ASSUME IInv, NEW k \in ArmKeys, NEW v \in Values, KeyAndValue(k, v)
  PROVE  IInv'
<1> DEFINE line == Pair(k, v)
<1>1. /\ line.opens = 0 /\ line.closes = 0 /\ line.key = k /\ line.val = v
      /\ line.header # "properties"
  BY DEF Pair
<1>2. Scan(line) /\ path' = path
  BY DEF KeyAndValue
<1>3. k # Absent /\ k # "name"
  BY KeysAssumption
<1> HIDE DEF line
<1>4. /\ depth' = depth /\ propertiesDepth' = propertiesDepth
      /\ resources' = resources
      /\ ~InResource => r' = r
      /\ InResource => r' = Capture(line, depth) /\ PropertiesAfter(line) = propertiesDepth
  BY <1>1, <1>2, SameLevel
<1>5. AtTop \/ InProperties => InResource
  BY DepthTells DEF Within
<1>6. r' = IF AtTop \/ InProperties THEN WithAttribute(r, k, v) ELSE r
  <2>1. CASE InResource
    BY <1>1, <1>3, <1>4, <2>1, DepthTells DEF Capture
  <2>2. CASE ~InResource
    BY <1>4, <1>5, <2>2
  <2> QED
    BY <2>1, <2>2
<1>7. declared' = [found |-> resources', current |-> r']
  <2>1. CASE AtTop \/ InProperties
    <3>1. declared' = [declared EXCEPT !.current = WithAttribute(declared.current, k, v)]
      BY <2>1 DEF KeyAndValue
    <3> QED
      BY <1>4, <1>6, <2>1, <3>1, DeclaredIs
  <2>2. CASE ~(AtTop \/ InProperties)
    BY <1>4, <1>6, <2>2, DeclaredIs DEF KeyAndValue
  <2> QED
    BY <2>1, <2>2
<1>8. r' \in Resources /\ r'.type = r.type
  BY <1>6, WithAttributeType DEF IInv, TypeOK
<1> QED
  BY <1>2, <1>4, <1>7, <1>8, SamePath

\* A `name` is the resource's name at the top level, and in `properties` a key
\* nothing maps (Capture's first and last case).
LEMMA NameLineKeeps ==
  ASSUME IInv, NEW n \in Names, NameLine(n)
  PROVE  IInv'
<1> DEFINE line == Pair("name", n)
<1>1. /\ line.opens = 0 /\ line.closes = 0 /\ line.key = "name" /\ line.val = n
      /\ line.header # "properties"
  BY DEF Pair
<1>2. Scan(line) /\ path' = path
  BY DEF NameLine
<1>3. "name" # Absent
  BY DEF Absent
<1> HIDE DEF line
<1>4. /\ depth' = depth /\ propertiesDepth' = propertiesDepth
      /\ resources' = resources
      /\ ~InResource => r' = r
      /\ InResource => r' = Capture(line, depth) /\ PropertiesAfter(line) = propertiesDepth
  BY <1>1, <1>2, SameLevel
<1>5. AtTop => InResource
  BY DepthTells
<1>6. r' = IF AtTop THEN [r EXCEPT !.name = n] ELSE r
  <2>1. CASE InResource
    <3>1. r.type \in Types
      BY <2>1 DEF IInv
    <3>2. "name" \notin Mapped(r.type)
      BY <3>1, KeysAssumption DEF ArmKeys
    <3>3. WithAttribute(r, "name", n) = r
      BY <3>2 DEF WithAttribute
    <3> QED
      BY <1>1, <1>3, <1>4, <2>1, <3>3, DepthTells DEF Capture
  <2>2. CASE ~InResource
    BY <1>4, <1>5, <2>2
  <2> QED
    BY <2>1, <2>2
<1>7. declared' = [found |-> resources', current |-> r']
  <2>1. CASE AtTop
    <3>1. declared' = [declared EXCEPT !.current = [declared.current EXCEPT !.name = n]]
      BY <2>1 DEF NameLine
    <3> QED
      BY <1>4, <1>6, <2>1, <3>1, DeclaredIs
  <2>2. CASE ~AtTop
    BY <1>4, <1>6, <2>2, DeclaredIs DEF NameLine
  <2> QED
    BY <2>1, <2>2
<1>8. r' \in Resources /\ r'.type = r.type
  BY <1>6 DEF IInv, TypeOK, Resources
<1> QED
  BY <1>2, <1>4, <1>7, <1>8, SamePath

\* A header is only met outside of everything, where the scanner is idle.
LEMMA ResourceHeaderKeeps ==
  ASSUME IInv, NEW t \in Types, ResourceHeader(t)
  PROVE  IInv'
<1>1. path' = <<"resource">> /\ path' \in Seq(Blocks) /\ Len(path') = 1
  BY DEF ResourceHeader, Blocks
<1>2. InResource' /\ ~Within'
  BY <1>1 DEF InResource, Within
<1>3. depth' = 1 /\ propertiesDepth' = 0 /\ r' = Blank(t) /\ resources' = resources
  BY DEF ResourceHeader
<1>4. declared' = [found |-> resources', current |-> r']
  BY <1>3, DeclaredIs DEF ResourceHeader
<1>5. TypeOK /\ resources \in Seq(Resources) /\ 1 <= MaxDepth
  BY BoundsAssumption DEF IInv, TypeOK
<1> QED
  BY <1>1, <1>2, <1>3, <1>4, <1>5, BlankType, Rebuild

\* A closed block is one fewer on the path; leaving `properties` resets the
\* second counter, leaving the resource ends it, as it was declared (the end of
\* ParseFile's inner loop).
LEMMA CloseBlockKeeps ==
  ASSUME IInv, CloseBlock
  PROVE  IInv'
<1> USE DepthTells
<1>1. path \in Seq(Blocks) /\ path # <<>> /\ Len(path) > 0 /\ Len(path) <= MaxDepth
  BY EmptySeq DEF IInv, TypeOK, CloseBlock
<1>2. /\ path' = SubSeq(path, 1, Len(path) - 1)
      /\ path' \in Seq(Blocks)
      /\ Len(path') = Len(path) - 1
      /\ \A i \in 1..(Len(path) - 1) : path'[i] = path[i]
  <2>1. path' = SubSeq(path, 1, Len(path) - 1)
    BY DEF CloseBlock
  <2> QED
    BY <1>1, <2>1, Outer
<1>3. Len(path') <= MaxDepth /\ (path' # <<>> <=> Len(path') > 0)
  <2>1. MaxDepth \in Nat /\ Len(path) \in Nat
    BY BoundsAssumption
  <2>2. Len(path') <= MaxDepth
    BY <1>1, <1>2, <2>1
  <2>3. path' # <<>> <=> Len(path') > 0
    BY <1>2, NoBlock
  <2> QED
    BY <2>2, <2>3
<1>4. resources \in Seq(Resources) /\ r \in Resources /\ TypeOK
  BY DEF IInv, TypeOK
<1>5. CASE AtTop
  <2>1. depth = 1 /\ Len(path) = 1 /\ InResource
    BY <1>5
  <2>2. ScanLine(Closing)
    BY <2>1 DEF CloseBlock, Scan
  <2>3. /\ depth' = 0 /\ propertiesDepth' = 0 /\ r' = Nothing
        /\ resources' = Append(resources, NameOr(r, Unnamed))
    BY <2>1, <2>2 DEF ScanLine, Closing
  <2>4. ~InResource' /\ ~Within'
    BY <1>2, <1>3, <2>1 DEF InResource, Within
  <2>5. resources' \in Seq(Resources)
    BY <1>4, <2>3, NameOrType, AppendProperties
  <2>6. declared' = [found |-> Append(declared.found, NameOr(declared.current, Unnamed)),
                     current |-> Nothing]
    BY <1>5 DEF CloseBlock
  <2>7. declared' = [found |-> resources', current |-> r']
    <3>1. declared.found = resources /\ declared.current = r
      BY DeclaredIs
    <3> QED
      BY <2>3, <2>6, <3>1
  <2> QED
    BY <1>2, <1>3, <1>4, <2>3, <2>4, <2>5, <2>7, BlankType, Rebuild
<1>6. CASE InResource /\ ~AtTop
  <2>1. depth = Len(path) /\ depth >= 2 /\ path[1] = "resource"
    BY <1>6 DEF InResource
  <2>2. ScanLine(Closing)
    BY <2>1 DEF CloseBlock, Scan
  <2>3. depth' = depth - 1 /\ depth' > 0
    BY <2>1, <2>2 DEF ScanLine, Closing
  <2>4. /\ r' = r /\ resources' = resources
        /\ propertiesDepth' = PropertiesAfter(Closing)
    BY <2>1, <2>2 DEF ScanLine, Closing, Capture
  <2>5. propertiesDepth' = IF depth = 2 THEN 0 ELSE propertiesDepth
    BY <2>1, <2>4 DEF PropertiesAfter, Closing
  <2>6. InResource' /\ (Within' <=> Within /\ depth > 2)
    BY <1>2, <1>3, <1>6, <2>1 DEF InResource, Within
  <2>7. propertiesDepth' = IF Within' THEN 2 ELSE 0
    <3>1. CASE depth = 2
      BY <2>5, <2>6, <3>1
    <3>2. CASE depth # 2 /\ Within
      BY <2>1, <2>5, <2>6, <3>2
    <3>3. CASE depth # 2 /\ ~Within
      BY <2>5, <2>6, <3>3
    <3> QED
      BY <3>1, <3>2, <3>3
  <2>8. /\ InResource' => r'.type \in Types
        /\ depth' = IF InResource' THEN Len(path') ELSE 0
    BY <1>2, <1>6, <2>1, <2>3, <2>4, <2>6 DEF IInv
  <2>9. declared' = [found |-> resources', current |-> r']
    BY <1>6, <2>4, DeclaredIs DEF CloseBlock
  <2> QED
    BY <1>2, <1>3, <1>4, <2>4, <2>6, <2>7, <2>8, <2>9, Rebuild
<1>7. CASE ~InResource
  <2>1. UNCHANGED <<depth, propertiesDepth, r, resources>> /\ depth = 0
    BY <1>7 DEF CloseBlock, Scan
  <2>2. ~InResource' /\ ~Within' /\ ~Within /\ ~AtTop
    BY <1>1, <1>2, <1>3, <1>7, <2>1 DEF InResource, Within
  <2>3. depth' = 0 /\ propertiesDepth' = 0 /\ r' = Nothing
    BY <1>7, <2>1, <2>2 DEF IInv, CountersTellPath
  <2>4. declared' = [found |-> resources', current |-> r']
    BY <2>1, <2>2, DeclaredIs DEF CloseBlock
  <2> QED
    BY <1>2, <1>3, <1>4, <2>1, <2>2, <2>3, <2>4, Rebuild
<1> QED
  BY <1>5, <1>6, <1>7

\* Before the first line nothing is open, found or declared.
LEMMA InitKeeps == Init => IInv
<1> SUFFICES ASSUME Init PROVE IInv
  OBVIOUS
<1>1. path = <<>> /\ Len(path) = 0 /\ path \in Seq(Blocks) /\ MaxDepth \in Nat
  BY BoundsAssumption DEF Init
<1>2. TypeOK
  <2>1. resources \in Seq(Resources) /\ r \in Resources
    BY BlankType DEF Init
  <2>2. declared \in [found : Seq(Resources), current : Resources]
    BY BlankType DEF Init
  <2> QED
    BY <1>1, <2>1, <2>2 DEF Init, TypeOK
<1>3. CountersTellPath /\ ~InResource
  BY <1>1 DEF Init, CountersTellPath, InResource
<1> QED
  BY <1>2, <1>3 DEF IInv

\* The inductive invariant holds for every file: after any lines, the counters
\* tell the blocks the next one is in.
THEOREM Invariance == Spec => []IInv
<1>1. IInv /\ [Next]_vars => IInv'
  <2> SUFFICES ASSUME IInv, [Next]_vars PROVE IInv'
    OBVIOUS
  <2>1. CASE \E t \in Types : ResourceHeader(t)
    BY <2>1, ResourceHeaderKeeps
  <2>2. CASE \E b \in {"properties", "other"} : OpenBlock(b) \/ InlineBlock(b)
    BY <2>2, OpenBlockKeeps, InlineBlockKeeps
  <2>3. CASE \E k \in ArmKeys, v \in Values : KeyAndValue(k, v)
    BY <2>3, KeyAndValueKeeps
  <2>4. CASE \E n \in Names : NameLine(n)
    BY <2>4, NameLineKeeps
  <2>5. CASE CloseBlock
    BY <2>5, CloseBlockKeeps
  <2>6. CASE UNCHANGED vars
    BY <2>6 DEF IInv, TypeOK, CountersTellPath, InResource, vars
  <2> QED
    BY <2>1, <2>2, <2>3, <2>4, <2>5, <2>6 DEF Next
<1> QED
  BY <1>1, InitKeeps, PTL DEF Spec

\* The scanner's variables keep their shape for every file and key map.
THEOREM TypeCorrect == Spec => []TypeOK
<1>1. IInv => TypeOK
  BY DEF IInv
<1> QED
  BY <1>1, Invariance, PTL

\* ParseFile finds the resources a file of the layout declares, no more and no
\* less, with the pairs that are theirs, for any file.
THEOREM FindsDeclared == Spec => []FindsWhatIsDeclared
<1>1. IInv => FindsWhatIsDeclared
  BY DEF IInv, CountersTellPath, FindsWhatIsDeclared
<1> QED
  BY <1>1, Invariance, PTL

\* The two counters of ParseFile always tell which blocks its line is in.
THEOREM CountersTell == Spec => []CountersTellPath
<1>1. IInv => CountersTellPath
  BY DEF IInv
<1> QED
  BY <1>1, Invariance, PTL
=============================================================================
