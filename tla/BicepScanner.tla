---------------------------- MODULE BicepScanner ----------------------------
(* The Bicep parser's brace-depth scanner. It goes through a file line by    *)
(* line with two counters and no grammar, and yet has to tell the lines of a *)
(* resource and of its `properties` block from those of any other block.     *)
(*                                                                           *)
(* The scanner never looks ahead or back, so the file is chosen one line at  *)
(* a time, as the scanner comes to it. Each line is one of the layout the    *)
(* formatter gives: a block is opened at the end of a line and closed on a   *)
(* line of its own, or opened and closed within one.                         *)
EXTENDS Integers, Sequences

CONSTANTS
  Types,        \* ARM resource types
  armAttrKeyMap,  \* armAttrKeyMap[t]: the ARM keys of t, each with its canonical key
  OtherKeys,    \* keys no type maps
  Values,       \* literal values
  Names,        \* values of the key `name`
  Unnamed,      \* the name of a resource without one
  MaxDepth,     \* bound: blocks within blocks
  MaxResources  \* bound: resources in the file

Mapped(t) == DOMAIN armAttrKeyMap[t]
ArmKeys == (UNION {Mapped(t) : t \in Types}) \cup OtherKeys
CanonicalKeys == UNION {{armAttrKeyMap[t][a] : a \in Mapped(t)} : t \in Types}

ASSUME NamesAssumption == Unnamed \notin Names
ASSUME BoundsAssumption == MaxDepth \in Nat \ {0} /\ MaxResources \in Nat

VARIABLES
  path,             \* the blocks the line is in, outermost first
  depth,            \* the scanner's count of open braces, 0 between resources
  propertiesDepth,  \* the count inside `properties`, 0 outside of it
  r,                \* the resource being scanned
  resources,        \* the resources found so far
  declared          \* what the file declares so far, and the one it is in

vars == <<path, depth, propertiesDepth, r, resources, declared>>
-----------------------------------------------------------------------------
\* An attribute that is not there and a resource that has no name yet.
Absent == "absent"

\* `name` is nobody's mapped key.
ASSUME KeysAssumption == ArmKeys \cap {"name", Absent} = {}
ASSUME TypesAssumption == Absent \notin Types

Blank(t) == [type |-> t, name |-> Absent, attributes |-> [c \in CanonicalKeys |-> Absent]]
Nothing == [type |-> Absent, name |-> Absent,
            attributes |-> [c \in CanonicalKeys |-> Absent]]

Resources == [type : Types \cup {Absent},
              name : Names \cup {Unnamed, Absent},
              attributes : [CanonicalKeys -> Values \cup Names \cup {Absent}]]

Blocks == {"resource", "properties", "other"}

\* The counters count and what has been found are resources.
TypeOK ==
  /\ path \in Seq(Blocks) /\ Len(path) <= MaxDepth
  /\ depth \in 0..MaxDepth
  /\ propertiesDepth \in {0, 2}
  /\ r \in Resources
  /\ resources \in Seq(Resources)
  /\ declared \in [found : Seq(Resources), current : Resources]

Init ==
  /\ path = <<>>
  /\ depth = 0 /\ propertiesDepth = 0
  /\ r = Nothing
  /\ resources = <<>>
  /\ declared = [found |-> <<>>, current |-> Nothing]
-----------------------------------------------------------------------------
(* What a line says: its braces, and the key and value attrRe finds in it.   *)
(* A line that opens a block of several lines has a key too, but its value   *)
(* is `{`; one that closes a block has none.                                 *)

Opening(block) == [header |-> block, opens |-> 1, closes |-> 0, key |-> Absent, val |-> Absent]
Closing == [header |-> "none", opens |-> 0, closes |-> 1, key |-> Absent, val |-> Absent]
Pair(k, v) == [header |-> "none", opens |-> 0, closes |-> 0, key |-> k, val |-> v]
\* `sku: { name: 'Standard_LRS' }`, and `properties: {}`
Inline(block) == [header |-> block, opens |-> 1, closes |-> 1, key |-> Absent, val |-> Absent]

NameOr(x, default) == IF x.name = Absent THEN [x EXCEPT !.name = default] ELSE x
WithAttribute(x, k, v) ==
  IF k \in Mapped(x.type)
  THEN [x EXCEPT !.attributes[armAttrKeyMap[x.type][k]] = v] ELSE x

\* Variant: the block's end is not noticed.
PropertiesAfter_NeverLeft(line) ==
  IF depth = 1 /\ line.header = "properties" THEN depth + 1 ELSE propertiesDepth

\* Variant: the block's count is taken before its brace.
PropertiesAfter_OneShort(line) ==
  LET entered == IF depth = 1 /\ line.header = "properties" THEN depth ELSE propertiesDepth
      after == depth + line.opens - line.closes
  IN IF entered # 0 /\ after < entered THEN 0 ELSE entered

\* propertiesDepth after the line: entered at the resource's top level only,
\* left as soon as the count falls below it.
PropertiesAfter(line) ==
  LET entered == IF depth = 1 /\ line.header = "properties"
                 THEN depth + 1 ELSE propertiesDepth
      after == depth + line.opens - line.closes
  IN IF entered # 0 /\ after < entered THEN 0 ELSE entered

\* Variant: every level counts as the resource's own.
Capture_AnyLevel(line, after) ==
  IF line.key = Absent THEN r
  ELSE IF line.key = "name" THEN [r EXCEPT !.name = line.val]
  ELSE WithAttribute(r, line.key, line.val)

\* The line's pair, if the count puts it at the top level or in `properties`.
\* `name` is the resource's name at the top level only.
Capture(line, after) ==
  LET atTopLevel == after = 1
      atPropertiesLevel == PropertiesAfter(line) # 0 /\ after = PropertiesAfter(line)
  IN IF line.key = Absent \/ ~(atTopLevel \/ atPropertiesLevel) THEN r
     ELSE IF atTopLevel /\ line.key = "name" THEN [r EXCEPT !.name = line.val]
     ELSE WithAttribute(r, line.key, line.val)

\* One turn of the inner loop; with the count back at 0 the resource is done.
ScanLine(line) ==
  LET after == depth + line.opens - line.closes IN
    /\ depth' = after
    /\ IF after > 0
         THEN /\ propertiesDepth' = PropertiesAfter(line)
              /\ r' = Capture(line, after)
              /\ UNCHANGED resources
         ELSE /\ propertiesDepth' = 0
              /\ r' = Nothing
              /\ resources' = Append(resources, NameOr(r, Unnamed))

\* Between resources the scanner only waits for a resource header: an outer
\* block of something else passes it by.
Scan(line) ==
  IF depth > 0 THEN ScanLine(line)
  ELSE UNCHANGED <<depth, propertiesDepth, r, resources>>
-----------------------------------------------------------------------------
(* The lines a file may have next, and what each of them declares.           *)

InResource == path # <<>> /\ path[1] = "resource"
AtTop == path = <<"resource">>
InProperties == path = <<"resource", "properties">>

\* `resource x '<type>@<version>' = {`
ResourceHeader(t) ==
  /\ path = <<>>
  /\ Len(resources) < MaxResources
  /\ path' = <<"resource">>
  /\ depth' = 1 /\ propertiesDepth' = 0
  /\ r' = Blank(t)
  /\ declared' = [declared EXCEPT !.current = Blank(t)]
  /\ UNCHANGED resources

\* `properties: {` or `tags: {`, at any depth; a nested child resource's header
\* opens a block like any other. Outside of resources it is a variable's value.
OpenBlock(block) ==
  /\ Len(path) < MaxDepth
  /\ path' = Append(path, block)
  /\ Scan(Opening(block))
  /\ UNCHANGED declared

InlineBlock(block) ==
  /\ Scan(Inline(block))
  /\ UNCHANGED <<path, declared>>

KeyAndValue(k, v) ==
  /\ path # <<>>
  /\ Scan(Pair(k, v))
  /\ declared' = IF AtTop \/ InProperties
                 THEN [declared EXCEPT !.current = WithAttribute(@, k, v)]
                 ELSE declared
  /\ UNCHANGED path

\* `name:` is a key like any other, anywhere but at a resource's top level.
NameLine(n) ==
  /\ path # <<>>
  /\ Scan(Pair("name", n))
  /\ declared' = IF AtTop THEN [declared EXCEPT !.current.name = n] ELSE declared
  /\ UNCHANGED path

CloseBlock ==
  /\ path # <<>>
  /\ path' = SubSeq(path, 1, Len(path) - 1)
  /\ Scan(Closing)
  /\ declared' = IF AtTop
                 THEN [found |-> Append(declared.found, NameOr(declared.current, Unnamed)),
                       current |-> Nothing]
                 ELSE declared

Next == \/ \E t \in Types : ResourceHeader(t)
        \/ \E b \in {"properties", "other"} : OpenBlock(b) \/ InlineBlock(b)
        \/ \E k \in ArmKeys, v \in Values : KeyAndValue(k, v)
        \/ \E n \in Names : NameLine(n)
        \/ CloseBlock

Spec == Init /\ [][Next]_vars
-----------------------------------------------------------------------------
\* The resources found are those the file declares: one for each declaration,
\* in order, with the name and the mapped attributes of its own top level and
\* its own `properties` and nothing from any block in or around them (what
\* ParseFile's comment promises of a file with this layout).
FindsWhatIsDeclared == resources = declared.found

\* The two counters are enough to tell where a line is: the reason behind
\* FindsWhatIsDeclared, and inductive.
CountersTellPath ==
  /\ depth = IF InResource THEN Len(path) ELSE 0
  /\ propertiesDepth =
       IF Len(path) >= 2 /\ path[1] = "resource" /\ path[2] = "properties" THEN 2 ELSE 0
  /\ r = declared.current
  /\ ~InResource => r = Nothing
  /\ resources = declared.found
=============================================================================
