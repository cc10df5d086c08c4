------------------------------- MODULE Drift --------------------------------
(* `policyforge drift`: what the files declare, held against the rows one    *)
(* Resource Graph query returns. The cloud decides how many rows fit the     *)
(* answer and in which order; Compare looks a resource up by its name alone. *)
EXTENDS Integers, Sequences, SequencesExt, FiniteSets, Normalizer

CONSTANTS
  Declarations,  \* resources the parsers may find, with what each stands for
  Deployables,   \* resources that may be live
  Fold(_),       \* a name in lower case
  PageSize,      \* rows of one answer
  MaxDeclared,   \* bound: declarations in the tree
  MaxLive        \* bound: live resources

\* A property's value: what scalarToString makes of it, or no scalar.
NotScalar == "[]"

ARMTypes == {"storageAccounts", "securityRules", "vaults"}

normalizedTypeToARMType ==
  [storage_account |-> "storageAccounts", nsg_rule |-> "securityRules",
   key_vault |-> "vaults"]

\* A declaration has a name in the cloud; `label` is its name in a Terraform
\* file, which is not the same. A live resource has ARM properties.
ASSUME DeclarationsAssumption == \A d \in Declarations :
  DOMAIN d = {"lang", "type", "label", "name", "attributes"}
ASSUME DeployablesAssumption == \A l \in Deployables :
  /\ DOMAIN l = {"type", "name", "properties"}
  /\ l.type \in ARMTypes => DOMAIN l.properties \subseteq DOMAIN armAttrKeyMap[l.type]
ASSUME FiniteAssumption == IsFiniteSet(Deployables)
ASSUME BoundsAssumption == PageSize \in Nat /\ MaxDeclared \in Nat

VARIABLES
  declared,  \* the resources parseAll found, in order
  cloud,     \* what is live in the subscription
  flags,     \* the command line: subscription given, query given
  pc,
  live,      \* the rows of the answer
  k,         \* the declaration Compare is at
  findings,  \* attributes that differ
  notFound,  \* declarations without a live resource
  exit       \* the exit code, -1 while it runs

vars == <<declared, cloud, flags, pc, live, k, findings, notFound, exit>>
-----------------------------------------------------------------------------
Texts == (UNION {{d.attributes[a] : a \in DOMAIN d.attributes} : d \in Declarations})
         \cup (UNION {{l.properties[a] : a \in DOMAIN l.properties} : l \in Deployables})
Attributes == UNION {DOMAIN d.attributes : d \in Declarations}
Findings == [resource : 1..MaxDeclared, attribute : Attributes,
             declared : Texts, live : Texts \ {NotScalar}]

\* The report is about declarations, and every value in it is a scalar.
TypeOK ==
  /\ declared \in Seq(Declarations) /\ Len(declared) <= MaxDeclared
  /\ cloud \subseteq Deployables
  /\ flags \in [subscription : BOOLEAN, query : BOOLEAN]
  /\ pc \in {"flags", "query", "compare", "exited"}
  /\ Len(live) <= PageSize
  /\ k \in 1..(MaxDeclared + 1)
  /\ findings \subseteq Findings
  /\ notFound \subseteq DOMAIN declared
  /\ exit \in {-1, 0, 1, 2} /\ (exit = -1 <=> pc # "exited")

Init ==
  /\ declared \in BoundedSeq(Declarations, MaxDeclared)
  /\ cloud \in {c \in SUBSET Deployables : Cardinality(c) <= MaxLive}
  /\ flags \in [subscription : BOOLEAN, query : BOOLEAN]
  /\ pc = "flags"
  /\ live = <<>> /\ k = 1
  /\ findings = {} /\ notFound = {}
  /\ exit = -1
-----------------------------------------------------------------------------
Exit(code) == pc' = "exited" /\ exit' = code
Goto(point) == pc' = point /\ UNCHANGED exit

\* Without a subscription there is nothing to ask; a tree that does not parse
\* ends the run before it asks.
ParseFlags ==
  /\ pc = "flags"
  /\ IF flags.subscription THEN Goto("query") \/ Exit(1) ELSE Exit(2)
  /\ UNCHANGED <<declared, cloud, flags, live, k, findings, notFound>>

\* Rows of the types that can be compared; a query of the user's own may
\* return any rows, and may project the properties away.
Selected(l) == flags.query \/ l.type \in ARMTypes
Row(l, whole) == [name |-> l.name, properties |-> IF whole THEN l.properties ELSE <<>>]

\* One answer: as many of the rows as fit, in any order. The token that comes
\* with a cut answer is not used to ask for the rest. The query may fail.
Query ==
  /\ pc = "query"
  /\ \/ \E rows \in SetToSeqs({l \in cloud : Selected(l)}),
           whole \in IF flags.query THEN BOOLEAN ELSE {TRUE} :
          /\ live' = [i \in 1..(IF Len(rows) < PageSize THEN Len(rows) ELSE PageSize)
                        |-> Row(rows[i], whole)]
          /\ Goto("compare")
     \/ Exit(1) /\ UNCHANGED live
  /\ UNCHANGED <<declared, cloud, flags, k, findings, notFound>>

\* What Compare does not skip, the ARM type it is compared as, and the name the
\* parser gave it: a Terraform block's label, the `name` of a Bicep resource.
Comparable(d) == /\ Normalize(d.type).provider = "azure"
                 /\ Normalize(d.type).type \in DOMAIN normalizedTypeToARMType
ArmType(d) == normalizedTypeToARMType[Normalize(d.type).type]
Name(d) == IF d.lang = "terraform" THEN d.label ELSE d.name

\* The canonical attributes of a row, read as one of type armType.
CanonicalAttributes(armType, properties) ==
  LET keyMap == armAttrKeyMap[armType]
      known == {a \in DOMAIN keyMap \cap DOMAIN properties : properties[a] # NotScalar}
  IN [c \in {keyMap[a] : a \in known} |->
        properties[CHOOSE a \in known : keyMap[a] = c]]

\* Variant: names are compared letter for letter.
findByName_ExactCase(name) == {i \in DOMAIN live : live[i].name = name}

findByName(name) == {i \in DOMAIN live : Fold(live[i].name) = Fold(name)}

\* Variant: an attribute the live resource lacks counts as differing.
Differences_AbsentDiffers(i, row) ==
  LET d == declared[i]
      attrs == CanonicalAttributes(ArmType(d), row.properties)
  IN {[resource |-> i, attribute |-> a, declared |-> d.attributes[a],
       live |-> IF a \in DOMAIN attrs THEN attrs[a] ELSE NotScalar] :
        a \in {x \in DOMAIN d.attributes :
                 x \in DOMAIN attrs => attrs[x] # d.attributes[x]}}

\* Variant: the two values change places in the report.
Differences_Swapped(i, row) ==
  LET d == declared[i]
      attrs == CanonicalAttributes(ArmType(d), row.properties)
  IN {[resource |-> i, attribute |-> a, declared |-> attrs[a], live |-> d.attributes[a]] :
        a \in {x \in DOMAIN d.attributes \cap DOMAIN attrs : attrs[x] # d.attributes[x]}}

\* The attributes both sides have and disagree about.
Differences(i, row) ==
  LET d == declared[i]
      attrs == CanonicalAttributes(ArmType(d), row.properties)
  IN {[resource |-> i, attribute |-> a, declared |-> d.attributes[a], live |-> attrs[a]] :
        a \in {x \in DOMAIN d.attributes \cap DOMAIN attrs : attrs[x] # d.attributes[x]}}

\* One turn of Compare's loop: the first row of the name is the match, whatever
\* its type; what is not from Azure or has no ARM mapping is skipped.
CompareNext ==
  /\ pc = "compare" /\ k <= Len(declared)
  /\ k' = k + 1
  /\ LET rows == findByName(Name(declared[k]))
         first == CHOOSE i \in rows : \A j \in rows : i <= j
     IN CASE ~Comparable(declared[k]) -> UNCHANGED <<findings, notFound>>
          [] Comparable(declared[k]) /\ rows = {} ->
               notFound' = notFound \cup {k} /\ UNCHANGED findings
          [] OTHER -> findings' = findings \cup Differences(k, live[first])
                      /\ UNCHANGED notFound
  /\ UNCHANGED <<declared, cloud, flags, pc, live, exit>>

Finish ==
  /\ pc = "compare" /\ k > Len(declared)
  /\ Exit(IF findings = {} /\ notFound = {} THEN 0 ELSE 1)
  /\ UNCHANGED <<declared, cloud, flags, live, k, findings, notFound>>

Next == ParseFlags \/ Query \/ CompareNext \/ Finish

Spec == Init /\ [][Next]_vars
-----------------------------------------------------------------------------
\* What d stands for is live as l.
Deployed(d, l) == Comparable(d) /\ l.type = ArmType(d) /\ Fold(l.name) = Fold(d.name)
LiveAttributes(l) == CanonicalAttributes(l.type, l.properties)
Compared == pc = "compare" /\ k > Len(declared)

\* The block label of d is the name of something else of its type.
LabelMisleads(d) ==
  \E l \in cloud : /\ l.type = ArmType(d) /\ Fold(l.name) = Fold(Name(d))
                   /\ ~Deployed(d, l)

\* What is reported as drift is a declared value and a live one that differ.
\* With the query of its own, and a label that is no other resource's name,
\* both are of one resource: what d stands for is live with that value, even
\* when the row found first is one of another type with the same name. (A label
\* that is another's name has drift reported that is not there; so may a user's
\* query, whose rows of other types may have an attribute of the same key.)
DriftIsReal == \A f \in findings :
  LET d == declared[f.resource] IN
    /\ f.attribute \in DOMAIN d.attributes /\ f.declared = d.attributes[f.attribute]
    /\ f.declared # f.live
    /\ ~flags.query /\ ~LabelMisleads(d) =>
         \E l \in cloud : /\ Deployed(d, l)
                          /\ f.attribute \in DOMAIN LiveAttributes(l)
                          /\ LiveAttributes(l)[f.attribute] = f.live

\* Where the code can do what it says, the report is the whole truth: with
\* every row in the answer, live names distinct up to case, and declarations
\* that carry the name of what they stand for, drift and missing resources are
\* exactly those of the cloud.
Favourable ==
  /\ ~flags.query
  /\ Cardinality(cloud) <= PageSize
  /\ \A a, b \in cloud : Fold(a.name) = Fold(b.name) => a = b
  /\ \A i \in DOMAIN declared : Fold(Name(declared[i])) = Fold(declared[i].name)
  /\ \A i \in DOMAIN declared, l \in cloud :
       Comparable(declared[i]) /\ Fold(l.name) = Fold(declared[i].name)
         => Deployed(declared[i], l)

ReportIsExact == Compared /\ Favourable =>
  /\ notFound = {i \in DOMAIN declared :
                   Comparable(declared[i]) /\ ~\E l \in cloud : Deployed(declared[i], l)}
  /\ \A i \in DOMAIN declared, a \in Attributes :
       (\E f \in findings : f.resource = i /\ f.attribute = a) <=>
       \E l \in cloud : /\ Deployed(declared[i], l)
                        /\ a \in DOMAIN declared[i].attributes
                        /\ a \in DOMAIN LiveAttributes(l)
                        /\ LiveAttributes(l)[a] # declared[i].attributes[a]

\* What the NotFound comment says of a missing resource (drift.go:57-58): it
\* was deleted, or never deployed.
MissingIsTrue == \A i \in notFound : ~\E l \in cloud : Deployed(declared[i], l)
=============================================================================
