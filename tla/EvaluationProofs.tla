-------------------------- MODULE EvaluationProofs --------------------------
(* Proofs about EvaluateOPA, for any declarations and any policy directory:  *)
(* what is loaded is what was given, each rule that fires is heard, and the  *)
(* tables of parsers, normalizer and packs meet: what a declaration says is  *)
(* judged, and alike in both languages.                                      *)
EXTENDS Evaluation, TLAPS

\* How far loading and evaluation have come.
Bounds ==
  /\ pc = "load" => k <= Len(files) + 1
  /\ pc = "evaluate" => k <= Len(tree) + 1

\* What has been loaded: the packs, and the files walked so far.
LoadedInv ==
  /\ pc = "load" => modules = Packs!embedded \cup {files[i] : i \in 1..(k - 1)}
  /\ pc \in {"evaluate", "done"} => modules = Packs!embedded \cup ToSet(files)
  /\ \A m \in modules : InNamespace(m.package)

\* The findings of the resources before are all there, and no others.
HeardInv ==
  /\ pc = "load" => findings = {}
  /\ \A f \in findings : f.source \in DOMAIN tree /\ f \in collectFindings(f.source)
  /\ pc = "evaluate" => \A i \in 1..(k - 1) : collectFindings(i) \subseteq findings
  /\ pc = "done" => \A i \in DOMAIN tree : collectFindings(i) \subseteq findings

IInv == TypeOK /\ Bounds /\ LoadedInv /\ HeardInv
-----------------------------------------------------------------------------
\* A package is a sequence of names, and the embedded ones are in the namespace.
LEMMA EmbeddedPackages ==
  /\ \A m \in Packs!embedded : InNamespace(m.package)
  /\ \A m \in Modules : DOMAIN m.package = 1..Len(m.package) /\ Len(m.package) \in Nat
<1> DEFINE a == <<"policyforge", "azure", "cis_foundations">>
           b == <<"policyforge", "aws", "core">>
           c == <<"policyforge", "k8s", "pod_security">>
<1>1. \A m \in Packs!embedded : m.package \in {a, b, c}
  BY DEF Packs!embedded, Packs!storage_account, Packs!nsg, Packs!key_vault, Packs!s3,
         Packs!security_group, Packs!pod_security, Packs!Azure, Packs!Aws
<1>2. \A p \in {a, b, c} : InNamespace(p)
  BY DEF InNamespace
<1>3. \A p \in {a, b, c} : DOMAIN p = 1..Len(p) /\ Len(p) \in Nat
  OBVIOUS
<1> HIDE DEF a, b, c
<1>4. \A m \in UserFiles : DOMAIN m.package = 1..Len(m.package) /\ Len(m.package) \in Nat
  BY FilesAssumption
<1> QED
  BY <1>1, <1>2, <1>3, <1>4 DEF Modules

\* None of the embedded packages is named after a rule of the walk.
LEMMA EmbeddedReached == \A m \in Packs!embedded : Reached(m.package)
<1> DEFINE a == <<"policyforge", "azure", "cis_foundations">>
           b == <<"policyforge", "aws", "core">>
           c == <<"policyforge", "k8s", "pod_security">>
<1>1. \A m \in Packs!embedded : m.package \in {a, b, c}
  BY DEF Packs!embedded, Packs!storage_account, Packs!nsg, Packs!key_vault, Packs!s3,
         Packs!security_group, Packs!pod_security, Packs!Azure, Packs!Aws
<1>2. \A p \in {a, b, c} : Reached(p)
  BY DEF Reached
<1> HIDE DEF a, b, c
<1> QED
  BY <1>1, <1>2

\* A finding has the rule's id and a severity its package declares, or HIGH.
LEMMA FindingTypes ==
  ASSUME TypeOK, NEW i \in DOMAIN tree
  PROVE  collectFindings(i) \subseteq Findings
<1> SUFFICES ASSUME NEW f \in collectFindings(i) PROVE f \in Findings
  OBVIOUS
<1> DEFINE Of(q) == {[source |-> i, rule |-> ruleIDFromMessage(r),
                      severity |-> severityFor(q, ruleIDFromMessage(r))] :
                       r \in {x \in RulesOf(q) : Packs!Fires(x, Resource(tree[i]))}}
<1>0. PICK p \in {m.package : m \in {n \in modules : Reached(n.package)}} : f \in Of(p)
  <2>1. f \in UNION {Of(q) : q \in {m.package : m \in {n \in modules : Reached(n.package)}}}
    BY Zenon DEF collectFindings
  <2> HIDE DEF Of
  <2> QED
    BY <2>1, Zenon
<1>1. PICK rule \in RulesOf(p) :
        f = [source |-> i, rule |-> ruleIDFromMessage(rule),
             severity |-> severityFor(p, ruleIDFromMessage(rule))]
  BY <1>0, Zenon
<1>2. i \in 1..MaxSources
  <2>1. i \in 1..Len(tree) /\ Len(tree) \in Nat /\ Len(tree) <= MaxSources
    BY DEF TypeOK
  <2> QED
    BY <2>1, BoundsAssumption
<1>3. ruleIDFromMessage(rule) \in RuleIds \cup {"UNKNOWN"}
  <2>1. PICK m \in modules : rule \in m.rules
    BY Zenon DEF RulesOf, Package
  <2>2. m \in Modules
    BY DEF TypeOK
  <2>3. rule.id \in {r.id : r \in m.rules}
    BY <2>1, Zenon
  <2>4. rule.id \in RuleIds
    BY <2>2, <2>3, Zenon DEF RuleIds
  <2> QED
    BY <2>4 DEF ruleIDFromMessage
<1>4. ASSUME NEW id PROVE severityFor(p, id) \in Severities
  <2>1. CASE Declared(p, id) = {}
    BY <2>1 DEF severityFor, Severities
  <2>2. CASE Declared(p, id) # {}
    <3> DEFINE s == CHOOSE x \in Declared(p, id) : TRUE
    <3>1. severityFor(p, id) = s /\ s \in Declared(p, id)
      BY <2>2, Zenon DEF severityFor
    <3> HIDE DEF s
    <3>2. PICK m \in modules : id \in DOMAIN m.severity /\ s = m.severity[id]
      BY <3>1, Zenon DEF Declared, Package
    <3>3. m \in Modules
      BY DEF TypeOK
    <3>4. s \in {m.severity[x] : x \in DOMAIN m.severity}
      BY <3>2, Zenon
    <3>5. s \in UNION {{n.severity[x] : x \in DOMAIN n.severity} : n \in Modules}
      BY <3>3, <3>4, Zenon
    <3> QED
      BY <3>1, <3>5, Zenon DEF Severities
  <2> QED
    BY <2>1, <2>2
<1> QED
  BY <1>1, <1>2, <1>3, <1>4 DEF Findings

\* A finding about a resource is of a rule that fires for it.
LEMMA FindingOf ==
  ASSUME NEW i, NEW f \in collectFindings(i)
  PROVE  \E m \in modules : \E rule \in m.rules :
           /\ Reached(m.package) /\ Packs!Fires(rule, Resource(tree[i]))
           /\ f = [source |-> i, rule |-> ruleIDFromMessage(rule),
                   severity |-> severityFor(m.package, ruleIDFromMessage(rule))]
<1> DEFINE Of(q) == {[source |-> i, rule |-> ruleIDFromMessage(r),
                      severity |-> severityFor(q, ruleIDFromMessage(r))] :
                       r \in {x \in RulesOf(q) : Packs!Fires(x, Resource(tree[i]))}}
<1>1. PICK p \in {m.package : m \in {n \in modules : Reached(n.package)}} : f \in Of(p)
  <2>1. f \in UNION {Of(q) : q \in {m.package : m \in {n \in modules : Reached(n.package)}}}
    BY Zenon DEF collectFindings
  <2> HIDE DEF Of
  <2> QED
    BY <2>1, Zenon
<1>2. PICK rule \in RulesOf(p) :
        /\ Packs!Fires(rule, Resource(tree[i]))
        /\ f = [source |-> i, rule |-> ruleIDFromMessage(rule),
                severity |-> severityFor(p, ruleIDFromMessage(rule))]
  BY <1>1, Zenon
<1>3. Reached(p)
  BY <1>1, Zenon
<1>4. PICK m \in modules : rule \in m.rules /\ m.package = p
  BY <1>2, Zenon DEF RulesOf, Package
<1> QED
  BY <1>2, <1>3, <1>4, Zenon

\* The findings of a resource depend on what is loaded alone.
LEMMA SameFindings ==
  ASSUME modules' = modules, tree' = tree, NEW i
  PROVE  collectFindings(i)' = collectFindings(i)
BY DEF collectFindings, RulesOf, Package, Declared, severityFor
-----------------------------------------------------------------------------
\* Nothing but the packs is loaded at first.
LEMMA InitInvariant == Init => IInv
<1> SUFFICES ASSUME Init PROVE IInv
  OBVIOUS
<1>1. tree \in Seq(Sources) /\ Len(tree) <= MaxSources
  BY BoundsAssumption DEF Init, BoundedSeq, SeqOf
<1>2. files \in Seq(UserFiles) /\ Len(files) <= MaxUserFiles
  BY BoundsAssumption DEF Init, BoundedSeq, SeqOf
<1>3. TypeOK
  BY <1>1, <1>2, BoundsAssumption DEF Init, TypeOK, Modules
<1>4. Bounds
  BY <1>2 DEF Init, Bounds
<1>5. {files[i] : i \in 1..(k - 1)} = {}
  BY DEF Init
<1>6. LoadedInv
  BY <1>5, EmbeddedPackages DEF Init, LoadedInv
<1>7. HeardInv
  BY DEF Init, HeardInv
<1> QED
  BY <1>3, <1>4, <1>6, <1>7 DEF IInv

\* A file that is loaded is in the namespace and stays; any other ends the run.
LEMMA LoadKeeps == IInv /\ LoadUserModule => IInv'
<1> SUFFICES ASSUME IInv, LoadUserModule PROVE IInv'
  OBVIOUS
<1>1. /\ files \in Seq(UserFiles) /\ Len(files) \in Nat /\ Len(files) <= MaxUserFiles
      /\ tree \in Seq(Sources) /\ Len(tree) \in Nat
      /\ k \in 1..Len(files) /\ pc = "load" /\ UNCHANGED <<tree, files>>
      /\ MaxSources \in Nat /\ MaxUserFiles \in Nat
  BY BoundsAssumption DEF IInv, TypeOK, LoadUserModule
<1> DEFINE file == files[k]
<1>2. file \in UserFiles
  BY <1>1
<1>3. CASE /\ InNamespace(file.package)
           /\ modules' = modules \cup {file} /\ k' = k + 1
           /\ UNCHANGED <<pc, findings>>
  <2>1. TypeOK'
    BY <1>1, <1>2, <1>3 DEF IInv, TypeOK, Modules
  <2>2. Bounds'
    BY <1>1, <1>3 DEF Bounds
  <2>3. {files'[i] : i \in 1..(k' - 1)} = {files[i] : i \in 1..(k - 1)} \cup {file}
    BY <1>1, <1>3
  <2>4. LoadedInv'
    BY <1>1, <1>3, <2>3 DEF IInv, LoadedInv
  <2>5. HeardInv'
    BY <1>1, <1>3 DEF IInv, HeardInv
  <2> QED
    BY <2>1, <2>2, <2>4, <2>5 DEF IInv
<1>4. CASE Fail
  BY <1>1, <1>4 DEF Fail, IInv, TypeOK, Bounds, LoadedInv, HeardInv
<1> QED
  BY <1>3, <1>4 DEF LoadUserModule

\* Preparing changes nothing of what is loaded.
LEMMA PrepareKeeps == IInv /\ Prepare => IInv'
<1> SUFFICES ASSUME IInv, Prepare PROVE IInv'
  OBVIOUS
<1>1. /\ Len(files) \in Nat /\ Len(tree) \in Nat /\ DOMAIN files = 1..Len(files)
      /\ pc = "load" /\ k = Len(files) + 1
      /\ UNCHANGED <<tree, files>> /\ MaxSources \in Nat /\ MaxUserFiles \in Nat
  BY BoundsAssumption DEF IInv, TypeOK, Prepare
<1>2. CASE pc' = "evaluate" /\ k' = 1 /\ UNCHANGED <<modules, findings>>
  <2>1. TypeOK'
    BY <1>1, <1>2 DEF IInv, TypeOK
  <2>2. Bounds'
    BY <1>1, <1>2 DEF Bounds
  <2>3. {files[i] : i \in 1..(k - 1)} = ToSet(files)
    BY <1>1 DEF ToSet
  <2>4. LoadedInv'
    <3>1. ToSet(files') = ToSet(files)
      BY <1>1
    <3>2. modules' = Packs!embedded \cup ToSet(files')
      BY <1>1, <1>2, <2>3, <3>1 DEF IInv, LoadedInv
    <3> QED
      BY <1>2, <3>2 DEF IInv, LoadedInv
  <2>5. HeardInv'
    <3>1. findings' = {}
      BY <1>1, <1>2 DEF IInv, HeardInv
    <3> QED
      BY <1>2, <3>1 DEF HeardInv
  <2> QED
    BY <2>1, <2>2, <2>4, <2>5 DEF IInv
<1>3. CASE Fail
  BY <1>1, <1>3 DEF Fail, IInv, TypeOK, Bounds, LoadedInv, HeardInv
<1> QED
  BY <1>2, <1>3 DEF Prepare

\* The findings of one more resource.
LEMMA EvalKeeps == IInv /\ EvalResource => IInv'
<1> SUFFICES ASSUME IInv, EvalResource PROVE IInv'
  OBVIOUS
<1>1. /\ Len(tree) \in Nat /\ Len(tree) <= MaxSources /\ DOMAIN tree = 1..Len(tree)
      /\ pc = "evaluate" /\ k \in 1..Len(tree)
      /\ UNCHANGED <<tree, files>> /\ MaxSources \in Nat /\ MaxUserFiles \in Nat
  BY BoundsAssumption DEF IInv, TypeOK, EvalResource
<1>2. CASE /\ findings' = findings \cup collectFindings(k) /\ k' = k + 1
           /\ UNCHANGED <<pc, modules>>
  <2>1. TypeOK'
    <3>1. collectFindings(k) \subseteq Findings
      BY <1>1, FindingTypes DEF IInv
    <3> QED
      BY <1>1, <1>2, <3>1 DEF IInv, TypeOK
  <2>2. Bounds'
    BY <1>1, <1>2 DEF Bounds
  <2>3. LoadedInv'
    <3>1. ToSet(files') = ToSet(files)
      BY <1>1
    <3> QED
      BY <1>1, <1>2, <3>1 DEF IInv, LoadedInv
  <2>4. HeardInv'
    <3>1. ASSUME NEW i \in 1..k PROVE collectFindings(i)' \subseteq findings'
      <4>1. collectFindings(i)' = collectFindings(i)
        BY <1>1, <1>2, SameFindings
      <4>2. i = k \/ i \in 1..(k - 1)
        BY <1>1
      <4>3. collectFindings(i) \subseteq findings'
        BY <1>1, <1>2, <4>2 DEF IInv, HeardInv
      <4> QED
        BY <4>1, <4>3
    <3>2. pc' = "evaluate" /\ k' - 1 = k
      BY <1>1, <1>2
    <3>3. ASSUME NEW f \in findings'
          PROVE  f.source \in DOMAIN tree' /\ f \in collectFindings(f.source)'
      <4>1. CASE f \in findings
        <5>1. f.source \in DOMAIN tree /\ f \in collectFindings(f.source)
          BY <4>1 DEF IInv, HeardInv
        <5>2. collectFindings(f.source)' = collectFindings(f.source)
          BY <1>1, <1>2, SameFindings
        <5> QED
          BY <1>1, <5>1, <5>2
      <4>2. CASE f \in collectFindings(k)
        <5>1. f.source = k
          BY <4>2, FindingOf
        <5>2. collectFindings(f.source)' = collectFindings(f.source)
          BY <1>1, <1>2, SameFindings
        <5> QED
          BY <1>1, <4>2, <5>1, <5>2
      <4> QED
        BY <1>2, <4>1, <4>2
    <3> QED
      BY <3>1, <3>2, <3>3 DEF HeardInv
  <2> QED
    BY <2>1, <2>2, <2>3, <2>4 DEF IInv
<1>3. CASE Fail
  BY <1>1, <1>3 DEF Fail, IInv, TypeOK, Bounds, LoadedInv, HeardInv
<1> QED
  BY <1>2, <1>3 DEF EvalResource

\* Having gone through all resources, the run has heard them all.
LEMMA FinishKeeps == IInv /\ Finish => IInv'
<1> SUFFICES ASSUME IInv, Finish PROVE IInv'
  OBVIOUS
<1>1. /\ Len(tree) \in Nat /\ DOMAIN tree = 1..Len(tree)
      /\ pc = "evaluate" /\ pc' = "done" /\ k = Len(tree) + 1
      /\ UNCHANGED <<tree, files, k, modules, findings>>
  BY DEF IInv, TypeOK, Finish
<1>2. TypeOK' /\ Bounds'
  BY <1>1 DEF IInv, TypeOK, Bounds
<1>3. LoadedInv'
  <2>1. ToSet(files') = ToSet(files)
    BY <1>1
  <2> QED
    BY <1>1, <2>1 DEF IInv, LoadedInv
<1>4. HeardInv'
  <2>1. ASSUME NEW i \in DOMAIN tree PROVE collectFindings(i)' \subseteq findings'
    <3>1. i \in 1..(k - 1)
      BY <1>1
    <3>2. collectFindings(i)' = collectFindings(i)
      BY <1>1, SameFindings
    <3> QED
      BY <1>1, <3>1, <3>2 DEF IInv, HeardInv
  <2>2. ASSUME NEW f \in findings'
        PROVE  f.source \in DOMAIN tree' /\ f \in collectFindings(f.source)'
    <3>1. f.source \in DOMAIN tree /\ f \in collectFindings(f.source)
      BY <1>1 DEF IInv, HeardInv
    <3>2. collectFindings(f.source)' = collectFindings(f.source)
      BY <1>1, SameFindings
    <3> QED
      BY <1>1, <3>1, <3>2
  <2> QED
    BY <1>1, <2>1, <2>2 DEF HeardInv
<1> QED
  BY <1>2, <1>3, <1>4 DEF IInv

LEMMA StepInvariant == IInv /\ [Next]_vars => IInv'
<1> SUFFICES ASSUME IInv, UNCHANGED vars PROVE IInv'
  BY LoadKeeps, PrepareKeeps, EvalKeeps, FinishKeeps DEF Next
<1>1. TypeOK' /\ Bounds'
  BY DEF IInv, TypeOK, Bounds, vars
<1>2. ToSet(files') = ToSet(files) /\ \A i : collectFindings(i)' = collectFindings(i)
  BY SameFindings DEF vars
<1>3. LoadedInv' /\ HeardInv'
  BY <1>2 DEF IInv, LoadedInv, HeardInv, vars
<1> QED
  BY <1>1, <1>3 DEF IInv

LEMMA EvaluationInvariance == Spec => []IInv
BY InitInvariant, StepInvariant, PTL DEF Spec
-----------------------------------------------------------------------------
\* A rule of a module that is loaded and reached has its finding.
LEMMA RuleIsHeard ==
  ASSUME NEW i, NEW m \in modules, Reached(m.package),
         NEW rule \in m.rules, Packs!Fires(rule, Resource(tree[i]))
  PROVE  [source |-> i, rule |-> ruleIDFromMessage(rule),
          severity |-> severityFor(m.package, ruleIDFromMessage(rule))] \in collectFindings(i)
<1> DEFINE p == m.package
           Of(q) == {[source |-> i, rule |-> ruleIDFromMessage(r),
                      severity |-> severityFor(q, ruleIDFromMessage(r))] :
                       r \in {x \in RulesOf(q) : Packs!Fires(x, Resource(tree[i]))}}
<1>1. p \in {n.package : n \in {x \in modules : Reached(x.package)}}
  BY Zenon
<1>2. rule \in RulesOf(p)
  <2>1. m.rules \in {n.rules : n \in Package(p)}
    BY Zenon DEF Package
  <2> QED
    BY <2>1, Zenon DEF RulesOf
<1>3. [source |-> i, rule |-> ruleIDFromMessage(rule),
       severity |-> severityFor(p, ruleIDFromMessage(rule))] \in Of(p)
  BY <1>2, Zenon
<1>4. collectFindings(i) = UNION {Of(q) : q \in {n.package : n \in {x \in modules : Reached(x.package)}}}
  BY Zenon DEF collectFindings
<1> HIDE DEF Of, p
<1>5. [source |-> i, rule |-> ruleIDFromMessage(rule),
       severity |-> severityFor(p, ruleIDFromMessage(rule))] \in collectFindings(i)
  BY <1>1, <1>3, <1>4, Zenon
<1> QED
  BY <1>5 DEF p

\* Declarations, modules and findings keep their shape, whatever the policy
\* directory holds (engine.go, opa.go).
THEOREM TypeCorrect == Spec => []TypeOK
<1>1. IInv => TypeOK
  BY DEF IInv
<1> QED
  BY <1>1, EvaluationInvariance, PTL

\* No rule of a pack or of a user's file is left out of a scan that succeeds
\* (loadUserModules' comment).
THEOREM NoRuleLeftOut == Spec => []EveryRuleIsHeard
<1>1. IInv => EveryRuleIsHeard
  <2> SUFFICES ASSUME IInv, pc = "done", NEW i \in DOMAIN tree,
                      NEW m \in Packs!embedded \cup ToSet(files), NEW rule \in m.rules,
                      Packs!Fires(rule, Resource(tree[i])),
                      \A j \in DOMAIN m.package : m.package[j] \notin {"deny", "severity"}
               PROVE  Heard(i, m, rule)
    BY Zenon DEF EveryRuleIsHeard
  <2>1. m \in modules /\ m \in Modules /\ InNamespace(m.package)
    BY DEF IInv, TypeOK, LoadedInv
  <2>2. Reached(m.package)
    <3>1. DOMAIN m.package = 1..Len(m.package) /\ Len(m.package) \in Nat
      BY <2>1, EmbeddedPackages
    <3> QED
      BY <2>1, <3>1 DEF Reached, InNamespace
  <2> DEFINE id == ruleIDFromMessage(rule)
             f == [source |-> i, rule |-> id, severity |-> severityFor(m.package, id)]
  <2>3. f \in findings
    BY <2>1, <2>2, RuleIsHeard DEF IInv, HeardInv
  <2>4. severityFor(m.package, id) \in IF Declared(m.package, id) = {} THEN {"HIGH"}
                                       ELSE Declared(m.package, id)
    BY Zenon DEF severityFor
  <2>5. f.source = i /\ f.rule = id /\ f.severity = severityFor(m.package, id)
    OBVIOUS
  <2> HIDE DEF f, id
  <2>6. Declared(m.package, f.rule) = Declared(m.package, id)
    BY <2>5
  <2> QED
    BY <2>3, <2>4, <2>5, <2>6 DEF Heard, id
<1> QED
  BY <1>1, EvaluationInvariance, PTL
-----------------------------------------------------------------------------
\* A rule with one condition fires for a resource of its type that meets it.
LEMMA OneCondition ==
  ASSUME NEW id, NEW c, NEW resource, NEW type, resource.type = type,
         c.attr \in DOMAIN resource.attributes,
         \/ c.negated = FALSE /\ resource.attributes[c.attr] \in c.values
         \/ c.negated = TRUE /\ resource.attributes[c.attr] \notin c.values
  PROVE  Packs!Fires(Packs!Deny(id, type, {c}), resource)
BY DEF Packs!Fires, Packs!Deny

\* A literal setting of one of the tables' types is an attribute of the
\* resource, under the rules' name for it.
LEMMA SettingKept ==
  ASSUME NEW d, NEW s \in StatedSettings, d.lang = s.lang, d.type = s.type,
         s.setting \in DOMAIN d.settings, d.settings[s.setting].literal
  PROVE  \E type, attr :
           /\ <<s.rule, type, attr>> \in
                {<<"PF-AZ-001", "storage_account", "allow_nested_items_to_be_public">>,
                 <<"PF-AZ-002", "storage_account", "min_tls_version">>,
                 <<"PF-AZ-020", "key_vault", "purge_protection_enabled">>}
           /\ Resource(d).type = type
           /\ attr \in DOMAIN Resource(d).attributes
           /\ Resource(d).attributes[attr] = d.settings[s.setting].text
<1>1. CASE s.lang = "terraform"
  <2>1. Resource(d).attributes = TerraformAttributes(d.settings)
    BY <1>1 DEF Resource, Attributes
  <2>2. /\ s.setting \in DOMAIN Resource(d).attributes
        /\ Resource(d).attributes[s.setting] = d.settings[s.setting].text
    BY <2>1 DEF TerraformAttributes
  <2>3. Resource(d).type = Normalize(s.type).type
    BY DEF Resource
  <2> QED
    BY <1>1, <2>2, <2>3 DEF StatedSettings, Stated, Normalize, typeMap, Azure
<1>2. CASE s.lang = "bicep"
  <2> DEFINE keyMap == armAttrKeyMap[s.type]
             known == DOMAIN d.settings \cap DOMAIN keyMap
             attr == keyMap[s.setting]
  <2>1. /\ s.type \in DOMAIN armAttrKeyMap /\ s.setting \in DOMAIN keyMap
        /\ \A a \in DOMAIN keyMap : keyMap[a] = attr => a = s.setting
        /\ s.rule = "PF-AZ-001" => attr = "allow_nested_items_to_be_public"
        /\ s.rule = "PF-AZ-002" => attr = "min_tls_version"
        /\ s.rule = "PF-AZ-020" => attr = "purge_protection_enabled"
    BY <1>2 DEF StatedSettings, Stated, armAttrKeyMap
  <2>2. Resource(d).type = Normalize(s.type).type
    BY DEF Resource
  <2>3. Resource(d).attributes = BicepAttributes(d.type, d.settings)
    BY <1>2 DEF Resource, Attributes
  <2> HIDE DEF keyMap
  <2>4. Resource(d).attributes =
          [c \in {keyMap[a] : a \in known} |->
             d.settings[CHOOSE a \in known : keyMap[a] = c].text]
    BY <2>1, <2>3 DEF BicepAttributes, keyMap
  <2>5. attr \in {keyMap[a] : a \in known}
    BY <2>1
  <2>6. (CHOOSE a \in known : keyMap[a] = attr) = s.setting
    BY <2>1
  <2>7. /\ attr \in DOMAIN Resource(d).attributes
        /\ Resource(d).attributes[attr] = d.settings[s.setting].text
    <3> HIDE DEF attr, known
    <3> QED
      BY <2>4, <2>5, <2>6
  <2>8. /\ s.rule = "PF-AZ-001" => Resource(d).type = "storage_account"
        /\ s.rule = "PF-AZ-002" => Resource(d).type = "storage_account"
        /\ s.rule = "PF-AZ-020" => Resource(d).type = "key_vault"
        /\ s.rule \in {"PF-AZ-001", "PF-AZ-002", "PF-AZ-020"}
    BY <1>2, <2>2 DEF StatedSettings, Stated, Normalize, typeMap, Azure
  <2> HIDE DEF attr
  <2> QED
    BY <2>1, <2>7, <2>8
<1> QED
  BY <1>1, <1>2 DEF StatedSettings, Stated

\* What an embedded rule is about, it fires for.
LEMMA SettingFires ==
  ASSUME NEW d, NEW r \in SettingFlaws(d)
  PROVE  \E m \in Packs!embedded : \E rule \in m.rules :
           ruleIDFromMessage(rule) = r /\ Packs!Fires(rule, Resource(d))
<1>1. PICK s \in StatedSettings :
        /\ r = s.rule /\ d.lang = s.lang /\ d.type = s.type /\ s.setting \in DOMAIN d.settings
        /\ d.settings[s.setting].literal /\ Wrong(s.rule, d.settings[s.setting].text)
  BY DEF SettingFlaws
<1> DEFINE text == d.settings[s.setting].text
<1>2. PICK type, attr :
        /\ <<s.rule, type, attr>> \in
             {<<"PF-AZ-001", "storage_account", "allow_nested_items_to_be_public">>,
              <<"PF-AZ-002", "storage_account", "min_tls_version">>,
              <<"PF-AZ-020", "key_vault", "purge_protection_enabled">>}
        /\ Resource(d).type = type
        /\ attr \in DOMAIN Resource(d).attributes
        /\ Resource(d).attributes[attr] = text
  BY <1>1, SettingKept
<1>3. CASE r = "PF-AZ-001"
  <2> DEFINE c == Packs!Is("allow_nested_items_to_be_public", {"true"})
             rule == Packs!Deny("PF-AZ-001", "storage_account", {c})
  <2>1. text = "true"
    BY <1>1, <1>3 DEF Wrong
  <2>2. c.attr = attr /\ c.negated = FALSE /\ text \in c.values /\ type = "storage_account"
    BY <1>1, <1>2, <1>3, <2>1 DEF Packs!Is
  <2>3. Packs!Fires(rule, Resource(d))
    <3> HIDE DEF c, text
    <3> QED
      BY <1>2, <2>2, OneCondition
  <2>4. rule \in Packs!storage_account.rules /\ Packs!storage_account \in Packs!embedded
    BY DEF Packs!storage_account, Packs!Azure, Packs!embedded
  <2>5. ruleIDFromMessage(rule) = r
    BY <1>3 DEF ruleIDFromMessage, Packs!Deny
  <2> HIDE DEF rule
  <2> QED
    BY <2>3, <2>4, <2>5
<1>4. CASE r = "PF-AZ-002"
  <2> DEFINE c == Packs!IsNot("min_tls_version", "TLS1_2")
             rule == Packs!Deny("PF-AZ-002", "storage_account", {c})
  <2>1. text \in {"TLS1_0", "TLS1_1"}
    BY <1>1, <1>4 DEF Wrong
  <2>2. c.attr = attr /\ c.negated = TRUE /\ text \notin c.values /\ type = "storage_account"
    BY <1>1, <1>2, <1>4, <2>1 DEF Packs!IsNot
  <2>3. Packs!Fires(rule, Resource(d))
    <3> HIDE DEF c, text
    <3> QED
      BY <1>2, <2>2, OneCondition
  <2>4. rule \in Packs!storage_account.rules /\ Packs!storage_account \in Packs!embedded
    BY DEF Packs!storage_account, Packs!Azure, Packs!embedded
  <2>5. ruleIDFromMessage(rule) = r
    BY <1>4 DEF ruleIDFromMessage, Packs!Deny
  <2> HIDE DEF rule
  <2> QED
    BY <2>3, <2>4, <2>5
<1>5. CASE r = "PF-AZ-020"
  <2> DEFINE c == Packs!IsNot("purge_protection_enabled", "true")
             rule == Packs!Deny("PF-AZ-020", "key_vault", {c})
  <2>1. text # "true"
    BY <1>1, <1>5 DEF Wrong
  <2>2. c.attr = attr /\ c.negated = TRUE /\ text \notin c.values /\ type = "key_vault"
    BY <1>1, <1>2, <1>5, <2>1 DEF Packs!IsNot
  <2>3. Packs!Fires(rule, Resource(d))
    <3> HIDE DEF c, text
    <3> QED
      BY <1>2, <2>2, OneCondition
  <2>4. rule \in Packs!key_vault.rules /\ Packs!key_vault \in Packs!embedded
    BY DEF Packs!key_vault, Packs!Azure, Packs!embedded
  <2>5. ruleIDFromMessage(rule) = r
    BY <1>5 DEF ruleIDFromMessage, Packs!Deny
  <2> HIDE DEF rule
  <2> QED
    BY <2>3, <2>4, <2>5
<1> QED
  BY <1>1, <1>2, <1>3, <1>4, <1>5

\* The same for a container of a pod.
LEMMA ContainerFires ==
  ASSUME NEW d, NEW r \in ContainerFlaws(d)
  PROVE  \E m \in Packs!embedded : \E rule \in m.rules :
           ruleIDFromMessage(rule) = r /\ Packs!Fires(rule, Resource(d))
<1>1. /\ r \in {"PF-K8S-001", "PF-K8S-005"} /\ d.lang = "k8s" /\ <<d.type, d.at>> \in PodSpecs
      /\ \E c \in allContainers(d.spec) :
           IF r = "PF-K8S-001" THEN c.privileged = "true" ELSE c.limits = {}
  BY DEF ContainerFlaws, allContainers, ToSet
<1>2. /\ d.type \in DOMAIN podSpecFor /\ d.at = podSpecFor[d.type]
      /\ Normalize(d.type).type = "pod_workload"
  BY <1>1 DEF PodSpecs, podSpecFor, Normalize, typeMap, Workload
<1>3. Resource(d).type = "pod_workload" /\ Resource(d).attributes = podSecurityAttributes(d.spec)
  BY <1>1, <1>2 DEF Resource, Attributes
<1> DEFINE attr == IF r = "PF-K8S-001" THEN "privileged" ELSE "missing_resource_limits"
           c == Packs!Is(attr, {"true"})
           rule == Packs!Deny(r, "pod_workload", {c})
<1>4. attr \in DOMAIN Resource(d).attributes /\ Resource(d).attributes[attr] = "true"
  <2>1. /\ attr \in DOMAIN podSecurityAttributes(d.spec)
        /\ podSecurityAttributes(d.spec)[attr] = "true"
    BY <1>1 DEF podSecurityAttributes, Flag
  <2> QED
    BY <1>3, <2>1
<1>5. Packs!Fires(rule, Resource(d))
  <2>1. c.attr = attr /\ c.negated = FALSE /\ "true" \in c.values
    BY DEF Packs!Is
  <2> HIDE DEF c, attr
  <2> QED
    BY <1>3, <1>4, <2>1, OneCondition
<1>6. rule \in Packs!pod_security.rules /\ Packs!pod_security \in Packs!embedded
  <2>1. \E fact \in Packs!podFacts : fact[1] = r /\ fact[2] = attr
    BY <1>1 DEF Packs!podFacts
  <2>2. rule \in {Packs!Deny(fact[1], "pod_workload", {Packs!Is(fact[2], {"true"})}) :
                    fact \in Packs!podFacts}
    <3> HIDE DEF attr
    <3> QED
      BY <2>1, Zenon
  <2> HIDE DEF rule
  <2> QED
    BY <2>2 DEF Packs!pod_security, Packs!embedded
<1>7. ruleIDFromMessage(rule) = r
  BY DEF ruleIDFromMessage, Packs!Deny
<1> HIDE DEF rule
<1> QED
  BY <1>5, <1>6, <1>7

\* Whatever is wrong by what a declaration says is found, in either language,
\* in either list of containers and in every kind of workload, whatever else
\* the tree and the policy directory hold.
THEOREM StatedFlawsFound == Spec => []NoStatedFlawEscapes
<1>1. IInv => NoStatedFlawEscapes
  <2> SUFFICES ASSUME IInv, pc = "done", NEW i \in DOMAIN tree,
                      NEW r \in SettingFlaws(tree[i]) \cup ContainerFlaws(tree[i])
               PROVE  \E f \in findings : f.source = i /\ f.rule = r
    BY Zenon DEF NoStatedFlawEscapes
  <2>1. PICK m \in Packs!embedded : \E rule \in m.rules :
          ruleIDFromMessage(rule) = r /\ Packs!Fires(rule, Resource(tree[i]))
    BY SettingFires, ContainerFires
  <2>2. PICK rule \in m.rules :
          ruleIDFromMessage(rule) = r /\ Packs!Fires(rule, Resource(tree[i]))
    BY <2>1
  <2>3. m \in modules /\ collectFindings(i) \subseteq findings
    BY DEF IInv, LoadedInv, HeardInv
  <2>4. Reached(m.package)
    BY EmbeddedReached
  <2> DEFINE f == [source |-> i, rule |-> ruleIDFromMessage(rule),
                   severity |-> severityFor(m.package, ruleIDFromMessage(rule))]
  <2>5. f \in findings
    BY <2>2, <2>3, <2>4, RuleIsHeard, Zenon
  <2>6. f.source = i /\ f.rule = r
    BY <2>2
  <2> QED
    BY <2>5, <2>6
<1> QED
  BY <1>1, EvaluationInvariance, PTL
-----------------------------------------------------------------------------
\* The attributes the tables of both parsers know for a resource's type.
KnownAttributes(type) ==
  {s.here : s \in {x \in SameSettings : Normalize(x.terraform).type = type}}
KnownTypes == {Normalize(s.terraform).type : s \in SameSettings}

\* A rule of a user's own asks for those only. (Bicep's parser drops any other
\* attribute, Terraform's keeps it.)
UserRulesKnown ==
  \A m \in UserFiles : \A rule \in m.rules :
    rule.type \in KnownTypes => \A c \in rule.where : c.attr \in KnownAttributes(rule.type)

\* The names of the three types, and of their attributes.
LEMMA Known ==
  /\ KnownTypes = {"storage_account", "key_vault", "nsg_rule"}
  /\ KnownAttributes("storage_account") = {"allow_nested_items_to_be_public", "min_tls_version"}
  /\ KnownAttributes("key_vault") = {"purge_protection_enabled"}
  /\ KnownAttributes("nsg_rule") = {"direction", "access", "source_address_prefix"}
<1> DEFINE Row(s, type, names) == Normalize(s.terraform).type = type /\ s.here \in names
<1>1. \A s \in SameSettings :
        \/ Row(s, "storage_account", {"allow_nested_items_to_be_public", "min_tls_version"})
        \/ Row(s, "key_vault", {"purge_protection_enabled"})
        \/ Row(s, "nsg_rule", {"direction", "access", "source_address_prefix"})
  BY DEF SameSettings, Same, Normalize, typeMap, Azure
<1> DEFINE account(a, b) == Same("azurerm_storage_account", "storageAccounts", a, b)
           vault(a, b) == Same("azurerm_key_vault", "vaults", a, b)
           nsg(a, b) == Same("azurerm_network_security_group_rule", "securityRules", a, b)
<1>2. /\ account("allow_nested_items_to_be_public", "allowBlobPublicAccess") \in SameSettings
      /\ account("min_tls_version", "minimumTlsVersion") \in SameSettings
      /\ vault("purge_protection_enabled", "enablePurgeProtection") \in SameSettings
      /\ nsg("direction", "direction") \in SameSettings
      /\ nsg("access", "access") \in SameSettings
      /\ nsg("source_address_prefix", "sourceAddressPrefix") \in SameSettings
  BY DEF SameSettings
<1>3. ASSUME NEW a, NEW b
      PROVE  /\ Row(account(a, b), "storage_account", {a}) /\ Row(vault(a, b), "key_vault", {a})
             /\ Row(nsg(a, b), "nsg_rule", {a})
  BY DEF Same, Normalize, typeMap, Azure
<1> HIDE DEF account, vault, nsg
<1>4. /\ \A name \in {"allow_nested_items_to_be_public", "min_tls_version"} :
           \E s \in SameSettings : Row(s, "storage_account", {name})
      /\ \E s \in SameSettings : Row(s, "key_vault", {"purge_protection_enabled"})
      /\ \A name \in {"direction", "access", "source_address_prefix"} :
           \E s \in SameSettings : Row(s, "nsg_rule", {name})
  <2> HIDE DEF Row
  <2> QED
    BY <1>2, <1>3
<1>5. KnownTypes = {"storage_account", "key_vault", "nsg_rule"}
  BY <1>1, <1>4 DEF KnownTypes
<1> QED
  BY <1>1, <1>4, <1>5 DEF KnownAttributes

\* The packs ask for nothing else either.
LEMMA PackRulesKnown ==
  \A m \in Packs!embedded : \A rule \in m.rules :
    rule.type \in KnownTypes => \A c \in rule.where : c.attr \in KnownAttributes(rule.type)
<1> SUFFICES ASSUME NEW m \in Packs!embedded, NEW rule \in m.rules,
                    rule.type \in KnownTypes, NEW c \in rule.where
             PROVE  c.attr \in KnownAttributes(rule.type)
  OBVIOUS
<1>1. CASE m = Packs!storage_account
  BY <1>1, Known DEF Packs!storage_account, Packs!Azure, Packs!Deny, Packs!Is, Packs!IsNot
<1>2. CASE m = Packs!nsg
  BY <1>2, Known DEF Packs!nsg, Packs!Azure, Packs!Deny, Packs!Is
<1>3. CASE m = Packs!key_vault
  BY <1>3, Known DEF Packs!key_vault, Packs!Azure, Packs!Deny, Packs!IsNot
<1>4. CASE m = Packs!s3
  BY <1>4, Known DEF Packs!s3, Packs!Aws, Packs!Deny
<1>5. CASE m = Packs!security_group
  BY <1>5, Known DEF Packs!security_group, Packs!Aws, Packs!Deny
<1>6. CASE m = Packs!pod_security
  BY <1>6, Known DEF Packs!pod_security, Packs!Deny
<1> QED
  BY <1>1, <1>2, <1>3, <1>4, <1>5, <1>6 DEF Packs!embedded

\* The two parsers' tables meet: a setting has one name with the rules, and a
\* name of the rules comes from one setting.
LEMMA TablesMeet ==
  ASSUME NEW s \in SameSettings
  PROVE  /\ Normalize(s.bicep).type = Normalize(s.terraform).type
         /\ s.bicep \in DOMAIN armAttrKeyMap /\ s.there \in DOMAIN armAttrKeyMap[s.bicep]
         /\ armAttrKeyMap[s.bicep][s.there] = s.here
         /\ \A a \in DOMAIN armAttrKeyMap[s.bicep] :
              armAttrKeyMap[s.bicep][a] = s.here => a = s.there
         /\ \A x \in SameSettings : /\ x.bicep = s.bicep => x.terraform = s.terraform
                                    /\ Normalize(x.terraform).type = Normalize(s.terraform).type
                                       => x.terraform = s.terraform /\ x.bicep = s.bicep
BY DEF SameSettings, Same, Normalize, typeMap, Azure, armAttrKeyMap

\* Twins are resources of one type that agree on what is known of it.
LEMMA TwinResources ==
  ASSUME NEW t, NEW b, Twins(t, b)
  PROVE  /\ Resource(t).type \in KnownTypes /\ Resource(b).type = Resource(t).type
         /\ \A attr \in KnownAttributes(Resource(t).type) :
              \/ attr \notin DOMAIN Resource(t).attributes
                 /\ attr \notin DOMAIN Resource(b).attributes
              \/ /\ attr \in DOMAIN Resource(t).attributes
                 /\ attr \in DOMAIN Resource(b).attributes
                 /\ Resource(t).attributes[attr] = Resource(b).attributes[attr]
<1>1. PICK z \in SameSettings : z.terraform = t.type /\ z.bicep = b.type
  BY DEF Twins
<1>2. Resource(t).type = Normalize(t.type).type /\ Resource(b).type = Normalize(b.type).type
  BY DEF Resource
<1>3. Resource(t).type \in KnownTypes /\ Resource(b).type = Resource(t).type
  BY <1>1, <1>2, TablesMeet DEF KnownTypes
<1> DEFINE T == Resource(t).attributes
           B == Resource(b).attributes
           keyMap == armAttrKeyMap[b.type]
           known == DOMAIN b.settings \cap DOMAIN keyMap
<1>4. T = TerraformAttributes(t.settings) /\ B = BicepAttributes(b.type, b.settings)
  BY DEF Resource, Attributes, Twins
<1>5. ASSUME NEW attr \in KnownAttributes(Resource(t).type)
      PROVE  \/ attr \notin DOMAIN T /\ attr \notin DOMAIN B
             \/ attr \in DOMAIN T /\ attr \in DOMAIN B /\ T[attr] = B[attr]
  <2>1. PICK s \in SameSettings :
          attr = s.here /\ Normalize(s.terraform).type = Normalize(t.type).type
    BY <1>2 DEF KnownAttributes
  <2>2. s.terraform = t.type /\ s.bicep = b.type
    BY <1>1, <2>1, TablesMeet
  <2>3. /\ b.type \in DOMAIN armAttrKeyMap /\ s.there \in DOMAIN keyMap
        /\ keyMap[s.there] = attr
        /\ \A a \in DOMAIN keyMap : keyMap[a] = attr => a = s.there
    BY <2>1, <2>2, TablesMeet
  <2> HIDE DEF keyMap
  <2>4. B = [c \in {keyMap[a] : a \in known} |->
               b.settings[CHOOSE a \in known : keyMap[a] = c].text]
    BY <1>4, <2>3 DEF BicepAttributes, keyMap
  <2>5. attr \in {keyMap[a] : a \in known} <=> s.there \in DOMAIN b.settings
    BY <2>3
  <2>6. CASE s.here \notin DOMAIN t.settings /\ s.there \notin DOMAIN b.settings
    <3>1. attr \notin DOMAIN T
      BY <1>4, <2>1, <2>6 DEF TerraformAttributes
    <3>2. attr \notin DOMAIN B
      BY <2>4, <2>5, <2>6
    <3> QED
      BY <3>1, <3>2
  <2>7. CASE /\ s.here \in DOMAIN t.settings /\ s.there \in DOMAIN b.settings
             /\ t.settings[s.here].literal /\ b.settings[s.there].literal
             /\ t.settings[s.here].text = b.settings[s.there].text
    <3>1. attr \in DOMAIN T /\ T[attr] = t.settings[s.here].text
      BY <1>4, <2>1, <2>7 DEF TerraformAttributes
    <3>2. (CHOOSE a \in known : keyMap[a] = attr) = s.there
      BY <2>3, <2>7
    <3>3. attr \in DOMAIN B /\ B[attr] = b.settings[s.there].text
      <4> HIDE DEF known
      <4> QED
        BY <2>4, <2>5, <2>7, <3>2
    <3> QED
      BY <2>7, <3>1, <3>3
  <2> QED
    BY <2>2, <2>6, <2>7 DEF Twins
<1> QED
  BY <1>3, <1>5

\* A rule that asks for known attributes fires for both twins or for neither.
LEMMA TwinsFire ==
  ASSUME UserRulesKnown, NEW t, NEW b, Twins(t, b), NEW m \in Modules, NEW rule \in m.rules
  PROVE  Packs!Fires(rule, Resource(t)) <=> Packs!Fires(rule, Resource(b))
<1>1. rule.type \in KnownTypes => \A c \in rule.where : c.attr \in KnownAttributes(rule.type)
  BY PackRulesKnown DEF UserRulesKnown, Modules
<1>2. CASE rule.type # Resource(t).type
  BY <1>2, TwinResources DEF Packs!Fires
<1>3. CASE rule.type = Resource(t).type
  <2>1. \A c \in rule.where :
          \/ c.attr \notin DOMAIN Resource(t).attributes
             /\ c.attr \notin DOMAIN Resource(b).attributes
          \/ /\ c.attr \in DOMAIN Resource(t).attributes
             /\ c.attr \in DOMAIN Resource(b).attributes
             /\ Resource(t).attributes[c.attr] = Resource(b).attributes[c.attr]
    BY <1>1, <1>3, TwinResources
  <2> QED
    BY <1>3, <2>1, TwinResources DEF Packs!Fires
<1> QED
  BY <1>2, <1>3

\* Resources for which the same rules fire have the same verdict.
LEMMA SameVerdict ==
  ASSUME IInv, pc = "done", NEW i \in DOMAIN tree, NEW j \in DOMAIN tree,
         \A m \in modules : \A rule \in m.rules :
           Packs!Fires(rule, Resource(tree[i])) => Packs!Fires(rule, Resource(tree[j]))
  PROVE  Verdict(i) \subseteq Verdict(j)
<1> SUFFICES ASSUME NEW f \in findings, f.source = i
             PROVE  [rule |-> f.rule, severity |-> f.severity] \in Verdict(j)
  BY DEF Verdict
<1>1. f \in collectFindings(i)
  BY DEF IInv, HeardInv
<1>2. PICK m \in modules : \E rule \in m.rules :
        /\ Reached(m.package) /\ Packs!Fires(rule, Resource(tree[i]))
        /\ f = [source |-> i, rule |-> ruleIDFromMessage(rule),
                severity |-> severityFor(m.package, ruleIDFromMessage(rule))]
  BY <1>1, FindingOf, Zenon
<1>3. PICK rule \in m.rules :
        /\ Reached(m.package) /\ Packs!Fires(rule, Resource(tree[i]))
        /\ f = [source |-> i, rule |-> ruleIDFromMessage(rule),
                severity |-> severityFor(m.package, ruleIDFromMessage(rule))]
  BY <1>2, Zenon
<1> DEFINE g == [source |-> j, rule |-> ruleIDFromMessage(rule),
                 severity |-> severityFor(m.package, ruleIDFromMessage(rule))]
<1>4. g \in collectFindings(j)
  BY <1>3, RuleIsHeard, Zenon
<1>5. g \in findings
  BY <1>4 DEF IInv, HeardInv
<1>6. g.source = j /\ g.rule = f.rule /\ g.severity = f.severity
  BY <1>3
<1> QED
  BY <1>5, <1>6 DEF Verdict

\* One rule pack covers both source languages (typeMap's comment): the same
\* resource is judged alike, whatever rules a user adds about the attributes
\* both parsers know.
THEOREM TwinsAgree ==
  ASSUME UserRulesKnown
  PROVE  Spec => []LanguagesAgree
<1>1. IInv => LanguagesAgree
  <2> SUFFICES ASSUME IInv, pc = "done", NEW i \in DOMAIN tree,
                      NEW j \in DOMAIN tree, Twins(tree[i], tree[j])
               PROVE  Verdict(i) = Verdict(j)
    BY Zenon DEF LanguagesAgree
  <2>1. modules \subseteq Modules
    BY DEF IInv, TypeOK
  <2>2. \A m \in modules : \A rule \in m.rules :
          Packs!Fires(rule, Resource(tree[i])) <=> Packs!Fires(rule, Resource(tree[j]))
    BY <2>1, TwinsFire
  <2>3. Verdict(i) \subseteq Verdict(j) /\ Verdict(j) \subseteq Verdict(i)
    BY <2>2, SameVerdict, Zenon
  <2> QED
    BY <2>3
<1> QED
  BY <1>1, EvaluationInvariance, PTL
=============================================================================
