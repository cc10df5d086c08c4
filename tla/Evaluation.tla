----------------------------- MODULE Evaluation -----------------------------
(* From a declaration in any language to its findings: what each parser      *)
(* keeps of a resource, the normalizer, the embedded packs with the user's   *)
(* own, and the walk through their results.                                  *)
EXTENDS Integers, Sequences, SequencesExt, FiniteSets, Normalizer

\* The packs have names of their own for the providers.
Packs == INSTANCE RulePacks

CONSTANTS
  Sources,       \* declarations a tree may hold
  UserFiles,     \* .rego files a --policy-dir may hold
  MaxSources,    \* bound: declarations in the tree
  MaxUserFiles   \* bound: files in the policy directory

\* A setting is a literal or an expression; an expression's text is not known.
Setting(text) == [literal |-> TRUE, text |-> text]
Expression(text) == [literal |-> FALSE, text |-> text]

\* A user's file may not parse, and may declare no package: then <<>>.
ASSUME FilesAssumption == \A f \in UserFiles :
  /\ DOMAIN f = {"compiles", "package", "rules", "severity"}
  /\ f.package \in Seq(STRING)
ASSUME BoundsAssumption == MaxSources \in Nat /\ MaxUserFiles \in Nat

VARIABLES
  tree,      \* the declarations, in the order the parsers reach them
  files,     \* the policy directory, in WalkDir's order
  pc,
  k,         \* the file loading or the declaration evaluation is at
  modules,   \* what is loaded
  findings   \* the findings so far

vars == <<tree, files, pc, k, modules, findings>>
-----------------------------------------------------------------------------
(* The parsers: the attributes of a declaration.                             *)

\* Terraform: literals only, under their own names.
TerraformAttributes(settings) ==
  [a \in {x \in DOMAIN settings : settings[x].literal} |-> settings[a].text]

\* Bicep: the keys of the type's table, each with the text after the colon,
\* an expression's as well.
BicepAttributes(type, settings) ==
  LET keyMap == IF type \in DOMAIN armAttrKeyMap THEN armAttrKeyMap[type] ELSE <<>>
      known == DOMAIN settings \cap DOMAIN keyMap
  IN [c \in {keyMap[a] : a \in known} |->
        settings[CHOOSE a \in known : keyMap[a] = c].text]

Flag(b) == IF b THEN "true" ELSE "false"

\* Variant: init containers are not looked at.
allContainers_NoInit(spec) == ToSet(spec.containers)

allContainers(spec) == ToSet(spec.containers) \cup ToSet(spec.initContainers)

\* Kubernetes: one container is enough for each fact but the network, and an
\* unset field is no fact.
podSecurityAttributes(spec) ==
  LET some(P(_)) == Flag(\E c \in allContainers(spec) : P(c)) IN
  [host_network |-> Flag(spec.hostNetwork = "true"),
   privileged |-> some(LAMBDA c : c.privileged = "true"),
   allow_privilege_escalation |-> some(LAMBDA c : c.allowPrivilegeEscalation = "true"),
   run_as_non_root_false |-> Flag(\/ spec.runAsNonRoot = "false"
                                  \/ \E c \in allContainers(spec) : c.runAsNonRoot = "false"),
   missing_resource_limits |-> some(LAMBDA c : c.limits = {})]

\* podSpecFor: where the pod spec is in a manifest of each kind.
podSpecFor ==
  [kind \in {"Pod", "CronJob", "Deployment", "DaemonSet", "StatefulSet", "ReplicaSet", "Job"} |->
     CASE kind = "Pod" -> "spec"
       [] kind = "CronJob" -> "spec.jobTemplate.spec.template.spec"
       [] OTHER -> "spec.template.spec"]

Attributes(d) ==
  CASE d.lang = "terraform" -> TerraformAttributes(d.settings)
    [] d.lang = "bicep" -> BicepAttributes(d.type, d.settings)
    [] d.lang = "k8s" ->
         IF d.type \in DOMAIN podSpecFor /\ d.at = podSpecFor[d.type]
         THEN podSecurityAttributes(d.spec) ELSE <<>>

Resource(d) == [type |-> Normalize(d.type).type, attributes |-> Attributes(d)]
-----------------------------------------------------------------------------
(* EvaluateOPA.                                                              *)

Modules == Packs!embedded \cup UserFiles
RuleIds == UNION {{rule.id : rule \in m.rules} : m \in Modules}

\* Whatever text a file gives as a severity is one; HIGH is the default.
Severities == {"HIGH"} \cup UNION {{m.severity[id] : id \in DOMAIN m.severity} : m \in Modules}
Findings == [source : 1..MaxSources, rule : RuleIds \cup {"UNKNOWN"},
             severity : Severities]

\* Every finding is of a rule that was given and a severity that is in a file
\* or the default, and about a declaration of the tree.
TypeOK ==
  /\ tree \in Seq(Sources) /\ Len(tree) <= MaxSources
  /\ files \in Seq(UserFiles) /\ Len(files) <= MaxUserFiles
  /\ pc \in {"load", "prepare", "evaluate", "done", "failed"}
  /\ k \in 1..(MaxSources + MaxUserFiles + 1)
  /\ modules \subseteq Modules
  /\ findings \subseteq Findings

\* The embedded packs load whatever else happens.
Init ==
  /\ tree \in BoundedSeq(Sources, MaxSources)
  /\ files \in BoundedSeq(UserFiles, MaxUserFiles)
  /\ pc = "load" /\ k = 1
  /\ modules = Packs!embedded
  /\ findings = {}

Fail == pc' = "failed" /\ findings' = {} /\ UNCHANGED <<k, modules>>

\* Variant: the namespace is compared as a prefix of the text.
InNamespace_Prefix(package) ==
  package # <<>> /\ package[1] \in {"policyforge", "policyforgery"}

\* "policyforge" or a package below it.
InNamespace(package) == package # <<>> /\ package[1] = "policyforge"

\* loadUserModules: one file of the policy directory. A file that declares no
\* package, or one outside of the namespace, ends the run.
LoadUserModule ==
  /\ pc = "load" /\ k <= Len(files)
  /\ LET file == files[k] IN
       \/ /\ InNamespace(file.package)
          /\ modules' = modules \cup {file} /\ k' = k + 1
          /\ UNCHANGED <<pc, findings>>
       \/ /\ ~InNamespace(file.package)
          /\ Fail
  /\ UNCHANGED <<tree, files>>

\* PrepareForEval compiles everything; one file that does not ends the run.
Prepare ==
  /\ pc = "load" /\ k = Len(files) + 1
  /\ \/ /\ \A i \in DOMAIN files : files[i].compiles
        /\ pc' = "evaluate" /\ k' = 1 /\ UNCHANGED <<modules, findings>>
     \/ ~(\A i \in DOMAIN files : files[i].compiles) /\ Fail
  /\ UNCHANGED <<tree, files>>

\* The results of one package come together, whatever files they are from.
Package(p) == {m \in modules : m.package = p}
RulesOf(p) == UNION {m.rules : m \in Package(p)}
Declared(p, id) == {m.severity[id] : m \in {n \in Package(p) : id \in DOMAIN n.severity}}

\* Rego: two values for one key of `severity` are an error, once it is asked.
Conflicting == \E m, n \in modules :
  /\ m.package = n.package
  /\ \E id \in DOMAIN m.severity \cap DOMAIN n.severity : m.severity[id] # n.severity[id]

\* The rule's id is what its message has before the first colon.
ruleIDFromMessage(rule) == IF rule.named THEN rule.id ELSE "UNKNOWN"

\* Variant: a rule without a severity has none.
severityFor_NoDefault(p, id) ==
  IF Declared(p, id) = {} THEN "" ELSE CHOOSE s \in Declared(p, id) : TRUE

severityFor(p, id) ==
  IF Declared(p, id) = {} THEN "HIGH" ELSE CHOOSE s \in Declared(p, id) : TRUE

\* The walk through data.policyforge goes into every name but the two of the
\* rules, at any depth, and takes a package's denials where it meets them.
Reached(package) ==
  /\ package[1] = "policyforge"
  /\ \A i \in 2..Len(package) : package[i] \notin {"deny", "severity"}

collectFindings(i) ==
  UNION {{[source |-> i, rule |-> ruleIDFromMessage(rule),
           severity |-> severityFor(p, ruleIDFromMessage(rule))] :
            rule \in {x \in RulesOf(p) : Packs!Fires(x, Resource(tree[i]))}} :
         p \in {m.package : m \in {n \in modules : Reached(n.package)}}}

\* One resource; an error loses the findings of the ones before.
EvalResource ==
  /\ pc = "evaluate" /\ k <= Len(tree)
  /\ \/ Conflicting /\ Fail
     \/ ~Conflicting /\ findings' = findings \cup collectFindings(k) /\ k' = k + 1
        /\ UNCHANGED <<pc, modules>>
  /\ UNCHANGED <<tree, files>>

Finish ==
  /\ pc = "evaluate" /\ k = Len(tree) + 1
  /\ pc' = "done"
  /\ UNCHANGED <<tree, files, k, modules, findings>>

Next == LoadUserModule \/ Prepare \/ EvalResource \/ Finish

Spec == Init /\ [][Next]_vars
-----------------------------------------------------------------------------
\* A finding about declaration i has the rule's id and the severity of the
\* rule's own package, HIGH if that has none.
Heard(i, m, rule) ==
  \E f \in findings :
    /\ f.source = i
    /\ f.rule = ruleIDFromMessage(rule)
    /\ f.severity \in IF Declared(m.package, f.rule) = {} THEN {"HIGH"}
                      ELSE Declared(m.package, f.rule)

\* loadUserModules' comment: no rule of a file that was given, in the binary or
\* by the user, is silently left out. A scan that succeeds has a finding for
\* each rule that fires. (A package named after one of the two rules is not met.)
EveryRuleIsHeard ==
  pc = "done" =>
    \A i \in DOMAIN tree, m \in Packs!embedded \cup ToSet(files) :
      \A rule \in m.rules :
        /\ Packs!Fires(rule, Resource(tree[i]))
        /\ \A j \in DOMAIN m.package : m.package[j] \notin {"deny", "severity"}
        => Heard(i, m, rule)

\* The types and settings that are the same in Terraform's and Azure's schemas,
\* as far as a rule of the packs asks for them.
Same(terraform, bicep, here, there) ==
  [terraform |-> terraform, bicep |-> bicep, here |-> here, there |-> there]
SameSettings ==
  {Same("azurerm_storage_account", "storageAccounts",
        "allow_nested_items_to_be_public", "allowBlobPublicAccess"),
   Same("azurerm_storage_account", "storageAccounts", "min_tls_version", "minimumTlsVersion"),
   Same("azurerm_key_vault", "vaults", "purge_protection_enabled", "enablePurgeProtection")}
  \cup {Same("azurerm_network_security_group_rule", "securityRules", names[1], names[2]) :
          names \in {<<"direction", "direction">>, <<"access", "access">>,
                     <<"source_address_prefix", "sourceAddressPrefix">>}}

\* The same resource in Terraform and in Bicep: of the same type, with the same
\* literal for each of these settings, or none in both.
Twins(t, b) ==
  /\ t.lang = "terraform" /\ b.lang = "bicep"
  /\ \E s \in SameSettings : s.terraform = t.type /\ s.bicep = b.type
  /\ \A s \in SameSettings : s.terraform = t.type =>
       \/ s.here \notin DOMAIN t.settings /\ s.there \notin DOMAIN b.settings
       \/ /\ s.here \in DOMAIN t.settings /\ s.there \in DOMAIN b.settings
          /\ t.settings[s.here].literal /\ b.settings[s.there].literal
          /\ t.settings[s.here].text = b.settings[s.there].text

\* What is found about declaration i.
Verdict(i) ==
  {[rule |-> f.rule, severity |-> f.severity] : f \in {g \in findings : g.source = i}}

\* typeMap's comment: one rule pack covers both source languages. Twins have
\* the same findings of the same severities.
LanguagesAgree ==
  pc = "done" =>
    \A i, j \in DOMAIN tree : Twins(tree[i], tree[j]) => Verdict(i) = Verdict(j)

\* What the packs' comments call wrong in one setting, under its name in either
\* language; of the TLS versions Azure knows, those below the minimum.
Stated(lang, type, setting, rule) ==
  [lang |-> lang, type |-> type, setting |-> setting, rule |-> rule]
StatedSettings ==
  {Stated("terraform", "azurerm_storage_account", "allow_nested_items_to_be_public", "PF-AZ-001"),
   Stated("bicep", "storageAccounts", "allowBlobPublicAccess", "PF-AZ-001"),
   Stated("terraform", "azurerm_storage_account", "min_tls_version", "PF-AZ-002"),
   Stated("bicep", "storageAccounts", "minimumTlsVersion", "PF-AZ-002"),
   Stated("terraform", "azurerm_key_vault", "purge_protection_enabled", "PF-AZ-020"),
   Stated("bicep", "vaults", "enablePurgeProtection", "PF-AZ-020")}
Wrong(rule, text) ==
  CASE rule = "PF-AZ-001" -> text = "true"
    [] rule = "PF-AZ-002" -> text \in {"TLS1_0", "TLS1_1"}
    [] rule = "PF-AZ-020" -> text # "true"

SettingFlaws(d) ==
  {s.rule : s \in {x \in StatedSettings :
     /\ d.lang = x.lang /\ d.type = x.type /\ x.setting \in DOMAIN d.settings
     /\ d.settings[x.setting].literal /\ Wrong(x.rule, d.settings[x.setting].text)}}

\* Kubernetes' API: the kinds that run pods, and where they have the spec.
PodSpecs ==
  {<<"Pod", "spec">>, <<"CronJob", "spec.jobTemplate.spec.template.spec">>}
  \cup {<<kind, "spec.template.spec">> :
          kind \in {"Deployment", "DaemonSet", "StatefulSet", "ReplicaSet", "Job"}}

\* One container is enough, in whichever list.
ContainerFlaws(d) ==
  {r \in {"PF-K8S-001", "PF-K8S-005"} :
     /\ d.lang = "k8s" /\ <<d.type, d.at>> \in PodSpecs
     /\ \E list \in {d.spec.containers, d.spec.initContainers} : \E j \in DOMAIN list :
          IF r = "PF-K8S-001" THEN list[j].privileged = "true" ELSE list[j].limits = {}}

\* Nothing a declaration says in so many words escapes: a public account, an
\* old TLS version, a vault without purge protection or a privileged container
\* has its finding, in whichever language, list and kind of workload it is
\* wrapped. (What is left out or computed is not judged.)
NoStatedFlawEscapes ==
  pc = "done" =>
    \A i \in DOMAIN tree : \A r \in SettingFlaws(tree[i]) \cup ContainerFlaws(tree[i]) :
      \E f \in findings : f.source = i /\ f.rule = r
=============================================================================
