---------------------------- MODULE MCEvaluation ----------------------------
(* Instance of Evaluation: Azure resources in both languages with literals,  *)
(* expressions and gaps, workloads of two containers, and policy files that  *)
(* add to a pack, repeat a rule id elsewhere, or may not be loaded.          *)
EXTENDS Evaluation, TLC

Terraform(type, settings) == [lang |-> "terraform", type |-> type, settings |-> settings]
Bicep(type, settings) == [lang |-> "bicep", type |-> type, settings |-> settings]

\* Storage accounts, an NSG rule, a vault that says nothing and one that says
\* no, each declared in both languages; an account whose TLS version is a parameter; a bucket.
AzureSources ==
  UNION {{Terraform("azurerm_storage_account",
                    "allow_nested_items_to_be_public" :> Setting(b)
                    @@ "min_tls_version" :> Setting(tls)),
          Bicep("storageAccounts",
                "allowBlobPublicAccess" :> Setting(b) @@ "minimumTlsVersion" :> Setting(tls))} :
          b \in {"true", "false"}, tls \in {"TLS1_0", "TLS1_2"}}
  \cup {Terraform("azurerm_network_security_group_rule",
                  "direction" :> Setting("Inbound") @@ "access" :> Setting("Allow")
                  @@ "source_address_prefix" :> Setting("*")),
        Bicep("securityRules",
              "direction" :> Setting("Inbound") @@ "access" :> Setting("Allow")
              @@ "sourceAddressPrefix" :> Setting("*")),
        Terraform("azurerm_key_vault", <<>>), Bicep("vaults", <<>>),
        Terraform("azurerm_key_vault", "purge_protection_enabled" :> Setting("false")),
        Bicep("vaults", "enablePurgeProtection" :> Setting("false")),
        Terraform("azurerm_storage_account", "min_tls_version" :> Expression("tls")),
        Bicep("storageAccounts", "minimumTlsVersion" :> Expression("tls"))}

AwsSources == {Terraform("aws_s3_bucket", "acl" :> Setting("public-read"))}

\* Kubernetes: where the API has the pod spec of each kind.
K8s(kind, at, spec) == [lang |-> "k8s", type |-> kind, at |-> at, spec |-> spec]
InTemplate == "spec.template.spec"

Container(privileged, limits) ==
  [privileged |-> privileged, allowPrivilegeEscalation |-> "unset",
   runAsNonRoot |-> "false", limits |-> limits]
Good == Container("unset", {"memory"})
Bad == Container("true", {})

PodSpec(containers, initContainers) ==
  [hostNetwork |-> "unset", runAsNonRoot |-> "unset",
   containers |-> containers, initContainers |-> initContainers]

K8sSources ==
  {K8s("Pod", "spec", PodSpec(<<Good, Bad>>, <<>>)),
   K8s("CronJob", "spec.jobTemplate.spec.template.spec", PodSpec(<<Good>>, <<Bad>>)),
   K8s("Job", InTemplate, PodSpec(<<Bad>>, <<Good>>)),
   K8s("Deployment", InTemplate, PodSpec(<<Good>>, <<>>)),
   K8s("Pod", "none", PodSpec(<<>>, <<>>)), K8s("Service", "none", PodSpec(<<>>, <<>>))}

MCSources == AzureSources \cup AwsSources \cup K8sSources

File(package, rules, severity) ==
  [compiles |-> TRUE, package |-> package, rules |-> rules, severity |-> severity]
NoKeys == <<>>
TlsRule == Packs!Deny("ORG-1", "storage_account", {Packs!IsNot("min_tls_version", "TLS1_3")})
Unnamed == [TlsRule EXCEPT !.named = FALSE]
Repeated == Packs!Deny("PF-AZ-002", "key_vault", {})

MCUserFiles ==
  {File(<<"policyforge", "custom", "org">>, {TlsRule}, "ORG-1" :> "LOW"),
   File(<<"policyforge">>, {Unnamed}, "ORG-1" :> "LOW"),
   File(<<"policyforge", "custom", "vault">>, {Repeated}, NoKeys),
   File(<<"policyforge", "azure", "cis_foundations">>, {}, "PF-AZ-002" :> "LOW"),
   File(<<"policyforge", "custom", "deny">>, {TlsRule}, NoKeys),
   File(<<"policyforgery">>, {TlsRule}, NoKeys),
   File(<<>>, {TlsRule}, NoKeys),
   [File(<<"policyforge", "broken">>, {TlsRule}, NoKeys) EXCEPT !.compiles = FALSE]}
=============================================================================
