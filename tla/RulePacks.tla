----------------------------- MODULE RulePacks ------------------------------
(* The embedded rule packs, as data. A deny rule is a conjunction of         *)
(* conditions on the resource's type and attributes; in Rego a condition on  *)
(* an attribute that is not there is undefined, so no rule fires for it.     *)
LOCAL INSTANCE TLC

Is(attr, values) == [attr |-> attr, values |-> values, negated |-> FALSE]
IsNot(attr, value) == [attr |-> attr, values |-> {value}, negated |-> TRUE]

\* A body of a deny rule; its message names the rule if it begins with "ID:".
Deny(id, type, where) == [id |-> id, type |-> type, where |-> where, named |-> TRUE]

\* cidr_blocks is a list in one text; those that contain 0.0.0.0/0.
OpenCidrs == {"[0.0.0.0/0]", "[10.0.0.0/8,0.0.0.0/0]"}

Fires(rule, resource) ==
  /\ resource.type = rule.type
  /\ \A c \in rule.where :
       /\ c.attr \in DOMAIN resource.attributes
       /\ (resource.attributes[c.attr] \in c.values) # c.negated
-----------------------------------------------------------------------------
Azure(rules, severity) ==
  [package |-> <<"policyforge", "azure", "cis_foundations">>, rules |-> rules,
   severity |-> severity]
Aws(rules, severity) ==
  [package |-> <<"policyforge", "aws", "core">>, rules |-> rules, severity |-> severity]

storage_account ==
  Azure({Deny("PF-AZ-001", "storage_account",
              {Is("allow_nested_items_to_be_public", {"true"})}),
         Deny("PF-AZ-002", "storage_account", {IsNot("min_tls_version", "TLS1_2")})},
        "PF-AZ-001" :> "HIGH" @@ "PF-AZ-002" :> "MEDIUM")

\* Two bodies of one rule, with one message.
nsg ==
  Azure({Deny("PF-AZ-010", "nsg_rule",
              {Is("direction", {"Inbound"}), Is("access", {"Allow"}),
               Is("source_address_prefix", {source})}) : source \in {"*", "0.0.0.0/0"}},
        "PF-AZ-010" :> "CRITICAL")

key_vault ==
  Azure({Deny("PF-AZ-020", "key_vault", {IsNot("purge_protection_enabled", "true")})},
        "PF-AZ-020" :> "MEDIUM")

s3 ==
  Aws({Deny("PF-AWS-001", "s3_bucket", {Is("acl", {acl})}) :
         acl \in {"public-read", "public-read-write"}},
      "PF-AWS-001" :> "HIGH")

security_group ==
  Aws({Deny("PF-AWS-010", "security_group_rule",
            {Is("type", {"ingress"}), Is("cidr_blocks", OpenCidrs)})},
      "PF-AWS-010" :> "CRITICAL")

\* One fact about a pod each, the same for every kind of workload.
podFacts == {<<"PF-K8S-001", "privileged">>, <<"PF-K8S-002", "host_network">>,
             <<"PF-K8S-003", "allow_privilege_escalation">>,
             <<"PF-K8S-004", "run_as_non_root_false">>,
             <<"PF-K8S-005", "missing_resource_limits">>}

pod_security ==
  [package |-> <<"policyforge", "k8s", "pod_security">>,
   rules |-> {Deny(fact[1], "pod_workload", {Is(fact[2], {"true"})}) : fact \in podFacts},
   severity |-> "PF-K8S-001" :> "CRITICAL" @@ "PF-K8S-002" :> "HIGH"
                @@ "PF-K8S-003" :> "HIGH" @@ "PF-K8S-004" :> "MEDIUM"
                @@ "PF-K8S-005" :> "LOW"]

embedded == {storage_account, nsg, key_vault, s3, security_group, pod_security}
=============================================================================
