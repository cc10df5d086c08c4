------------------------------ MODULE MCDrift -------------------------------
(* Instance of Drift: declarations of both languages, one attribute with two *)
(* values, two spellings of one name, and live resources of every type with  *)
(* the names of others.                                                      *)
EXTENDS Drift, TLC

MCFold(name) == IF name = "APP" THEN "app" ELSE name

Bicep(type, name, attributes) ==
  [lang |-> "bicep", type |-> type, label |-> name, name |-> name, attributes |-> attributes]
Terraform(type, label, name, attributes) ==
  [lang |-> "terraform", type |-> type, label |-> label, name |-> name,
   attributes |-> attributes]
Live(type, name, properties) == [type |-> type, name |-> name, properties |-> properties]

Purge(v) == "purge_protection_enabled" :> v
Tls(v) == "min_tls_version" :> v

MCDeclarations ==
  {Bicep("vaults", "APP", Purge("true")), Bicep("vaults", "kv", Purge("false")),
   Bicep("vaults", "kv", <<>>),
   Bicep("storageAccounts", "app", Tls("TLS1_2")),
   Bicep("redis", "app", <<>>),
   Terraform("azurerm_key_vault", "main", "kv", Purge("true") @@ "name" :> "kv"),
   Terraform("azurerm_key_vault", "app", "kv", Purge("true") @@ "name" :> "kv"),
   Terraform("azurerm_storage_account", "app", "app", Tls("TLS1_0") @@ "name" :> "app"),
   Terraform("aws_s3_bucket", "app", "app", "acl" :> "private")}

LivePurge(v) == "enablePurgeProtection" :> v
LiveTls(v) == "minimumTlsVersion" :> v

MCDeployables ==
  {Live("vaults", "app", LivePurge("false")), Live("vaults", "kv", LivePurge("true")),
   Live("vaults", "kv", LivePurge("[]")), Live("vaults", "kv", <<>>),
   Live("storageAccounts", "app", LiveTls("TLS1_2")),
   Live("storageAccounts", "kv", LiveTls("TLS1_0")),
   Live("securityRules", "app", "access" :> "Allow"),
   Live("redis", "app", LiveTls("TLS1_0"))}
=============================================================================
