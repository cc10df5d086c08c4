----------------------------- MODULE Normalizer -----------------------------
(* The tables that make one resource of several languages the same: source   *)
(* types to normalized ones, ARM property names to the attribute names the   *)
(* rules use. An ARM type is named by its last segment.                      *)

\* Variant: the ARM name is kept as the attribute's.
armAttrKeyMap_Renamed ==
  [storageAccounts |-> [allowBlobPublicAccess |-> "allow_nested_items_to_be_public",
                        minimumTlsVersion |-> "minimum_tls_version"],
   securityRules   |-> [direction |-> "direction", access |-> "access",
                        sourceAddressPrefix |-> "source_address_prefix"],
   vaults          |-> [enablePurgeProtection |-> "purge_protection_enabled"]]

armAttrKeyMap ==
  [storageAccounts |-> [allowBlobPublicAccess |-> "allow_nested_items_to_be_public",
                        minimumTlsVersion |-> "min_tls_version"],
   securityRules   |-> [direction |-> "direction", access |-> "access",
                        sourceAddressPrefix |-> "source_address_prefix"],
   vaults          |-> [enablePurgeProtection |-> "purge_protection_enabled"]]

Azure(type) == [provider |-> "azure", type |-> type]
Aws(type) == [provider |-> "aws", type |-> type]
Workload == [provider |-> "k8s", type |-> "pod_workload"]

typeMap ==
  [azurerm_storage_account |-> Azure("storage_account"),
   azurerm_network_security_group_rule |-> Azure("nsg_rule"),
   azurerm_key_vault |-> Azure("key_vault"),
   aws_s3_bucket |-> Aws("s3_bucket"),
   aws_security_group_rule |-> Aws("security_group_rule"),
   storageAccounts |-> Azure("storage_account"),
   securityRules |-> Azure("nsg_rule"),
   vaults |-> Azure("key_vault"),
   Pod |-> Workload, Deployment |-> Workload, DaemonSet |-> Workload,
   StatefulSet |-> Workload, ReplicaSet |-> Workload, Job |-> Workload,
   CronJob |-> Workload]

\* A type the table lacks is passed through.
Normalize(type) ==
  IF type \in DOMAIN typeMap THEN typeMap[type] ELSE [provider |-> "unknown", type |-> type]
=============================================================================
