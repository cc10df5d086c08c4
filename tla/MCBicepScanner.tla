--------------------------- MODULE MCBicepScanner ---------------------------
(* Instance of BicepScanner: a type with two mapped keys, one whose keys are *)
(* not mapped, and blocks deep enough for `properties` within `properties`   *)
(* of another block.                                                         *)
EXTENDS BicepScanner, TLC

MCKeyMap ==
  "storage" :> ("allowBlobPublicAccess" :> "allow_nested_items_to_be_public"
                @@ "minimumTlsVersion" :> "min_tls_version")
  @@ "serverfarms" :> <<>>
=============================================================================
