--------------------------- MODULE MCOlmInstaller ---------------------------
(***************************************************************************)
(* Two releases of OLM: the manifests of the first have the package        *)
(* server's CSV, those of the second a subscription for it and a role.     *)
(***************************************************************************)
EXTENDS OlmInstaller, TLC

MCVersions == {"v1", "v2"}
MCCRDs == <<"csvs", "subs">>
MCResources == ("v1" :> <<"olm", "operator", "catalog", "csv">>)
            @@ ("v2" :> <<"olm", "operator", "sub", "catalog", "role">>)
MCKindOf == [o \in {"csvs", "subs", "operator", "catalog", "csv", "sub", "role", "server",
                    "olm"} |->
                CASE o = "csv" -> "csvs" [] o = "sub" -> "subs" [] OTHER -> "none"]
MCInside == {"operator", "catalog", "csv", "sub", "server"}
=============================================================================
