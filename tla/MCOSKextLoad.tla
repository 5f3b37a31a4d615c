---------------------------- MODULE MCOSKextLoad ----------------------------
(* Instances of OSKextLoad for TLC: a driver that declares a codeless      *)
(* library, which stands for a library with code, which links against a    *)
(* component of the kernel.  A second version of the library declares the  *)
(* driver, which makes a loop.                                             *)
EXTENDS OSKextLoad

CONSTANTS krn, kpi, lib, lib2, set, drv

MCKexts == {krn, kpi, lib, lib2, set, drv}
MCIdOf == [k \in MCKexts |-> CASE k = lib2 -> "lib" [] k = lib -> "lib" [] k = krn -> "krn"
                               [] k = kpi -> "kpi" [] k = set -> "set" [] k = drv -> "drv"]
MCVersionOf == [k \in MCKexts |-> IF k = lib2 THEN 2 ELSE 1]
MCLibrariesOf == [k \in MCKexts |-> CASE k = krn -> <<>> [] k = kpi -> <<>>
                    [] k = lib -> <<"kpi">> [] k = lib2 -> <<"drv">>
                    [] k = set -> <<"lib", "kpi">> [] k = drv -> <<"set">>]
=============================================================================
