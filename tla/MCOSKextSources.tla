-------------------------- MODULE MCOSKextSources --------------------------
(* Instances of OSKextReports for TLC: a driver and the library it needs   *)
(* in two versions each, of which the kernel, the booter and user space    *)
(* offer different ones, two exclude lists, and queries by identifier and  *)
(* by UUID.                                                                *)
EXTENDS OSKextReports

CONSTANTS lib1, lib2, drv1, drv2, list1, list2, broken

MCBundles == {lib1, lib2, drv1, drv2, list1, list2, broken}

Kext(id, version, needs) ==
  [id |-> id, version |-> version, valid |-> TRUE, code |-> TRUE, needs |-> needs,
   safe |-> TRUE, drives |-> None, excludes |-> None, text |-> <<>>, host |-> <<>>]

List(version, id, text) ==
  [Kext("list", version, {}) EXCEPT !.code = FALSE, !.excludes = id, !.text = text]

MCOf == [b \in MCBundles |->
  CASE b = lib1 -> Kext("lib", 1, {}) [] b = lib2 -> Kext("lib", 2, {})
    [] b = drv1 -> Kext("drv", 1, {"lib"})
    [] b = drv2 -> [Kext("drv", 2, {"lib"}) EXCEPT !.host = [drives |-> "drv"]]
    [] b = list1 -> List(1, "drv", <<LE, Space, 1, Comma, Space, 3>>)
    [] b = list2 -> [List(2, "lib", <<1, Comma, Space, 3>>) EXCEPT !.drives = "list"]
    [] b = broken -> [Kext("lib", 3, {}) EXCEPT !.valid = FALSE]]

MCBuiltIn == <<lib1>>
MCBooted == <<drv1, list1>>
MCBootArchive == <<drv2, broken>>
MCArchives == {<<lib2, drv1>>, <<drv2, list2>>}

MCKeys == {"version", "uuid", "prelinked", "headers", "address", "dependencies", "references"}
Query(by, of, keys, prelinked) == [by |-> by, of |-> of, keys |-> keys, prelinked |-> prelinked]
MCQueries == {Query("id", None, {}, FALSE), Query("id", <<"lib", "drv">>, {"uuid", "references"}, TRUE),
              Query("uuid", <<lib1, drv2>>, {"version", "references"}, FALSE)}
=============================================================================
