------------------------- MODULE MCModuleLifecycle -------------------------
(* Small instances of ModuleLifecycle: module c depends on b, b on a.      *)
EXTENDS ModuleLifecycle, TLC

CONSTANTS a, b, c

ChainOrder == IF N = 2 THEN <<a, b>> ELSE <<a, b, c>>

ChainDeps ==
    [m \in Modules |-> CASE m = a -> {} [] m = b -> {a} [] OTHER -> {b}]
=============================================================================
