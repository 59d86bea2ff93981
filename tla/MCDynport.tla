----------------------------- MODULE MCDynport -----------------------------
(* Small instances of the generated packages: three contents of the port    *)
(* file, two of them under the same version.                                *)
EXTENDS DynportPackageProps, TLC

CONSTANTS a, b, c
MCVersion == a :> 1 @@ b :> 1 @@ c :> 2
=============================================================================
