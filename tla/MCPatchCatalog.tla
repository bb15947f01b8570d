--------------------------- MODULE MCPatchCatalog ---------------------------
(* Instances of PatchCatalog for TLC.                                       *)
EXTENDS PatchCatalog, TLC

CONSTANTS r1, r2, v1, v2, a, b, bad

(* File a declares v1 and file b declares v2; either can be uploaded or     *)
(* listed under either name.                                                *)
MCDeclares == a :> v1 @@ b :> v2

(* One version on either path of the repository, with different files.     *)
MCRepo ==
    "deploy" :> <<[ver |-> v1, file |-> b]>> @@
    "patch" :> <<[ver |-> v1, file |-> a]>>
=============================================================================
