---------------------------- MODULE MCAutoUpgrade ----------------------------
(* Instances of AutoUpgrade for TLC.                                        *)
EXTENDS AutoUpgrade, TLC

CONSTANTS r1, r2, a1, p, q, kubelet, containerd, spaced

(* The second package lacks a binary of the first, and has one with white   *)
(* space in its name.                                                       *)
MCContents == p :> {kubelet, containerd} @@ q :> {kubelet, spaced}
MCComponentOf == kubelet :> 2 @@ containerd :> 1 @@ spaced :> 2
Symmetry == Permutations({r1, r2})
=============================================================================
