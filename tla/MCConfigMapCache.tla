-------------------------- MODULE MCConfigMapCache --------------------------
(***************************************************************************)
(* Instances of ConfigMapCache for TLC.                                    *)
(***************************************************************************)
EXTENDS ConfigMapCache, TLC

CONSTANTS m1, m2

\* Two models, or one whose name is used again.
SiblingsOrReplaced == {m1 :> 1 @@ m2 :> 1, m1 :> 2 @@ m2 :> 0}
=============================================================================
