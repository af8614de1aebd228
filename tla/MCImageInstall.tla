---------------------------- MODULE MCImageInstall -----------------------------
(***************************************************************************)
(* The stick, two more media (an internal disk and a second stick can      *)
(* change places), three names.                                            *)
(***************************************************************************)
EXTENDS ImageInstall, TLC

CONSTANTS a, b

\* All media but the stick are alike.
Alike == Permutations({a, b}) \union Permutations(Devices)
===============================================================================
