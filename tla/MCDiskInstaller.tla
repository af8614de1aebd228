--------------------------- MODULE MCDiskInstaller ----------------------------
(* A stick to run from, a disk larger than it, one that is smaller, and one
   below the 20 GB a target must have. *)
EXTENDS DiskInstaller, TLC
CONSTANTS stick, ssd, old, tiny
MCSize == stick :> 2 @@ ssd :> 3 @@ old :> 1 @@ tiny :> 0
===============================================================================
