----------------------------- MODULE MCDelivery -----------------------------
(* Members whose numbers fit the directory's fields, all of them, some or none; a stick
   that is too small for the image but not for a part of it, and two that are not. *)
EXTENDS Delivery, TLC
CONSTANTS small, large, other
MCArchive == <<[at |-> 0, head |-> 1, comp |-> 2, raw |-> 3],
               [at |-> 4, head |-> 2, comp |-> 5, raw |-> 6],
               [at |-> 11, head |-> 1, comp |-> 3, raw |-> 4],
               [at |-> 15, head |-> 1, comp |-> 0, raw |-> 0]>>
MCSize == small :> 4 @@ large :> 16 @@ other :> 9
===============================================================================
