---------------------------- MODULE MCLaunchFlow -----------------------------
(* Two titles of two providers for the runs of LaunchFlow. *)
EXTENDS LaunchFlow, TLC
CONSTANTS u1, u2, p1, p2
MCProviderOf == u1 :> p1 @@ u2 :> p2
===============================================================================
