---------------------------- MODULE MCInstallFlow ----------------------------
(* Two disks that PENTA can be installed to. *)
EXTENDS InstallFlow
CONSTANTS sda, sdb
MCOrder == <<sda, sdb>>
===============================================================================
