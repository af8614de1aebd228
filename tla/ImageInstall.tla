----------------------------- MODULE ImageInstall ------------------------------
(***************************************************************************)
(* The installer of the courier stick (penta-install of image/installer):  *)
(* it looks for an image on everything that is plugged in, lists the       *)
(* disks, has the user choose one and type its name, and writes.           *)
(* penta-install.service starts it again whenever it ends, and the machine *)
(* can lose power at any point and starts again from the stick, its disks  *)
(* under other names.                                                      *)
(*                                                                         *)
(* The disk that "is the stick the installer is running from" is the one   *)
(* that the image was found on, which need not be the stick; what is       *)
(* mounted is the second guard.                                            *)
(***************************************************************************)
EXTENDS Integers

CONSTANTS
  Media,     \* disks and sticks
  Stick,     \* the one the machine was started from: its root is mounted
  Devices,   \* device names
  None,
  MaxPulls   \* bound: disks pulled out while the installer runs

ASSUME InstallAssumption ==
  /\ Stick \in Media /\ None \notin Media \union Devices
  /\ MaxPulls \in Nat

VARIABLES
  name,       \* name[m]: the device m is, or None when it is not plugged in
  images,     \* media with a PENTA image on them
  labelled,   \* media with a filesystem or partition of the payload's name
  whole,      \* media with a filesystem and no partitions
  big,        \* media of MIN_TARGET and more
  mnt,        \* the medium mounted on PAYLOAD_MNT
  step,       \* where penta-install is
  source,     \* where find_payload found the image
  seen,       \* seen[n]: the medium that scan_disks listed as n
  offered,    \* the names that can be chosen
  chosen,     \* the target: the name that was chosen
  late,       \* media plugged in since that scan
  confirmed,  \* the medium the user confirmed
  written,    \* media dd has written to
  entries,    \* media with a PENTA entry in the firmware
  pulls

content == <<images, labelled, whole>>
choice == <<source, seen, offered, chosen>>
knowledge == <<choice, late, confirmed>>
result == <<written, entries>>
courierVars == <<name, content, big, mnt, step, knowledge, result, pulls>>

Plugged == {m \in Media : name[m] # None}

\* How the kernel may name the media: no name twice, and the stick is there.
Naming ==
  {f \in [Media -> Devices \union {None}] :
     f[Stick] # None /\ \A m, k \in Media : m # k /\ f[m] = f[k] => f[m] = None}

CourierInit ==
  /\ name \in Naming
  /\ images \in SUBSET Media
  /\ labelled \in {l \in SUBSET Media : Stick \in l}
  /\ whole \in SUBSET (Media \ {Stick})
  /\ big \in SUBSET Media
  /\ mnt = None
  /\ step = "find"
  /\ source = None /\ seen = [n \in Devices |-> None] /\ offered = {} /\ chosen = None
  /\ late = {} /\ confirmed = None
  /\ written = {}
  /\ entries \in SUBSET Media
  /\ pulls = 0

Behind(n) == {m \in Media : name[m] = n}

\* find_payload: what is mounted already, else what has one of the names, else
\* any partition.  One name can stand for several media; mount takes one.
FindPayload ==
  /\ step = "find"
  /\ \E tried \in SUBSET (labelled \intersect Plugged) :
       /\ labelled \intersect Plugged # {} => tried # {}
       /\ LET first == IF mnt \in images THEN {mnt} ELSE tried \intersect images
              found == IF first # {} THEN first ELSE (images \intersect Plugged) \ whole
          IN
          \/ /\ found = {}
             /\ mnt' = None /\ source' = None
             /\ step' = "shell"
          \/ \E m \in found :
               /\ mnt' = m /\ source' = m
               /\ step' = "scan"
  /\ UNCHANGED <<name, content, big, seen, offered, chosen, late, confirmed, result, pulls>>

\* boot_disk: the disk of the mounted partition.  A filesystem without a
\* partition has none.
BootedFrom == IF mnt \in whole THEN None ELSE name[mnt]

\* Mutant: everything that is plugged in is offered.
ScanDisksAll ==
  /\ step = "scan"
  /\ seen' = [n \in Devices |-> IF Behind(n) = {} THEN None ELSE CHOOSE m \in Behind(n) : TRUE]
  /\ offered' = {name[m] : m \in Plugged}
  /\ late' = {}
  /\ step' = "choose"
  /\ UNCHANGED <<name, content, big, mnt, source, chosen, confirmed, result, pulls>>

\* scan_disks.  "removable" is a note, not an obstacle.
ScanDisks ==
  /\ step = "scan"
  /\ seen' = [n \in Devices |-> IF Behind(n) = {} THEN None ELSE CHOOSE m \in Behind(n) : TRUE]
  /\ offered' = {name[m] : m \in Plugged \intersect big} \ {BootedFrom}
  /\ late' = {}
  /\ step' = "choose"
  /\ UNCHANGED <<name, content, big, mnt, source, chosen, confirmed, result, pulls>>

\* A number, or q.
Choose ==
  /\ step = "choose"
  /\ \/ step' = "shell" /\ UNCHANGED chosen
     \/ \E n \in offered : chosen' = n /\ step' = "confirm"
  /\ UNCHANGED <<name, content, big, mnt, source, seen, offered, late, confirmed, result,
                 pulls>>

\* The token names the device; the user thinks of the disk that was listed.
Confirm ==
  /\ step = "confirm"
  /\ \/ step' = "shell" /\ UNCHANGED confirmed
     \/ step' = "unmount" /\ confirmed' = seen[chosen]
  /\ UNCHANGED <<name, content, big, mnt, choice, late, result, pulls>>

\* Mutant: not asked again whether anything is still mounted.
UnmountTrusting ==
  /\ step = "unmount"
  /\ mnt' = IF mnt \in Behind(chosen) THEN None ELSE mnt
  /\ step' = "write"
  /\ UNCHANGED <<name, content, big, knowledge, result, pulls>>

\* Mutant: what is mounted is not looked at.
UnmountSkipped ==
  /\ step = "unmount"
  /\ step' = "write"
  /\ UNCHANGED <<name, content, big, mnt, knowledge, result, pulls>>

\* What is mounted of the target is unmounted; the root cannot be.
Unmount ==
  /\ step = "unmount"
  /\ mnt' = IF mnt \in Behind(chosen) THEN None ELSE mnt
  /\ step' = IF Stick \in Behind(chosen) THEN "shell" ELSE "write"
  /\ UNCHANGED <<name, content, big, knowledge, result, pulls>>

\* write_image: nothing comes out of the pipe when the image is not mounted any
\* more, or there is no disk to open; dd can fail half-way.
WriteImage ==
  /\ step = "write"
  /\ IF mnt = None \/ Behind(chosen) = {}
     THEN step' = "shell" /\ UNCHANGED <<content, written>>
     ELSE /\ step' \in {"register", "shell"}
          /\ written' = written \union Behind(chosen)
          /\ images' = images \ Behind(chosen)
          /\ labelled' = labelled \ Behind(chosen)
          /\ whole' = whole \ Behind(chosen)
  /\ UNCHANGED <<name, big, mnt, knowledge, entries, pulls>>

\* register_boot_entry: skipped when there is no UEFI, tool or ESP.  Deleting an
\* old entry may fail, and so may creating the new one after that.
RegisterBootEntry ==
  /\ step = "register"
  /\ \E kept \in SUBSET entries, new \in {{}, Behind(chosen)} :
       entries' = kept \union new
  /\ step' = "done"
  /\ UNCHANGED <<name, content, big, mnt, knowledge, written, pulls>>

\* No reboot, but a shell.
Stay ==
  /\ step = "done"
  /\ step' = "shell"
  /\ UNCHANGED <<name, content, big, mnt, knowledge, result, pulls>>

\* A process that starts knows nothing.
Forget ==
  /\ source' = None /\ chosen' = None
  /\ seen' = [n \in Devices |-> None]
  /\ offered' = {} /\ late' = {} /\ confirmed' = None

\* The shell is left, and systemd starts the installer again.
Again ==
  /\ step = "shell"
  /\ step' = "find"
  /\ Forget
  /\ UNCHANGED <<name, content, big, mnt, result, pulls>>

-------------------------------------------------------------------------------
\* A reboot or a power cut, also in the middle of dd, and a start from the stick.
Boot ==
  /\ step' = "find"
  /\ mnt' = None
  /\ name' \in Naming
  /\ IF step = "write" /\ mnt # None
     THEN /\ written' \in {written, written \union Behind(chosen)}
          /\ images' = images \ written' /\ labelled' = labelled \ written'
          /\ whole' = whole \ written'
     ELSE UNCHANGED <<content, written>>
  /\ Forget
  /\ UNCHANGED <<big, entries, pulls>>

\* A disk of which nothing is mounted is pulled out.
Pull(m) ==
  /\ m \notin {Stick, mnt} /\ m \in Plugged
  /\ pulls < MaxPulls
  /\ pulls' = pulls + 1
  /\ name' = [name EXCEPT ![m] = None]
  /\ UNCHANGED <<content, big, mnt, step, knowledge, result>>

\* A disk is plugged in, and gets a name that is free.
Plug(m) ==
  /\ m \notin Plugged
  /\ \E n \in Devices : Behind(n) = {} /\ name' = [name EXCEPT ![m] = n]
  /\ late' = late \union {m}
  /\ UNCHANGED <<content, big, mnt, step, choice, confirmed, result, pulls>>

CourierNext ==
  \/ FindPayload \/ ScanDisks \/ Choose \/ Confirm \/ Unmount \/ WriteImage
  \/ RegisterBootEntry \/ Stay \/ Again
  \/ Boot
  \/ \E m \in Media : Pull(m) \/ Plug(m)

CourierSpec == CourierInit /\ [][CourierNext]_courierVars

-------------------------------------------------------------------------------
\* "never the disk it booted from": wherever the image was found, whatever the
\* disks are called, and whatever is plugged and pulled meanwhile.
NeverTheStick == Stick \notin written

\* Nor the medium that the image is read from.
SourceKept == [][\A m \in written' \ written : m # source]_courierVars

\* "never without a confirmation": a disk that is written to, or entered in the
\* firmware, is the one that was listed under its name and confirmed, and large
\* enough, unless it was plugged in after the list was made and has taken the name
\* (the token, too, knows only the name).  A disk that is entered has been written.
OnlyWhatWasMeant ==
  [][\A m \in ((written' \ written) \union (entries' \ entries)) \ late :
       m = confirmed /\ m \in big \intersect written']_courierVars
===============================================================================
