------------------------------ MODULE FlashResume ------------------------------
(***************************************************************************)
(* tools/flash-resume.sh: an image written segment by segment to a stick   *)
(* that drops off the bus.  Two files outlive the script, the decompressed *)
(* image and the progress file; it can be stopped at any point, and is run *)
(* again until it says that it is done.                                    *)
(*                                                                         *)
(* Bytes are counted in units of which MB make a megabyte, so that an      *)
(* image need not be a whole number of them.                               *)
(***************************************************************************)
EXTENDS Integers, FiniteSets

CONSTANTS
  Sticks,
  Size,        \* Size[s]
  Image,       \* size of the image
  MB,
  SEGMENT_MB,
  MAX_RETRIES,
  MaxDrops,    \* bound: times a stick drops off or is pulled out
  MaxStops     \* bound: times the script is stopped

FlashAssumption ==
  /\ Size \in [Sticks -> Nat]
  /\ {Image, MB, SEGMENT_MB} \subseteq Nat \ {0}
  /\ {MAX_RETRIES, MaxDrops, MaxStops} \subseteq Nat

VARIABLES
  raw,       \* size of the file RAW; -1 when there is none
  saved,     \* what the file STATE says; 0 when there is none
  plugged,   \* sticks on the bus
  on,        \* on[s]: the bytes of the image that stick s holds
  pc,
  offset,    \* OFFSET
  retries,
  used,      \* sticks written to
  drops, stops

files == <<raw, saved>>
media == <<plugged, on, used>>
bounds == <<drops, stops>>
vars == <<files, media, pc, offset, retries, bounds>>

Init ==
  /\ raw = -1 /\ saved = 0
  /\ plugged \in SUBSET Sticks
  /\ on = [s \in Sticks |-> {}]
  /\ used = {}
  /\ pc = "idle" /\ offset = 0 /\ retries = 0
  /\ drops = 0 /\ stops = 0

\* find_disk: any disk that is large enough.
Found == {s \in plugged : Size[s] >= raw}

-------------------------------------------------------------------------------
\* The script is started.  An image decompressed before, wholly or not, is used.
Start ==
  /\ pc = "idle"
  /\ IF raw = -1 THEN pc' = "decompress" /\ raw' = 0
                 ELSE pc' = "locate" /\ UNCHANGED raw
  /\ UNCHANGED <<saved, media, offset, retries, bounds>>

Decompress ==
  /\ pc = "decompress"
  /\ raw' = Image
  /\ pc' = "locate"
  /\ UNCHANGED <<saved, media, offset, retries, bounds>>

Locate ==
  /\ pc = "locate"
  /\ Found # {}
  /\ offset' = saved
  /\ retries' = 0
  /\ pc' = "loop"
  /\ UNCHANGED <<files, media, bounds>>

\* wait_for_disk waits in vain.
GiveUp ==
  /\ pc \in {"locate", "loop", "verify"}
  /\ Found = {}
  /\ pc' = "idle"
  /\ UNCHANGED <<files, media, offset, retries, bounds>>

SegBytes ==
  IF offset + SEGMENT_MB * MB > raw THEN raw - offset ELSE SEGMENT_MB * MB

\* Mutant: dd without seek.
DdUnsought == 0 .. (SegBytes \div MB) * MB - 1

\* What dd writes: whole megabytes, from a whole megabyte on.
Dd == LET first == (offset \div MB) * MB IN first .. first + (SegBytes \div MB) * MB - 1

Write ==
  /\ pc = "loop" /\ offset < raw
  /\ \E s \in Found :
       /\ on' = [on EXCEPT ![s] = @ \union Dd]
       /\ used' = used \union {s}
  /\ pc' = "written"
  /\ UNCHANGED <<files, plugged, offset, retries, bounds>>

\* Mutant: the offset advances by what dd was told to copy.
RecordBlocks ==
  /\ pc = "written"
  /\ offset' = offset + (SegBytes \div MB) * MB
  /\ saved' = offset'
  /\ retries' = 0
  /\ pc' = "loop"
  /\ UNCHANGED <<raw, media, bounds>>

Record ==
  /\ pc = "written"
  /\ offset' = offset + SegBytes
  /\ saved' = offset'
  /\ retries' = 0
  /\ pc' = "loop"
  /\ UNCHANGED <<raw, media, bounds>>

\* What dd leaves behind when it is cut short: the segment or part of it, or
\* nothing that can be relied on.
Torn(s) ==
  /\ on' \in {[on EXCEPT ![s] = @ \union Dd], [on EXCEPT ![s] = @ \ Dd]}
  /\ used' = used \union {s}

\* The stick drops off the bus while dd writes.
Drop ==
  /\ pc = "loop" /\ offset < raw
  /\ drops < MaxDrops
  /\ drops' = drops + 1
  /\ \E s \in Found : Torn(s) /\ plugged' = plugged \ {s}
  /\ retries' = retries + 1
  /\ pc' = IF retries' > MAX_RETRIES THEN "idle" ELSE "loop"
  /\ UNCHANGED <<files, offset, stops>>

Finish ==
  /\ pc = "loop" /\ offset >= raw
  /\ pc' = "verify"
  /\ UNCHANGED <<files, media, offset, retries, bounds>>

\* Whatever the verification finds, the progress file goes and the script is done.
Verify ==
  /\ pc = "verify"
  /\ Found # {}
  /\ saved' = 0
  /\ pc' = "done"
  /\ UNCHANGED <<raw, media, offset, retries, bounds>>

-------------------------------------------------------------------------------
\* Ctrl-C, a power cut, a full disk: in the middle of the decompression, of dd, or
\* of writing the progress file, or anywhere else.
Stop ==
  /\ pc \notin {"idle", "done"}
  /\ stops < MaxStops
  /\ stops' = stops + 1
  /\ pc' = "idle"
  /\ raw' \in IF pc = "decompress" THEN 0 .. Image ELSE {raw}
  /\ saved' \in IF pc = "written" THEN {saved, 0} ELSE {saved}
  /\ \/ pc = "loop" /\ offset < raw /\ \E s \in Found : Torn(s)
     \/ UNCHANGED <<on, used>>
  /\ UNCHANGED <<plugged, offset, retries, drops>>

Plug(s) ==
  /\ s \notin plugged
  /\ plugged' = plugged \union {s}
  /\ UNCHANGED <<files, on, used, pc, offset, retries, bounds>>

Pull(s) ==
  /\ s \in plugged
  /\ drops < MaxDrops
  /\ drops' = drops + 1
  /\ plugged' = plugged \ {s}
  /\ UNCHANGED <<files, on, used, pc, offset, retries, stops>>

Script ==
  \/ Decompress \/ Locate \/ GiveUp \/ Write \/ Record \/ Finish \/ Verify

Next ==
  \/ Start
  \/ Script
  \/ Drop \/ Stop
  \/ \E s \in Sticks : Plug(s) \/ Pull(s)

\* The script runs, and the user starts it again and plugs the stick in again.
Fairness ==
  WF_vars(Script) /\ WF_vars(Start) /\ \A s \in Sticks : WF_vars(Plug(s))

Spec == Init /\ [][Next]_vars /\ Fairness

-------------------------------------------------------------------------------
\* The whole megabytes among the first n bytes: dd copies no more of them.
Whole(n) == 0 .. (n \div MB) * MB - 1

\* What the progress file counts is written: every whole megabyte of it is on a
\* stick, and when the script is done, every whole megabyte of RAW is.  (The script
\* does not look at more than that: whether RAW is all of the image, whether all of
\* it went to the same stick, and what comes after the last whole megabyte.)
NeverAhead ==
  LET written == UNION {on[s] : s \in used} IN
  /\ Whole(saved) \subseteq written
  /\ pc = "done" => Whole(raw) \subseteq written
===============================================================================
