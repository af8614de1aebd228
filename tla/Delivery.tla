------------------------------- MODULE Delivery -------------------------------
(***************************************************************************)
(* The way of an image to the machine: tools/zipget.py and                 *)
(* tools/zipfinish.py fetch it (RangeFetch); once one of them has said     *)
(* that the file is done, tools/flash-resume.sh writes it to a stick       *)
(* (FlashResume) or tools/lanserve.py hands it over the LAN (LanServe).    *)
(***************************************************************************)
EXTENDS RangeFetch

CONSTANTS
  TheImage,    \* the member that is an image
  Image,       \* its size when it is decompressed
  Sticks, Size, MB, SEGMENT_MB, MAX_RETRIES, MaxDrops, MaxStops,
  MaxCuts

VARIABLES
  way,         \* "stick" or "lan": what the image is fetched for
  raw, saved, plugged, on, step, offset, retries, used, drops, stops,
  copy, client, resumed, position, left, cuts

flashVars == <<raw, saved, plugged, on, step, offset, retries, used, drops, stops>>
lanVars == <<copy, client, resumed, position, left, cuts>>
all == <<vars, way, flashVars, lanVars>>

Flash == INSTANCE FlashResume WITH pc <- step
Lan == INSTANCE LanServe WITH Length <- Archive[TheImage].comp

ASSUME DeliveryAssumption ==
  /\ TheImage \in 1 .. Len(Archive)
  /\ Flash!FlashAssumption
  /\ MaxCuts \in Nat

\* The script stops at once without its file; there is nothing to serve.
ImageThere == pc = "done" /\ want = TheImage

DeliveryInit ==
  /\ Init
  /\ way \in {"stick", "lan"}
  /\ Flash!Init /\ plugged = {}
  /\ Lan!Init

ToStick(A) == ImageThere /\ way = "stick" /\ A /\ UNCHANGED <<vars, way, lanVars>>
ToLan(A) == ImageThere /\ way = "lan" /\ A /\ UNCHANGED <<vars, way, flashVars>>

DeliveryNext ==
  \/ Next /\ UNCHANGED <<way, flashVars, lanVars>>
  \/ ToStick(Flash!Next)
  \/ ToLan(Lan!Next)

\* As in the modules it is made of.
DeliveryFairness ==
  /\ WF_all((\E c \in 1 .. MaxConns : Get(c)) /\ UNCHANGED <<way, flashVars, lanVars>>)
  /\ WF_all(Progress /\ UNCHANGED <<way, flashVars, lanVars>>)
  /\ WF_all(ToStick(Flash!Script)) /\ WF_all(ToStick(Flash!Start))
  /\ \A s \in Sticks : WF_all(ToStick(Flash!Plug(s)))
  /\ WF_all(ToLan(Lan!Run \/ Lan!Answer \/ Lan!Send))

DeliverySpec == DeliveryInit /\ [][DeliveryNext]_all /\ DeliveryFairness

-------------------------------------------------------------------------------
\* See FlashResume: no megabyte is counted that is not written, and none is left out
\* when the script is done.
MegabytesWritten == Flash!NeverAhead

\* See LanServe: what the target has fetched over the LAN is the image.
LanCopyIsImage == Lan!CopyIsImage

\* However often a connection, a signature, a tool, a stick or a script fails, the file is
\* fetched in the end, and an image gets to where it was wanted.
Arrives ==
  /\ <>(pc = "done")
  /\ want = TheImage => <>(IF way = "stick" THEN step = "done" ELSE client = "done")
===============================================================================
