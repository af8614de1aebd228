------------------------------- MODULE LanServe -------------------------------
(***************************************************************************)
(* tools/lanserve.py hands the image to the machine it is for, where       *)
(* setup-windows.ps1 fetches it with curl and resumes what was cut short.  *)
(* Bytes are named by their offsets in the image.                          *)
(***************************************************************************)
EXTENDS Integers, Sequences

CONSTANTS
  Length,   \* size of the image
  MaxCuts   \* bound: connections cut

VARIABLES
  copy,       \* the file of the client
  client,     \* "idle", "asking", "getting", "done": what its script is at
  resumed,    \* the length of copy when curl was started
  position,   \* where the server has its file open
  left,       \* what it will send yet: _Capped._left
  cuts

vars == <<copy, client, resumed, position, left, cuts>>

Init ==
  /\ copy = <<>> /\ client = "idle" /\ resumed = 0
  /\ position = 0 /\ left = 0 /\ cuts = 0

\* The script is run; curl looks how much there is.
Run ==
  /\ client = "idle"
  /\ client' = "asking"
  /\ resumed' = Len(copy)
  /\ UNCHANGED <<copy, position, left, cuts>>

\* Mutant: the file is not sought.
AnswerUnsought ==
  LET start == Len(copy)
  IN /\ client = "asking"
     /\ IF start > 0 /\ start >= Length
          THEN client' = "done" /\ UNCHANGED <<position, left>>
          ELSE client' = "getting" /\ position' = 0 /\ left' = Length - start
     /\ UNCHANGED <<copy, resumed, cuts>>

\* send_head(): the whole file to who asks for no range; 416 beyond its end, which curl
\* takes for complete; or 206 and the rest.
Answer ==
  LET start == Len(copy)
  IN /\ client = "asking"
     /\ IF start > 0 /\ start >= Length
          THEN client' = "done" /\ UNCHANGED <<position, left>>
          ELSE client' = "getting" /\ position' = start /\ left' = Length - start
     /\ UNCHANGED <<copy, resumed, cuts>>

\* _Capped.read(), until nothing is left.
Send ==
  /\ client = "getting"
  /\ IF left = 0 THEN client' = "done" /\ UNCHANGED <<copy, position, left>>
     ELSE /\ copy' = Append(copy, position)
          /\ position' = position + 1 /\ left' = left - 1
          /\ UNCHANGED client
  /\ UNCHANGED <<resumed, cuts>>

\* The connection is cut, or the server stopped.  curl tries again, from the end of the
\* file or from where it began, or the script gives up.
Cut ==
  /\ client \in {"asking", "getting"}
  /\ cuts < MaxCuts /\ cuts' = cuts + 1
  /\ \/ client' = "asking" /\ copy' \in {copy, SubSeq(copy, 1, resumed)}
     \/ client' = "idle" /\ UNCHANGED copy
  /\ UNCHANGED <<resumed, position, left>>

Next == Run \/ Answer \/ Send \/ Cut

\* "Just re-run this script": whoever wants the image does.
Fairness == WF_vars(Run \/ Answer \/ Send)

-------------------------------------------------------------------------------
\* "Re-running this script after a drop picks up where it stopped": what the script
\* goes on with is the image, whole, wherever the connection was cut.
CopyIsImage == client = "done" => copy = [k \in 1 .. Length |-> k - 1]
===============================================================================
