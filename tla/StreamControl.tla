---------------------------- MODULE StreamControl ----------------------------
(***************************************************************************)
(* What the native module (JSRgbFramePlayer.cpp) promises the pages, without*)
(* process ids, signals, polls and threads: there is one stream at a time, *)
(* a start comes after the end of the one before, and only a stream that   *)
(* has ended is forgotten.                                                 *)
(***************************************************************************)
CONSTANT Crashes  \* the mini-app may crash at any time

VARIABLES
  stream,  \* "none", "running", or "ended" and not yet noticed
  asked    \* the call the page waits for, and how far it is; "none"

vars == <<stream, asked>>

Init == stream = "none" /\ asked = "none"

Ask(call) ==
  /\ asked = "none"
  /\ asked' = call
  /\ UNCHANGED stream

(* Moonlight ends by itself, crashes, obeys SIGTERM or is killed.          *)
StreamEnds ==
  /\ stream = "running"
  /\ stream' = "ended"
  /\ UNCHANGED asked

(* The stop that a stop, a start or the destructor begins with is over.    *)
Stopped ==
  /\ asked \in {"stop", "start", "destroy"}
  /\ stream # "running"
  /\ stream' = "none"
  /\ asked' = [stop |-> "none", start |-> "launch", destroy |-> "leave"][asked]

Launch ==
  /\ asked = "launch" /\ stream = "none"
  /\ stream' = "running" /\ asked' = "launched"

(* A start gives up or succeeds, a pairing ends.                           *)
Return ==
  /\ asked \in {"launch", "launched", "pair"}
  /\ asked' = "none"
  /\ UNCHANGED stream

(* A poll notices that the stream has ended.                               *)
Notice ==
  /\ asked = "none" /\ stream = "ended"
  /\ stream' = "none"
  /\ UNCHANGED asked

(* The mini-app's process ends: after the destructor, by an abort in the   *)
(* start, or by a crash.                                                   *)
Leave ==
  /\ Crashes \/ asked \in {"launched", "leave"}
  /\ stream' = "none" /\ asked' = "none"

Next ==
  \/ \E call \in {"stop", "start", "destroy", "pair"} : Ask(call)
  \/ StreamEnds \/ Stopped \/ Launch \/ Return \/ Notice \/ Leave

Spec == Init /\ [][Next]_vars
=============================================================================
