------------------------------- MODULE Handoff -------------------------------
(* What two queues that share one texture promise: it is filled and drawn in *)
(* turn, each of them alone with it; every picture is drawn, and drawn once, *)
(* before the next one takes its place.                                      *)
EXTENDS Naturals

VARIABLES
  picture,  \* the picture the texture holds, 0 when it is new
  shown,    \* the picture drawn last
  use       \* what is done to it: "none", "fill" or "draw"

vars == <<picture, shown, use>>

Init == picture = 0 /\ shown = 0 /\ use = "none"

StartFill ==
  /\ use = "none" /\ shown = picture
  /\ use' = "fill"
  /\ UNCHANGED <<picture, shown>>

EndFill ==
  /\ use = "fill"
  /\ picture' = picture + 1
  /\ use' = "none"
  /\ UNCHANGED shown

StartDraw ==
  /\ use = "none" /\ shown # picture
  /\ use' = "draw"
  /\ UNCHANGED <<picture, shown>>

EndDraw ==
  /\ use = "draw"
  /\ shown' = picture
  /\ use' = "none"
  /\ UNCHANGED picture

\* The texture is given up for a new one.
Replace ==
  /\ use = "none" /\ shown = picture
  /\ picture' = 0 /\ shown' = 0
  /\ UNCHANGED use

Next == StartFill \/ EndFill \/ StartDraw \/ EndDraw \/ Replace

Spec == Init /\ [][Next]_vars
=============================================================================
