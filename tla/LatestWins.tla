----------------------------- MODULE LatestWins -----------------------------
(***************************************************************************)
(* What the frame mailbox of rk.c promises its two sides, without buffers, *)
(* threads or a display controller: pictures are offered in order; a newer *)
(* one displaces the one waiting; the one taken is shown or refused before *)
(* the next is taken; the screen goes black only after the mailbox closed. *)
(***************************************************************************)
EXTENDS Naturals

VARIABLES
  offered,   \* number of pictures offered, also the number of the last one
  box,       \* picture waiting in the mailbox, 0 for none
  hand,      \* picture taken and not yet on screen, 0 for none
  screen,    \* picture on screen, 0 for none
  open       \* the display side still serves the mailbox

vars == <<offered, box, hand, screen, open>>

Init == offered = 0 /\ box = 0 /\ hand = 0 /\ screen = 0 /\ open = TRUE

Offer ==
  /\ open
  /\ offered' = offered + 1 /\ box' = offered + 1
  /\ UNCHANGED <<hand, screen, open>>

Take ==
  /\ open /\ box # 0 /\ hand = 0
  /\ hand' = box /\ box' = 0
  /\ UNCHANGED <<offered, screen, open>>

Show ==
  /\ hand > screen
  /\ screen' = hand /\ hand' = 0
  /\ UNCHANGED <<offered, box, open>>

Refuse ==
  /\ hand # 0
  /\ hand' = 0
  /\ UNCHANGED <<offered, box, screen, open>>

Close ==
  /\ open
  /\ open' = FALSE /\ box' = 0 /\ hand' = 0
  /\ UNCHANGED <<offered, screen>>

Blank ==
  /\ ~open
  /\ screen' = 0
  /\ UNCHANGED <<offered, box, hand, open>>

Next == Offer \/ Take \/ Show \/ Refuse \/ Close \/ Blank

Spec == Init /\ [][Next]_vars

\* While the mailbox is open a waiting picture is taken and a taken one is
\* shown or refused.
Service == WF_vars(Take) /\ WF_vars(Show \/ Refuse)
=============================================================================
