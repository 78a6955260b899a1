---------------------------- MODULE Presentation ----------------------------
(***************************************************************************)
(* What the renderer promises about the images of its swapchain, without   *)
(* fences, semaphores, handles or queues: an image is acquired, drawn,     *)
(* handed over and shown in this order, one image at a time is in the      *)
(* hands of the application, and a swapchain is retired only when none of  *)
(* its images is held, being drawn or waiting to be shown. Renderer is     *)
(* shown to implement it.                                                  *)
(***************************************************************************)
CONSTANT Images

Stages == { "free", "acquired", "drawing", "drawn", "queued", "onscreen" }

VARIABLES
  alive,   \* whether there is a swapchain
  stage    \* where each of its images is

vars == << alive, stage >>

TypeOK ==
  /\ alive \in BOOLEAN
  /\ stage \in [ Images -> Stages ]

Init ==
  /\ alive = FALSE
  /\ stage = [ i \in Images |-> "free" ]

Establish ==
  /\ ~ alive
  /\ alive' = TRUE
  /\ UNCHANGED stage

Retire ==
  /\ alive
  /\ \A i \in Images : stage[i] \in { "free", "onscreen" }
  /\ alive' = FALSE
  /\ stage' = [ i \in Images |-> "free" ]

Move(i, from, to) ==
  /\ stage[i] = from
  /\ stage' = [ stage EXCEPT ![i] = to ]
  /\ UNCHANGED alive

Acquire(i) ==
  /\ alive
  /\ \A j \in Images : stage[j] \notin { "acquired", "drawing", "drawn" }
  /\ Move(i, "free", "acquired")

Draw(i)    == Move(i, "acquired", "drawing")
Finish(i)  == Move(i, "drawing", "drawn")
HandOver(i) == Move(i, "drawn", "queued")

(* The image takes the place of the one on screen, or is dropped for a     *)
(* later one.                                                              *)
Show(i) ==
  /\ stage[i] = "queued"
  /\ \/ stage' = [ j \in Images |-> IF j = i THEN "onscreen"
                                    ELSE IF stage[j] = "onscreen" THEN "free"
                                    ELSE stage[j] ]
     \/ stage' = [ stage EXCEPT ![i] = "free" ]
  /\ UNCHANGED alive

Next ==
  \/ Establish
  \/ Retire
  \/ \E i \in Images :
       Acquire(i) \/ Draw(i) \/ Finish(i) \/ HandOver(i) \/ Show(i)

Spec == Init /\ [][Next]_vars
=============================================================================
