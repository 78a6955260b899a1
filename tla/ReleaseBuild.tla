---------------------------- MODULE ReleaseBuild ----------------------------
(***************************************************************************)
(* The renderer as a release build may run it. submit_queue is declared    *)
(* PURE (includes/luciole/context.hpp:447, luciole_core.hpp:27-33: the     *)
(* attribute is set for every compiler), which promises that a call only   *)
(* computes its result. The result is thrown away (renderer.cpp:284), so   *)
(* an optimising compiler may remove the call; Renderer is the build that  *)
(* keeps it. device_wait_idle is declared in the same way and kept here.   *)
(***************************************************************************)
EXTENDS Renderer

(* What is left of draw_frame's submission.                                *)
submit_queue_removed ==
  /\ pc = "submit"
  /\ pc' = "wait_fence"
  /\ UNCHANGED << caller, swapchain_extent, frameVars, resizeVars, objectVars,
                  syncVars, engineVars, windowVars >>

ReleaseHost == IF pc = "submit" THEN submit_queue_removed ELSE Host

ReleaseNext == ReleaseHost \/ Gpu \/ WindowSystem

ReleaseSpec ==
  /\ Init /\ [][ReleaseNext]_vars
  /\ WF_vars(ReleaseHost) /\ WF_vars(GpuDraw \/ GpuPresent)
  /\ \A f \in Frames : WF_vars(EngineReady(f))

-----------------------------------------------------------------------------
(* What context.hpp:433-441 says of submit_queue: "Submit a queue." with   *)
(* "A fence for synchronization.", so the wait for that fence ends.        *)
FenceIsReached == pc = "wait_fence" ~> pc = "reset_fence"
=============================================================================
