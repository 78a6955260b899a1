------------------------------ MODULE MCWindow ------------------------------
(* Sizes for checking Window: as wide as high or one wider, so that some   *)
(* resizes change both dimensions, others only the width or only the       *)
(* height.                                                                 *)
EXTENDS Window

Skewed == { size \in (1 .. 3) \X (1 .. 2) : size[1] - size[2] \in { 0, 1 } }
=============================================================================
