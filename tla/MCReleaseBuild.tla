--------------------------- MODULE MCReleaseBuild ---------------------------
(* Values for checking ReleaseBuild: a driver that always succeeds.        *)
EXTENDS ReleaseBuild

Good == { "success" }
=============================================================================
