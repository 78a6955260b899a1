----------------------------- MODULE MCRenderer -----------------------------
(* Values for checking Renderer: what the driver may answer.               *)
EXTENDS RendererInvariant

Good       == { "success" }
Retriable  == { "success", "suboptimal", "out_of_date" }
Failing    == { "success", "out_of_device_memory" }
AnyAcquire == { "success", "suboptimal", "out_of_date", "surface_lost" }
AnyPresent == { "success", "suboptimal", "out_of_date", "device_lost" }
=============================================================================
