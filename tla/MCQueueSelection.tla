-------------------------- MODULE MCQueueSelection --------------------------
(* Family lists for checking QueueSelection: up to three families, each    *)
(* with no queue or some, doing one thing, everything, or something in     *)
(* between.                                                                *)
EXTENDS QueueSelection

SomeFamilies ==
  [ flags : { { "transfer" }, { "compute" }, { "graphics" },
              { "graphics", "compute" }, { "transfer", "sparse_binding" },
              { "graphics", "compute", "transfer" },
              { "graphics", "compute", "transfer", "sparse_binding" } },
    count : { 0, 1 } ]

SomeFamilyLists == UNION { [ 1 .. n -> SomeFamilies ] : n \in 0 .. 3 }
SomePoolResults == { "success", "out_of_device_memory" }
=============================================================================
