------------------------------ MODULE MCContext ------------------------------
EXTENDS Context, FiniteSets

(* Machines that differ in one thing from one that has everything.         *)
AllInstanceExtensions == required_instance_extensions \cup optional_instance_extensions

Discrete ==
  [ type |-> "discrete", renders |-> TRUE, formats |-> 1, present_modes |-> 1,
    extensions |-> { "VK_KHR_swapchain", "VK_KHR_maintenance1" }, queue_families |-> { 0, 1 } ]
Integrated == [ Discrete EXCEPT !.type = "integrated", !.queue_families = { 0 } ]

Full == [ layers |-> optional_layers, extensions |-> AllInstanceExtensions,
          gpus |-> << Discrete >> ]

MCMachines ==
  { Full }
  \cup { [ Full EXCEPT !.layers = {} ] }
  \cup { [ Full EXCEPT !.extensions = e ] : e \in SUBSET AllInstanceExtensions }
  \cup { [ Full EXCEPT !.gpus = gpus ] : gpus \in
           { << >>, << Integrated >>, << Discrete, Integrated >>, << Integrated, Discrete >>,
             << [ Discrete EXCEPT !.type = "cpu" ] >>,
             << [ Discrete EXCEPT !.renders = FALSE ] >>,
             << [ Discrete EXCEPT !.formats = 0 ], Integrated >>,
             << Integrated, [ Discrete EXCEPT !.present_modes = 0 ] >>,
             << [ Discrete EXCEPT !.extensions = {} ] >>,
             << [ Discrete EXCEPT !.extensions = { "VK_KHR_maintenance1" } ] >>,
             << [ Discrete EXCEPT !.queue_families = {} ] >> } }

MCResults == { "success", "out_of_host_memory", "too_many_objects" }
==============================================================================
