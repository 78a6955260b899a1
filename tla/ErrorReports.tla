---------------------------- MODULE ErrorReports ----------------------------
(***************************************************************************)
(* A vk::error from its construction to the message it is logged with:     *)
(* from a VkResult (errors.cpp:23-26) or from a type, as context.cpp does  *)
(* when no driver call has failed (errors.cpp:28-31).                      *)
(***************************************************************************)
EXTENDS Errors

VARIABLES
  err_code,  \* the enumerator, by its place in the enum
  said       \* what to_string returned, "" before

vars == << err_code, said >>

(* The types the engine passes itself.                                     *)
OwnTypes == { "e_no_physical_device_found", "e_no_suitable_physical_devices",
              "e_invalid_queue" }

Init ==
  /\ said = ""
  /\ err_code \in 1 .. Len(type)
  /\ type[err_code] \in { to_type(r) : r \in VkResults } \cup OwnTypes

report ==
  /\ said = ""
  /\ said' \in to_string(err_code)
  /\ UNCHANGED err_code

Next == report

Spec == Init /\ [][Next]_vars

-----------------------------------------------------------------------------
StringOf ==
  [ e_none |-> "none", e_out_of_host_memory |-> "out of host memory",
    e_out_of_device_memory |-> "out of device memory",
    e_initialization_failed |-> "initialization failed",
    e_incompatible_driver |-> "incompatible driver",
    e_no_physical_device_found |-> "no physical device found",
    e_no_suitable_physical_devices |-> "no suitable physical devices",
    e_device_lost |-> "device lost", e_surface_lost |-> "surface lost",
    e_invalid_queue |-> "invalid queue" ]

(* What errors.hpp:81-83 says of to_string: "Converts the error type into  *)
(* a string." and "The string equivalent to the error type."               *)
StringIsEquivalent == said # "" => said = StringOf[type[err_code]]
=============================================================================
