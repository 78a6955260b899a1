------------------------------- MODULE Errors -------------------------------
(***************************************************************************)
(* vk::error: how a VkResult becomes an error type and how an error type   *)
(* becomes a string (includes/luciole/vk/errors.hpp, src/.../errors.cpp).  *)
(* Every other module that looks at a driver result does it through        *)
(* to_type, because every class of the engine does.                        *)
(***************************************************************************)
EXTENDS Naturals, Sequences

(* The enumerators of vk::error::type, in declaration order.               *)
type == << "e_none", "e_suboptimal", "e_out_of_host_memory",
           "e_out_of_device_memory", "e_initialization_failed",
           "e_incompatible_driver", "e_no_physical_device_found",
           "e_no_suitable_physical_devices", "e_device_lost",
           "e_surface_lost", "e_out_of_date", "e_native_window_in_use",
           "e_too_many_objects", "e_invalid_queue",
           "e_command_pool_creation_failed" >>

Types == { type[i] : i \in 1 .. Len(type) }

(* The VkResults the driver can answer with to the calls the engine makes. *)
VkResults == { "success", "suboptimal", "out_of_date", "surface_lost",
               "device_lost", "out_of_host_memory", "out_of_device_memory",
               "initialization_failed", "incompatible_driver",
               "native_window_in_use", "too_many_objects",
               "extension_not_present", "layer_not_present" }

(* Only six results have a case of their own; the default is e_none, which *)
(* is also what is_error takes for "no error".                             *)
to_type(result) ==
  CASE result = "out_of_host_memory"    -> "e_out_of_host_memory"
    [] result = "out_of_device_memory"  -> "e_out_of_device_memory"
    [] result = "initialization_failed" -> "e_initialization_failed"
    [] result = "incompatible_driver"   -> "e_incompatible_driver"
    [] result = "device_lost"           -> "e_device_lost"
    [] result = "surface_lost"          -> "e_surface_lost"
    [] OTHER                            -> "e_none"

is_error(t) == t # "e_none"

(* The initialisers of string_type: "out of date" has no entry.            *)
string_type == << "none", "suboptimal", "out of host memory",
                  "out of device memory", "initialization failed",
                  "incompatible driver", "no physical device found",
                  "no suitable physical devices", "device lost",
                  "surface lost", "native window in use",
                  "too many objects", "invalid queue",
                  "command pool creation failed" >>

(* The entry to_string returns for the i-th enumerator. Reading past the   *)
(* end of the array is undefined: any value may come back.                 *)
to_string(i) == IF i \in 1 .. Len(string_type) THEN { string_type[i] }
                ELSE { "undefined" } \cup { string_type[j] : j \in 1 .. Len(string_type) }
=============================================================================
