------------------------------- MODULE Context -------------------------------
(***************************************************************************)
(* The life of a context (src/luciole/context.cpp): its constructor takes  *)
(* instance, messenger, surface, gpu, device, command pools and allocator  *)
(* from the driver one after the other and aborts on an error; contexts    *)
(* are moved; the destructor gives back what its context holds.            *)
(* The queues it finds are the subject of QueueSelection.                  *)
(***************************************************************************)
EXTENDS Naturals, Sequences, Errors

CONSTANTS
  Machines,              \* layers, extensions and gpus the driver may have
  Results,               \* what a creating call may answer
  DebugLayers,           \* the builds: values of vk::enable_debug_layers
  Slots,                 \* where the program can hold contexts
  First                  \* the one its first context is constructed in

(* What the constructor asks of a gpu the driver enumerates.               *)
Gpus == [ type : STRING, renders : BOOLEAN, formats : Nat, present_modes : Nat,
          extensions : SUBSET STRING, queue_families : SUBSET Nat ]

ASSUME MachinesAssumption == \A m \in Machines : m.gpus \in Seq(Gpus)
ASSUME ResultsAssumption == Results \subseteq VkResults
ASSUME SlotsAssumption == First \in Slots /\ DebugLayers \subseteq BOOLEAN

VARIABLES
  pc,        \* the step of the constructor or destructor that is next
  self,      \* the context it runs for
  enable_debug_layers,
  machine,
  enabled,   \* names enabled so far: layers, instance and device extensions
  ctx,       \* the handles of every context
  live,      \* the slots with a constructed context
  alive,     \* the objects the driver has made and not destroyed
  overwritten  \* those whose handle an assignment wrote over: for the properties only

given == << enable_debug_layers, machine >>   \* never change
vars == << pc, self, given, enabled, ctx, live, alive, overwritten >>

NULL == << "null", 0 >>      \* VK_NULL_HANDLE
Handle(kind) == << kind, 0 >>
Pool(family) == << "command_pool", family >>

Fields == { "instance", "debug_messenger", "surface", "device", "memory_allocator" }

(* What must exist as long as the object does.                             *)
Parent(object) ==
  IF object[1] \in { "debug_messenger", "surface", "device" } THEN Handle("instance")
  ELSE IF object[1] \in { "memory_allocator", "command_pool" } THEN Handle("device")
  ELSE object

(* context( ) = default: the member initialisers.                          *)
Empty == [ handle |-> [ field \in Fields |-> NULL ], gpu |-> 0, pools |-> {} ]

Init ==
  /\ pc = "check_layers"
  /\ self = First
  /\ enable_debug_layers \in DebugLayers
  /\ machine \in Machines
  /\ enabled = [ layers |-> {}, instance |-> {}, device |-> {} ]
  /\ ctx = [ c \in Slots |-> Empty ]
  /\ live = {}
  /\ alive = {}
  /\ overwritten = {}

-----------------------------------------------------------------------------
(***************************************************************************)
(* The constructor.                                                        *)
(***************************************************************************)

required_layers == {}
optional_layers == { "VK_LAYER_KHRONOS_validation" }
required_instance_extensions == { "VK_KHR_xcb_surface", "VK_KHR_surface" }
optional_instance_extensions == { "VK_KHR_load_surface_capabilities2", "VK_EXT_debug_utils" }
required_device_extensions == { "VK_KHR_swapchain" }

(* check_layer_support and check_ext_support: nothing when a required name *)
(* is missing, else the names found.                                       *)
check_support(required, optional, found) ==
  IF required \subseteq found THEN (required \cup optional) \cap found ELSE {}

(* An empty answer aborts, also when nothing was required.                 *)
check_layers ==
  LET names == check_support(required_layers, optional_layers, machine.layers) IN
  /\ pc = "check_layers"
  /\ IF ~ enable_debug_layers
     THEN pc' = "check_instance_extensions" /\ UNCHANGED enabled
     ELSE IF names = {} THEN pc' = "aborted" /\ UNCHANGED enabled
     ELSE pc' = "check_instance_extensions" /\ enabled' = [ enabled EXCEPT !.layers = names ]
  /\ UNCHANGED << self, given, ctx, live, alive, overwritten >>

(* Faulty variant: found is set for the names that differ, as              *)
(* load_device_extensions does.                                            *)
load_instance_extensions_inverted(supported) ==
  { e \in required_instance_extensions \cup optional_instance_extensions :
      \E s \in supported : s # e }

load_instance_extensions(supported) ==
  { e \in required_instance_extensions \cup optional_instance_extensions :
      \E s \in supported : s = e }

check_instance_extensions ==
  LET names == check_support(required_instance_extensions, optional_instance_extensions,
                             load_instance_extensions(machine.extensions)) IN
  /\ pc = "check_instance_extensions"
  /\ IF names = {} THEN pc' = "aborted" /\ UNCHANGED enabled
     ELSE pc' = "create_instance" /\ enabled' = [ enabled EXCEPT !.instance = names ]
  /\ UNCHANGED << self, given, ctx, live, alive, overwritten >>

(* A creating call: on an error the constructor aborts. A result to_type   *)
(* does not know counts as success though no handle was written.           *)
Create(point, kind, answers, next) ==
  /\ pc = point
  /\ kind = "instance" \/ ctx[self].handle[Parent(Handle(kind))[1]] # NULL
  /\ \E result \in answers :
       LET handle == IF result = "success" THEN Handle(kind) ELSE NULL IN
       IF is_error(to_type(result))
       THEN pc' = "aborted" /\ UNCHANGED << ctx, alive >>
       ELSE /\ pc' = next
            /\ ctx' = [ ctx EXCEPT ![self].handle[kind] = handle ]
            /\ alive' = alive \cup ({ handle } \ { NULL })
  /\ UNCHANGED << self, given, enabled, live, overwritten >>

create_instance ==
  Create("create_instance", "instance",
         IF ~ (enabled.layers \subseteq machine.layers) THEN { "layer_not_present" }
         ELSE IF ~ (enabled.instance \subseteq machine.extensions)
         THEN { "extension_not_present" } ELSE Results,
         IF enable_debug_layers THEN "create_debug_messenger" ELSE "create_surface")

(* Without VK_EXT_debug_utils there is no function to call.                *)
create_debug_messenger ==
  Create("create_debug_messenger", "debug_messenger",
         IF "VK_EXT_debug_utils" \in enabled.instance THEN Results
         ELSE { "extension_not_present" },
         "create_surface")

create_surface == Create("create_surface", "surface", Results, "pick_gpu")

(* 0 for a gpu that cannot draw to the surface, and for one that is        *)
(* neither discrete nor integrated.                                        *)
rate_gpu(gpu) ==
  IF gpu.renders /\ gpu.formats > 0 /\ gpu.present_modes > 0
  THEN CASE gpu.type = "discrete"   -> 2
         [] gpu.type = "integrated" -> 1
         [] OTHER                   -> 0
  ELSE 0

(* Faulty variant: the iterator past the last candidate.                   *)
candidates_end(gpus) == Len(gpus) + 1

(* A multimap from ratings to gpus: the last key decides whether there is  *)
(* a suitable gpu, and the first element, one with the lowest rating, is   *)
(* returned; among equals the one inserted first.                          *)
candidates_begin(gpus) ==
  CHOOSE g \in DOMAIN gpus :
    \A h \in DOMAIN gpus : \/ rate_gpu(gpus[g]) < rate_gpu(gpus[h])
                           \/ rate_gpu(gpus[g]) = rate_gpu(gpus[h]) /\ g <= h

pick_gpu ==
  /\ pc = "pick_gpu"
  /\ ctx[self].handle["instance"] # NULL
  /\ machine.gpus = << >> \/ ctx[self].handle["surface"] # NULL
  /\ IF \E g \in DOMAIN machine.gpus : rate_gpu(machine.gpus[g]) > 0
     THEN /\ pc' = "check_device_extensions"
          /\ ctx' = [ ctx EXCEPT ![self].gpu = candidates_begin(machine.gpus) ]
     ELSE pc' = "aborted" /\ UNCHANGED ctx
  /\ UNCHANGED << self, given, enabled, live, alive, overwritten >>

gpu_of(c) == machine.gpus[ctx[c].gpu]

(* strcmp without a comparison to 0: found is set for the names that       *)
(* differ.                                                                 *)
load_device_extensions(supported) ==
  { e \in required_device_extensions : \E s \in supported : s # e }

check_device_extensions ==
  LET names == check_support(required_device_extensions, {},
                             load_device_extensions(gpu_of(self).extensions)) IN
  /\ pc = "check_device_extensions"
  /\ IF names = {} THEN pc' = "aborted" /\ UNCHANGED enabled
     ELSE pc' = "create_device" /\ enabled' = [ enabled EXCEPT !.device = names ]
  /\ UNCHANGED << self, given, ctx, live, alive, overwritten >>

create_device ==
  Create("create_device", "device",
         IF enabled.device \subseteq gpu_of(self).extensions THEN Results
         ELSE { "extension_not_present" },
         "create_command_pools")

(* One pool for each family that has a queue, until a result is an error;  *)
(* a result to_type does not know leaves a null pool in the map.           *)
create_command_pools ==
  LET wanted == { Pool(f) : f \in gpu_of(self).queue_families } IN
  /\ pc = "create_command_pools"
  /\ ctx[self].handle["device"] # NULL
  /\ \E made \in SUBSET wanted :
       /\ alive' = alive \cup made
       /\ \/ /\ made = wanted \/ \E r \in Results \ { "success" } : ~ is_error(to_type(r))
             /\ pc' = "create_memory_allocator"
             /\ ctx' = [ ctx EXCEPT ![self].pools = made ]
          \/ /\ made # wanted /\ \E r \in Results : is_error(to_type(r))
             /\ pc' = "aborted"
             /\ UNCHANGED ctx
  /\ UNCHANGED << self, given, enabled, live, overwritten >>

(* vmaCreateAllocator's result is dropped: there is no error to return.    *)
create_memory_allocator ==
  /\ pc = "create_memory_allocator"
  /\ \E result \in Results :
       IF result = "success"
       THEN /\ ctx' = [ ctx EXCEPT ![self].handle["memory_allocator"] = Handle("memory_allocator") ]
            /\ alive' = alive \cup { Handle("memory_allocator") }
       ELSE UNCHANGED << ctx, alive >>
  /\ live' = live \cup { self }
  /\ pc' = "running"
  /\ UNCHANGED << self, given, enabled, overwritten >>

(* A call that is given a null instance, surface or device is undefined,   *)
(* in the destructor too; the model follows the process no further.        *)
use_null_handle ==
  /\ \/ /\ pc \in { "create_debug_messenger", "create_surface", "pick_gpu", "create_device" }
        /\ ctx[self].handle["instance"] = NULL
     \/ /\ pc = "pick_gpu"
        /\ machine.gpus # << >>
        /\ ctx[self].handle["surface"] = NULL
     \/ /\ pc = "create_command_pools"
        /\ ctx[self].handle["device"] = NULL
     \/ /\ pc = "destroy_command_pools"
        /\ ctx[self].pools # {}
        /\ ctx[self].handle["device"] = NULL
  /\ pc' = "undefined"
  /\ UNCHANGED << self, given, enabled, ctx, live, alive, overwritten >>

-----------------------------------------------------------------------------
(***************************************************************************)
(* Moves. Only one context can be constructed from a window: the second    *)
(* constructor would register the logger "Vulkan Logger" again, which      *)
(* throws.                                                                 *)
(***************************************************************************)

(* Faulty variant: the handles stay in the context that is moved from.     *)
Moved_copies(to, from) ==
  [ ctx EXCEPT ![to] = [ handle |-> ctx[from].handle, gpu |-> ctx[from].gpu,
                         pools |-> ctx[from].pools ],
               ![from].pools = ctx[to].pools ]

(* Faulty variant: the pools are not swapped.                              *)
Moved_without_pools(to, from) ==
  [ ctx EXCEPT ![to] = [ ctx[from] EXCEPT !.pools = ctx[to].pools ],
               ![from] = [ Empty EXCEPT !.pools = ctx[from].pools ] ]

(* operator=(context&&): handles are taken and left null; queues and       *)
(* command pools are swapped.                                              *)
Moved(to, from) ==
  [ ctx EXCEPT ![to] = ctx[from],
               ![from] = [ Empty EXCEPT !.pools = ctx[to].pools ] ]

default_construct(c) ==
  /\ pc = "running"
  /\ c \notin live
  /\ live' = live \cup { c }
  /\ ctx' = [ ctx EXCEPT ![c] = Empty ]
  /\ UNCHANGED << pc, self, given, enabled, alive, overwritten >>

move_construct(to, from) ==
  /\ pc = "running"
  /\ to \notin live
  /\ from \in live
  /\ live' = live \cup { to }
  /\ ctx' = Moved(to, from)
  /\ UNCHANGED << pc, self, given, enabled, alive, overwritten >>

(* What the context assigned to holds is written over, only its pools are  *)
(* given to the source, which has no device any more.                      *)
move_assign(to, from) ==
  /\ pc = "running"
  /\ to \in live
  /\ from \in live
  /\ to # from
  /\ ctx' = Moved(to, from)
  /\ overwritten' = overwritten \cup ({ ctx[to].handle[field] : field \in Fields } \ { NULL })
  /\ UNCHANGED << pc, self, given, enabled, live, alive >>

-----------------------------------------------------------------------------
(***************************************************************************)
(* The destructor.                                                         *)
(***************************************************************************)

destruct(c) ==
  /\ pc = "running"
  /\ c \in live
  /\ self' = c
  /\ pc' = "destroy_command_pools"
  /\ UNCHANGED << given, enabled, ctx, live, alive, overwritten >>

destroy_command_pools ==
  /\ pc = "destroy_command_pools"
  /\ ctx[self].pools = {} \/ ctx[self].handle["device"] # NULL
  /\ alive' = alive \ ctx[self].pools
  /\ ctx' = [ ctx EXCEPT ![self].pools = {} ]
  /\ pc' = "destroy_memory_allocator"
  /\ UNCHANGED << self, given, enabled, live, overwritten >>

Destroy(point, kind, next) ==
  /\ pc = point
  /\ alive' = alive \ { ctx[self].handle[kind] }
  /\ ctx' = [ ctx EXCEPT ![self].handle[kind] = NULL ]
  /\ pc' = next
  /\ UNCHANGED << self, given, enabled, live, overwritten >>

(* Faulty variant: the allocator is forgotten.                             *)
destroy_memory_allocator_forgotten ==
  /\ pc = "destroy_memory_allocator"
  /\ pc' = "destroy_device"
  /\ UNCHANGED << self, given, enabled, ctx, live, alive, overwritten >>

(* Faulty variant: the device is destroyed before its allocator.           *)
destroy_memory_allocator_late ==
  \/ Destroy("destroy_memory_allocator", "device", "destroy_device")
  \/ Destroy("destroy_device", "memory_allocator", "destroy_surface")

destroy_memory_allocator ==
  Destroy("destroy_memory_allocator", "memory_allocator", "destroy_device")

destroy_device == Destroy("destroy_device", "device", "destroy_surface")

destroy_surface ==
  Destroy("destroy_surface", "surface",
          IF enable_debug_layers THEN "destroy_debug_messenger" ELSE "forget_instance")

destroy_debug_messenger ==
  Destroy("destroy_debug_messenger", "debug_messenger", "forget_instance")

(* The handle of the instance is cleared; vkDestroyInstance is not called. *)
forget_instance ==
  /\ pc = "forget_instance"
  /\ ctx' = [ ctx EXCEPT ![self].handle["instance"] = NULL ]
  /\ live' = live \ { self }
  /\ pc' = "running"
  /\ UNCHANGED << self, given, enabled, alive, overwritten >>

Construct ==
  \/ check_layers \/ check_instance_extensions
  \/ create_instance \/ create_debug_messenger \/ create_surface
  \/ pick_gpu \/ check_device_extensions \/ create_device
  \/ create_command_pools \/ create_memory_allocator
  \/ use_null_handle

Move ==
  \/ \E c \in Slots : default_construct(c)
  \/ \E to, from \in Slots : move_construct(to, from)
  \/ \E to, from \in Slots : move_assign(to, from)

Destruct ==
  \/ \E c \in Slots : destruct(c)
  \/ destroy_command_pools \/ destroy_memory_allocator \/ destroy_device
  \/ destroy_surface \/ destroy_debug_messenger \/ forget_instance

Next == Construct \/ Move \/ Destruct

Spec == Init /\ [][Next]_vars

-----------------------------------------------------------------------------
(***************************************************************************)
(* Properties.                                                             *)
(***************************************************************************)

Held(c) == ({ ctx[c].handle[field] : field \in Fields } \cup ctx[c].pools) \ { NULL }

(* Types: a context's fields hold the kind of object they are declared     *)
(* for, and its gpu is one of those the driver enumerated.                 *)
TypeOK ==
  /\ self \in Slots
  /\ live \subseteq Slots
  /\ \A object \in alive : object[1] \in Fields \cup { "command_pool" }
  /\ overwritten \subseteq alive
  /\ \A c \in Slots :
       /\ \A field \in Fields : ctx[c].handle[field] \in { NULL, Handle(field) }
       /\ ctx[c].gpu \in 0 .. Len(machine.gpus)
       /\ \A pool \in ctx[c].pools : pool[1] = "command_pool" /\ pool[2] \in Nat

(* Messenger, surface and device exist only while their instance does,     *)
(* allocator and pools only while their device does: no step of            *)
(* ~context() destroys a parent before its children.                       *)
ParentsOutliveChildren == \A object \in alive : Parent(object) \in alive

(* What a context holds exists, and no other context holds it: however     *)
(* contexts are moved or assigned to, full or not, the destructors destroy *)
(* every object at most once.                                              *)
OneOwner ==
  \A c \in Slots :
    /\ Held(c) \subseteq alive
    /\ \A d \in Slots \ { c } : Held(c) \cap Held(d) = {}

(* A handle is destroyed with its parent's handle: moves keep what belongs *)
(* together, the swapped command pools too, in one context, unless an      *)
(* assignment has written over the parent.                                 *)
HeldWithParent ==
  \A c \in Slots : \A object \in Held(c) : Parent(object) \in Held(c) \cup overwritten

(* While the program runs every object but the instance is held by a       *)
(* context or was written over, and no other way of moving or destroying   *)
(* contexts loses one: so when the last context is gone only the instance, *)
(* which ~context() does not destroy, is left of what was not.             *)
NothingLost ==
  pc \notin { "aborted", "undefined" } =>
    alive \ ({ Handle("instance") } \cup overwritten) \subseteq UNION { Held(c) : c \in Slots }

(* check_ext_support finds the extensions that are supported: the instance *)
(* is created with every required one and with none the driver lacks.      *)
InstanceExtensionsSupported ==
  enabled.instance # {} =>
    /\ required_instance_extensions \subseteq enabled.instance
    /\ enabled.instance \subseteq machine.extensions

(* The same of the device; it does not hold (context.cpp:977).             *)
DeviceExtensionsSupported ==
  enabled.device # {} => enabled.device \subseteq gpu_of(self).extensions

(* The selected gpu is one that was rated suitable: pick_gpu has an error  *)
(* type for the case that there is none.                                   *)
PicksSuitableGpu == pc = "check_device_extensions" => rate_gpu(gpu_of(self)) > 0
=============================================================================
