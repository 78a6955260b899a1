--------------------------- MODULE QueueSelection ---------------------------
(***************************************************************************)
(* How a context finds its queues and their command pools, and which queue *)
(* families its buffers are shared between: context::get_queues,           *)
(* create_command_pools and get_unique_family_indices, one loop iteration  *)
(* per step.                                                               *)
(***************************************************************************)
EXTENDS Naturals, Sequences, Errors

CONSTANTS
  FamilyLists,   \* what vkGetPhysicalDeviceQueueFamilyProperties may report
  PoolResults    \* what vkCreateCommandPool may answer

(* VkQueueFlags and VkQueueFamilyProperties. A family may do more than the *)
(* three operations the engine asks about.                                 *)
Capabilities == { "graphics", "compute", "transfer", "sparse_binding" }
Family == [ flags : SUBSET Capabilities, count : Nat ]

ASSUME FamilyListsAssumption == FamilyLists \subseteq Seq(Family)
ASSUME PoolResultsAssumption == PoolResults \subseteq VkResults

(* queue::flag                                                             *)
Roles == { "graphics", "transfer", "compute" }

VARIABLES
  pc,                  \* the loop that runs
  families,            \* queue_properties; family i is families[i]
  i,                   \* its index in the two loops of get_queues
  has_transfer_only, has_compute_only,
  queues,              \* role -> queue
  pools,               \* family -> command pool
  indices,             \* get_unique_family_indices' answer
  todo                 \* the queues the running loop has yet to visit

selectionVars == << i, has_transfer_only, has_compute_only, queues >>
vars == << pc, families, selectionVars, pools, indices, todo >>

Init ==
  /\ pc = "exclusive"
  /\ families \in FamilyLists
  /\ i = 1
  /\ has_transfer_only = FALSE
  /\ has_compute_only = FALSE
  /\ queues = << >>
  /\ pools = << >>
  /\ indices = << >>
  /\ todo = {}

-----------------------------------------------------------------------------
(***************************************************************************)
(* get_queues                                                              *)
(***************************************************************************)

(* unordered_map::insert keeps the element that is there.                  *)
Insert(map, key, value) ==
  IF key \in DOMAIN map THEN map
  ELSE [ k \in DOMAIN map \cup { key } |-> IF k = key THEN value ELSE map[k] ]

Queue(family, index) == [ family |-> family, index |-> index ]

Does(family, flags) == family.count > 0 /\ family.flags = flags
DoesAll(family) == family.count > 0 /\ Roles \subseteq family.flags

(* A family for nothing but transfers, or but compute, gets that role.     *)
scan_exclusive ==
  /\ pc = "exclusive"
  /\ i <= Len(families)
  /\ has_transfer_only' = (has_transfer_only \/ Does(families[i], { "transfer" }))
  /\ has_compute_only' = (has_compute_only \/ Does(families[i], { "compute" }))
  /\ queues' =
       CASE Does(families[i], { "transfer" }) -> Insert(queues, "transfer", Queue(i, 0))
         [] Does(families[i], { "compute" })  -> Insert(queues, "compute", Queue(i, 0))
         [] OTHER                             -> queues
  /\ i' = i + 1
  /\ UNCHANGED << pc, families, pools, indices, todo >>

end_exclusive ==
  /\ pc = "exclusive"
  /\ i = Len(families) + 1
  /\ pc' = "universal"
  /\ i' = 1
  /\ UNCHANGED << families, has_transfer_only, has_compute_only, queues,
                  pools, indices, todo >>

(* Faulty variant: the index is not advanced past the transfer queue.      *)
RolesOf_same_index(f) ==
  LET graphics == Insert(queues, "graphics", Queue(f, 0))
      transfer == IF has_transfer_only THEN graphics
                  ELSE Insert(graphics, "transfer", Queue(f, 1)) IN
  IF has_compute_only THEN transfer
  ELSE Insert(transfer, "compute", Queue(f, 1))

(* Faulty variant: the index counts the roles other families have taken.   *)
RolesOf_sparse_index(f) ==
  LET graphics == Insert(queues, "graphics", Queue(f, 0))
      transfer == IF has_transfer_only THEN graphics
                  ELSE Insert(graphics, "transfer", Queue(f, 1)) IN
  IF has_compute_only THEN transfer
  ELSE Insert(transfer, "compute", Queue(f, 2))

(* The roles a family that does everything gets: graphics, and those no    *)
(* exclusive family has, on queues of their own.                           *)
RolesOf(f) ==
  LET graphics == Insert(queues, "graphics", Queue(f, 0))
      transfer == IF has_transfer_only THEN graphics
                  ELSE Insert(graphics, "transfer", Queue(f, 1)) IN
  IF has_compute_only THEN transfer
  ELSE Insert(transfer, "compute", Queue(f, IF has_transfer_only THEN 1 ELSE 2))

(* Faulty variant: the family need not do all three.                       *)
scan_universal_any_graphics ==
  /\ pc = "universal"
  /\ i <= Len(families)
  /\ queues' = IF families[i].count > 0 /\ "graphics" \in families[i].flags
               THEN RolesOf(i) ELSE queues
  /\ i' = i + 1
  /\ UNCHANGED << pc, families, has_transfer_only, has_compute_only, pools,
                  indices, todo >>

scan_universal ==
  /\ pc = "universal"
  /\ i <= Len(families)
  /\ queues' = IF DoesAll(families[i]) THEN RolesOf(i) ELSE queues
  /\ i' = i + 1
  /\ UNCHANGED << pc, families, has_transfer_only, has_compute_only, pools,
                  indices, todo >>

(* Faulty variant: a pool is made for every role, had or not.              *)
end_universal_all_roles ==
  /\ pc = "universal"
  /\ i = Len(families) + 1
  /\ pc' = "pools"
  /\ todo' = Roles
  /\ UNCHANGED << families, selectionVars, pools, indices >>

end_universal ==
  /\ pc = "universal"
  /\ i = Len(families) + 1
  /\ pc' = "pools"
  /\ todo' = DOMAIN queues
  /\ UNCHANGED << families, selectionVars, pools, indices >>

-----------------------------------------------------------------------------
(***************************************************************************)
(* create_command_pools and get_unique_family_indices iterate over an      *)
(* unordered_map: the queues come in any order.                            *)
(***************************************************************************)

(* Faulty variant: a pool that is there already is left as it is.          *)
create_command_pool_without_flags(role) ==
  LET family == queues[role].family IN
  /\ pc = "pools"
  /\ role \in todo
  /\ pools' = Insert(pools, family, [ handle |-> family, flags |-> { role } ])
  /\ todo' = todo \ { role }
  /\ UNCHANGED << pc, families, selectionVars, indices >>

(* Queues of one family share a pool, which remembers what it is for. On   *)
(* an error the pools made so far are forgotten and the context aborts.    *)
create_command_pool(role) ==
  LET family == queues[role].family IN
  /\ pc = "pools"
  /\ role \in todo
  /\ \/ /\ family \in DOMAIN pools
        /\ pools' = [ pools EXCEPT ![family].flags = @ \cup { role } ]
        /\ todo' = todo \ { role }
        /\ UNCHANGED pc
     \/ /\ family \notin DOMAIN pools
        /\ \E result \in PoolResults :
             IF is_error(to_type(result))
             THEN /\ pc' = "aborted"
                  /\ UNCHANGED << pools, todo >>
             ELSE /\ pools' = Insert(pools, family,
                                     [ handle |-> family, flags |-> { role } ])
                  /\ todo' = todo \ { role }
                  /\ UNCHANGED pc
  /\ UNCHANGED << families, selectionVars, indices >>

end_command_pools ==
  /\ pc = "pools"
  /\ todo = {}
  /\ pc' = "indices"
  /\ todo' = DOMAIN queues
  /\ UNCHANGED << families, selectionVars, pools, indices >>

(* Faulty variant: only the last index is compared.                        *)
collect_index_compare_last(role) ==
  LET family == queues[role].family IN
  /\ pc = "indices"
  /\ role \in todo
  /\ indices' = IF indices # << >> /\ indices[Len(indices)] = family
                THEN indices ELSE Append(indices, family)
  /\ todo' = todo \ { role }
  /\ UNCHANGED << pc, families, selectionVars, pools >>

collect_index(role) ==
  LET family == queues[role].family IN
  /\ pc = "indices"
  /\ role \in todo
  /\ indices' = IF \E n \in 1 .. Len(indices) : indices[n] = family
                THEN indices ELSE Append(indices, family)
  /\ todo' = todo \ { role }
  /\ UNCHANGED << pc, families, selectionVars, pools >>

end_indices ==
  /\ pc = "indices"
  /\ todo = {}
  /\ pc' = "done"
  /\ UNCHANGED << families, selectionVars, pools, indices, todo >>

Next ==
  \/ scan_exclusive \/ end_exclusive
  \/ scan_universal \/ end_universal
  \/ \E role \in Roles : create_command_pool(role)
  \/ end_command_pools
  \/ \E role \in Roles : collect_index(role)
  \/ end_indices

Spec == Init /\ [][Next]_vars

-----------------------------------------------------------------------------
(***************************************************************************)
(* Properties                                                              *)
(***************************************************************************)

IsFirst(f, S) == f \in S /\ \A g \in S : f <= g
Exclusive(role) == { f \in 1 .. Len(families) :
                       role # "graphics" /\ Does(families[f], { role }) }
Universal == { f \in 1 .. Len(families) : DoesAll(families[f]) }
Selected == pc \notin { "exclusive", "universal" }

TypeOK ==
  /\ pc \in { "exclusive", "universal", "pools", "indices", "done", "aborted" }
  /\ families \in Seq(Family)
  /\ i \in 1 .. Len(families) + 1
  /\ has_transfer_only \in BOOLEAN
  /\ has_compute_only \in BOOLEAN
  /\ DOMAIN queues \subseteq Roles
  /\ \A role \in DOMAIN queues :
       queues[role] \in [ family : 1 .. Len(families), index : 0 .. 2 ]
  /\ DOMAIN pools \subseteq 1 .. Len(families)
  /\ \A f \in DOMAIN pools :
       pools[f] \in [ handle : 1 .. Len(families), flags : SUBSET Roles ]
  /\ indices \in Seq(1 .. Len(families))
  /\ todo \subseteq DOMAIN queues

(* The two loops of get_queues, with inserts that may find their key       *)
(* taken, choose what a search would: for transfers and for compute the    *)
(* first family that does nothing else, and for the rest the first family  *)
(* that does everything. Without such a family there is no graphics queue. *)
FirstFamilyIsChosen ==
  Selected =>
    /\ \A role \in Roles : Exclusive(role) # {} =>
         /\ role \in DOMAIN queues
         /\ IsFirst(queues[role].family, Exclusive(role))
    /\ \A role \in Roles : Exclusive(role) = {} =>
         IF Universal = {} THEN role \notin DOMAIN queues
         ELSE /\ role \in DOMAIN queues
              /\ IsFirst(queues[role].family, Universal)

(* No VkQueue plays two roles: a transfer is never submitted to the queue  *)
(* that renders, which the engine uses without a lock of its own.          *)
QueuesDistinct ==
  \A r, s \in DOMAIN queues : r # s => queues[r] # queues[s]

(* A family with as many queues as it has roles has all that are asked of  *)
(* it: the indices of its queues start at 0 and leave no gap.              *)
IndicesDense ==
  \A r \in DOMAIN queues : queues[r].index > 0 =>
    \E s \in DOMAIN queues : /\ queues[s].family = queues[r].family
                             /\ queues[s].index = queues[r].index - 1

(* create_command_buffers takes the pool of its queue's family without     *)
(* looking whether it is there; it is, and no pool is for a queue of       *)
(* another family.                                                         *)
PoolsServeQueues ==
  pc \in { "indices", "done" } =>
    /\ \A r \in DOMAIN queues : queues[r].family \in DOMAIN pools
    /\ \A f \in DOMAIN pools :
         pools[f].flags = { r \in DOMAIN queues : queues[r].family = f }

(* Buffers are shared between the families of all queues, each named once  *)
(* as Vulkan requires.                                                     *)
IndicesAreTheFamilies ==
  pc = "done" =>
    /\ \A m, n \in 1 .. Len(indices) : m # n => indices[m] # indices[n]
    /\ { indices[n] : n \in 1 .. Len(indices) }
         = { queues[r].family : r \in DOMAIN queues }
=============================================================================
