------------------------ MODULE QueueSelectionProofs ------------------------
(***************************************************************************)
(* Theorems about QueueSelection, for any list of queue families and any   *)
(* order in which the unordered_map of queues is visited.                  *)
(***************************************************************************)
EXTENDS QueueSelection, TLAPS

(* The families the first and the second loop of get_queues have passed.   *)
Passed(f) == pc = "exclusive" => f < i
PassedAgain(f) == pc # "exclusive" /\ (pc = "universal" => f < i)

SeenExclusive(role) == { f \in Exclusive(role) : Passed(f) }
SeenUniversal == { f \in Universal : PassedAgain(f) }

(* The index RolesOf gives the role.                                       *)
IndexOf(role) == CASE role = "graphics" -> 0
                   [] role = "transfer" -> 1
                   [] role = "compute"  -> IF has_transfer_only THEN 1 ELSE 2

FlagsInv ==
  /\ has_transfer_only = (SeenExclusive("transfer") # {})
  /\ has_compute_only = (SeenExclusive("compute") # {})

(* What the loops have chosen is right for the families they have passed.  *)
ChosenInv ==
  /\ \A role \in Roles : SeenExclusive(role) # {} =>
       /\ role \in DOMAIN queues
       /\ IsFirst(queues[role].family, SeenExclusive(role))
       /\ queues[role].index = 0
  /\ \A role \in Roles : SeenExclusive(role) = {} =>
       IF SeenUniversal = {} THEN role \notin DOMAIN queues
       ELSE /\ role \in DOMAIN queues
            /\ IsFirst(queues[role].family, SeenUniversal)
            /\ queues[role].index = IndexOf(role)

Visited == DOMAIN queues \ todo

(* Pools and indices are those of the queues visited so far.               *)
PoolsInv ==
  /\ pc \in { "exclusive", "universal" } => pools = << >>
  /\ pc = "pools" =>
       /\ \A r \in Visited : queues[r].family \in DOMAIN pools
       /\ \A f \in DOMAIN pools :
            pools[f].flags = { r \in Visited : queues[r].family = f }
  /\ PoolsServeQueues

IndicesInv ==
  /\ pc \in { "exclusive", "universal", "pools" } => indices = << >>
  /\ pc \in { "indices", "done" } =>
       /\ \A m, n \in 1 .. Len(indices) : m # n => indices[m] # indices[n]
       /\ \A r \in Visited : \E n \in 1 .. Len(indices) : indices[n] = queues[r].family
       /\ \A n \in 1 .. Len(indices) :
            \E r \in DOMAIN queues : indices[n] = queues[r].family
  /\ pc = "done" => todo = {}

IInv == TypeOK /\ FlagsInv /\ ChosenInv /\ PoolsInv /\ IndicesInv

-----------------------------------------------------------------------------
(* What Insert returns: one key more, the others untouched.                *)
LEMMA InsertKeeps ==
  ASSUME NEW map, NEW key, NEW value
  PROVE  /\ DOMAIN Insert(map, key, value) = DOMAIN map \cup { key }
         /\ \A k \in DOMAIN map : Insert(map, key, value)[k] = map[k]
         /\ key \notin DOMAIN map => Insert(map, key, value)[key] = value
BY DEF Insert

(* What RolesOf returns: every role is taken, those that were keep their   *)
(* queue and the others get one of the family.                             *)
LEMMA RolesOfKeeps ==
  ASSUME NEW f, DOMAIN queues \subseteq Roles,
         has_transfer_only => "transfer" \in DOMAIN queues,
         has_compute_only => "compute" \in DOMAIN queues
  PROVE  /\ DOMAIN RolesOf(f) = Roles
         /\ \A r \in DOMAIN queues : RolesOf(f)[r] = queues[r]
         /\ \A r \in Roles \ DOMAIN queues : RolesOf(f)[r] = Queue(f, IndexOf(r))
<1>1. PICK g : g = Insert(queues, "graphics", Queue(f, 0))
  OBVIOUS
<1>2. PICK n : n = IF has_transfer_only THEN 1 ELSE 2
  OBVIOUS
<1>3. PICK t : t = IF has_transfer_only THEN g ELSE Insert(g, "transfer", Queue(f, 1))
  OBVIOUS
<1>4. PICK c : c = IF has_compute_only THEN t ELSE Insert(t, "compute", Queue(f, n))
  OBVIOUS
<1>5. RolesOf(f) = c
  BY <1>1, <1>2, <1>3, <1>4 DEF RolesOf
<1>6. /\ DOMAIN g = DOMAIN queues \cup { "graphics" }
      /\ \A r \in DOMAIN queues : g[r] = queues[r]
      /\ "graphics" \notin DOMAIN queues => g["graphics"] = Queue(f, 0)
  <2> DEFINE I == Insert(queues, "graphics", Queue(f, 0))
  <2>1. /\ DOMAIN I = DOMAIN queues \cup { "graphics" }
        /\ \A r \in DOMAIN queues : I[r] = queues[r]
        /\ "graphics" \notin DOMAIN queues => I["graphics"] = Queue(f, 0)
    BY InsertKeeps
  <2>2. g = I
    BY <1>1
  <2> HIDE DEF I
  <2> QED
    BY <2>1, <2>2
<1>7. /\ DOMAIN t = DOMAIN g \cup { "transfer" }
      /\ \A r \in DOMAIN g : t[r] = g[r]
      /\ "transfer" \notin DOMAIN g => t["transfer"] = Queue(f, 1)
  <2>1. CASE has_transfer_only
    BY <1>3, <1>6, <2>1
  <2>2. CASE ~ has_transfer_only
    <3> DEFINE I == Insert(g, "transfer", Queue(f, 1))
    <3>1. /\ DOMAIN I = DOMAIN g \cup { "transfer" }
          /\ \A r \in DOMAIN g : I[r] = g[r]
          /\ "transfer" \notin DOMAIN g => I["transfer"] = Queue(f, 1)
      BY InsertKeeps
    <3>2. t = I
      BY <1>3, <2>2
    <3> HIDE DEF I
    <3> QED
      BY <3>1, <3>2
  <2> QED
    BY <2>1, <2>2
<1>8. /\ DOMAIN c = DOMAIN t \cup { "compute" }
      /\ \A r \in DOMAIN t : c[r] = t[r]
      /\ "compute" \notin DOMAIN t => c["compute"] = Queue(f, n)
  <2>1. CASE has_compute_only
    BY <1>4, <1>6, <1>7, <2>1
  <2>2. CASE ~ has_compute_only
    <3> DEFINE I == Insert(t, "compute", Queue(f, n))
    <3>1. /\ DOMAIN I = DOMAIN t \cup { "compute" }
          /\ \A r \in DOMAIN t : I[r] = t[r]
          /\ "compute" \notin DOMAIN t => I["compute"] = Queue(f, n)
      BY InsertKeeps
    <3>2. c = I
      BY <1>4, <2>2
    <3> HIDE DEF I
    <3> QED
      BY <3>1, <3>2
  <2> QED
    BY <2>1, <2>2
<1>9. DOMAIN c = Roles
  BY <1>6, <1>7, <1>8 DEF Roles
<1>10. \A r \in DOMAIN queues : c[r] = queues[r]
  BY <1>6, <1>7, <1>8
<1>11. ASSUME NEW r \in Roles \ DOMAIN queues
       PROVE  c[r] = Queue(f, IndexOf(r))
  <2>1. CASE r = "graphics"
    BY <1>6, <1>7, <1>8, <2>1 DEF IndexOf
  <2>2. CASE r = "transfer"
    BY <1>6, <1>7, <1>8, <2>2 DEF IndexOf
  <2>3. CASE r = "compute"
    BY <1>2, <1>6, <1>7, <1>8, <2>3 DEF IndexOf
  <2> QED
    BY <2>1, <2>2, <2>3 DEF Roles
<1> QED
  BY <1>5, <1>9, <1>10, <1>11

LEMMA TypeInit == Init => TypeOK
<1> SUFFICES ASSUME Init PROVE TypeOK
  OBVIOUS
<1>1. families \in Seq(Family) /\ Len(families) \in Nat
  BY FamilyListsAssumption DEF Init
<1>2. DOMAIN << >> = {}
  OBVIOUS
<1>3. << >> \in Seq(1 .. Len(families))
  OBVIOUS
<1>4. /\ queues = << >> /\ pools = << >> /\ indices = << >> /\ todo = {}
      /\ i = 1 /\ pc = "exclusive"
      /\ has_transfer_only = FALSE /\ has_compute_only = FALSE
  BY DEF Init
<1>5. DOMAIN queues = {} /\ DOMAIN pools = {}
  BY <1>2, <1>4
<1>6. i \in 1 .. Len(families) + 1
  BY <1>1, <1>4
<1>7. indices \in Seq(1 .. Len(families))
  BY <1>3, <1>4
<1> QED
  BY <1>1, <1>4, <1>5, <1>6, <1>7 DEF TypeOK

(* scan_exclusive inserts at most one queue, of family i.                  *)
LEMMA ScanInserts ==
  ASSUME scan_exclusive
  PROVE  \/ /\ Does(families[i], { "transfer" })
            /\ queues' = Insert(queues, "transfer", Queue(i, 0))
         \/ /\ Does(families[i], { "compute" })
            /\ queues' = Insert(queues, "compute", Queue(i, 0))
         \/ /\ ~ Does(families[i], { "transfer" })
            /\ ~ Does(families[i], { "compute" })
            /\ queues' = queues
BY DEF scan_exclusive

LEMMA TypeStep == TypeOK /\ FlagsInv /\ ChosenInv /\ [Next]_vars => TypeOK'
<1> SUFFICES ASSUME TypeOK, FlagsInv, ChosenInv, [Next]_vars
             PROVE  TypeOK'
  OBVIOUS
<1> DEFINE QueueType == [ family : 1 .. Len(families), index : 0 .. 2 ]
<1>0. /\ families \in Seq(Family) /\ Len(families) \in Nat /\ i \in Nat
      /\ \A role \in DOMAIN queues : queues[role] \in QueueType
  BY DEF TypeOK
<1>1. CASE scan_exclusive
  <2>1. i \in 1 .. Len(families) /\ i + 1 \in 1 .. Len(families) + 1
    BY <1>0, <1>1 DEF TypeOK, scan_exclusive
  <2>2. Queue(i, 0) \in QueueType
    BY <2>1 DEF Queue
  <2>3. ASSUME NEW key \in Roles,
               queues' = Insert(queues, key, Queue(i, 0))
        PROVE  /\ DOMAIN queues' \subseteq Roles
               /\ \A role \in DOMAIN queues' : queues'[role] \in QueueType
               /\ todo \subseteq DOMAIN queues'
    <3>1. /\ DOMAIN queues' = DOMAIN queues \cup { key }
          /\ \A k \in DOMAIN queues : queues'[k] = queues[k]
          /\ key \notin DOMAIN queues => queues'[key] = Queue(i, 0)
      <4> DEFINE I == Insert(queues, key, Queue(i, 0))
      <4>1. /\ DOMAIN I = DOMAIN queues \cup { key }
            /\ \A k \in DOMAIN queues : I[k] = queues[k]
            /\ key \notin DOMAIN queues => I[key] = Queue(i, 0)
        BY InsertKeeps
      <4>2. queues' = I
        BY <2>3
      <4> HIDE DEF I
      <4> QED
        BY <4>1, <4>2
    <3> QED
      BY <3>1, <2>2, <1>0 DEF TypeOK
  <2>4. /\ DOMAIN queues' \subseteq Roles
        /\ \A role \in DOMAIN queues' : queues'[role] \in QueueType
        /\ todo \subseteq DOMAIN queues'
    <3>1. "transfer" \in Roles /\ "compute" \in Roles
      BY DEF Roles
    <3>2. CASE queues' = queues
      BY <3>2, <1>0 DEF TypeOK
    <3> QED
      BY <3>1, <3>2, <2>3, <1>1, ScanInserts
  <2>5. (has_transfer_only \in BOOLEAN)' /\ (has_compute_only \in BOOLEAN)'
    BY <1>1 DEF scan_exclusive
  <2> QED
    BY <2>1, <2>4, <2>5, <1>1 DEF TypeOK, scan_exclusive
<1>2. CASE end_exclusive
  BY <1>0, <1>2 DEF TypeOK, end_exclusive
<1>3. CASE scan_universal
  <2>1. i \in 1 .. Len(families) /\ i + 1 \in 1 .. Len(families) + 1
    BY <1>0, <1>3 DEF TypeOK, scan_universal
  <2>2. \A role \in Roles : Queue(i, IndexOf(role)) \in QueueType
    BY <2>1 DEF Queue, IndexOf, Roles
  <2>3. CASE queues' = queues
    BY <2>1, <2>3, <1>3 DEF TypeOK, scan_universal
  <2>4. CASE queues' = RolesOf(i)
    <3>1. /\ has_transfer_only => "transfer" \in DOMAIN queues
          /\ has_compute_only => "compute" \in DOMAIN queues
          /\ DOMAIN queues \subseteq Roles
      BY DEF FlagsInv, ChosenInv, Roles, TypeOK
    <3>2. /\ DOMAIN RolesOf(i) = Roles
          /\ \A r \in DOMAIN queues : RolesOf(i)[r] = queues[r]
          /\ \A r \in Roles \ DOMAIN queues : RolesOf(i)[r] = Queue(i, IndexOf(r))
      BY <3>1, RolesOfKeeps
    <3>3. /\ DOMAIN queues' = Roles
          /\ \A r \in DOMAIN queues : queues'[r] = queues[r]
          /\ \A r \in Roles \ DOMAIN queues : queues'[r] = Queue(i, IndexOf(r))
      BY <3>2, <2>4
    <3>4. \A role \in DOMAIN queues' : queues'[role] \in QueueType
      BY <3>3, <2>2, <1>0
    <3>5. todo \subseteq DOMAIN queues'
      BY <3>3, <3>1 DEF TypeOK
    <3> QED
      BY <3>3, <3>4, <3>5, <2>1, <1>3 DEF TypeOK, scan_universal
  <2> QED
    BY <2>3, <2>4, <1>3 DEF scan_universal
<1>4. CASE end_universal
  BY <1>0, <1>4 DEF TypeOK, end_universal, selectionVars
<1>5. ASSUME NEW role \in Roles, create_command_pool(role)
      PROVE  TypeOK'
  <2> DEFINE family == queues[role].family
             fresh == [ handle |-> family, flags |-> { role } ]
  <2>1. role \in DOMAIN queues /\ family \in 1 .. Len(families)
    BY <1>0, <1>5 DEF TypeOK, create_command_pool
  <2>2. CASE /\ family \in DOMAIN pools
             /\ pools' = [ pools EXCEPT ![family].flags = @ \cup { role } ]
             /\ todo' = todo \ { role }
             /\ UNCHANGED pc
    BY <2>1, <2>2, <1>5 DEF TypeOK, create_command_pool, selectionVars
  <2>3. CASE pc' = "aborted" /\ UNCHANGED << pools, todo >>
    BY <2>3, <1>5 DEF TypeOK, create_command_pool, selectionVars
  <2>4. CASE /\ pools' = Insert(pools, family, fresh)
             /\ todo' = todo \ { role }
             /\ UNCHANGED pc
    <3>1. /\ DOMAIN pools' = DOMAIN pools \cup { family }
          /\ \A k \in DOMAIN pools : pools'[k] = pools[k]
          /\ family \notin DOMAIN pools => pools'[family] = fresh
      <4> DEFINE I == Insert(pools, family, fresh)
      <4>1. /\ DOMAIN I = DOMAIN pools \cup { family }
            /\ \A k \in DOMAIN pools : I[k] = pools[k]
            /\ family \notin DOMAIN pools => I[family] = fresh
        BY InsertKeeps
      <4>2. pools' = I
        BY <2>4
      <4> HIDE DEF I, fresh
      <4> QED
        BY <4>1, <4>2
    <3>2. fresh \in [ handle : 1 .. Len(families), flags : SUBSET Roles ]
      BY <2>1
    <3>3. UNCHANGED << pc, families, selectionVars, indices >> /\ todo' \subseteq todo
      BY <2>4, <1>5 DEF create_command_pool
    <3>4. /\ (DOMAIN pools)' \subseteq 1 .. Len(families)
          /\ \A f \in DOMAIN pools' :
               pools'[f] \in [ handle : 1 .. Len(families), flags : SUBSET Roles ]
      <4> HIDE DEF fresh
      <4> QED
        BY <3>1, <3>2, <2>1 DEF TypeOK
    <3> QED
      BY <3>3, <3>4 DEF TypeOK, selectionVars
  <2> QED
    BY <2>2, <2>3, <2>4, <1>5 DEF create_command_pool
<1>6. CASE end_command_pools
  BY <1>0, <1>6 DEF TypeOK, end_command_pools, selectionVars
<1>7. ASSUME NEW role \in Roles, collect_index(role)
      PROVE  TypeOK'
  <2>1. role \in DOMAIN queues /\ queues[role].family \in 1 .. Len(families)
    BY <1>0, <1>7 DEF TypeOK, collect_index
  <2>2. indices' \in Seq(1 .. Len(families))
    <3>1. indices \in Seq(1 .. Len(families))
      BY DEF TypeOK
    <3>2. \/ indices' = indices
          \/ indices' = Append(indices, queues[role].family)
      BY <1>7 DEF collect_index
    <3>3. families' = families
      BY <1>7 DEF collect_index
    <3> QED
      BY <3>1, <3>2, <3>3, <2>1
  <2> QED
    BY <2>2, <1>7 DEF TypeOK, collect_index, selectionVars
<1>8. CASE end_indices
  BY <1>0, <1>8 DEF TypeOK, end_indices, selectionVars
<1>9. CASE UNCHANGED vars
  BY <1>9 DEF TypeOK, vars, selectionVars
<1> QED
  BY <1>1, <1>2, <1>3, <1>4, <1>5, <1>6, <1>7, <1>8, <1>9 DEF Next

-----------------------------------------------------------------------------
(* What each step adds to the families passed.                             *)
LEMMA SeenStep ==
  ASSUME TypeOK
  PROVE  /\ pc = "exclusive" => SeenUniversal = {}
         /\ scan_exclusive =>
              /\ SeenUniversal' = {}
              /\ \A role \in Roles : SeenExclusive(role)' =
                   SeenExclusive(role) \cup
                   { f \in { i } : role # "graphics" /\ Does(families[i], { role }) }
         /\ end_exclusive =>
              /\ SeenUniversal' = SeenUniversal
              /\ \A role \in Roles : SeenExclusive(role)' = SeenExclusive(role)
         /\ scan_universal =>
              /\ SeenUniversal' =
                   SeenUniversal \cup { f \in { i } : DoesAll(families[i]) }
              /\ \A role \in Roles : SeenExclusive(role)' = SeenExclusive(role)
         /\ end_universal =>
              /\ SeenUniversal' = SeenUniversal
              /\ \A role \in Roles : SeenExclusive(role)' = SeenExclusive(role)
<1> USE DEF SeenExclusive, SeenUniversal, Exclusive, Universal, Passed, PassedAgain
<1>0. Len(families) \in Nat /\ i \in 1 .. Len(families) + 1
  BY DEF TypeOK
<1>1. pc = "exclusive" => SeenUniversal = {}
  OBVIOUS
<1>2. ASSUME scan_exclusive
      PROVE  /\ SeenUniversal' = {}
             /\ \A role \in Roles : SeenExclusive(role)' =
                  SeenExclusive(role) \cup
                  { f \in { i } : role # "graphics" /\ Does(families[i], { role }) }
  BY <1>0, <1>2 DEF scan_exclusive
<1>3. ASSUME end_exclusive
      PROVE  /\ SeenUniversal' = SeenUniversal
             /\ \A role \in Roles : SeenExclusive(role)' = SeenExclusive(role)
  BY <1>0, <1>3 DEF end_exclusive
<1>4. ASSUME scan_universal
      PROVE  /\ SeenUniversal' =
                  SeenUniversal \cup { f \in { i } : DoesAll(families[i]) }
             /\ \A role \in Roles : SeenExclusive(role)' = SeenExclusive(role)
  BY <1>0, <1>4 DEF scan_universal
<1>5. ASSUME end_universal
      PROVE  /\ SeenUniversal' = SeenUniversal
             /\ \A role \in Roles : SeenExclusive(role)' = SeenExclusive(role)
  BY <1>0, <1>5 DEF end_universal, selectionVars
<1> QED
  BY <1>1, <1>2, <1>3, <1>4, <1>5

(* Once the loops are over nothing is selected any more.                   *)
LEMMA SeenLater ==
  ASSUME TypeOK, pc \notin { "exclusive", "universal" }, [Next]_vars
  PROVE  /\ UNCHANGED << families, queues, has_transfer_only, has_compute_only >>
         /\ pc' \notin { "exclusive", "universal" }
         /\ SeenUniversal' = SeenUniversal
         /\ \A role \in Roles : SeenExclusive(role)' = SeenExclusive(role)
<1>1. /\ UNCHANGED << families, queues, has_transfer_only, has_compute_only >>
      /\ pc' \notin { "exclusive", "universal" }
  BY DEF Next, vars, selectionVars, scan_exclusive, end_exclusive, scan_universal,
         end_universal, create_command_pool, end_command_pools, collect_index,
         end_indices
<1> QED
  BY <1>1 DEF SeenExclusive, SeenUniversal, Exclusive, Universal, Passed, PassedAgain

LEMMA FlagsStep == TypeOK /\ FlagsInv /\ [Next]_vars => FlagsInv'
<1> SUFFICES ASSUME TypeOK, FlagsInv, [Next]_vars
             PROVE  FlagsInv'
  OBVIOUS
<1>0. "transfer" \in Roles /\ "compute" \in Roles
  BY DEF Roles
<1>1. CASE scan_exclusive
  <2> DEFINE added(role) == { f \in { i } : role # "graphics" /\ Does(families[i], { role }) }
  <2>1. /\ SeenExclusive("transfer")' = SeenExclusive("transfer") \cup added("transfer")
        /\ SeenExclusive("compute")' = SeenExclusive("compute") \cup added("compute")
    BY <1>0, <1>1, SeenStep
  <2>2. /\ has_transfer_only' = (has_transfer_only \/ Does(families[i], { "transfer" }))
        /\ has_compute_only' = (has_compute_only \/ Does(families[i], { "compute" }))
    BY <1>1 DEF scan_exclusive
  <2>3. /\ (added("transfer") # {}) <=> Does(families[i], { "transfer" })
        /\ (added("compute") # {}) <=> Does(families[i], { "compute" })
    OBVIOUS
  <2>4. /\ (SeenExclusive("transfer")' # {})
             <=> (SeenExclusive("transfer") # {} \/ added("transfer") # {})
        /\ (SeenExclusive("compute")' # {})
             <=> (SeenExclusive("compute") # {} \/ added("compute") # {})
    BY <2>1
  <2> QED
    BY <2>2, <2>3, <2>4 DEF FlagsInv, Does
<1>2. CASE end_exclusive \/ scan_universal \/ end_universal
  BY <1>0, <1>2, SeenStep DEF FlagsInv, end_exclusive, scan_universal, end_universal,
     selectionVars
<1>3. CASE pc \notin { "exclusive", "universal" }
  BY <1>0, <1>3, SeenLater DEF FlagsInv
<1>4. CASE UNCHANGED vars
  BY <1>4 DEF FlagsInv, SeenExclusive, Exclusive, Passed, vars, selectionVars
<1> QED
  BY <1>1, <1>2, <1>3, <1>4 DEF Next, create_command_pool, end_command_pools,
     collect_index, end_indices

(* A larger number added to a set leaves its first element where it is.    *)
LEMMA FirstStays ==
  ASSUME NEW S \in SUBSET Nat, NEW n \in Nat, \A f \in S : f < n
  PROVE  /\ \A f : IsFirst(f, S) => IsFirst(f, S \cup { n })
         /\ S = {} => IsFirst(n, S \cup { n })
<1>1. ASSUME NEW f, IsFirst(f, S)
      PROVE  IsFirst(f, S \cup { n })
  <2>1. f \in S /\ f \in Nat /\ f < n /\ \A g \in S : f <= g
    BY <1>1 DEF IsFirst
  <2> QED
    BY <2>1 DEF IsFirst
<1>2. S = {} => IsFirst(n, S \cup { n })
  BY DEF IsFirst
<1> QED
  BY <1>1, <1>2

(* The queues after the first loop has looked at a family.                 *)
LEMMA ScanExclusiveQueues ==
  ASSUME TypeOK, scan_exclusive, NEW role \in Roles
  PROVE  IF role # "graphics" /\ Does(families[i], { role })
         THEN /\ role \in DOMAIN queues'
              /\ role \in DOMAIN queues => queues'[role] = queues[role]
              /\ role \notin DOMAIN queues => queues'[role] = Queue(i, 0)
         ELSE /\ role \in DOMAIN queues' <=> role \in DOMAIN queues
              /\ role \in DOMAIN queues => queues'[role] = queues[role]
<1>1. ASSUME NEW key, queues' = Insert(queues, key, Queue(i, 0))
      PROVE  /\ DOMAIN queues' = DOMAIN queues \cup { key }
             /\ \A k \in DOMAIN queues : queues'[k] = queues[k]
             /\ key \notin DOMAIN queues => queues'[key] = Queue(i, 0)
  <2> DEFINE I == Insert(queues, key, Queue(i, 0))
  <2>1. /\ DOMAIN I = DOMAIN queues \cup { key }
        /\ \A k \in DOMAIN queues : I[k] = queues[k]
        /\ key \notin DOMAIN queues => I[key] = Queue(i, 0)
    BY InsertKeeps
  <2>2. queues' = I
    BY <1>1
  <2> HIDE DEF I
  <2> QED
    BY <2>1, <2>2
<1>2. \A r, s : Does(families[i], { r }) /\ Does(families[i], { s }) => r = s
  BY DEF Does
<1>3. CASE /\ Does(families[i], { "transfer" })
           /\ queues' = Insert(queues, "transfer", Queue(i, 0))
  BY <1>1, <1>2, <1>3
<1>4. CASE /\ Does(families[i], { "compute" })
           /\ queues' = Insert(queues, "compute", Queue(i, 0))
  BY <1>1, <1>2, <1>4
<1>5. CASE /\ ~ Does(families[i], { "transfer" })
           /\ ~ Does(families[i], { "compute" })
           /\ queues' = queues
  BY <1>5 DEF Roles
<1> QED
  BY <1>3, <1>4, <1>5, ScanInserts

LEMMA ChosenStep == TypeOK /\ FlagsInv /\ ChosenInv /\ [Next]_vars => ChosenInv'
<1> SUFFICES ASSUME TypeOK, FlagsInv, ChosenInv, [Next]_vars
             PROVE  ChosenInv'
  OBVIOUS
<1>0. /\ i \in Nat /\ Len(families) \in Nat
      /\ SeenUniversal \in SUBSET Nat
      /\ \A role \in Roles : SeenExclusive(role) \in SUBSET Nat
  BY DEF TypeOK, SeenUniversal, SeenExclusive, Universal, Exclusive
<1>1. CASE scan_exclusive
  <2> SUFFICES ASSUME NEW role \in Roles
               PROVE  /\ SeenExclusive(role)' # {} =>
                           /\ role \in DOMAIN queues'
                           /\ IsFirst(queues'[role].family, SeenExclusive(role)')
                           /\ queues'[role].index = 0
                      /\ SeenExclusive(role)' = {} => role \notin DOMAIN queues'
    BY <1>1, SeenStep DEF ChosenInv, IsFirst
  <2>1. SeenUniversal = {}
    BY <1>1, SeenStep DEF scan_exclusive
  <2>2. \A f \in SeenExclusive(role) : f < i
    BY <1>1 DEF SeenExclusive, Passed, scan_exclusive
  <2>3. SeenExclusive(role)' = SeenExclusive(role) \cup
          { f \in { i } : role # "graphics" /\ Does(families[i], { role }) }
    BY <1>1, SeenStep
  <2>4. CASE role # "graphics" /\ Does(families[i], { role })
    <3>1. SeenExclusive(role)' = SeenExclusive(role) \cup { i }
      BY <2>3, <2>4
    <3>2. /\ role \in DOMAIN queues'
          /\ role \in DOMAIN queues => queues'[role] = queues[role]
          /\ role \notin DOMAIN queues => queues'[role] = Queue(i, 0)
      BY <2>4, <1>1, ScanExclusiveQueues
    <3>3. CASE SeenExclusive(role) = {}
      <4>1. role \notin DOMAIN queues
        BY <3>3, <2>1 DEF ChosenInv
      <4>2. queues'[role].family = i /\ queues'[role].index = 0
        BY <3>2, <4>1 DEF Queue
      <4> QED
        BY <4>2, <3>1, <3>2, <3>3, <1>0, FirstStays
    <3>4. CASE SeenExclusive(role) # {}
      <4>1. /\ role \in DOMAIN queues
            /\ IsFirst(queues[role].family, SeenExclusive(role))
            /\ queues[role].index = 0
        BY <3>4 DEF ChosenInv
      <4>2. queues'[role] = queues[role]
        BY <3>2, <4>1
      <4>3. IsFirst(queues[role].family, SeenExclusive(role) \cup { i })
        BY <4>1, <2>2, <1>0, FirstStays
      <4> QED
        BY <4>1, <4>2, <4>3, <3>1, <3>2
    <3> QED
      BY <3>3, <3>4
  <2>5. CASE ~ (role # "graphics" /\ Does(families[i], { role }))
    <3>1. SeenExclusive(role)' = SeenExclusive(role)
      BY <2>3, <2>5
    <3>2. /\ role \in DOMAIN queues' <=> role \in DOMAIN queues
          /\ role \in DOMAIN queues => queues'[role] = queues[role]
      BY <2>5, <1>1, ScanExclusiveQueues
    <3> QED
      BY <3>1, <3>2, <2>1 DEF ChosenInv
  <2> QED
    BY <2>4, <2>5
<1>2. CASE end_exclusive \/ end_universal
  <2>1. /\ SeenUniversal' = SeenUniversal
        /\ \A role \in Roles : SeenExclusive(role)' = SeenExclusive(role)
    BY <1>2, SeenStep
  <2>2. queues' = queues /\ has_transfer_only' = has_transfer_only
    BY <1>2 DEF end_exclusive, end_universal, selectionVars
  <2> QED
    BY <2>1, <2>2 DEF ChosenInv, IndexOf
<1>3. CASE scan_universal
  <2>1. /\ SeenUniversal' = SeenUniversal \cup { f \in { i } : DoesAll(families[i]) }
        /\ \A role \in Roles : SeenExclusive(role)' = SeenExclusive(role)
    BY <1>3, SeenStep
  <2>2. has_transfer_only' = has_transfer_only
    BY <1>3 DEF scan_universal
  <2>3. \A f \in SeenUniversal : f < i
    BY <1>3 DEF SeenUniversal, PassedAgain, scan_universal
  <2>4. CASE ~ DoesAll(families[i])
    <3>1. SeenUniversal' = SeenUniversal /\ queues' = queues
      BY <2>1, <2>4, <1>3 DEF scan_universal
    <3> QED
      BY <3>1, <2>1, <2>2 DEF ChosenInv, IndexOf
  <2>5. CASE DoesAll(families[i])
    <3>1. SeenUniversal' = SeenUniversal \cup { i } /\ queues' = RolesOf(i)
      BY <2>1, <2>5, <1>3 DEF scan_universal
    <3>2. /\ has_transfer_only => "transfer" \in DOMAIN queues
          /\ has_compute_only => "compute" \in DOMAIN queues
          /\ DOMAIN queues \subseteq Roles
      BY DEF FlagsInv, ChosenInv, Roles, TypeOK
    <3>3. /\ DOMAIN RolesOf(i) = Roles
          /\ \A r \in DOMAIN queues : RolesOf(i)[r] = queues[r]
          /\ \A r \in Roles \ DOMAIN queues : RolesOf(i)[r] = Queue(i, IndexOf(r))
      BY <3>2, RolesOfKeeps
    <3>4. /\ DOMAIN queues' = Roles
          /\ \A r \in DOMAIN queues : queues'[r] = queues[r]
          /\ \A r \in Roles \ DOMAIN queues : queues'[r] = Queue(i, IndexOf(r))
      BY <3>3, <3>1
    <3> SUFFICES ASSUME NEW role \in Roles
                 PROVE  /\ SeenExclusive(role) # {} =>
                             /\ IsFirst(queues'[role].family, SeenExclusive(role))
                             /\ queues'[role].index = 0
                        /\ SeenExclusive(role) = {} =>
                             /\ IsFirst(queues'[role].family, SeenUniversal')
                             /\ queues'[role].index = IndexOf(role)
      <4>1. SeenUniversal' # {} /\ \A role \in Roles : IndexOf(role)' = IndexOf(role)
        BY <3>1, <2>2 DEF IndexOf
      <4> QED
        BY <4>1, <3>4, <2>1 DEF ChosenInv
    <3>5. CASE SeenExclusive(role) # {}
      BY <3>4, <3>5 DEF ChosenInv
    <3>6. CASE SeenExclusive(role) = {} /\ SeenUniversal = {}
      <4>1. queues'[role] = Queue(i, IndexOf(role))
        BY <3>4, <3>6 DEF ChosenInv
      <4>2. IsFirst(i, SeenUniversal')
        BY <3>1, <3>6, <1>0, FirstStays
      <4> QED
        BY <4>1, <4>2, <3>6 DEF Queue
    <3>7. CASE SeenExclusive(role) = {} /\ SeenUniversal # {}
      <4>1. /\ queues'[role] = queues[role]
            /\ IsFirst(queues[role].family, SeenUniversal)
            /\ queues[role].index = IndexOf(role)
        BY <3>4, <3>7 DEF ChosenInv
      <4>2. IsFirst(queues[role].family, SeenUniversal')
        BY <4>1, <3>1, <2>3, <1>0, FirstStays
      <4> QED
        BY <4>1, <4>2, <3>7
    <3> QED
      BY <3>5, <3>6, <3>7
  <2> QED
    BY <2>4, <2>5
<1>4. CASE pc \notin { "exclusive", "universal" }
  <2>1. /\ queues' = queues /\ has_transfer_only' = has_transfer_only
        /\ SeenUniversal' = SeenUniversal
        /\ \A role \in Roles : SeenExclusive(role)' = SeenExclusive(role)
    BY <1>4, SeenLater
  <2>2. \A role \in Roles : IndexOf(role)' = IndexOf(role)
    BY <2>1 DEF IndexOf
  <2> QED
    BY <2>1, <2>2 DEF ChosenInv
<1>5. CASE UNCHANGED vars
  BY <1>5 DEF ChosenInv, IndexOf, SeenExclusive, SeenUniversal, Exclusive, Universal,
     Passed, PassedAgain, vars, selectionVars
<1> QED
  BY <1>1, <1>2, <1>3, <1>4, <1>5 DEF Next, create_command_pool, end_command_pools,
     collect_index, end_indices

-----------------------------------------------------------------------------
LEMMA PoolsStep == TypeOK /\ PoolsInv /\ [Next]_vars => PoolsInv'
<1> SUFFICES ASSUME TypeOK, PoolsInv, [Next]_vars
             PROVE  PoolsInv'
  OBVIOUS
<1>1. CASE scan_exclusive \/ end_exclusive \/ scan_universal
  BY <1>1 DEF PoolsInv, PoolsServeQueues, Visited, scan_exclusive, end_exclusive,
     scan_universal
<1>2. CASE end_universal
  <2>1. /\ pools' = << >> /\ todo' = DOMAIN queues /\ queues' = queues
        /\ pc' = "pools"
    BY <1>2 DEF end_universal, selectionVars, PoolsInv
  <2>2. Visited' = {} /\ DOMAIN pools' = {}
    BY <2>1 DEF Visited
  <2> QED
    BY <2>1, <2>2 DEF PoolsInv, PoolsServeQueues
<1>3. ASSUME NEW role \in Roles, create_command_pool(role)
      PROVE  PoolsInv'
  <2> DEFINE family == queues[role].family
             fresh == [ handle |-> family, flags |-> { role } ]
             Pooled(r) == { q \in r : queues[q].family = family }
  <2>1. pc = "pools" /\ role \in todo /\ role \in DOMAIN queues
    BY <1>3 DEF create_command_pool, TypeOK
  <2>2. queues' = queues
    BY <1>3 DEF create_command_pool, selectionVars
  <2>3. /\ \A r \in Visited : queues[r].family \in DOMAIN pools
        /\ \A f \in DOMAIN pools :
             pools[f].flags = { r \in Visited : queues[r].family = f }
    BY <2>1 DEF PoolsInv
  <2>4. CASE pc' = "aborted"
    BY <2>4 DEF PoolsInv, PoolsServeQueues
  <2>5. ASSUME todo' = todo \ { role }, pc' = pc,
               DOMAIN pools' = DOMAIN pools \cup { family },
               \A f \in DOMAIN pools \ { family } : pools'[f] = pools[f],
               pools'[family].flags =
                 { r \in Visited : queues[r].family = family } \cup { role }
        PROVE  PoolsInv'
    <3>1. Visited' = Visited \cup { role }
      BY <2>1, <2>2, <2>5 DEF Visited
    <3>2. \A r \in Visited' : queues'[r].family \in DOMAIN pools'
      BY <3>1, <2>2, <2>3, <2>5
    <3>3. ASSUME NEW f \in DOMAIN pools'
          PROVE  pools'[f].flags = { r \in Visited' : queues'[r].family = f }
      <4>1. CASE f = family
        BY <4>1, <3>1, <2>2, <2>5
      <4>2. CASE f # family
        BY <4>2, <3>1, <2>2, <2>3, <2>5
      <4> QED
        BY <4>1, <4>2
    <3> QED
      BY <3>2, <3>3, <2>1, <2>5 DEF PoolsInv, PoolsServeQueues
  <2>6. CASE /\ family \in DOMAIN pools
             /\ pools' = [ pools EXCEPT ![family].flags = @ \cup { role } ]
             /\ todo' = todo \ { role }
             /\ UNCHANGED pc
    <3>1. /\ DOMAIN pools' = DOMAIN pools \cup { family }
          /\ \A f \in DOMAIN pools \ { family } : pools'[f] = pools[f]
      BY <2>6
    <3>2. pools'[family].flags = pools[family].flags \cup { role }
      BY <2>6 DEF TypeOK
    <3> QED
      BY <3>1, <3>2, <2>3, <2>5, <2>6
  <2>7. CASE /\ family \notin DOMAIN pools
             /\ pools' = Insert(pools, family, fresh)
             /\ todo' = todo \ { role }
             /\ UNCHANGED pc
    <3>1. /\ DOMAIN pools' = DOMAIN pools \cup { family }
          /\ \A f \in DOMAIN pools : pools'[f] = pools[f]
          /\ pools'[family] = fresh
      <4> DEFINE I == Insert(pools, family, fresh)
      <4>1. /\ DOMAIN I = DOMAIN pools \cup { family }
            /\ \A k \in DOMAIN pools : I[k] = pools[k]
            /\ family \notin DOMAIN pools => I[family] = fresh
        BY InsertKeeps
      <4>2. pools' = I
        BY <2>7
      <4> HIDE DEF I, fresh
      <4> QED
        BY <4>1, <4>2, <2>7
    <3>2. { r \in Visited : queues[r].family = family } = {}
      BY <2>3, <2>7
    <3> QED
      BY <3>1, <3>2, <2>5, <2>7
  <2> QED
    BY <2>4, <2>6, <2>7, <1>3 DEF create_command_pool
<1>4. CASE end_command_pools
  <2>1. /\ todo = {} /\ pc = "pools" /\ pc' = "indices"
        /\ queues' = queues /\ pools' = pools
    BY <1>4 DEF end_command_pools, selectionVars
  <2>2. Visited = DOMAIN queues
    BY <2>1 DEF Visited
  <2> QED
    BY <2>1, <2>2 DEF PoolsInv, PoolsServeQueues
<1>5. CASE \/ \E role \in Roles : collect_index(role)
           \/ end_indices
  BY <1>5 DEF PoolsInv, PoolsServeQueues, collect_index, end_indices, selectionVars
<1>6. CASE UNCHANGED vars
  BY <1>6 DEF PoolsInv, PoolsServeQueues, Visited, vars, selectionVars
<1> QED
  BY <1>1, <1>2, <1>3, <1>4, <1>5, <1>6 DEF Next

LEMMA IndicesStep == TypeOK /\ IndicesInv /\ [Next]_vars => IndicesInv'
<1> SUFFICES ASSUME TypeOK, IndicesInv, [Next]_vars
             PROVE  IndicesInv'
  OBVIOUS
<1>1. CASE scan_exclusive \/ end_exclusive \/ scan_universal \/ end_universal
  BY <1>1 DEF IndicesInv, scan_exclusive, end_exclusive, scan_universal, end_universal
<1>2. CASE \E role \in Roles : create_command_pool(role)
  BY <1>2 DEF IndicesInv, create_command_pool
<1>3. CASE end_command_pools
  <2>1. /\ indices' = << >> /\ todo' = DOMAIN queues /\ queues' = queues
        /\ pc' = "indices"
    BY <1>3 DEF IndicesInv, end_command_pools, selectionVars
  <2>2. Visited' = {} /\ Len(indices') = 0
    BY <2>1 DEF Visited
  <2> QED
    BY <2>1, <2>2 DEF IndicesInv
<1>4. ASSUME NEW role \in Roles, collect_index(role)
      PROVE  IndicesInv'
  <2> DEFINE family == queues[role].family
  <2>1. /\ pc = "indices" /\ pc' = "indices" /\ queues' = queues
        /\ role \in DOMAIN queues /\ todo' = todo \ { role }
    BY <1>4 DEF collect_index, selectionVars, TypeOK
  <2>2. Visited' \subseteq Visited \cup { role }
    BY <2>1 DEF Visited
  <2>3. /\ \A m, n \in 1 .. Len(indices) : m # n => indices[m] # indices[n]
        /\ \A r \in Visited : \E n \in 1 .. Len(indices) : indices[n] = queues[r].family
        /\ \A n \in 1 .. Len(indices) :
             \E r \in DOMAIN queues : indices[n] = queues[r].family
    BY <2>1 DEF IndicesInv
  <2>4. CASE \E n \in 1 .. Len(indices) : indices[n] = family
    <3>1. indices' = indices
      BY <2>4, <1>4 DEF collect_index
    <3> QED
      BY <3>1, <2>1, <2>2, <2>3, <2>4 DEF IndicesInv
  <2>5. CASE ~ \E n \in 1 .. Len(indices) : indices[n] = family
    <3>1. indices' = Append(indices, family)
      BY <2>5, <1>4 DEF collect_index
    <3>2. indices \in Seq(1 .. Len(families)) /\ family \in 1 .. Len(families)
      BY <2>1 DEF TypeOK
    <3>3. /\ Len(indices') = Len(indices) + 1 /\ Len(indices) \in Nat
          /\ \A n \in 1 .. Len(indices) : indices'[n] = indices[n]
          /\ indices'[Len(indices) + 1] = family
      BY <3>1, <3>2
    <3>4. \A m, n \in 1 .. Len(indices') : m # n => indices'[m] # indices'[n]
      BY <3>3, <2>3, <2>5
    <3>5. \A r \in Visited' : \E n \in 1 .. Len(indices') : indices'[n] = queues'[r].family
      BY <3>3, <2>1, <2>2, <2>3
    <3>6. \A n \in 1 .. Len(indices') :
            \E r \in DOMAIN queues' : indices'[n] = queues'[r].family
      BY <3>3, <2>1, <2>3
    <3> QED
      BY <3>4, <3>5, <3>6, <2>1 DEF IndicesInv
  <2> QED
    BY <2>4, <2>5
<1>5. CASE end_indices
  BY <1>5 DEF IndicesInv, Visited, end_indices, selectionVars
<1>6. CASE UNCHANGED vars
  BY <1>6 DEF IndicesInv, Visited, vars, selectionVars
<1> QED
  BY <1>1, <1>2, <1>3, <1>4, <1>5, <1>6 DEF Next

-----------------------------------------------------------------------------
(* The inductive invariant: types, what the flags and the queues say of    *)
(* the families passed, and what pools and indices say of the queues       *)
(* visited.                                                                *)
THEOREM Invariance == Spec => []IInv
<1>1. Init => IInv
  <2> SUFFICES ASSUME Init PROVE IInv
    OBVIOUS
  <2>1. TypeOK
    BY TypeInit
  <2>2. /\ SeenUniversal = {} /\ \A role : SeenExclusive(role) = {}
        /\ DOMAIN queues = {} /\ Len(indices) = 0
    <3>1. pc = "exclusive" /\ i = 1 /\ queues = << >> /\ indices = << >>
      BY DEF Init
    <3>2. DOMAIN queues = {} /\ Len(indices) = 0
      BY <3>1
    <3> QED
      BY <3>1, <3>2 DEF SeenUniversal, SeenExclusive, Exclusive, Passed, PassedAgain
  <2>3. FlagsInv /\ ChosenInv
    BY <2>2 DEF Init, FlagsInv, ChosenInv
  <2>4. PoolsInv /\ IndicesInv
    BY DEF Init, PoolsInv, PoolsServeQueues, IndicesInv
  <2> QED
    BY <2>1, <2>3, <2>4 DEF IInv
<1>2. IInv /\ [Next]_vars => IInv'
  BY TypeStep, FlagsStep, ChosenStep, PoolsStep, IndicesStep DEF IInv
<1> QED
  BY <1>1, <1>2, PTL DEF Spec

(* Every value the engine computes from the families has its type; all     *)
(* queues, pools and indices are of families the gpu has.                  *)
THEOREM TypeCorrect == Spec => []TypeOK
BY Invariance, PTL DEF IInv

(* When the loops are over every family has been passed.                   *)
LEMMA AllSeen ==
  ASSUME Selected
  PROVE  /\ SeenUniversal = Universal
         /\ \A role \in Roles : SeenExclusive(role) = Exclusive(role)
BY DEF Selected, SeenUniversal, SeenExclusive, Universal, Exclusive, Passed, PassedAgain

(* get_queues chooses the first family that fits, whatever the gpu reports *)
(* and however many families it has.                                       *)
THEOREM SelectsFirstFamilies == Spec => []FirstFamilyIsChosen
<1>1. IInv => FirstFamilyIsChosen
  <2> SUFFICES ASSUME IInv, Selected
               PROVE  FirstFamilyIsChosen
    BY DEF FirstFamilyIsChosen
  <2> QED
    BY AllSeen DEF IInv, ChosenInv, FirstFamilyIsChosen
<1> QED
  BY <1>1, Invariance, PTL

(* A role an exclusive family has and one a universal family has are of    *)
(* different families, as are two exclusive ones.                          *)
LEMMA FamiliesApart ==
  ASSUME NEW r \in Roles, NEW s \in Roles, r # s,
         NEW f \in SeenExclusive(r)
  PROVE  f \notin SeenExclusive(s) /\ f \notin SeenUniversal
<1>1. families[f].flags = { r }
  BY DEF SeenExclusive, Exclusive, Does
<1> QED
  BY <1>1 DEF SeenExclusive, SeenUniversal, Exclusive, Universal, Does, DoesAll

(* No two roles share a VkQueue, so no two submissions race for one.       *)
THEOREM RolesHaveTheirQueues == Spec => []QueuesDistinct
<1>1. IInv => QueuesDistinct
  <2> SUFFICES ASSUME IInv, NEW r \in DOMAIN queues, NEW s \in DOMAIN queues,
                      r # s, queues[r] = queues[s]
               PROVE  FALSE
    BY DEF QueuesDistinct
  <2>1. r \in Roles /\ s \in Roles
    BY DEF IInv, TypeOK
  <2>2. ASSUME NEW p \in { r, s }
        PROVE  \/ queues[p].family \in SeenExclusive(p)
               \/ /\ SeenExclusive(p) = {}
                  /\ queues[p].family \in SeenUniversal
                  /\ queues[p].index = IndexOf(p)
    BY <2>1 DEF IInv, ChosenInv, IsFirst
  <2>3. CASE queues[r].family \in SeenExclusive(r)
    BY <2>1, <2>2, <2>3, FamiliesApart
  <2>4. CASE queues[s].family \in SeenExclusive(s)
    BY <2>1, <2>2, <2>4, FamiliesApart
  <2>5. CASE /\ SeenExclusive(r) = {} /\ queues[r].index = IndexOf(r)
             /\ SeenExclusive(s) = {} /\ queues[s].index = IndexOf(s)
    <3>1. ~ has_transfer_only \/ (r # "transfer" /\ s # "transfer")
      BY <2>5 DEF IInv, FlagsInv
    <3>2. IndexOf(r) = IndexOf(s)
      BY <2>5
    <3> QED
      BY <3>1, <3>2, <2>1 DEF IndexOf, Roles
  <2> QED
    BY <2>2, <2>3, <2>4, <2>5
<1> QED
  BY <1>1, Invariance, PTL

(* The queue indices of a family leave no gap.                             *)
THEOREM QueueIndicesDense == Spec => []IndicesDense
<1>1. IInv => IndicesDense
  <2> SUFFICES ASSUME IInv, NEW r \in DOMAIN queues, queues[r].index > 0
               PROVE  \E s \in DOMAIN queues :
                        /\ queues[s].family = queues[r].family
                        /\ queues[s].index = queues[r].index - 1
    BY DEF IndicesDense
  <2>1. r \in Roles
    BY DEF IInv, TypeOK
  <2>2. /\ SeenExclusive(r) = {} /\ SeenUniversal # {}
        /\ IsFirst(queues[r].family, SeenUniversal)
        /\ queues[r].index = IndexOf(r)
    BY <2>1 DEF IInv, ChosenInv
  <2>3. ASSUME NEW s \in Roles, SeenExclusive(s) = {}
        PROVE  /\ s \in DOMAIN queues
               /\ queues[s].family = queues[r].family
               /\ queues[s].index = IndexOf(s)
    <3>1. /\ s \in DOMAIN queues
          /\ IsFirst(queues[s].family, SeenUniversal)
          /\ queues[s].index = IndexOf(s)
      BY <2>2, <2>3 DEF IInv, ChosenInv
    <3>2. SeenUniversal \subseteq Nat
      BY DEF IInv, TypeOK, SeenUniversal, Universal
    <3>3. \A f, g : IsFirst(f, SeenUniversal) /\ IsFirst(g, SeenUniversal) => f = g
      BY <3>2 DEF IsFirst
    <3> QED
      BY <3>1, <3>3, <2>2
  <2>4. SeenExclusive("graphics") = {} /\ "graphics" \in Roles /\ "transfer" \in Roles
    BY DEF SeenExclusive, Exclusive, Roles
  <2>5. IndexOf("graphics") = 0 /\ IndexOf("transfer") = 1
    BY DEF IndexOf
  <2>6. CASE IndexOf(r) = 1
    BY <2>2, <2>3, <2>4, <2>5, <2>6
  <2>7. CASE IndexOf(r) = 2
    <3>1. ~ has_transfer_only
      BY <2>1, <2>7 DEF IndexOf, Roles
    <3>2. SeenExclusive("transfer") = {}
      BY <3>1 DEF IInv, FlagsInv
    <3> QED
      BY <3>2, <2>2, <2>3, <2>4, <2>5, <2>7
  <2> QED
    BY <2>1, <2>2, <2>6, <2>7 DEF IndexOf, Roles
<1> QED
  BY <1>1, Invariance, PTL

(* Every queue has the pool create_command_buffers will look up for it.    *)
THEOREM QueuesHavePools == Spec => []PoolsServeQueues
BY Invariance, PTL DEF IInv, PoolsInv

(* The families buffers are shared between are those of the queues, once   *)
(* each.                                                                   *)
THEOREM SharesBetweenFamilies == Spec => []IndicesAreTheFamilies
<1>1. IInv => IndicesAreTheFamilies
  <2> SUFFICES ASSUME IInv, pc = "done"
               PROVE  IndicesAreTheFamilies
    BY DEF IndicesAreTheFamilies
  <2>1. Visited = DOMAIN queues
    BY DEF IInv, IndicesInv, Visited
  <2> QED
    BY <2>1 DEF IInv, IndicesInv, IndicesAreTheFamilies
<1> QED
  BY <1>1, Invariance, PTL
=============================================================================
