------------------------------ MODULE Ownership ------------------------------
(***************************************************************************)
(* What the classes that hold a handle of the device promise together: a   *)
(* thing that was made has one owner until its owner destroys it. It may   *)
(* change hands, and only an assignment over an owner that still has a     *)
(* thing loses it. What is destroyed or lost stays so.                     *)
(***************************************************************************)
CONSTANTS
  Things,   \* the handles the device gives out
  Owners    \* the objects that may own them

VARIABLE owner   \* an owner, or what became of the thing

Ends == { "unborn", "destroyed", "lost" }

Init == owner = [ t \in Things |-> "unborn" ]

Make(t, o) ==
  /\ owner[t] = "unborn"
  /\ owner' = [ owner EXCEPT ![t] = o ]

(* One object takes what another one has.                                  *)
HandOver(from, to) ==
  owner' = [ t \in Things |-> CASE owner[t] = from -> to
                                [] owner[t] = to   -> "lost"
                                [] OTHER           -> owner[t] ]

(* An object goes, and destroys all it owns.                               *)
Destroy(o) ==
  owner' = [ t \in Things |-> IF owner[t] = o THEN "destroyed" ELSE owner[t] ]

Next ==
  \/ \E t \in Things, o \in Owners : Make(t, o)
  \/ \E from, to \in Owners : from # to /\ HandOver(from, to)
  \/ \E o \in Owners : Destroy(o)

Spec == Init /\ [][Next]_owner
=============================================================================
