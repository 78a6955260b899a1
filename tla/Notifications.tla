---------------------------- MODULE Notifications ----------------------------
(***************************************************************************)
(* How a size travels from the window system to a window and on to its     *)
(* listeners: every size the surface takes is announced, announcements     *)
(* arrive one by one and in order, the window takes each as its own size   *)
(* and tells it, or ignores it altogether. A window may leave its          *)
(* listeners behind: they know no more than they did.                      *)
(***************************************************************************)
EXTENDS Naturals, Sequences

CONSTANTS
  Sizes,
  MayIgnore(_, _),   \* of the size the window has, and what is announced
  Untold             \* what a listener knows that was told nothing

VARIABLES
  surface,   \* the size of the surface
  events,    \* sizes announced that have not arrived
  connected, \* whether announcements still arrive
  size,      \* the size the window has
  listening, \* whether it has its listeners
  told       \* the size they were told last

vars == << surface, events, connected, size, listening, told >>

Init ==
  /\ surface \in Sizes
  /\ events = << >>
  /\ connected = TRUE
  /\ size = surface
  /\ listening = TRUE
  /\ told = Untold

Announce ==
  /\ connected = TRUE
  /\ surface' \in Sizes
  /\ events' = Append(events, surface')
  /\ UNCHANGED << connected, size, listening, told >>

Deliver ==
  /\ events # << >>
  /\ size' = Head(events)
  /\ told' = IF listening THEN size' ELSE told
  /\ events' = Tail(events)
  /\ UNCHANGED << surface, connected, listening >>

Ignore ==
  /\ events # << >>
  /\ MayIgnore(size, Head(events))
  /\ events' = Tail(events)
  /\ UNCHANGED << surface, connected, size, listening, told >>

LeaveBehind ==
  /\ listening' = FALSE
  /\ UNCHANGED << surface, events, connected, size, told >>

(* The latest announcements may never arrive.                              *)
Disconnect ==
  /\ connected = TRUE
  /\ connected' = FALSE
  /\ \E n \in 0 .. Len(events) : events' = SubSeq(events, 1, n)
  /\ UNCHANGED << surface, size, listening, told >>

Next == Announce \/ Deliver \/ Ignore \/ LeaveBehind \/ Disconnect

Spec == Init /\ [][Next]_vars
=============================================================================
