---------------------------- MODULE WindowProofs ----------------------------
(***************************************************************************)
(* Theorems about Window, for any sizes, positions, keys and buttons, any  *)
(* number of events, moves and a connection that may break: how the size   *)
(* of the window travels to those who are told, what they know once the    *)
(* queue has been polled, and how the loop of main ends.                   *)
(***************************************************************************)
EXTENDS Window, SequenceTheorems, WellFoundedInduction, TLAPS

Kinds == { "delete_window", "destroy_notify", "configure_notify", "key_press",
           "key_release", "button_press", "button_release", "motion_notify",
           "client_message", "expose" }

Codes == Keys \cup Buttons \cup { 0 }

Events == [ kind : Kinds, code : Codes, position : Positions,
            size : Sizes, pointer : Positions ]

Servers == [ position : Positions, size : Sizes, pointer : Positions, keys : SUBSET Keys,
             buttons : SUBSET Buttons, closing : BOOLEAN, exists : BOOLEAN,
             connected : BOOLEAN ]

Told == [ size : Sizes \cup { Untold }, pointer : Positions, keys : SUBSET Codes, buttons : SUBSET Codes, closed : BOOLEAN ]

Windows == [ position : Positions, size : Sizes, is_wnd_open : BOOLEAN,
             has_listeners : BOOLEAN, told : Told ]

TypeInv ==
  /\ wnd \in Windows
  /\ xqueue \in Seq(Events)
  /\ server \in Servers

(* An event that does not announce a size carries the one before it, and   *)
(* the window was never left with two wrong dimensions.                    *)
ChainInv ==
  /\ \A j \in 1 .. Len(xqueue) :
       xqueue[j].kind # "configure_notify" =>
         IF j = 1 THEN SharesDimension(wnd.size, xqueue[j].size)
         ELSE xqueue[j].size = xqueue[j - 1].size
  /\ server.connected =>
       IF xqueue = << >> THEN SharesDimension(wnd.size, server.size)
       ELSE xqueue[Len(xqueue)].size = server.size

IInv == TypeInv /\ ChainInv

-----------------------------------------------------------------------------
(* One event: a window stays a window, and its size and the one it tells   *)
(* change only with an event that announces one, wrong in both dimensions. *)
LEMMA HandledSize ==
  ASSUME NEW w \in Windows, NEW e \in Events
  PROVE  LET v == Handled(w, e)
             new == e.kind = "configure_notify" /\ ~ SharesDimension(w.size, e.size)
         IN /\ v \in Windows
            /\ v.has_listeners = w.has_listeners
            /\ v.size = IF new THEN e.size ELSE w.size
            /\ v.told.size = IF new THEN e.size ELSE w.told.size
<1> DEFINE v == Handled(w, e)
           new == e.kind = "configure_notify" /\ ~ SharesDimension(w.size, e.size)
           Good(u) == /\ u \in Windows
                      /\ u.has_listeners = w.has_listeners
                      /\ u.size = IF new THEN e.size ELSE w.size
                      /\ u.told.size = IF new THEN e.size ELSE w.told.size
<1> SUFFICES Good(v)
  OBVIOUS
<1>1. CASE e.kind \in { "delete_window", "destroy_notify" }
  <2> DEFINE t == [ w.told EXCEPT !.closed = TRUE ]
  <2>1. v = [ w EXCEPT !.is_wnd_open = FALSE, !.told = t ]
    BY <1>1 DEF Handled, on_close, Windows
  <2>2. t \in Told /\ t.size = w.told.size
    BY DEF Windows, Told
  <2> HIDE DEF t
  <2> QED
    BY <1>1, <2>1, <2>2 DEF Windows
<1>2. CASE e.kind = "configure_notify"
  <2> DEFINE t == [ w.told EXCEPT !.size = e.size ]
             moved == [ w EXCEPT !.position = e.position ]
  <2>1. v = IF new THEN [ moved EXCEPT !.size = e.size, !.told = t ] ELSE moved
    BY <1>2 DEF Handled, on_configure_notify, SharesDimension, Windows
  <2>2. t \in Told /\ t.size = e.size
    BY DEF Windows, Told, Events
  <2>3. moved \in Windows /\ moved.has_listeners = w.has_listeners
        /\ moved.size = w.size /\ moved.told = w.told
    BY DEF Windows, Events
  <2>4. e.size \in Sizes
    BY DEF Events
  <2> HIDE DEF t, moved, new, v
  <2> QED
    BY <1>2, <2>1, <2>2, <2>3, <2>4 DEF Windows
<1>3. CASE e.kind \in { "key_press", "key_release" }
  <2>1. PICK K \in SUBSET Codes : v = [ w EXCEPT !.told = [ w.told EXCEPT !.keys = K ] ]
    <3> DEFINE K == IF e.kind = "key_press" THEN w.told.keys \cup { e.code }
                    ELSE w.told.keys \ { e.code }
    <3>1. K \in SUBSET Codes
      BY DEF Windows, Told, Events, Codes
    <3>2. v = [ w EXCEPT !.told = [ w.told EXCEPT !.keys = K ] ]
      BY <1>3 DEF Handled, on_key, Windows
    <3> QED
      BY <3>1, <3>2
  <2>2. [ w.told EXCEPT !.keys = K ] \in Told
        /\ [ w.told EXCEPT !.keys = K ].size = w.told.size
    BY DEF Windows, Told
  <2> QED
    BY <1>3, <2>1, <2>2 DEF Windows
<1>4. CASE e.kind \in { "button_press", "button_release" }
  <2>1. PICK B \in SUBSET Codes :
          v = [ w EXCEPT !.told = [ w.told EXCEPT !.buttons = B, !.pointer = e.pointer ] ]
    <3> DEFINE B == IF e.kind = "button_press" THEN w.told.buttons \cup { e.code }
                    ELSE w.told.buttons \ { e.code }
    <3>1. B \in SUBSET Codes
      BY DEF Windows, Told, Events, Codes
    <3>2. v = [ w EXCEPT !.told = [ w.told EXCEPT !.buttons = B, !.pointer = e.pointer ] ]
      BY <1>4 DEF Handled, on_button, Windows
    <3> QED
      BY <3>1, <3>2
  <2> DEFINE t == [ w.told EXCEPT !.buttons = B, !.pointer = e.pointer ]
  <2>2. t \in Told /\ t.size = w.told.size
    BY DEF Windows, Told, Events
  <2>3. v = [ w EXCEPT !.told = t ]
    BY <2>1
  <2> HIDE DEF t
  <2> QED
    BY <1>4, <2>2, <2>3 DEF Windows
<1>5. CASE e.kind = "motion_notify"
  <2> DEFINE t == [ w.told EXCEPT !.pointer = e.pointer ]
  <2>1. v = [ w EXCEPT !.told = t ]
    BY <1>5 DEF Handled, on_motion, Windows
  <2>2. t \in Told /\ t.size = w.told.size
    BY DEF Windows, Told, Events
  <2> HIDE DEF t
  <2> QED
    BY <1>5, <2>1, <2>2 DEF Windows
<1>6. CASE e.kind \in { "client_message", "expose" }
  <2>1. v = w
    BY <1>6 DEF Handled
  <2> QED
    BY <1>6, <2>1
<1>7. e.kind \in Kinds
  BY DEF Events
<1> HIDE DEF Good, v
<1> QED
  BY <1>1, <1>2, <1>3, <1>4, <1>5, <1>6, <1>7 DEF Kinds

(* The same of a window that may have lost its listeners.                  *)
LEMMA DispatchSize ==
  ASSUME NEW w \in Windows, NEW e \in Events
  PROVE  LET v == Dispatch(w, e)
             new == e.kind = "configure_notify" /\ ~ SharesDimension(w.size, e.size)
         IN /\ v \in Windows
            /\ v.has_listeners = w.has_listeners
            /\ v.size = IF new THEN e.size ELSE w.size
            /\ v.told.size = IF new /\ w.has_listeners THEN e.size ELSE w.told.size
<1>1. CASE w.has_listeners
  BY <1>1, HandledSize DEF Dispatch
<1>2. CASE ~ w.has_listeners
  <2>1. Dispatch(w, e) = [ Handled(w, e) EXCEPT !.told = w.told ]
    BY <1>2 DEF Dispatch
  <2>2. Handled(w, e) \in Windows
    BY HandledSize
  <2> QED
    BY <1>2, <2>1, <2>2, HandledSize DEF Windows
<1> QED
  BY <1>1, <1>2

-----------------------------------------------------------------------------
(***************************************************************************)
(* What the other fields of an event do.                                   *)
(***************************************************************************)
Closing == { "delete_window", "destroy_notify" }

(* What is down after an event, of what was down before.                   *)
Down(held, pressed, released, kind, code) ==
  IF kind = pressed THEN held \cup { code }
  ELSE IF kind = released THEN held \ { code } ELSE held

(* One event, except for the size: the position, whether the window is     *)
(* open, and what the listeners are told.                                  *)
LEMMA HandledRest ==
  ASSUME NEW w \in Windows, NEW e \in Events
  PROVE  LET v == Handled(w, e)
         IN /\ v.position = IF e.kind = "configure_notify" THEN e.position ELSE w.position
            /\ v.is_wnd_open = IF e.kind \in Closing THEN FALSE ELSE w.is_wnd_open
            /\ v.told.closed = IF e.kind \in Closing THEN TRUE ELSE w.told.closed
            /\ v.told.keys = Down(w.told.keys, "key_press", "key_release", e.kind, e.code)
            /\ v.told.buttons = Down(w.told.buttons, "button_press", "button_release",
                                     e.kind, e.code)
            /\ v.told.pointer = IF e.kind \in { "button_press", "button_release", "motion_notify" }
                                THEN e.pointer ELSE w.told.pointer
<1> USE DEF Down, Closing
<1> DEFINE v == Handled(w, e)
           K == Down(w.told.keys, "key_press", "key_release", e.kind, e.code)
           B == Down(w.told.buttons, "button_press", "button_release", e.kind, e.code)
           Rest(u) ==
             /\ u.position = IF e.kind = "configure_notify" THEN e.position ELSE w.position
             /\ u.is_wnd_open = IF e.kind \in Closing THEN FALSE ELSE w.is_wnd_open
             /\ u.told.closed = IF e.kind \in Closing THEN TRUE ELSE w.told.closed
             /\ u.told.keys = K
             /\ u.told.buttons = B
             /\ u.told.pointer = IF e.kind \in { "button_press", "button_release", "motion_notify" }
                                 THEN e.pointer ELSE w.told.pointer
<1> SUFFICES Rest(v)
  OBVIOUS
<1>1. CASE e.kind \in Closing
  <2> DEFINE t == [ w.told EXCEPT !.closed = TRUE ]
  <2>1. v = [ w EXCEPT !.is_wnd_open = FALSE, !.told = t ]
    BY <1>1 DEF Handled, on_close, Windows
  <2>2. /\ t.closed = TRUE /\ t.keys = w.told.keys /\ t.buttons = w.told.buttons
        /\ t.pointer = w.told.pointer
    BY DEF Windows, Told
  <2> HIDE DEF t, v
  <2>3. v.position = w.position /\ v.is_wnd_open = FALSE /\ v.told = t
    BY <2>1 DEF Windows
  <2> QED
    BY <1>1, <2>2, <2>3
<1>2. CASE e.kind = "configure_notify"
  <2>1. PICK t : /\ t.closed = w.told.closed /\ t.keys = w.told.keys
                 /\ t.buttons = w.told.buttons /\ t.pointer = w.told.pointer
                 /\ v.position = e.position /\ v.is_wnd_open = w.is_wnd_open
                 /\ v.told = t
    <3> DEFINE moved == [ w EXCEPT !.position = e.position ]
               t == [ w.told EXCEPT !.size = e.size ]
    <3>1. \/ v = moved
          \/ v = [ moved EXCEPT !.size = e.size, !.told = t ]
      BY <1>2 DEF Handled, on_configure_notify, Windows
    <3>2. /\ moved.position = e.position /\ moved.is_wnd_open = w.is_wnd_open
          /\ moved.told = w.told /\ moved \in Windows
      BY DEF Windows, Events
    <3>3. /\ t.closed = w.told.closed /\ t.keys = w.told.keys
          /\ t.buttons = w.told.buttons /\ t.pointer = w.told.pointer
      BY DEF Windows, Told
    <3> HIDE DEF moved, t, v
    <3>4. CASE v = moved
      BY <3>2, <3>4
    <3>5. CASE v = [ moved EXCEPT !.size = e.size, !.told = t ]
      <4>1. v.position = moved.position /\ v.is_wnd_open = moved.is_wnd_open /\ v.told = t
        BY <3>2, <3>5 DEF Windows
      <4> QED
        BY <3>2, <3>3, <4>1
    <3> QED
      BY <3>1, <3>4, <3>5
  <2> HIDE DEF v
  <2> QED
    BY <1>2, <2>1
<1>3. CASE e.kind \in { "key_press", "key_release" }
  <2> DEFINE t == [ w.told EXCEPT !.keys = K ]
  <2>1. v = [ w EXCEPT !.told = t ]
    BY <1>3 DEF Handled, on_key, Windows
  <2>2. /\ t.closed = w.told.closed /\ t.keys = K /\ t.buttons = w.told.buttons
        /\ t.pointer = w.told.pointer
    BY DEF Windows, Told
  <2> HIDE DEF t, v
  <2>3. v.position = w.position /\ v.is_wnd_open = w.is_wnd_open /\ v.told = t
    BY <2>1 DEF Windows
  <2> QED
    BY <1>3, <2>2, <2>3
<1>4. CASE e.kind \in { "button_press", "button_release" }
  <2> DEFINE t == [ w.told EXCEPT !.buttons = B, !.pointer = e.pointer ]
  <2>1. v = [ w EXCEPT !.told = t ]
    BY <1>4 DEF Handled, on_button, Windows
  <2>2. /\ t.closed = w.told.closed /\ t.keys = w.told.keys /\ t.buttons = B
        /\ t.pointer = e.pointer
    BY DEF Windows, Told
  <2> HIDE DEF t, v
  <2>3. v.position = w.position /\ v.is_wnd_open = w.is_wnd_open /\ v.told = t
    BY <2>1 DEF Windows
  <2> QED
    BY <1>4, <2>2, <2>3
<1>5. CASE e.kind = "motion_notify"
  <2> DEFINE t == [ w.told EXCEPT !.pointer = e.pointer ]
  <2>1. v = [ w EXCEPT !.told = t ]
    BY <1>5 DEF Handled, on_motion, Windows
  <2>2. /\ t.closed = w.told.closed /\ t.keys = w.told.keys
        /\ t.buttons = w.told.buttons /\ t.pointer = e.pointer
    BY DEF Windows, Told
  <2> HIDE DEF t, v
  <2>3. v.position = w.position /\ v.is_wnd_open = w.is_wnd_open /\ v.told = t
    BY <2>1 DEF Windows
  <2> QED
    BY <1>5, <2>2, <2>3
<1>6. CASE e.kind \in { "client_message", "expose" }
  <2>1. v = w
    BY <1>6 DEF Handled
  <2> HIDE DEF v
  <2> QED
    BY <1>6, <2>1
<1>7. e.kind \in Kinds
  BY DEF Events
<1> HIDE DEF Rest, v
<1> QED
  BY <1>1, <1>2, <1>3, <1>4, <1>5, <1>6, <1>7 DEF Kinds

(* A window without listeners keeps the position and closes all the same.  *)
LEMMA DispatchRest ==
  ASSUME NEW w \in Windows, NEW e \in Events
  PROVE  /\ Dispatch(w, e).position =
              IF e.kind = "configure_notify" THEN e.position ELSE w.position
         /\ Dispatch(w, e).is_wnd_open = IF e.kind \in Closing THEN FALSE ELSE w.is_wnd_open
         /\ w.has_listeners => Dispatch(w, e) = Handled(w, e)
<1>1. Handled(w, e) \in Windows
  BY HandledSize
<1>2. CASE w.has_listeners
  BY <1>2, HandledRest DEF Dispatch
<1>3. CASE ~ w.has_listeners
  <2>1. Dispatch(w, e) = [ Handled(w, e) EXCEPT !.told = w.told ]
    BY <1>3 DEF Dispatch
  <2>2. Dispatch(w, e).position = Handled(w, e).position
        /\ Dispatch(w, e).is_wnd_open = Handled(w, e).is_wnd_open
    BY <1>1, <2>1 DEF Windows
  <2> QED
    BY <1>3, <2>2, HandledRest
<1> QED
  BY <1>2, <1>3

-----------------------------------------------------------------------------
(* Induction over the natural numbers, for the elements of a set.          *)
LEMMA Induction ==
  ASSUME NEW S, 0 \in S, \A n \in Nat : n \in S => n + 1 \in S
  PROVE  Nat \subseteq S
<1> DEFINE R == OpToRel(<, Nat)
<1> SUFFICES ASSUME Nat \ S # {} PROVE FALSE
  OBVIOUS
<1>1. IsWellFoundedOn(R, Nat)
  BY NatLessThanWellFounded
<1>2. \A x, y \in Nat : << y, x >> \in R <=> y < x
  BY DEF OpToRel
<1> HIDE DEF R
<1>3. PICK x \in Nat \ S : \A y \in Nat \ S : ~ (<< y, x >> \in R)
  BY <1>1, WFMin
<1>4. x # 0 /\ x - 1 \in Nat /\ x = (x - 1) + 1 /\ x - 1 < x
  BY <1>3
<1>5. x - 1 \in S
  BY <1>2, <1>3, <1>4
<1> QED
  BY <1>3, <1>4, <1>5

(***************************************************************************)
(* Polling a queue event by event: After is a recursive function, of which *)
(* there is one for every window and queue.                                *)
(***************************************************************************)

(* f says what the window w is after each of the events of q.              *)
Polling(w, q, f) ==
  f = [ n \in 0 .. Len(q) |-> IF n = 0 THEN w ELSE Dispatch(f[n - 1], q[n]) ]

(* Two such functions agree.                                               *)
LEMMA PollingUnique ==
  ASSUME NEW w, NEW q \in Seq(Events), NEW f, NEW g, Polling(w, q, f), Polling(w, q, g)
  PROVE  f = g
<1> DEFINE S == { n \in Nat : n <= Len(q) => f[n] = g[n] }
<1>1. Len(q) \in Nat
  BY LenProperties
<1>2. 0 \in S
  BY <1>1 DEF Polling
<1>3. ASSUME NEW n \in Nat, n \in S PROVE n + 1 \in S
  <2> SUFFICES ASSUME n + 1 <= Len(q) PROVE f[n + 1] = g[n + 1]
    OBVIOUS
  <2>1. n + 1 \in 0 .. Len(q) /\ n + 1 # 0 /\ (n + 1) - 1 = n /\ f[n] = g[n]
    BY <1>1, <1>3
  <2>2. f[n + 1] = Dispatch(f[n], q[n + 1]) /\ g[n + 1] = Dispatch(g[n], q[n + 1])
    BY <2>1 DEF Polling
  <2> QED
    BY <2>1, <2>2
<1>4. Nat \subseteq S
  BY <1>2, <1>3, Induction
<1>5. \A n \in 0 .. Len(q) : f[n] = g[n]
  BY <1>1, <1>4
<1> QED
  BY <1>5 DEF Polling

(* There is one, of windows that have kept their listeners or lack of them.*)
LEMMA PollingExists ==
  ASSUME NEW w \in Windows, NEW q \in Seq(Events)
  PROVE  \E f \in [ 0 .. Len(q) -> Windows ] :
           /\ Polling(w, q, f)
           /\ \A n \in 0 .. Len(q) : f[n].has_listeners = w.has_listeners
<1> DEFINE Upto(m, f) ==
             /\ f[0] = w
             /\ \A n \in 1 .. m : f[n] = Dispatch(f[n - 1], q[n])
             /\ \A n \in 0 .. m : f[n].has_listeners = w.has_listeners
           S == { m \in Nat : m <= Len(q) => \E f \in [ 0 .. m -> Windows ] : Upto(m, f) }
<1>1. Len(q) \in Nat /\ \A n \in 1 .. Len(q) : q[n] \in Events
  BY LenProperties, ElementOfSeq
<1>2. 0 \in S
  <2> DEFINE f == [ n \in 0 .. 0 |-> w ]
  <2>1. f \in [ 0 .. 0 -> Windows ] /\ Upto(0, f)
    OBVIOUS
  <2> QED
    BY <2>1
<1>3. ASSUME NEW m \in Nat, m \in S PROVE m + 1 \in S
  <2> SUFFICES ASSUME m + 1 <= Len(q)
               PROVE  \E g \in [ 0 .. m + 1 -> Windows ] : Upto(m + 1, g)
    OBVIOUS
  <2>1. m <= Len(q) /\ m + 1 \in 1 .. Len(q)
    BY <1>1
  <2>2. PICK f \in [ 0 .. m -> Windows ] : Upto(m, f)
    BY <1>3, <2>1
  <2> DEFINE v == Dispatch(f[m], q[m + 1])
             g == [ n \in 0 .. m + 1 |-> IF n = m + 1 THEN v ELSE f[n] ]
  <2>3. v \in Windows /\ v.has_listeners = w.has_listeners
    <3>1. f[m] \in Windows /\ f[m].has_listeners = w.has_listeners /\ q[m + 1] \in Events
      BY <1>1, <2>1, <2>2
    <3> QED
      BY <3>1, DispatchSize
  <2> HIDE DEF v
  <2>4. /\ \A n \in 0 .. m : g[n] = f[n] /\ f[n] \in Windows
        /\ g[m + 1] = v
        /\ \A n \in 0 .. m + 1 : n \in 0 .. m \/ n = m + 1
        /\ \A n \in 1 .. m + 1 : n \in 1 .. m \/ n = m + 1
        /\ \A n \in 1 .. m + 1 : n - 1 \in 0 .. m
    OBVIOUS
  <2>5. g \in [ 0 .. m + 1 -> Windows ]
    BY <2>3, <2>4
  <2> HIDE DEF g
  <2>6. \A n \in 0 .. m + 1 : g[n].has_listeners = w.has_listeners
    BY <2>2, <2>3, <2>4
  <2>7. ASSUME NEW n \in 1 .. m + 1 PROVE g[n] = Dispatch(g[n - 1], q[n])
    <3>1. CASE n \in 1 .. m
      <4>1. n \in 0 .. m /\ n - 1 \in 0 .. m
        BY <3>1
      <4> QED
        BY <2>2, <2>4, <3>1, <4>1
    <3>2. CASE n = m + 1
      <4>1. n - 1 = m /\ m \in 0 .. m
        BY <3>2
      <4> QED
        BY <2>4, <3>2, <4>1 DEF v
    <3> QED
      BY <2>4, <3>1, <3>2
  <2>8. g[0] = w
    BY <2>2, <2>4
  <2> QED
    BY <2>5, <2>6, <2>7, <2>8
<1>4. Len(q) \in S
  BY <1>1, <1>2, <1>3, Induction
<1>5. PICK f \in [ 0 .. Len(q) -> Windows ] : Upto(Len(q), f)
  BY <1>4
<1>6. \A n \in 0 .. Len(q) : f[n] = IF n = 0 THEN w ELSE Dispatch(f[n - 1], q[n])
  <2>1. \A n \in 0 .. Len(q) : n # 0 => n \in 1 .. Len(q)
    OBVIOUS
  <2> QED
    BY <1>5, <2>1
<1>7. Polling(w, q, f)
  BY <1>6 DEF Polling
<1> QED
  BY <1>5, <1>7

(* After is the last value of any of them.                                 *)
LEMMA AfterIs ==
  ASSUME NEW w, NEW q \in Seq(Events), NEW f, Polling(w, q, f)
  PROVE  After(w, q) = f[Len(q)]
<1>1. After(w, q) = (CHOOSE g : Polling(w, q, g))[Len(q)]
  BY DEF After, Polling
<1>2. Polling(w, q, CHOOSE g : Polling(w, q, g))
  OBVIOUS
<1>3. (CHOOSE g : Polling(w, q, g)) = f
  BY <1>2, PollingUnique
<1> QED
  BY <1>1, <1>3

(* The window stays one, with or without listeners.                        *)
LEMMA AfterType ==
  ASSUME NEW w \in Windows, NEW q \in Seq(Events)
  PROVE  After(w, q) \in Windows /\ After(w, q).has_listeners = w.has_listeners
<1>1. PICK f \in [ 0 .. Len(q) -> Windows ] :
        /\ Polling(w, q, f)
        /\ \A n \in 0 .. Len(q) : f[n].has_listeners = w.has_listeners
  BY PollingExists
<1>2. Len(q) \in 0 .. Len(q)
  BY LenProperties
<1> QED
  BY <1>1, <1>2, AfterIs

LEMMA AfterNone ==
  ASSUME NEW w \in Windows
  PROVE  After(w, << >>) = w
<1>1. << >> \in Seq(Events) /\ Len(<< >>) = 0
  BY EmptySeq
<1>2. PICK f \in [ 0 .. Len(<< >>) -> Windows ] : Polling(w, << >>, f)
  BY <1>1, PollingExists
<1>3. f[0] = w
  BY <1>1, <1>2 DEF Polling
<1> QED
  BY <1>1, <1>2, <1>3, AfterIs

(* An event more is polled last.                                           *)
LEMMA AfterAppend ==
  ASSUME NEW w \in Windows, NEW q \in Seq(Events), NEW e \in Events
  PROVE  After(w, Append(q, e)) = Dispatch(After(w, q), e)
<1> DEFINE r == Append(q, e)
<1>1. /\ r \in Seq(Events) /\ Len(r) = Len(q) + 1 /\ Len(q) \in Nat
      /\ \A n \in 1 .. Len(q) : r[n] = q[n]
      /\ r[Len(q) + 1] = e
  BY AppendProperties, LenProperties
<1> HIDE DEF r
<1>2. PICK f \in [ 0 .. Len(r) -> Windows ] : Polling(w, r, f)
  BY <1>1, PollingExists
<1>3. \A n \in 0 .. Len(r) : f[n] = IF n = 0 THEN w ELSE Dispatch(f[n - 1], r[n])
  BY <1>2 DEF Polling
<1> DEFINE g == [ n \in 0 .. Len(q) |-> f[n] ]
<1>4. \A n \in 0 .. Len(q) : g[n] = IF n = 0 THEN w ELSE Dispatch(g[n - 1], q[n])
  <2> SUFFICES ASSUME NEW n \in 0 .. Len(q)
               PROVE  g[n] = IF n = 0 THEN w ELSE Dispatch(g[n - 1], q[n])
    OBVIOUS
  <2>1. n \in 0 .. Len(r) /\ g[n] = f[n]
    BY <1>1
  <2>2. CASE n = 0
    BY <1>3, <2>1, <2>2
  <2>3. CASE n # 0
    <3>1. n \in 1 .. Len(q) /\ n - 1 \in 0 .. Len(q)
      BY <1>1, <2>3
    <3>2. r[n] = q[n] /\ g[n - 1] = f[n - 1]
      BY <1>1, <3>1
    <3>3. f[n] = Dispatch(f[n - 1], r[n])
      BY <1>3, <2>1, <2>3
    <3> QED
      BY <2>1, <2>3, <3>2, <3>3
  <2> QED
    BY <2>2, <2>3
<1>5. Polling(w, q, g)
  BY <1>4 DEF Polling
<1>6. After(w, q) = f[Len(q)]
  <2>1. g[Len(q)] = f[Len(q)]
    BY <1>1
  <2> HIDE DEF g
  <2> QED
    BY <1>5, <2>1, AfterIs
<1>7. After(w, r) = Dispatch(f[Len(q)], e)
  <2>1. Len(r) \in 0 .. Len(r) /\ Len(r) # 0 /\ Len(r) - 1 = Len(q) /\ r[Len(r)] = e
    BY <1>1
  <2>2. f[Len(r)] = Dispatch(f[Len(q)], e)
    BY <1>3, <2>1
  <2> QED
    BY <1>1, <1>2, <2>2, AfterIs
<1> QED
  BY <1>6, <1>7 DEF r

(* The first event is polled first.                                        *)
LEMMA AfterTail ==
  ASSUME NEW w \in Windows, NEW q \in Seq(Events), q # << >>
  PROVE  After(Dispatch(w, Head(q)), Tail(q)) = After(w, q)
<1> DEFINE r == Tail(q)
           v == Dispatch(w, Head(q))
<1>1. /\ r \in Seq(Events) /\ Len(r) = Len(q) - 1 /\ Head(q) = q[1]
      /\ \A n \in 1 .. Len(r) : r[n] = q[n + 1]
      /\ Len(q) \in Nat \ { 0 }
  BY HeadTailProperties, EmptySeq
<1> HIDE DEF r, v
<1>2. PICK f \in [ 0 .. Len(q) -> Windows ] : Polling(w, q, f)
  BY PollingExists
<1>3. \A n \in 0 .. Len(q) : f[n] = IF n = 0 THEN w ELSE Dispatch(f[n - 1], q[n])
  BY <1>2 DEF Polling
<1> DEFINE g == [ n \in 0 .. Len(r) |-> f[n + 1] ]
<1>4. \A n \in 0 .. Len(r) : g[n] = IF n = 0 THEN v ELSE Dispatch(g[n - 1], r[n])
  <2> SUFFICES ASSUME NEW n \in 0 .. Len(r)
               PROVE  g[n] = IF n = 0 THEN v ELSE Dispatch(g[n - 1], r[n])
    OBVIOUS
  <2>1. n + 1 \in 0 .. Len(q) /\ n + 1 # 0 /\ (n + 1) - 1 = n /\ g[n] = f[n + 1]
    BY <1>1
  <2>2. f[n + 1] = Dispatch(f[n], q[n + 1])
    BY <1>3, <2>1
  <2>3. CASE n = 0
    <3>1. f[0] = w /\ 0 + 1 = 1
      BY <1>1, <1>3
    <3> QED
      BY <1>1, <2>1, <2>2, <2>3, <3>1 DEF v
  <2>4. CASE n # 0
    <3>1. n \in 1 .. Len(r) /\ n - 1 \in 0 .. Len(r) /\ (n - 1) + 1 = n
      BY <1>1, <2>4
    <3>2. r[n] = q[n + 1] /\ g[n - 1] = f[n]
      BY <1>1, <3>1
    <3> QED
      BY <2>1, <2>2, <2>4, <3>2
  <2> QED
    BY <2>3, <2>4
<1>5. Polling(v, r, g)
  BY <1>4 DEF Polling
<1>6. g[Len(r)] = f[Len(q)]
  BY <1>1
<1> HIDE DEF g
<1>7. After(v, r) = f[Len(q)]
  BY <1>1, <1>5, <1>6, AfterIs
<1>8. After(w, q) = f[Len(q)]
  BY <1>2, AfterIs
<1> QED
  BY <1>7, <1>8 DEF r, v

(* What a move leaves behind makes no difference to either.                *)
LEMMA AfterMove ==
  ASSUME NEW w \in Windows, NEW m \in Windows, NEW q \in Seq(Events),
         m.position = w.position, m.is_wnd_open = w.is_wnd_open
  PROVE  /\ After(m, q).position = After(w, q).position
         /\ After(m, q).is_wnd_open = After(w, q).is_wnd_open
<1>1. Len(q) \in Nat /\ \A n \in 1 .. Len(q) : q[n] \in Events
  BY LenProperties, ElementOfSeq
<1>2. PICK f \in [ 0 .. Len(q) -> Windows ] : Polling(w, q, f)
  BY PollingExists
<1>3. PICK g \in [ 0 .. Len(q) -> Windows ] : Polling(m, q, g)
  BY PollingExists
<1> DEFINE Same(n) == /\ g[n].position = f[n].position
                      /\ g[n].is_wnd_open = f[n].is_wnd_open
           S == { n \in Nat : n <= Len(q) => Same(n) }
<1>4. f[0] = w /\ g[0] = m
  BY <1>1, <1>2, <1>3 DEF Polling
<1>5. 0 \in S
  BY <1>4
<1>6. ASSUME NEW n \in Nat, n \in S PROVE n + 1 \in S
  <2> SUFFICES ASSUME n + 1 <= Len(q) PROVE Same(n + 1)
    OBVIOUS
  <2>1. /\ n + 1 \in 0 .. Len(q) /\ n \in 0 .. Len(q) /\ n + 1 # 0 /\ (n + 1) - 1 = n
        /\ Same(n) /\ q[n + 1] \in Events
    BY <1>1, <1>6
  <2>2. f[n + 1] = Dispatch(f[n], q[n + 1]) /\ g[n + 1] = Dispatch(g[n], q[n + 1])
    BY <1>2, <1>3, <2>1 DEF Polling
  <2>3. f[n] \in Windows /\ g[n] \in Windows
    BY <2>1
  <2> QED
    BY <2>1, <2>2, <2>3, DispatchRest
<1>7. Len(q) \in S
  BY <1>1, <1>5, <1>6, Induction
<1>8. After(w, q) = f[Len(q)] /\ After(m, q) = g[Len(q)]
  BY <1>2, <1>3, AfterIs
<1> QED
  BY <1>1, <1>7, <1>8

-----------------------------------------------------------------------------
(* The sizes the queued events carry.                                      *)
Announced(q) == [ j \in DOMAIN q |-> q[j].size ]

LEMMA AnnouncedIsSeq ==
  ASSUME NEW q \in Seq(Events)
  PROVE  /\ Announced(q) \in Seq(Sizes)
         /\ Len(Announced(q)) = Len(q)
         /\ \A j \in 1 .. Len(q) : Announced(q)[j] = q[j].size
<1>1. Len(q) \in Nat /\ DOMAIN q = 1 .. Len(q)
  BY LenProperties
<1>2. \A j \in 1 .. Len(q) : q[j].size \in Sizes
  <2>1. \A j \in 1 .. Len(q) : q[j] \in Events
    BY ElementOfSeq
  <2> QED
    BY <2>1 DEF Events
<1>3. Announced(q) \in [ 1 .. Len(q) -> Sizes ]
  BY <1>1, <1>2 DEF Announced
<1>4. Announced(q) \in Seq(Sizes)
  BY <1>1, <1>3, SeqDef
<1>5. Len(Announced(q)) = Len(q)
  BY <1>1, <1>3, <1>4, LenProperties
<1> QED
  BY <1>1, <1>4, <1>5 DEF Announced

(* One more event, or one less, is one more or one less announcement; and  *)
(* what is lost of the queue is lost of the announcements.                 *)
LEMMA AnnouncedAppend ==
  ASSUME NEW q \in Seq(Events), NEW e \in Events
  PROVE  Announced(Append(q, e)) = Append(Announced(q), e.size)
<1> DEFINE a == Announced(Append(q, e))
           b == Append(Announced(q), e.size)
<1>1. /\ Append(q, e) \in Seq(Events)
      /\ Len(Append(q, e)) = Len(q) + 1
      /\ Len(q) \in Nat
      /\ \A j \in 1 .. Len(q) : Append(q, e)[j] = q[j]
      /\ Append(q, e)[Len(q) + 1] = e
  BY AppendProperties, LenProperties
<1>2. e.size \in Sizes
  BY DEF Events
<1>3. /\ a \in Seq(Sizes) /\ Len(a) = Len(q) + 1
      /\ \A j \in 1 .. Len(q) + 1 : a[j] = Append(q, e)[j].size
  BY <1>1, AnnouncedIsSeq
<1>4. /\ b \in Seq(Sizes) /\ Len(b) = Len(q) + 1
      /\ \A j \in 1 .. Len(q) : b[j] = q[j].size
      /\ b[Len(q) + 1] = e.size
  BY <1>2, AnnouncedIsSeq, AppendProperties
<1>5. \A j \in 1 .. Len(a) : a[j] = b[j]
  <2> SUFFICES ASSUME NEW j \in 1 .. Len(q) + 1 PROVE a[j] = b[j]
    BY <1>3
  <2>1. j \in 1 .. Len(q) \/ j = Len(q) + 1
    BY <1>1
  <2> QED
    BY <1>1, <1>3, <1>4, <2>1
<1> HIDE DEF a, b
<1>6. a = b
  BY <1>3, <1>4, <1>5, SeqEqual
<1> QED
  BY <1>6 DEF a, b

LEMMA AnnouncedTail ==
  ASSUME NEW q \in Seq(Events), q # << >>
  PROVE  /\ Announced(q) # << >>
         /\ Head(Announced(q)) = Head(q).size
         /\ Announced(Tail(q)) = Tail(Announced(q))
<1> DEFINE a == Announced(Tail(q))
           b == Tail(Announced(q))
<1>1. /\ Tail(q) \in Seq(Events) /\ Len(Tail(q)) = Len(q) - 1
      /\ \A j \in 1 .. Len(Tail(q)) : Tail(q)[j] = q[j + 1]
      /\ Len(q) \in Nat \ { 0 }
  BY HeadTailProperties, EmptySeq
<1>2. /\ Announced(q) \in Seq(Sizes) /\ Len(Announced(q)) = Len(q)
      /\ \A j \in 1 .. Len(q) : Announced(q)[j] = q[j].size
  BY AnnouncedIsSeq
<1>3. Announced(q) # << >>
  BY <1>1, <1>2, EmptySeq
<1>4. /\ a \in Seq(Sizes) /\ Len(a) = Len(q) - 1
      /\ \A j \in 1 .. Len(q) - 1 : a[j] = Tail(q)[j].size
  BY <1>1, AnnouncedIsSeq
<1>5. /\ b \in Seq(Sizes) /\ Len(b) = Len(q) - 1
      /\ \A j \in 1 .. Len(q) - 1 : b[j] = Announced(q)[j + 1]
  BY <1>2, <1>3, HeadTailProperties
<1>6. \A j \in 1 .. Len(a) : a[j] = b[j]
  <2> SUFFICES ASSUME NEW j \in 1 .. Len(q) - 1 PROVE a[j] = b[j]
    BY <1>4
  <2>1. j + 1 \in 1 .. Len(q)
    BY <1>1
  <2> QED
    BY <1>1, <1>2, <1>4, <1>5, <2>1
<1>7. Head(Announced(q)) = Head(q).size
  <2>1. Head(Announced(q)) = Announced(q)[1] /\ Head(q) = q[1] /\ 1 \in 1 .. Len(q)
    BY <1>1, <1>2, <1>3
  <2> QED
    BY <1>2, <2>1
<1> HIDE DEF a, b
<1>8. a = b
  BY <1>4, <1>5, <1>6, SeqEqual
<1> QED
  BY <1>3, <1>7, <1>8 DEF a, b

LEMMA AnnouncedPrefix ==
  ASSUME NEW q \in Seq(Events), NEW n \in 0 .. Len(q)
  PROVE  Announced(SubSeq(q, 1, n)) = SubSeq(Announced(q), 1, n)
<1> DEFINE a == Announced(SubSeq(q, 1, n))
           b == SubSeq(Announced(q), 1, n)
<1>1. Len(q) \in Nat /\ n \in Nat /\ n <= Len(q)
  BY LenProperties
<1>2. \A j \in 1 .. n : q[j] \in Events
  BY <1>1, ElementOfSeq
<1>3. /\ SubSeq(q, 1, n) \in Seq(Events) /\ Len(SubSeq(q, 1, n)) = n
      /\ \A j \in 1 .. n : SubSeq(q, 1, n)[j] = q[j]
  BY <1>1, <1>2, SubSeqProperties
<1>4. /\ Announced(q) \in Seq(Sizes) /\ Len(Announced(q)) = Len(q)
      /\ \A j \in 1 .. Len(q) : Announced(q)[j] = q[j].size
  BY AnnouncedIsSeq
<1>5. \A j \in 1 .. n : Announced(q)[j] \in Sizes
  BY <1>1, <1>4, ElementOfSeq
<1>6. /\ b \in Seq(Sizes) /\ Len(b) = n
      /\ \A j \in 1 .. n : b[j] = Announced(q)[j]
  BY <1>1, <1>5, SubSeqProperties
<1>7. /\ a \in Seq(Sizes) /\ Len(a) = n
      /\ \A j \in 1 .. n : a[j] = SubSeq(q, 1, n)[j].size
  BY <1>3, AnnouncedIsSeq
<1>8. \A j \in 1 .. Len(a) : a[j] = b[j]
  BY <1>1, <1>3, <1>4, <1>6, <1>7
<1> HIDE DEF a, b
<1>9. a = b
  BY <1>6, <1>7, <1>8, SeqEqual
<1> QED
  BY <1>9 DEF a, b

-----------------------------------------------------------------------------
(* What the server does: an event more, which carries what it knows then,  *)
(* and of which the kind says what has changed.                            *)
Reports(kind, code) ==
  /\ kind # "configure_notify" => /\ server'.size = server.size
                                  /\ server'.position = server.position
  /\ kind # "motion_notify" => server'.pointer = server.pointer
  /\ server'.keys = Down(server.keys, "key_press", "key_release", kind, code)
  /\ server'.buttons = Down(server.buttons, "button_press", "button_release", kind, code)
  /\ server'.closing = IF kind \in Closing THEN TRUE ELSE server.closing

Sends ==
  /\ server.connected /\ server'.connected
  /\ server' \in Servers
  /\ wnd' = wnd
  /\ \E e \in Events : /\ xqueue' = Append(xqueue, e)
                       /\ e.position = server'.position /\ e.size = server'.size
                       /\ e.pointer = server'.pointer
                       /\ Reports(e.kind, e.code)

LEMMA SendSends ==
  ASSUME NEW kind \in Kinds, NEW code \in Codes, Send(kind, code),
         server' \in Servers, server'.connected = server.connected,
         Reports(kind, code)
  PROVE  Sends
<1>1. /\ server.connected /\ wnd' = wnd
      /\ xqueue' = Append(xqueue, Event(kind, code))
  BY DEF Send
<1>2. /\ Event(kind, code) \in Events
      /\ Event(kind, code).position = server'.position
      /\ Event(kind, code).size = server'.size
      /\ Event(kind, code).pointer = server'.pointer
      /\ Event(kind, code).kind = kind /\ Event(kind, code).code = code
  BY DEF Event, Events, Servers
<1>3. PICK e \in Events : e = Event(kind, code)
  BY <1>2
<1>4. /\ xqueue' = Append(xqueue, e)
      /\ e.position = server'.position /\ e.size = server'.size
      /\ e.pointer = server'.pointer /\ Reports(e.kind, e.code)
  BY <1>1, <1>2, <1>3
<1> QED
  BY <1>1, <1>4 DEF Sends

LEMMA ServerSteps ==
  ASSUME TypeInv, Server
  PROVE  Sends \/ ServerLost
<1> USE DEF Codes, Kinds, Closing, Down, Reports
<1>1. server \in Servers
  BY DEF TypeInv
<1>2. CASE ServerConfigure
  <2>1. PICK p \in Positions, z \in Sizes :
          /\ server' = [ server EXCEPT !.position = p, !.size = z ]
          /\ Send("configure_notify", 0)
    BY <1>2 DEF ServerConfigure
  <2>2. /\ server' \in Servers /\ server'.connected = server.connected
        /\ Reports("configure_notify", 0)
    BY <1>1, <2>1 DEF Servers
  <2> QED
    BY <2>1, <2>2, SendSends
<1>3. CASE ServerMotion
  <2>1. PICK p \in Positions :
          server' = [ server EXCEPT !.pointer = p ] /\ Send("motion_notify", 0)
    BY <1>3 DEF ServerMotion
  <2>2. /\ server' \in Servers /\ server'.connected = server.connected
        /\ Reports("motion_notify", 0)
    BY <1>1, <2>1 DEF Servers
  <2> QED
    BY <2>1, <2>2, SendSends
<1>4. CASE ServerClose
  <2>1. PICK kind \in Closing :
          /\ server' = [ server EXCEPT !.closing = TRUE ]
             \/ server' = [ server EXCEPT !.closing = TRUE, !.exists = FALSE ]
          /\ Send(kind, 0)
    BY <1>4 DEF ServerClose
  <2>2. /\ server' \in Servers /\ server'.connected = server.connected
        /\ Reports(kind, 0)
    BY <1>1, <2>1 DEF Servers
  <2> QED
    BY <2>1, <2>2, SendSends
<1>5. CASE ServerOther
  <2>1. PICK kind \in { "client_message", "expose" } : Send(kind, 0)
    BY <1>5 DEF ServerOther
  <2>2. server' = server /\ Reports(kind, 0)
    BY <1>5 DEF ServerOther
  <2> QED
    BY <1>1, <2>1, <2>2, SendSends
<1>6. ASSUME NEW k \in Keys, ServerKey(k) PROVE Sends
  <2>1. PICK K \in SUBSET Keys, kind \in { "key_press", "key_release" } :
          /\ server' = [ server EXCEPT !.keys = K ] /\ Send(kind, k)
          /\ K = Down(server.keys, "key_press", "key_release", kind, k)
    <3>1. server.keys \cup { k } \in SUBSET Keys /\ server.keys \ { k } \in SUBSET Keys
      BY <1>1 DEF Servers
    <3> QED
      BY <1>6, <3>1 DEF ServerKey
  <2>2. /\ server' \in Servers /\ server'.connected = server.connected
        /\ Reports(kind, k)
    BY <1>1, <2>1 DEF Servers
  <2>3. kind \in Kinds /\ k \in Codes
    BY <1>6
  <2> QED
    BY <2>1, <2>2, <2>3, SendSends
<1>7. ASSUME NEW b \in Buttons, ServerButton(b) PROVE Sends
  <2>1. PICK B \in SUBSET Buttons, kind \in { "button_press", "button_release" } :
          /\ server' = [ server EXCEPT !.buttons = B ] /\ Send(kind, b)
          /\ B = Down(server.buttons, "button_press", "button_release", kind, b)
    <3>1. /\ server.buttons \cup { b } \in SUBSET Buttons
          /\ server.buttons \ { b } \in SUBSET Buttons
      BY <1>1 DEF Servers
    <3> QED
      BY <1>7, <3>1 DEF ServerButton
  <2>2. /\ server' \in Servers /\ server'.connected = server.connected
        /\ Reports(kind, b)
    BY <1>1, <2>1 DEF Servers
  <2>3. kind \in Kinds /\ b \in Codes
    BY <1>7
  <2> QED
    BY <2>1, <2>2, <2>3, SendSends
<1> QED
  BY <1>2, <1>3, <1>4, <1>5, <1>6, <1>7 DEF Server

(* Every step of the window and the server, by what it does to the size.   *)
LEMMA Steps ==
  ASSUME TypeInv, [Next]_vars
  PROVE  \/ poll_event
         \/ move_window
         \/ Sends
         \/ ServerLost
         \/ UNCHANGED << wnd, xqueue, server >>
<1>1. CASE draw_frame \/ end_of_poll
  BY <1>1 DEF draw_frame, end_of_poll
<1>2. CASE UNCHANGED vars
  BY <1>2 DEF vars
<1> QED
  BY <1>1, <1>2, ServerSteps DEF Next, Client

-----------------------------------------------------------------------------
LEMMA InitIInv == Init => IInv
<1> SUFFICES ASSUME Init PROVE IInv
  OBVIOUS
<1>1. PICK p \in Positions, z \in Sizes, m \in Positions :
        /\ server = [ position |-> p, size |-> z, pointer |-> m, keys |-> {},
                      buttons |-> {}, closing |-> FALSE, exists |-> TRUE, connected |-> TRUE ]
        /\ wnd = [ position |-> p, size |-> z, is_wnd_open |-> TRUE, has_listeners |-> TRUE,
                   told |-> [ size |-> Untold, pointer |-> m, keys |-> {}, buttons |-> {},
                              closed |-> FALSE ] ]
  BY DEF Init
<1>2. server \in Servers /\ wnd \in Windows
  BY <1>1 DEF Servers, Windows, Told
<1>3. xqueue = << >> /\ xqueue \in Seq(Events) /\ Len(xqueue) = 0
  BY EmptySeq DEF Init
<1>4. ChainInv
  BY <1>1, <1>3 DEF ChainInv, SharesDimension
<1> QED
  BY <1>2, <1>3, <1>4 DEF IInv, TypeInv

(* The event polled: the window shares a dimension with it from then on.   *)
LEMMA PollIInv ==
  ASSUME IInv, poll_event
  PROVE  IInv'
<1> DEFINE e == Head(xqueue)
           new == e.kind = "configure_notify" /\ ~ SharesDimension(wnd.size, e.size)
<1>1. /\ xqueue \in Seq(Events) /\ wnd \in Windows /\ server \in Servers
      /\ xqueue # << >>
      /\ wnd' = Dispatch(wnd, e) /\ xqueue' = Tail(xqueue) /\ server' = server
  BY DEF IInv, TypeInv, poll_event
<1>2. /\ e \in Events
      /\ xqueue' \in Seq(Events) /\ Len(xqueue') = Len(xqueue) - 1
      /\ \A j \in 1 .. Len(xqueue') : xqueue'[j] = xqueue[j + 1]
      /\ Len(xqueue) \in Nat \ { 0 }
      /\ e = xqueue[1]
  BY <1>1, HeadTailProperties, EmptySeq
<1>3. wnd' \in Windows /\ wnd'.size = IF new THEN e.size ELSE wnd.size
  BY <1>1, <1>2, DispatchSize
<1>4. TypeInv'
  BY <1>1, <1>2, <1>3 DEF TypeInv
<1>5. SharesDimension(wnd'.size, e.size)
  <2>1. CASE e.kind = "configure_notify"
    BY <1>3, <2>1 DEF SharesDimension
  <2>2. CASE e.kind # "configure_notify"
    BY <1>2, <1>3, <2>2 DEF IInv, ChainInv
  <2> QED
    BY <2>1, <2>2
<1>6. ChainInv'
  <2>1. ASSUME NEW j \in 1 .. Len(xqueue'), xqueue'[j].kind # "configure_notify"
        PROVE  IF j = 1 THEN SharesDimension(wnd'.size, xqueue'[j].size)
               ELSE xqueue'[j].size = xqueue'[j - 1].size
    <3>1. j + 1 \in 1 .. Len(xqueue) /\ j + 1 # 1 /\ xqueue'[j] = xqueue[j + 1]
          /\ (j + 1) - 1 = j
      BY <1>2
    <3>2. xqueue[j + 1].size = xqueue[j].size
      BY <2>1, <3>1 DEF IInv, ChainInv
    <3>3. CASE j = 1
      BY <1>2, <1>5, <3>1, <3>2, <3>3
    <3>4. CASE j # 1
      <4>1. j - 1 \in 1 .. Len(xqueue') /\ (j - 1) + 1 = j
        BY <1>2, <3>4
      <4> QED
        BY <1>2, <3>1, <3>2, <3>4, <4>1
    <3> QED
      BY <3>3, <3>4
  <2>2. ASSUME server'.connected
        PROVE  IF xqueue' = << >> THEN SharesDimension(wnd'.size, server'.size)
               ELSE xqueue'[Len(xqueue')].size = server'.size
    <3>1. xqueue[Len(xqueue)].size = server.size
      BY <1>1, <2>2 DEF IInv, ChainInv
    <3>2. CASE xqueue' = << >>
      <4>1. Len(xqueue) = 1
        BY <1>2, <3>2, EmptySeq
      <4> QED
        BY <1>1, <1>2, <1>5, <3>1, <3>2, <4>1
    <3>3. CASE xqueue' # << >>
      <4>1. Len(xqueue') \in 1 .. Len(xqueue') /\ Len(xqueue') + 1 = Len(xqueue)
        BY <1>2, <3>3, EmptySeq
      <4> QED
        BY <1>1, <1>2, <3>1, <3>3, <4>1
    <3> QED
      BY <3>2, <3>3
  <2> QED
    BY <2>1, <2>2 DEF ChainInv
<1> QED
  BY <1>4, <1>6 DEF IInv

LEMMA SendIInv ==
  ASSUME IInv, Sends
  PROVE  IInv'
<1>1. PICK e \in Events : /\ xqueue' = Append(xqueue, e)
                          /\ e.size = server'.size
                          /\ e.kind # "configure_notify" => server'.size = server.size
  BY DEF Sends, Reports
<1>2. /\ xqueue \in Seq(Events) /\ server' \in Servers /\ wnd' = wnd /\ wnd \in Windows
      /\ server.connected
  BY DEF IInv, TypeInv, Sends
<1>3. /\ xqueue' \in Seq(Events) /\ xqueue' # << >>
      /\ Len(xqueue') = Len(xqueue) + 1
      /\ \A j \in 1 .. Len(xqueue) : xqueue'[j] = xqueue[j]
      /\ xqueue'[Len(xqueue) + 1] = e
      /\ Len(xqueue) \in Nat
      /\ xqueue # << >> => Len(xqueue) # 0
  BY <1>1, <1>2, AppendProperties, LenProperties, EmptySeq
<1>4. TypeInv'
  BY <1>2, <1>3 DEF IInv, TypeInv
<1>5. ASSUME NEW j \in 1 .. Len(xqueue'), xqueue'[j].kind # "configure_notify"
      PROVE  IF j = 1 THEN SharesDimension(wnd'.size, xqueue'[j].size)
             ELSE xqueue'[j].size = xqueue'[j - 1].size
  <2>1. CASE j \in 1 .. Len(xqueue)
    <3>1. j # 1 => j - 1 \in 1 .. Len(xqueue)
      BY <1>3, <2>1
    <3> QED
      BY <1>2, <1>3, <1>5, <2>1, <3>1 DEF IInv, ChainInv
  <2>2. CASE j = Len(xqueue) + 1
    <3>1. xqueue'[j] = e /\ e.size = server.size
      BY <1>1, <1>3, <1>5, <2>2
    <3>2. CASE xqueue = << >>
      <4>1. j = 1 /\ SharesDimension(wnd.size, server.size)
        BY <1>2, <2>2, <3>2, EmptySeq DEF IInv, ChainInv
      <4> QED
        BY <1>2, <3>1, <4>1
    <3>3. CASE xqueue # << >>
      <4>1. xqueue[Len(xqueue)].size = server.size
        BY <1>2, <3>3 DEF IInv, ChainInv
      <4>2. j # 1 /\ j - 1 = Len(xqueue) /\ xqueue'[j - 1] = xqueue[Len(xqueue)]
        BY <1>3, <2>2, <3>3
      <4> QED
        BY <3>1, <4>1, <4>2
    <3> QED
      BY <3>2, <3>3
  <2> QED
    BY <1>3, <2>1, <2>2
<1>6. xqueue'[Len(xqueue')].size = server'.size
  BY <1>1, <1>3
<1>7. ChainInv'
  BY <1>3, <1>5, <1>6 DEF ChainInv
<1> QED
  BY <1>4, <1>7 DEF IInv

LEMMA LostIInv ==
  ASSUME IInv, ServerLost
  PROVE  IInv'
<1>1. PICK n \in 0 .. Len(xqueue) : xqueue' = SubSeq(xqueue, 1, n)
  BY DEF ServerLost
<1>2. /\ server' = [ server EXCEPT !.connected = FALSE ]
      /\ wnd' = wnd /\ wnd \in Windows /\ xqueue \in Seq(Events) /\ server \in Servers
  BY DEF ServerLost, IInv, TypeInv
<1>3. server' \in Servers /\ server'.connected = FALSE
  BY <1>2 DEF Servers
<1>4. n \in Nat /\ n <= Len(xqueue) /\ Len(xqueue) \in Nat
  BY <1>2, LenProperties
<1>5. \A j \in 1 .. n : xqueue[j] \in Events
  BY <1>2, <1>4, ElementOfSeq
<1>6. /\ xqueue' \in Seq(Events) /\ Len(xqueue') = n
      /\ \A j \in 1 .. n : xqueue'[j] = xqueue[j]
  BY <1>1, <1>4, <1>5, SubSeqProperties
<1>7. ASSUME NEW j \in 1 .. Len(xqueue'), xqueue'[j].kind # "configure_notify"
      PROVE  IF j = 1 THEN SharesDimension(wnd'.size, xqueue'[j].size)
             ELSE xqueue'[j].size = xqueue'[j - 1].size
  <2>1. /\ j \in 1 .. Len(xqueue) /\ xqueue'[j] = xqueue[j]
        /\ j # 1 => j - 1 \in 1 .. n
    BY <1>4, <1>6
  <2> QED
    BY <1>2, <1>6, <1>7, <2>1 DEF IInv, ChainInv
<1>8. ChainInv'
  BY <1>3, <1>7 DEF ChainInv
<1> QED
  BY <1>2, <1>3, <1>6, <1>8 DEF IInv, TypeInv

LEMMA MoveIInv ==
  ASSUME IInv, move_window
  PROVE  IInv'
<1>1. /\ wnd' = [ wnd EXCEPT !.has_listeners = FALSE ]
      /\ xqueue' = xqueue /\ server' = server /\ wnd \in Windows
  BY DEF move_window, IInv, TypeInv
<1>2. wnd' \in Windows /\ wnd'.has_listeners = FALSE /\ wnd'.size = wnd.size
  BY <1>1 DEF Windows
<1> QED
  BY <1>1, <1>2 DEF IInv, TypeInv, ChainInv

(* The inductive invariant. ChainInv is what the queue adds: an event that *)
(* does not announce a size carries the one announced before it, so that   *)
(* the window can pass over it and still share a dimension with the last.  *)
THEOREM Invariance == Spec => []IInv
<1>1. ASSUME IInv, [Next]_vars PROVE IInv'
  <2>1. TypeInv
    BY <1>1 DEF IInv
  <2>2. CASE UNCHANGED << wnd, xqueue, server >>
    BY <1>1, <2>2 DEF IInv, TypeInv, ChainInv
  <2> QED
    BY <1>1, <2>1, <2>2, Steps, PollIInv, SendIInv, LostIInv, MoveIInv
<1> QED
  BY <1>1, InitIInv, PTL DEF Spec

(* The window has a size that the server has used.                         *)
THEOREM SizesReal == Spec => []SizeIsReal
<1>1. IInv => SizeIsReal
  BY DEF IInv, TypeInv, Windows, SizeIsReal
<1> QED
  BY <1>1, Invariance, PTL

(* With nothing left to poll the window is right about a dimension.        *)
THEOREM DimensionsShared == Spec => []SizeSharesDimension
<1>1. IInv => SizeSharesDimension
  BY DEF IInv, ChainInv, SizeSharesDimension, SharesDimension
<1> QED
  BY <1>1, Invariance, PTL

(* The window implements Notifications: each resize of both dimensions is  *)
(* taken once, as it was and in order, and told to the listeners it has;   *)
(* what it may pass over are sizes that share a dimension with its own.    *)
THEOREM ResizesTold == Spec => TellsEveryResize
<1>1. Init => Resizes!Init
  <2> SUFFICES ASSUME Init PROVE Resizes!Init
    OBVIOUS
  <2>1. /\ server.size \in Sizes /\ server.connected = TRUE
          /\ wnd.size = server.size /\ wnd.has_listeners = TRUE /\ wnd.told.size = Untold
    BY DEF Init
  <2>2. xqueue = << >> /\ xqueue \in Seq(Events)
    BY EmptySeq DEF Init
  <2>3. Announced(xqueue) \in Seq(Sizes) /\ Len(Announced(xqueue)) = 0
    BY <2>2, AnnouncedIsSeq, EmptySeq
  <2>4. Announced(xqueue) = << >>
    BY <2>3, EmptySeq
  <2> QED
    BY <2>1, <2>4 DEF Resizes!Init, Announced
<1>2. ASSUME IInv, IInv', [Next]_vars PROVE [Resizes!Next]_(Resizes!vars)
  <2>1. xqueue \in Seq(Events) /\ wnd \in Windows /\ server \in Servers
    BY <1>2 DEF IInv, TypeInv
  <2>2. CASE poll_event
    <3> DEFINE e == Head(xqueue)
               new == e.kind = "configure_notify" /\ ~ SharesDimension(wnd.size, e.size)
    <3>1. /\ xqueue # << >> /\ xqueue' = Tail(xqueue) /\ server' = server
          /\ wnd' = Dispatch(wnd, e)
      BY <2>2 DEF poll_event
    <3>2. e \in Events /\ e = xqueue[1] /\ 1 \in 1 .. Len(xqueue)
      BY <2>1, <3>1, HeadTailProperties, EmptySeq
    <3>3. /\ wnd'.size = IF new THEN e.size ELSE wnd.size
          /\ wnd'.told.size = IF new /\ wnd.has_listeners THEN e.size ELSE wnd.told.size
          /\ wnd'.has_listeners = wnd.has_listeners
      BY <2>1, <3>1, <3>2, DispatchSize
    <3>4. /\ Announced(xqueue) # << >>
          /\ Head(Announced(xqueue)) = e.size
          /\ Announced(xqueue') = Tail(Announced(xqueue))
      BY <2>1, <3>1, AnnouncedTail
    <3>5. CASE new
      BY <2>1, <3>1, <3>3, <3>4, <3>5 DEF Resizes!Next, Resizes!Deliver, Announced
    <3>6. CASE ~ new
      <4>1. SharesDimension(wnd.size, e.size)
        BY <1>2, <3>2, <3>6 DEF IInv, ChainInv
      <4> QED
        BY <2>1, <3>1, <3>3, <3>4, <3>6, <4>1 DEF Resizes!Next, Resizes!Ignore, Announced
    <3> QED
      BY <3>5, <3>6
  <2>3. CASE move_window
    <3>1. /\ wnd'.size = wnd.size /\ wnd'.told = wnd.told /\ wnd'.has_listeners = FALSE
          /\ xqueue' = xqueue /\ server' = server
      BY <2>1, <2>3 DEF move_window, Windows
    <3> QED
      BY <2>1, <3>1 DEF Resizes!Next, Resizes!LeaveBehind
  <2>4. CASE Sends
    <3>1. PICK e \in Events : xqueue' = Append(xqueue, e) /\ e.size = server'.size
      BY <2>4 DEF Sends
    <3>2. Announced(xqueue') = Append(Announced(xqueue), server'.size)
      BY <2>1, <3>1, AnnouncedAppend
    <3>3. /\ server.connected = TRUE /\ server'.connected = TRUE
          /\ server'.size \in Sizes /\ wnd' = wnd
      BY <2>1, <2>4 DEF Sends, Servers
    <3> QED
      BY <2>1, <3>2, <3>3 DEF Resizes!Next, Resizes!Announce, Announced
  <2>5. CASE ServerLost
    <3>1. PICK n \in 0 .. Len(xqueue) : xqueue' = SubSeq(xqueue, 1, n)
      BY <2>5 DEF ServerLost
    <3>2. Announced(xqueue') = SubSeq(Announced(xqueue), 1, n)
      BY <2>1, <3>1, AnnouncedPrefix
    <3>3. n \in 0 .. Len(Announced(xqueue))
      BY <2>1, AnnouncedIsSeq
    <3>4. /\ server.connected = TRUE /\ server'.connected = FALSE
          /\ server'.size = server.size /\ wnd' = wnd
      BY <2>1, <2>5 DEF ServerLost, Servers
    <3> QED
      BY <2>1, <3>2, <3>3, <3>4 DEF Resizes!Next, Resizes!Disconnect, Announced
  <2>6. CASE UNCHANGED << wnd, xqueue, server >>
    BY <2>6 DEF Resizes!vars
  <2>7. TypeInv
    BY <1>2 DEF IInv
  <2> QED
    BY <1>2, <2>2, <2>3, <2>4, <2>5, <2>6, <2>7, Steps
<1> QED
  BY <1>1, <1>2, Invariance, PTL DEF Spec, TellsEveryResize, Resizes!Spec

-----------------------------------------------------------------------------
(***************************************************************************)
(* What the listeners will know once the queue has been polled.            *)
(***************************************************************************)

(* A step of poll_events changes nothing about that, an event of the       *)
(* server what it says, and a move only what listeners are told.           *)
LEMMA FollowStep ==
  ASSUME TypeInv, TypeInv', ListenersFollowServer, [Next]_vars
  PROVE  ListenersFollowServer'
<1>1. wnd \in Windows /\ xqueue \in Seq(Events) /\ server \in Servers /\ wnd' \in Windows
  BY DEF TypeInv
<1>2. CASE poll_event
  <2>1. /\ xqueue # << >> /\ xqueue' = Tail(xqueue) /\ server' = server
        /\ wnd' = Dispatch(wnd, Head(xqueue))
    BY <1>2 DEF poll_event
  <2>2. Head(xqueue) \in Events
    BY <1>1, <2>1, HeadTailProperties
  <2>3. wnd'.has_listeners = wnd.has_listeners
    BY <1>1, <2>1, <2>2, DispatchSize
  <2>4. After(wnd', xqueue') = After(wnd, xqueue)
    BY <1>1, <2>1, AfterTail
  <2> QED
    BY <2>1, <2>3, <2>4 DEF ListenersFollowServer, Polled
<1>3. CASE move_window
  <2>1. /\ wnd' = [ wnd EXCEPT !.has_listeners = FALSE ]
        /\ xqueue' = xqueue /\ server' = server
    BY <1>3 DEF move_window
  <2>2. /\ wnd'.has_listeners = FALSE /\ wnd'.position = wnd.position
        /\ wnd'.is_wnd_open = wnd.is_wnd_open
    BY <1>1, <2>1 DEF Windows
  <2>3. /\ After(wnd', xqueue).position = After(wnd, xqueue).position
        /\ After(wnd', xqueue).is_wnd_open = After(wnd, xqueue).is_wnd_open
    BY <1>1, <2>2, AfterMove
  <2> QED
    BY <2>1, <2>2, <2>3 DEF ListenersFollowServer, Polled
<1>4. CASE Sends
  <2>1. PICK e \in Events : /\ xqueue' = Append(xqueue, e)
                            /\ e.position = server'.position /\ e.size = server'.size
                            /\ e.pointer = server'.pointer
                            /\ Reports(e.kind, e.code)
    BY <1>4 DEF Sends
  <2>2. server.connected /\ wnd' = wnd /\ server' \in Servers
    BY <1>4 DEF Sends
  <2>3. PICK w \in Windows : w = After(wnd, xqueue) /\ w.has_listeners = wnd.has_listeners
    BY <1>1, AfterType
  <2>4. PICK v \in Windows : v = Dispatch(w, e) /\ v = After(wnd, xqueue')
    BY <1>1, <2>1, <2>3, AfterAppend, DispatchSize
  <2>5. /\ w.position = server.position
        /\ w.is_wnd_open = ~ server.closing
        /\ wnd.has_listeners =>
             /\ w.told.keys = server.keys /\ w.told.buttons = server.buttons
             /\ w.told.pointer = server.pointer /\ w.told.closed = server.closing
    BY <2>2, <2>3 DEF ListenersFollowServer, Polled
  <2>6. /\ v.position = server'.position
        /\ v.is_wnd_open = ~ server'.closing
    <3>1. /\ v.position = IF e.kind = "configure_notify" THEN e.position ELSE w.position
          /\ v.is_wnd_open = IF e.kind \in Closing THEN FALSE ELSE w.is_wnd_open
      BY <2>4, DispatchRest
    <3>2. v.position = server'.position
      BY <2>1, <2>5, <3>1 DEF Reports
    <3>3. v.is_wnd_open = ~ server'.closing
      <4>1. CASE e.kind \in Closing
        BY <2>1, <3>1, <4>1 DEF Reports
      <4>2. CASE e.kind \notin Closing
        BY <2>1, <2>5, <3>1, <4>2 DEF Reports
      <4> QED
        BY <4>1, <4>2
    <3> QED
      BY <3>2, <3>3
  <2>7. ASSUME wnd.has_listeners
        PROVE  /\ v.told.keys = server'.keys /\ v.told.buttons = server'.buttons
               /\ v.told.pointer = server'.pointer /\ v.told.closed = server'.closing
    <3>1. v = Handled(w, e)
      BY <2>3, <2>4, <2>7, DispatchRest
    <3>2. /\ v.told.closed = IF e.kind \in Closing THEN TRUE ELSE w.told.closed
          /\ v.told.keys = Down(w.told.keys, "key_press", "key_release", e.kind, e.code)
          /\ v.told.buttons = Down(w.told.buttons, "button_press", "button_release",
                                   e.kind, e.code)
          /\ v.told.pointer = IF e.kind \in { "button_press", "button_release", "motion_notify" }
                              THEN e.pointer ELSE w.told.pointer
      BY <3>1, HandledRest
    <3> QED
      BY <2>1, <2>5, <2>7, <3>2 DEF Reports
  <2>8. After(wnd', xqueue') = v
    BY <2>2, <2>4
  <2> QED
    BY <2>2, <2>6, <2>7, <2>8 DEF ListenersFollowServer, Polled
<1>5. CASE ServerLost
  <2>1. ~ server'.connected
    BY <1>1, <1>5 DEF ServerLost, Servers
  <2> QED
    BY <2>1 DEF ListenersFollowServer
<1>6. CASE UNCHANGED << wnd, xqueue, server >>
  BY <1>6 DEF ListenersFollowServer, Polled
<1> QED
  BY <1>2, <1>3, <1>4, <1>5, <1>6, Steps

(* Whatever is queued, once it is polled the window has the position it    *)
(* has on the server and is closed if it is to be, and listeners that no   *)
(* move left behind know the keys and buttons that are down and where the  *)
(* pointer is (window.cpp:226-341): for any events in any order.           *)
THEOREM ListenersFollow == Spec => []ListenersFollowServer
<1>1. Init => ListenersFollowServer
  <2> SUFFICES ASSUME Init PROVE ListenersFollowServer
    OBVIOUS
  <2>1. Polled = wnd
    BY InitIInv, AfterNone DEF IInv, TypeInv, Polled, Init
  <2>2. PICK p \in Positions, z \in Sizes, m \in Positions :
          /\ server = [ position |-> p, size |-> z, pointer |-> m, keys |-> {},
                        buttons |-> {}, closing |-> FALSE, exists |-> TRUE, connected |-> TRUE ]
          /\ wnd = [ position |-> p, size |-> z, is_wnd_open |-> TRUE, has_listeners |-> TRUE,
                     told |-> [ size |-> Untold, pointer |-> m, keys |-> {}, buttons |-> {},
                                closed |-> FALSE ] ]
    BY DEF Init
  <2>3. /\ wnd.position = server.position /\ wnd.is_wnd_open = TRUE /\ server.closing = FALSE
        /\ wnd.told.keys = server.keys /\ wnd.told.buttons = server.buttons
        /\ wnd.told.pointer = server.pointer /\ wnd.told.closed = FALSE
    BY <2>2
  <2> QED
    BY <2>1, <2>3 DEF ListenersFollowServer
<1>2. IInv /\ IInv' /\ ListenersFollowServer /\ [Next]_vars => ListenersFollowServer'
  BY FollowStep DEF IInv
<1> QED
  BY <1>1, <1>2, Invariance, PTL DEF Spec

(* A window is closed, or about to be by an event that is queued, only     *)
(* when the server has asked for it.                                       *)
CloseInv ==
  /\ ~ wnd.is_wnd_open => server.closing
  /\ \A j \in 1 .. Len(xqueue) : xqueue[j].kind \in Closing => server.closing

LEMMA CloseStep ==
  ASSUME TypeInv, CloseInv, [Next]_vars
  PROVE  CloseInv'
<1>1. wnd \in Windows /\ xqueue \in Seq(Events) /\ server \in Servers /\ Len(xqueue) \in Nat
  BY LenProperties DEF TypeInv
<1>2. CASE poll_event
  <2>1. /\ xqueue # << >> /\ xqueue' = Tail(xqueue) /\ server' = server
        /\ wnd' = Dispatch(wnd, Head(xqueue))
    BY <1>2 DEF poll_event
  <2>2. /\ Head(xqueue) \in Events /\ Head(xqueue) = xqueue[1] /\ 1 \in 1 .. Len(xqueue)
        /\ Len(xqueue') = Len(xqueue) - 1
        /\ \A j \in 1 .. Len(xqueue') : xqueue'[j] = xqueue[j + 1] /\ j + 1 \in 1 .. Len(xqueue)
    BY <1>1, <2>1, HeadTailProperties, EmptySeq
  <2>3. wnd'.is_wnd_open = IF xqueue[1].kind \in Closing THEN FALSE ELSE wnd.is_wnd_open
    BY <1>1, <2>1, <2>2, DispatchRest
  <2> QED
    BY <2>1, <2>2, <2>3 DEF CloseInv
<1>3. CASE move_window
  <2>1. wnd'.is_wnd_open = wnd.is_wnd_open /\ xqueue' = xqueue /\ server' = server
    BY <1>1, <1>3 DEF move_window, Windows
  <2> QED
    BY <2>1 DEF CloseInv
<1>4. CASE Sends
  <2>1. PICK e \in Events : xqueue' = Append(xqueue, e) /\ Reports(e.kind, e.code)
    BY <1>4 DEF Sends
  <2>2. /\ Len(xqueue') = Len(xqueue) + 1
        /\ \A j \in 1 .. Len(xqueue) : xqueue'[j] = xqueue[j]
        /\ xqueue'[Len(xqueue) + 1] = e
        /\ wnd' = wnd
    BY <1>1, <1>4, <2>1, AppendProperties DEF Sends
  <2>3. /\ server.closing => server'.closing
        /\ e.kind \in Closing => server'.closing
    BY <2>1 DEF Reports
  <2>4. \A j \in 1 .. Len(xqueue') : j \in 1 .. Len(xqueue) \/ j = Len(xqueue) + 1
    BY <1>1, <2>2
  <2> QED
    BY <2>2, <2>3, <2>4 DEF CloseInv
<1>5. CASE ServerLost
  <2>1. PICK n \in 0 .. Len(xqueue) : xqueue' = SubSeq(xqueue, 1, n)
    BY <1>5 DEF ServerLost
  <2>2. \A j \in 1 .. n : j \in 1 .. Len(xqueue) /\ xqueue[j] \in Events
    BY <1>1, ElementOfSeq
  <2>3. Len(xqueue') = n /\ \A j \in 1 .. n : xqueue'[j] = xqueue[j]
    BY <1>1, <2>1, <2>2, SubSeqProperties
  <2>4. server'.closing = server.closing /\ wnd' = wnd
    BY <1>1, <1>5 DEF ServerLost, Servers
  <2> QED
    BY <2>2, <2>3, <2>4 DEF CloseInv
<1>6. CASE UNCHANGED << wnd, xqueue, server >>
  BY <1>6 DEF CloseInv
<1> QED
  BY <1>2, <1>3, <1>4, <1>5, <1>6, Steps

(* Main leaves its loop with every event read, and only when it was asked  *)
(* to (main.cpp:40-45, window.cpp:221-229).                                *)
THEOREM LoopLeftDrained == Spec => ExitsDrained
<1>1. Init => CloseInv
  <2> SUFFICES ASSUME Init PROVE CloseInv
    OBVIOUS
  <2>1. wnd.is_wnd_open /\ Len(xqueue) = 0
    BY EmptySeq DEF Init
  <2> QED
    BY <2>1 DEF CloseInv
<1>2. IInv /\ CloseInv /\ [Next]_vars => CloseInv'
  BY CloseStep DEF IInv
<1>3. CloseInv /\ [Next]_vars =>
        [ pc' = "exited" /\ pc # "exited" => xqueue = << >> /\ server.closing ]_vars
  <2> SUFFICES ASSUME CloseInv, Next, pc' = "exited", pc # "exited"
               PROVE  xqueue = << >> /\ server.closing
    OBVIOUS
  <2>1. CASE end_of_poll
    BY <2>1 DEF end_of_poll, CloseInv
  <2>2. CASE draw_frame \/ poll_event \/ move_window
    BY <2>2 DEF draw_frame, poll_event, move_window
  <2>3. CASE Server
    BY <2>3 DEF Server, ServerConfigure, ServerMotion, ServerClose, ServerOther,
                ServerLost, ServerKey, ServerButton, Send
  <2> QED
    BY <2>1, <2>2, <2>3 DEF Next, Client
<1> QED
  BY <1>1, <1>2, <1>3, Invariance, PTL DEF Spec, ExitsDrained
=============================================================================
