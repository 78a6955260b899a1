------------------------------- MODULE Window -------------------------------
(***************************************************************************)
(* ui::window (src/luciole/ui/window.cpp) and the X server it talks to.    *)
(* The server changes the window, the keyboard and the pointer at any      *)
(* moment and queues an event for each change; poll_events takes them one  *)
(* by one, updates the window and tells the listeners. The main loop polls *)
(* after each frame until the window is closed.                            *)
(***************************************************************************)
EXTENDS Naturals, Sequences

CONSTANTS
  Keys, Buttons,   \* what can be pressed
  Positions,       \* of the window and of the pointer
  Sizes,           \* <<width, height>> of the window
  MaxEvents        \* bound: events the server sends in one behaviour

ASSUME MaxEventsAssumption == MaxEvents \in Nat

VARIABLES
  pc,          \* "frame", "poll" or "exited"
  wnd,         \* the window object and what its listeners were told last
  xqueue,      \* events sent and not yet polled
  server,      \* the truth, kept by the X server
  sent         \* events sent so far

vars == << pc, wnd, xqueue, server, sent >>

(* Every event carries all fields; only those of its kind are read.        *)
Event(kind, code) == [ kind |-> kind, code |-> code, position |-> server'.position,
                       size |-> server'.size, pointer |-> server'.pointer ]

(* A listener was told no size before the first resize: the renderer's    *)
(* starts with width and height 0.                                         *)
Untold == << 0, 0 >>

(* The others are kept by listeners from what they are told, from where    *)
(* the program starts: nothing pressed, the pointer where it is.           *)
Init ==
  /\ pc = "frame"
  /\ \E p \in Positions, s \in Sizes, q \in Positions :
       /\ server = [ position |-> p, size |-> s, pointer |-> q, keys |-> {},
                     buttons |-> {}, closing |-> FALSE, exists |-> TRUE, connected |-> TRUE ]
       /\ wnd = [ position |-> p, size |-> s, is_wnd_open |-> TRUE, has_listeners |-> TRUE,
                  told |-> [ size |-> Untold, pointer |-> q, keys |-> {}, buttons |-> {}, closed |-> FALSE ] ]
  /\ xqueue = << >>
  /\ sent = 0

-----------------------------------------------------------------------------
(***************************************************************************)
(* poll_events: one event.                                                 *)
(***************************************************************************)

(* A client message closes the window when it carries WM_DELETE_WINDOW;    *)
(* the destruction of the window always does.                              *)
on_close(w) == [ w EXCEPT !.is_wnd_open = FALSE, !.told.closed = TRUE ]

(* Faulty variant: one dimension at a time.                                *)
on_configure_notify_else_if(w, e) ==
  LET size == IF w.size[1] # e.size[1] THEN << e.size[1], w.size[2] >>
              ELSE << w.size[1], e.size[2] >> IN
  [ w EXCEPT !.position = e.position, !.size = size, !.told.size = size ]

(* Faulty variant: the size is stored and nobody is told.                  *)
on_configure_notify_silent(w, e) ==
  IF w.size[1] # e.size[1] /\ w.size[2] # e.size[2]
  THEN [ w EXCEPT !.position = e.position, !.size = e.size ]
  ELSE [ w EXCEPT !.position = e.position ]

(* Faulty variant: the listeners are told and the window keeps its size.   *)
on_configure_notify_forgetful(w, e) ==
  IF w.size[1] # e.size[1] /\ w.size[2] # e.size[2]
  THEN [ w EXCEPT !.position = e.position, !.told.size = e.size ]
  ELSE [ w EXCEPT !.position = e.position ]

(* The position is always stored; the size only when both dimensions have  *)
(* changed, and then the resize listeners are told.                        *)
on_configure_notify(w, e) ==
  LET moved == [ w EXCEPT !.position = e.position ] IN
  IF w.size[1] # e.size[1] /\ w.size[2] # e.size[2]
  THEN [ moved EXCEPT !.size = e.size, !.told.size = e.size ]
  ELSE moved

(* Faulty variant: a released key is reported as pressed.                  *)
on_key_sticky(w, e) == [ w EXCEPT !.told.keys = @ \cup { e.code } ]

on_key(w, e) ==
  [ w EXCEPT !.told.keys = IF e.kind = "key_press" THEN @ \cup { e.code }
                           ELSE @ \ { e.code } ]

(* Button events also carry the position of the pointer.                   *)
on_button(w, e) ==
  [ w EXCEPT !.told.buttons = IF e.kind = "button_press" THEN @ \cup { e.code }
                              ELSE @ \ { e.code },
             !.told.pointer = e.pointer ]

on_motion(w, e) == [ w EXCEPT !.told.pointer = e.pointer ]

(* Faulty variant: the destruction of the window is not handled.           *)
Handled_without_destroy(w, e) ==
  CASE e.kind = "delete_window"                         -> on_close(w)
    [] e.kind = "configure_notify"                      -> on_configure_notify(w, e)
    [] e.kind \in { "key_press", "key_release" }        -> on_key(w, e)
    [] e.kind \in { "button_press", "button_release" }  -> on_button(w, e)
    [] e.kind = "motion_notify"                         -> on_motion(w, e)
    [] OTHER                                            -> w

(* The switch of poll_events; expose and other events are freed unread.    *)
Handled(w, e) ==
  CASE e.kind \in { "delete_window", "destroy_notify" }  -> on_close(w)
    [] e.kind = "configure_notify"                       -> on_configure_notify(w, e)
    [] e.kind \in { "key_press", "key_release" }         -> on_key(w, e)
    [] e.kind \in { "button_press", "button_release" }   -> on_button(w, e)
    [] e.kind = "motion_notify"                          -> on_motion(w, e)
    [] OTHER                                             -> w

(* send_message calls every callback of the handler: all listeners of a    *)
(* kind know the same. A window without callbacks tells nobody.            *)
Dispatch(w, e) ==
  IF w.has_listeners THEN Handled(w, e) ELSE [ Handled(w, e) EXCEPT !.told = w.told ]

(* The program moves the window and goes on with the new one. Connection,  *)
(* geometry and state come with it; the message handlers do not, and the   *)
(* screen and the id of the X window are moved from themselves, which      *)
(* poll_events does not read.                                              *)
move_window ==
  /\ pc = "frame"
  /\ wnd' = [ wnd EXCEPT !.has_listeners = FALSE ]
  /\ UNCHANGED << pc, xqueue, server, sent >>

draw_frame ==
  /\ pc = "frame"
  /\ pc' = "poll"
  /\ UNCHANGED << wnd, xqueue, server, sent >>

poll_event ==
  /\ pc = "poll"
  /\ xqueue # << >>
  /\ wnd' = Dispatch(wnd, Head(xqueue))
  /\ xqueue' = Tail(xqueue)
  /\ UNCHANGED << pc, server, sent >>

(* Faulty variant: events are left for the next frame.                     *)
end_of_poll_after_one ==
  /\ pc = "poll"
  /\ pc' = IF wnd.is_wnd_open THEN "frame" ELSE "exited"
  /\ UNCHANGED << wnd, xqueue, server, sent >>

(* No event left: the loop of main looks at is_open.                       *)
end_of_poll ==
  /\ pc = "poll"
  /\ xqueue = << >>
  /\ pc' = IF wnd.is_wnd_open THEN "frame" ELSE "exited"
  /\ UNCHANGED << wnd, xqueue, server, sent >>

-----------------------------------------------------------------------------
(***************************************************************************)
(* The X server: each change of its state comes with one event.            *)
(***************************************************************************)

Send(kind, code) ==
  /\ sent < MaxEvents
  /\ server.exists /\ server.connected
  /\ sent' = sent + 1
  /\ xqueue' = Append(xqueue, Event(kind, code))
  /\ UNCHANGED << pc, wnd >>

ServerConfigure ==
  \E p \in Positions, s \in Sizes :
    /\ << p, s >> # << server.position, server.size >>
    /\ server' = [ server EXCEPT !.position = p, !.size = s ]
    /\ Send("configure_notify", 0)

ServerKey(k) ==
  \/ /\ k \notin server.keys
     /\ server' = [ server EXCEPT !.keys = @ \cup { k } ]
     /\ Send("key_press", k)
  \/ /\ k \in server.keys
     /\ server' = [ server EXCEPT !.keys = @ \ { k } ]
     /\ Send("key_release", k)

ServerButton(b) ==
  \/ /\ b \notin server.buttons
     /\ server' = [ server EXCEPT !.buttons = @ \cup { b } ]
     /\ Send("button_press", b)
  \/ /\ b \in server.buttons
     /\ server' = [ server EXCEPT !.buttons = @ \ { b } ]
     /\ Send("button_release", b)

ServerMotion ==
  \E q \in Positions \ { server.pointer } :
    /\ server' = [ server EXCEPT !.pointer = q ]
    /\ Send("motion_notify", 0)

(* The user asks to close the window, or it is destroyed at once.          *)
ServerClose ==
  \/ /\ server' = [ server EXCEPT !.closing = TRUE ]
     /\ Send("delete_window", 0)
  \/ /\ server' = [ server EXCEPT !.closing = TRUE, !.exists = FALSE ]
     /\ Send("destroy_notify", 0)

(* Client messages with another atom, exposures: no state behind them.     *)
ServerOther ==
  /\ server' = server
  /\ \E kind \in { "client_message", "expose" } : Send(kind, 0)

(* The connection breaks: what the library has not read yet is lost, and   *)
(* xcb_poll_for_event answers null from then on.                           *)
ServerLost ==
  /\ server.connected
  /\ server' = [ server EXCEPT !.connected = FALSE ]
  /\ \E n \in 0 .. Len(xqueue) : xqueue' = SubSeq(xqueue, 1, n)
  /\ UNCHANGED << pc, wnd, sent >>

Client == draw_frame \/ poll_event \/ end_of_poll

Server ==
  \/ ServerConfigure \/ ServerMotion \/ ServerClose \/ ServerOther \/ ServerLost
  \/ \E k \in Keys : ServerKey(k)
  \/ \E b \in Buttons : ServerButton(b)

Next == Client \/ move_window \/ Server

Spec == Init /\ [][Next]_vars

(* The main loop runs on; the user and the server owe nothing.             *)
FairSpec == Spec /\ WF_vars(Client)

-----------------------------------------------------------------------------
(***************************************************************************)
(* Properties. What will the window and its listeners know once the events *)
(* already sent have been polled?                                          *)
(***************************************************************************)

(* The window after the events of a queue have been polled, one by one.    *)
After(w, q) ==
  LET after[n \in 0 .. Len(q)] ==
        IF n = 0 THEN w ELSE Dispatch(after[n - 1], q[n])
  IN after[Len(q)]

Polled == After(wnd, xqueue)

(* Nothing the server reports is lost, merged wrongly or reordered between *)
(* the queue and the listeners: whatever is still queued, polling it gives *)
(* the position of the window and whether it is to be closed, even to a    *)
(* window that was moved, and the keys and buttons that are down and the   *)
(* pointer to listeners that were not left behind by a move.               *)
ListenersFollowServer ==
  server.connected =>
    /\ Polled.position = server.position
    /\ Polled.is_wnd_open = ~ server.closing
    /\ wnd.has_listeners =>
         /\ Polled.told.keys = server.keys
         /\ Polled.told.buttons = server.buttons
         /\ Polled.told.pointer = server.pointer
         /\ Polled.told.closed = server.closing

(* The size of the window, which get_size answers with, is one the server  *)
(* has used, not the width of one resize with the height of another.       *)
SizeIsReal == wnd.size \in Sizes

(* Once the queue is empty the window, moved or not, is never wrong about  *)
(* both dimensions: what the comparison in poll_events can ignore is a     *)
(* resize of one of them.                                                  *)
SizeSharesDimension ==
  server.connected /\ xqueue = << >> => \/ wnd.size[1] = server.size[1]
                                         \/ wnd.size[2] = server.size[2]

(* What window and listeners know of the size, as Notifications has it: an *)
(* event stands for the size the window had when it was sent, and those    *)
(* may be ignored that share a dimension with the size the window has.     *)
SharesDimension(size, announced) == size[1] = announced[1] \/ size[2] = announced[2]

Resizes == INSTANCE Notifications WITH
  MayIgnore <- SharesDimension,
  surface <- server.size,
  connected <- server.connected,
  events <- [ j \in DOMAIN xqueue |-> xqueue[j].size ],
  size <- wnd.size,
  listening <- wnd.has_listeners,
  told <- wnd.told.size

(* Every resize of both dimensions reaches the window and its listeners,   *)
(* as it was and in order, among whatever other events, while the          *)
(* connection lasts; a window that was moved goes on alone. When no resize *)
(* changes one dimension only and nothing is moved, this is what Renderer  *)
(* assumes of the window.                                                  *)
TellsEveryResize == Resizes!Spec

(* window.hpp:84-90 says that poll_events polls "Window Resize Events":    *)
(* once the queue is empty the window has the size the server gave it.     *)
SizeFollowsServer == server.connected /\ xqueue = << >> => wnd.size = server.size

(* A window that is asked to close is closed and the main loop left,       *)
(* unless the connection breaks: then it stays open for the program.       *)
CloseEndsLoop == server.closing ~> pc = "exited" \/ ~ server.connected

(* Main never leaves its loop with an event unread, nor while the window   *)
(* is open: a press that precedes the close is still delivered.            *)
ExitsDrained == [][pc' = "exited" /\ pc # "exited" =>
                     xqueue = << >> /\ server.closing]_vars
=============================================================================
