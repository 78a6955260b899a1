------------------------------ MODULE Renderer ------------------------------
(***************************************************************************)
(* class renderer (src/luciole/graphics/renderer.cpp) driven by the loop   *)
(* of examples/triangle/main.cpp.                                          *)
(*                                                                         *)
(* Three actors run concurrently:                                          *)
(*   - the host thread: constructor, draw_frame, create_swapchain,         *)
(*     cleanup_swapchain, the resize callback and the destructor, one      *)
(*     action per driver call that another actor can interleave with;      *)
(*   - the graphics queue of the GPU and the presentation engine           *)
(*     (external): they take submissions and presentations in order,       *)
(*     consume and signal semaphores and signal fences when they like;     *)
(*   - the window system (external): it resizes the surface at any moment  *)
(*     and queues a notification the main loop delivers later.             *)
(*                                                                         *)
(* A driver object is a pair <<kind, id>>; id 0 is VK_NULL_HANDLE. One id  *)
(* stands for the whole per-image vector of its kind (views, framebuffers, *)
(* command buffers, uniform buffers), filled and cleared as a whole.       *)
(***************************************************************************)
EXTENDS Errors

CONSTANTS
  ImageCount,            \* images of a swapchain (what vkGetSwapchainImagesKHR counts)
  MAX_FRAMES_IN_FLIGHT,  \* 2 in renderer.hpp
  MinExtent, MaxExtent,  \* minImageExtent and maxImageExtent, one dimension
  ReportsExtent,         \* whether the surface has a currentExtent of its own
  AcquireResults,        \* what vkAcquireNextImageKHR may answer
  SubmitResults,         \* what vkQueueSubmit may answer
  PresentResults,        \* what vkQueuePresentKHR may answer
  CreateResults,         \* what the vkCreate and vkAllocate calls may answer
  MayClose,              \* whether the user may close the window
  OneDimension,          \* whether a resize may change the width or the height only
  MaxResizes             \* bound: surface resizes in one behaviour

ASSUME CountAssumption ==
  /\ ImageCount \in Nat /\ ImageCount >= 2
  /\ MAX_FRAMES_IN_FLIGHT \in Nat /\ MAX_FRAMES_IN_FLIGHT >= 2

ASSUME ExtentAssumption ==
  /\ MinExtent \in Nat \ {0} /\ MaxExtent \in Nat /\ MinExtent <= MaxExtent
  /\ ReportsExtent \in BOOLEAN /\ MayClose \in BOOLEAN /\ OneDimension \in BOOLEAN
  /\ MaxResizes \in Nat

(* A creation that fails does so with a result that to_type knows. The     *)
(* other results are the subject of Context: the renderer would take       *)
(* a null handle for a created object.                                     *)
ASSUME ResultAssumption ==
  /\ AcquireResults \subseteq VkResults
  /\ SubmitResults  \subseteq VkResults
  /\ PresentResults \subseteq VkResults
  /\ CreateResults  \subseteq VkResults
  /\ \A r \in CreateResults : r = "success" \/ is_error(to_type(r))

Images  == 0 .. ImageCount - 1
Frames  == 0 .. MAX_FRAMES_IN_FLIGHT - 1
Extents == MinExtent .. MaxExtent

(* The driver objects the renderer owns.                                   *)
SwapchainKinds == { "swapchain", "image_views", "render_pass",
                    "pipeline_layout", "pipeline", "framebuffers",
                    "uniform_buffers" }
Kinds == SwapchainKinds \cup { "set_layout", "command_buffers" }

(* The objects a recorded command buffer refers to.                        *)
References == { "swapchain", "image_views", "render_pass", "pipeline",
                "framebuffers" }

(* What each object was created from and must not outlive.                 *)
CreatedFrom ==
  { <<"image_views", "swapchain">>, <<"framebuffers", "image_views">>,
    <<"framebuffers", "render_pass">>, <<"pipeline", "render_pass">>,
    <<"pipeline", "pipeline_layout">> }

NoImage == ImageCount

VARIABLES
  \* members of the renderer and its place in the code
  pc,                       \* the next call the host makes
  caller,                   \* who called create_swapchain or cleanup_swapchain
  current_frame,
  image_index,              \* local of draw_frame
  is_framebuffer_resized,
  window_size,              \* window_width and window_height
  swapchain_extent,
  member,                   \* handle held for each kind of object
  recorded,                 \* objects the command buffers refer to
  \* what the driver keeps
  live,                     \* objects created and not destroyed
  generation,               \* ids handed out so far
  image_available,          \* semaphores and fences, one per frame in flight
  render_finished,
  in_flight,
  queue,                    \* work on the graphics queue, oldest first
  acquired,                 \* images the application holds
  onscreen,                 \* image the presentation engine shows
  \* the window system
  surface,                  \* extent of the surface
  events,                   \* resize notifications not yet delivered
  is_wnd_open,
  resizes                   \* resizes so far

frameVars   == << current_frame, image_index >>
resizeVars  == << is_framebuffer_resized, window_size >>
objectVars  == << member, recorded, live, generation >>
syncVars    == << image_available, render_finished, in_flight >>
engineVars  == << queue, acquired, onscreen >>
windowVars  == << surface, events, is_wnd_open, resizes >>
vars == << pc, caller, swapchain_extent, frameVars, resizeVars, objectVars,
           syncVars, engineVars, windowVars >>

Semaphores == [ Frames -> { "null", "unsignaled", "pending", "signaled" } ]

(* The renderer before the first statement of its constructor.             *)
Init ==
  /\ pc = "create_set_layout"
  /\ caller = "ctor"
  /\ current_frame = 0
  /\ image_index = 0
  /\ is_framebuffer_resized = FALSE
  /\ window_size = 0
  /\ swapchain_extent = 0
  /\ member = [ k \in Kinds |-> 0 ]
  /\ recorded = {}
  /\ live = {}
  /\ generation = 0
  /\ image_available = [ f \in Frames |-> "null" ]
  /\ render_finished = [ f \in Frames |-> "null" ]
  /\ in_flight = [ f \in Frames |-> "null" ]
  /\ queue = << >>
  /\ acquired = {}
  /\ onscreen = NoImage
  /\ surface \in Extents
  /\ events = << >>
  /\ is_wnd_open = TRUE
  /\ resizes = 0

-----------------------------------------------------------------------------
(***************************************************************************)
(* Creating and destroying objects.                                        *)
(***************************************************************************)

(* abort( ): the process is gone.                                          *)
Abort ==
  /\ pc' = "aborted"
  /\ UNCHANGED << caller, swapchain_extent, frameVars, resizeVars, objectVars,
                  syncVars, engineVars, windowVars >>

(* One creation of create_swapchain: the handle is kept, or the failure is *)
(* logged and the process aborts. The id is that of this call.             *)
Create(kind, here, next) ==
  /\ pc = here
  /\ \E r \in CreateResults :
       IF is_error(to_type(r))
       THEN Abort
       ELSE /\ pc' = next
            /\ member' = [ member EXCEPT ![kind] = generation ]
            /\ live' = live \cup { << kind, generation >> }
            /\ UNCHANGED << caller, swapchain_extent, frameVars, resizeVars,
                            recorded, generation, syncVars, engineVars, windowVars >>

(* One destruction of cleanup_swapchain: only a handle that is not null.   *)
Destroy(kind, here, next) ==
  /\ pc = here
  /\ pc' = next
  /\ live' = live \ { << kind, member[kind] >> }
  /\ member' = [ member EXCEPT ![kind] = 0 ]
  /\ UNCHANGED << caller, swapchain_extent, frameVars, resizeVars, recorded,
                  generation, syncVars, engineVars, windowVars >>

(* The constructor, up to its call of create_swapchain: a failure of the   *)
(* descriptor set layout is logged and the handle stays null.              *)
create_descriptor_set_layout ==
  /\ pc = "create_set_layout"
  /\ pc' = "wait_idle"
  /\ \E r \in CreateResults :
       IF is_error(to_type(r))
       THEN UNCHANGED << member, live >>
       ELSE /\ member' = [ member EXCEPT !["set_layout"] = 1 ]
            /\ live' = live \cup { << "set_layout", 1 >> }
  /\ UNCHANGED << caller, swapchain_extent, frameVars, resizeVars, recorded,
                  generation, syncVars, engineVars, windowVars >>

(* The loop at the end of the constructor: the semaphores and fences of    *)
(* every frame in flight, unsignaled.                                      *)
create_sync_objects ==
  /\ pc = "create_sync"
  /\ \E r \in CreateResults :
       IF is_error(to_type(r))
       THEN Abort
       ELSE /\ pc' = "acquire"
            /\ image_available' = [ f \in Frames |-> "unsignaled" ]
            /\ render_finished' = [ f \in Frames |-> "unsignaled" ]
            /\ in_flight' = [ f \in Frames |-> "unsignaled" ]
            /\ UNCHANGED << caller, swapchain_extent, frameVars, resizeVars,
                            objectVars, engineVars, windowVars >>

-----------------------------------------------------------------------------
(***************************************************************************)
(* create_swapchain and cleanup_swapchain.                                 *)
(***************************************************************************)

(* Faulty variant: returns at once.                                        *)
device_wait_idle_skipped ==
  /\ pc = "wait_idle"
  /\ pc' = "destroy_uniform_buffers"
  /\ UNCHANGED << caller, swapchain_extent, frameVars, resizeVars, objectVars,
                  syncVars, engineVars, windowVars >>

(* device_wait_idle returns once nothing is left on any queue. Its result  *)
(* is not looked at: the wait is taken to succeed. (After one that fails   *)
(* the objects would be destroyed with the queue as it is.)                *)
device_wait_idle ==
  /\ pc = "wait_idle"
  /\ queue = << >>
  /\ pc' = "destroy_uniform_buffers"
  /\ UNCHANGED << caller, swapchain_extent, frameVars, resizeVars, objectVars,
                  syncVars, engineVars, windowVars >>

(* Faulty variant: the image views go before the framebuffers.             *)
destroy_views_first ==
  \/ Destroy("uniform_buffers", "destroy_uniform_buffers", "destroy_image_views")
  \/ Destroy("image_views", "destroy_image_views", "destroy_framebuffers")
  \/ Destroy("framebuffers", "destroy_framebuffers", "destroy_pipeline")
  \/ Destroy("pipeline", "destroy_pipeline", "destroy_pipeline_layout")
  \/ Destroy("pipeline_layout", "destroy_pipeline_layout", "destroy_render_pass")
  \/ Destroy("render_pass", "destroy_render_pass", "destroy_swapchain")

(* Faulty variant: the handle is not set back to null.                     *)
destroy_swapchain_keeps_handle ==
  /\ pc = "destroy_swapchain"
  /\ pc' = IF caller = "dtor" THEN "destroy_set_layout" ELSE "pick_extent"
  /\ live' = live \ { << "swapchain", member["swapchain"] >> }
  /\ acquired' = {}
  /\ onscreen' = NoImage
  /\ UNCHANGED << caller, swapchain_extent, frameVars, resizeVars, member, recorded,
                  generation, syncVars, queue, windowVars >>

(* cleanup_swapchain, up to the swapchain itself.                          *)
destroy_swapchain_resources ==
  \/ Destroy("uniform_buffers", "destroy_uniform_buffers", "destroy_framebuffers")
  \/ Destroy("framebuffers", "destroy_framebuffers", "destroy_pipeline")
  \/ Destroy("pipeline", "destroy_pipeline", "destroy_pipeline_layout")
  \/ Destroy("pipeline_layout", "destroy_pipeline_layout", "destroy_render_pass")
  \/ Destroy("render_pass", "destroy_render_pass", "destroy_image_views")
  \/ Destroy("image_views", "destroy_image_views", "destroy_swapchain")

(* The end of cleanup_swapchain: the images go with their swapchain. The   *)
(* command buffers are neither reset nor freed.                            *)
destroy_swapchain ==
  /\ pc = "destroy_swapchain"
  /\ pc' = IF caller = "dtor" THEN "destroy_set_layout" ELSE "pick_extent"
  /\ live' = live \ { << "swapchain", member["swapchain"] >> }
  /\ member' = [ member EXCEPT !["swapchain"] = 0 ]
  /\ acquired' = {}
  /\ onscreen' = NoImage
  /\ UNCHANGED << caller, swapchain_extent, frameVars, resizeVars, recorded,
                  generation, syncVars, queue, windowVars >>

(* std::clamp of the last size the window reported.                        *)
Clamped(size) == IF size < MinExtent THEN MinExtent
                 ELSE IF size > MaxExtent THEN MaxExtent ELSE size

(* The capabilities are read here and used by the creations that follow:   *)
(* the surface may have another extent by then.                            *)
pick_swapchain_extent ==
  /\ pc = "pick_extent"
  /\ pc' = "create_swapchain"
  /\ swapchain_extent' = IF ReportsExtent THEN surface ELSE Clamped(window_size)
  /\ generation' = generation + 1
  /\ UNCHANGED << caller, frameVars, resizeVars, member, recorded, live,
                  syncVars, engineVars, windowVars >>

(* One handle each; the views are made for every image of the swapchain.   *)
create_swapchain_khr   == Create("swapchain", "create_swapchain", "create_image_views")
create_image_views     == Create("image_views", "create_image_views", "create_render_pass")
create_render_pass     == Create("render_pass", "create_render_pass", "create_pipeline_layout")
create_pipeline_layout == Create("pipeline_layout", "create_pipeline_layout", "create_pipeline")

(* The two shader modules are locals: destroyed before the result of the   *)
(* pipeline's creation is looked at, they survive no failure.              *)
create_default_pipeline == Create("pipeline", "create_pipeline", "create_command_buffers")

create_swapchain_objects ==
  \/ create_swapchain_khr
  \/ create_image_views
  \/ create_render_pass
  \/ create_pipeline_layout
  \/ create_default_pipeline

(* Fresh command buffers are allocated from a pool that can neither reset  *)
(* nor free them one by one; the vector forgets the old ones.              *)
create_command_buffers ==
  /\ pc = "create_command_buffers"
  /\ \E r \in CreateResults :
       IF is_error(to_type(r))
       THEN Abort
       ELSE /\ pc' = "create_framebuffers"
            /\ member' = [ member EXCEPT !["command_buffers"] = generation ]
            /\ live' = live \cup { << "command_buffers", generation >> }
            /\ recorded' = {}
            /\ UNCHANGED << caller, swapchain_extent, frameVars, resizeVars,
                            generation, syncVars, engineVars, windowVars >>

create_framebuffers ==
  Create("framebuffers", "create_framebuffers", "create_uniform_buffers")

(* The uniform buffers ignore what the allocator answers.                  *)
create_uniform_buffers ==
  /\ pc = "create_uniform_buffers"
  /\ pc' = "record"
  /\ member' = [ member EXCEPT !["uniform_buffers"] = generation ]
  /\ live' = live \cup { << "uniform_buffers", generation >> }
  /\ UNCHANGED << caller, swapchain_extent, frameVars, resizeVars, recorded,
                  generation, syncVars, engineVars, windowVars >>

(* Faulty variant: records only for the constructor.                       *)
record_command_buffers_once ==
  /\ pc = "record"
  /\ recorded' = IF caller = "ctor"
                 THEN { << k, member[k] >> : k \in References }
                 ELSE recorded
  /\ pc' = IF caller = "ctor" THEN "create_sync"
           ELSE IF caller = "acquire" THEN "poll" ELSE "advance"
  /\ UNCHANGED << caller, swapchain_extent, frameVars, resizeVars, member, live,
                  generation, syncVars, engineVars, windowVars >>

(* Begin and end failures are logged only. Control returns to whoever      *)
(* called create_swapchain: the constructor, draw_frame before it drew, or *)
(* draw_frame after it presented.                                          *)
record_command_buffers ==
  /\ pc = "record"
  /\ recorded' = { << k, member[k] >> : k \in References }
  /\ pc' = IF caller = "ctor" THEN "create_sync"
           ELSE IF caller = "acquire" THEN "poll" ELSE "advance"
  /\ UNCHANGED << caller, swapchain_extent, frameVars, resizeVars, member, live,
                  generation, syncVars, engineVars, windowVars >>

-----------------------------------------------------------------------------
(***************************************************************************)
(* draw_frame.                                                             *)
(***************************************************************************)

(* Images the presentation engine can give away: not held, not on screen,  *)
(* not waiting on the queue to be shown.                                   *)
Available ==
  { i \in Images : /\ i \notin acquired /\ i # onscreen
                   /\ \A j \in 1 .. Len(queue) : queue[j].image # i }

(* Faulty variant: a suboptimal image is treated as an outdated swapchain, *)
(* though its semaphore is armed.                                          *)
acquire_recreates_when_suboptimal(result) ==
  /\ pc = "acquire"
  /\ \/ /\ result \in { "success", "suboptimal" }
        /\ \E i \in Available :
             /\ image_index' = i
             /\ acquired' = acquired \cup { i }
        /\ image_available' = [ image_available EXCEPT ![current_frame] = "pending" ]
        /\ pc' = IF result = "success" THEN "submit" ELSE "wait_idle"
        /\ caller' = IF result = "success" THEN caller ELSE "acquire"
     \/ /\ result = "out_of_date"
        /\ swapchain_extent # surface
        /\ pc' = "wait_idle"
        /\ caller' = "acquire"
        /\ image_index' = 0
        /\ UNCHANGED << acquired, image_available >>
  /\ UNCHANGED << current_frame, swapchain_extent, resizeVars, objectVars,
                  render_finished, in_flight, queue, onscreen, windowVars >>

(* vkAcquireNextImageKHR without a timeout. Success and suboptimal hand    *)
(* out an image and arm the frame's semaphore. Out of date recreates the   *)
(* swapchain and leaves draw_frame. Every other result is not looked at:   *)
(* the frame goes on with image_index still 0.                             *)
vkAcquireNextImageKHR(result) ==
  /\ pc = "acquire"
  /\ \/ /\ result \in { "success", "suboptimal" }
        /\ \E i \in Available :
             /\ image_index' = i
             /\ acquired' = acquired \cup { i }
        /\ image_available' = [ image_available EXCEPT ![current_frame] = "pending" ]
        /\ pc' = "submit"
        /\ UNCHANGED caller
     \/ /\ result = "out_of_date"
        /\ swapchain_extent # surface
        /\ pc' = "wait_idle"
        /\ caller' = "acquire"
        /\ image_index' = 0
        /\ UNCHANGED << acquired, image_available >>
     \/ /\ result \notin { "success", "suboptimal", "out_of_date" }
        /\ pc' = "submit"
        /\ image_index' = 0
        /\ UNCHANGED << caller, acquired, image_available >>
  /\ UNCHANGED << current_frame, swapchain_extent, resizeVars, objectVars,
                  render_finished, in_flight, queue, onscreen, windowVars >>

(* Faulty variant: submits with the semaphores and the fence of the next   *)
(* frame.                                                                  *)
submit_queue_next_frame(result) ==
  /\ pc = "submit"
  /\ pc' = "wait_fence"
  /\ queue' = IF result = "success"
              THEN Append(queue, [ op     |-> "draw",
                                   frame  |-> (current_frame + 1) % MAX_FRAMES_IN_FLIGHT,
                                   image  |-> image_index,
                                   buffer |-> member["command_buffers"],
                                   uses   |-> recorded ])
              ELSE queue
  /\ UNCHANGED << caller, swapchain_extent, frameVars, resizeVars, objectVars,
                  syncVars, acquired, onscreen, windowVars >>

(* The uniform buffer of the image is written and its command buffer       *)
(* submitted; the result of the submission is ignored.                     *)
submit_queue(result) ==
  /\ pc = "submit"
  /\ pc' = "wait_fence"
  /\ queue' = IF result = "success"
              THEN Append(queue, [ op     |-> "draw",
                                   frame  |-> current_frame,
                                   image  |-> image_index,
                                   buffer |-> member["command_buffers"],
                                   uses   |-> recorded ])
              ELSE queue
  /\ UNCHANGED << caller, swapchain_extent, frameVars, resizeVars, objectVars,
                  syncVars, acquired, onscreen, windowVars >>

(* Faulty variant: returns at once.                                        *)
wait_for_fence_skipped ==
  /\ pc = "wait_fence"
  /\ pc' = "reset_fence"
  /\ UNCHANGED << caller, swapchain_extent, frameVars, resizeVars, objectVars,
                  syncVars, engineVars, windowVars >>

(* Faulty variant: waits for the fence of the other frame.                 *)
wait_for_next_fence ==
  /\ pc = "wait_fence"
  /\ in_flight[(current_frame + 1) % MAX_FRAMES_IN_FLIGHT] = "signaled"
  /\ pc' = "reset_fence"
  /\ UNCHANGED << caller, swapchain_extent, frameVars, resizeVars, objectVars,
                  syncVars, engineVars, windowVars >>

wait_for_fence ==
  /\ pc = "wait_fence"
  /\ in_flight[current_frame] = "signaled"
  /\ pc' = "reset_fence"
  /\ UNCHANGED << caller, swapchain_extent, frameVars, resizeVars, objectVars,
                  syncVars, engineVars, windowVars >>

(* Faulty variant: the fence stays signaled.                               *)
reset_fence_forgotten ==
  /\ pc = "reset_fence"
  /\ pc' = "present"
  /\ UNCHANGED << caller, swapchain_extent, frameVars, resizeVars, objectVars,
                  syncVars, engineVars, windowVars >>

reset_fence ==
  /\ pc = "reset_fence"
  /\ pc' = "present"
  /\ in_flight' = [ in_flight EXCEPT ![current_frame] = "unsignaled" ]
  /\ UNCHANGED << caller, swapchain_extent, frameVars, resizeVars, objectVars,
                  image_available, render_finished, engineVars, windowVars >>

(* Faulty variant: a pending resize recreates before presenting.           *)
recreate_before_present(result) ==
  /\ pc = "present"
  /\ IF is_framebuffer_resized
     THEN /\ is_framebuffer_resized' = FALSE
          /\ caller' = "present"
          /\ pc' = "wait_idle"
          /\ UNCHANGED << queue, acquired >>
     ELSE /\ queue' = Append(queue, [ op     |-> "present",
                                      frame  |-> current_frame,
                                      image  |-> image_index,
                                      buffer |-> 0,
                                      uses   |-> { << "swapchain", member["swapchain"] >> } ])
          /\ acquired' = acquired \ { image_index }
          /\ pc' = IF is_error(to_type(result)) THEN "aborted" ELSE "advance"
          /\ UNCHANGED << is_framebuffer_resized, caller >>
  /\ UNCHANGED << swapchain_extent, frameVars, window_size, objectVars, syncVars,
                  onscreen, windowVars >>

(* Faulty variant: only the result of the presentation is looked at.       *)
present_ignores_resize(result) ==
  /\ pc = "present"
  /\ queue' = Append(queue, [ op     |-> "present",
                              frame  |-> current_frame,
                              image  |-> image_index,
                              buffer |-> 0,
                              uses   |-> { << "swapchain", member["swapchain"] >> } ])
  /\ acquired' = acquired \ { image_index }
  /\ pc' = IF is_error(to_type(result)) THEN "aborted" ELSE "advance"
  /\ UNCHANGED << caller, swapchain_extent, frameVars, resizeVars, objectVars,
                  syncVars, onscreen, windowVars >>

(* The image goes back to the presentation engine through the queue, even  *)
(* when the presentation itself is refused. Only then are the result, as   *)
(* vk::error reads it, and the resize flag looked at.                      *)
present_queue(result) ==
  /\ pc = "present"
  /\ result = "out_of_date" => swapchain_extent # surface
  /\ queue' = Append(queue, [ op     |-> "present",
                              frame  |-> current_frame,
                              image  |-> image_index,
                              buffer |-> 0,
                              uses   |-> { << "swapchain", member["swapchain"] >> } ])
  /\ acquired' = acquired \ { image_index }
  /\ IF \/ to_type(result) \in { "e_out_of_date", "e_suboptimal" }
        \/ is_framebuffer_resized
     THEN /\ is_framebuffer_resized' = FALSE
          /\ caller' = "present"
          /\ pc' = "wait_idle"
     ELSE /\ pc' = IF is_error(to_type(result)) THEN "aborted" ELSE "advance"
          /\ UNCHANGED << is_framebuffer_resized, caller >>
  /\ UNCHANGED << swapchain_extent, frameVars, window_size, objectVars, syncVars,
                  onscreen, windowVars >>

(* Faulty variant: no wrap-around.                                         *)
advance_frame_unbounded ==
  /\ pc = "advance"
  /\ pc' = "poll"
  /\ current_frame' = current_frame + 1
  /\ UNCHANGED << caller, image_index, swapchain_extent, resizeVars, objectVars,
                  syncVars, engineVars, windowVars >>

advance_frame ==
  /\ pc = "advance"
  /\ pc' = "poll"
  /\ current_frame' = (current_frame + 1) % MAX_FRAMES_IN_FLIGHT
  /\ UNCHANGED << caller, image_index, swapchain_extent, resizeVars, objectVars,
                  syncVars, engineVars, windowVars >>

-----------------------------------------------------------------------------
(***************************************************************************)
(* Between frames: poll_events delivers what the window system queued, and *)
(* the loop of main goes on while the window is open.                      *)
(***************************************************************************)

(* Faulty variant: stores the size and forgets the flag.                   *)
on_framebuffer_resize_without_flag ==
  /\ pc = "poll"
  /\ events # << >>
  /\ window_size' = Head(events)
  /\ events' = Tail(events)
  /\ UNCHANGED << pc, caller, swapchain_extent, frameVars, is_framebuffer_resized,
                  objectVars, syncVars, engineVars, surface, is_wnd_open, resizes >>

on_framebuffer_resize ==
  /\ pc = "poll"
  /\ events # << >>
  /\ window_size' = Head(events)
  /\ is_framebuffer_resized' = TRUE
  /\ events' = Tail(events)
  /\ UNCHANGED << pc, caller, swapchain_extent, frameVars, objectVars, syncVars,
                  engineVars, surface, is_wnd_open, resizes >>

close_window ==
  /\ pc = "poll"
  /\ MayClose /\ is_wnd_open
  /\ is_wnd_open' = FALSE
  /\ UNCHANGED << pc, caller, swapchain_extent, frameVars, resizeVars, objectVars,
                  syncVars, engineVars, surface, events, resizes >>

(* poll_events returns once the event queue is empty.                      *)
end_of_poll ==
  /\ pc = "poll"
  /\ events = << >>
  /\ pc' = IF is_wnd_open THEN "acquire" ELSE "destroy_sync"
  /\ UNCHANGED << caller, swapchain_extent, frameVars, resizeVars, objectVars,
                  syncVars, engineVars, windowVars >>

-----------------------------------------------------------------------------
(***************************************************************************)
(* The destructor: it does not wait for the device. The semaphores and the *)
(* fences go first, then the swapchain, then the descriptor set layout.    *)
(***************************************************************************)

destroy_sync_objects ==
  /\ pc = "destroy_sync"
  /\ pc' = "destroy_uniform_buffers"
  /\ caller' = "dtor"
  /\ image_available' = [ f \in Frames |-> "null" ]
  /\ render_finished' = [ f \in Frames |-> "null" ]
  /\ in_flight' = [ f \in Frames |-> "null" ]
  /\ UNCHANGED << swapchain_extent, frameVars, resizeVars, objectVars, engineVars,
                  windowVars >>

destroy_descriptor_set_layout ==
  Destroy("set_layout", "destroy_set_layout", "destroyed")

-----------------------------------------------------------------------------
(***************************************************************************)
(* The graphics queue and the presentation engine. Work is processed in    *)
(* submission order: the fence of a submission also covers what was put on *)
(* the queue before it.                                                    *)
(***************************************************************************)

(* The presentation engine is done with the image it handed out.           *)
EngineReady(f) ==
  /\ image_available[f] = "pending"
  /\ image_available' = [ image_available EXCEPT ![f] = "signaled" ]
  /\ UNCHANGED << pc, caller, swapchain_extent, frameVars, resizeVars, objectVars,
                  render_finished, in_flight, engineVars, windowVars >>

(* A command buffer runs once its image is available, and ends by          *)
(* signaling the frame's semaphore and fence.                              *)
GpuDraw ==
  /\ queue # << >>
  /\ Head(queue).op = "draw"
  /\ LET f == Head(queue).frame IN
       /\ image_available[f] = "signaled"
       /\ image_available' = [ image_available EXCEPT ![f] = "unsignaled" ]
       /\ render_finished' = [ render_finished EXCEPT ![f] = "signaled" ]
       /\ in_flight' = [ in_flight EXCEPT ![f] = "signaled" ]
  /\ queue' = Tail(queue)
  /\ UNCHANGED << pc, caller, swapchain_extent, frameVars, resizeVars, objectVars,
                  acquired, onscreen, windowVars >>

(* A presentation waits for its frame to be rendered. Its image replaces   *)
(* the one on screen or, when a later one replaces it first (mailbox mode) *)
(* or it is refused, goes back unshown.                                    *)
GpuPresent ==
  /\ queue # << >>
  /\ Head(queue).op = "present"
  /\ LET p == Head(queue) IN
       /\ render_finished[p.frame] = "signaled"
       /\ render_finished' = [ render_finished EXCEPT ![p.frame] = "unsignaled" ]
       /\ onscreen' \in { onscreen, p.image }
  /\ queue' = Tail(queue)
  /\ UNCHANGED << pc, caller, swapchain_extent, frameVars, resizeVars, objectVars,
                  image_available, in_flight, acquired, windowVars >>

(* The user resizes the window: the surface follows at once, the           *)
(* notification waits to be polled. A resize of one dimension, which       *)
(* poll_events passes over (window.cpp:264), leaves none: see Window.      *)
SurfaceResized(e) ==
  /\ resizes < MaxResizes
  /\ e # surface
  /\ surface' = e
  /\ \/ events' = Append(events, e)
     \/ OneDimension /\ UNCHANGED events
  /\ resizes' = resizes + 1
  /\ UNCHANGED << pc, caller, swapchain_extent, frameVars, resizeVars, objectVars,
                  syncVars, engineVars, is_wnd_open >>

-----------------------------------------------------------------------------
draw_frame ==
  \/ \E r \in AcquireResults : vkAcquireNextImageKHR(r)
  \/ \E r \in SubmitResults : submit_queue(r)
  \/ wait_for_fence
  \/ reset_fence
  \/ \E r \in PresentResults : present_queue(r)
  \/ advance_frame

create_swapchain ==
  \/ device_wait_idle
  \/ destroy_swapchain_resources
  \/ destroy_swapchain
  \/ pick_swapchain_extent
  \/ create_swapchain_objects
  \/ create_command_buffers
  \/ create_framebuffers
  \/ create_uniform_buffers
  \/ record_command_buffers

poll_events == on_framebuffer_resize \/ end_of_poll

Host ==
  \/ create_descriptor_set_layout
  \/ create_sync_objects
  \/ create_swapchain
  \/ draw_frame
  \/ poll_events
  \/ destroy_sync_objects
  \/ destroy_descriptor_set_layout

Gpu == GpuDraw \/ GpuPresent \/ \E f \in Frames : EngineReady(f)

WindowSystem == close_window \/ \E e \in Extents : SurfaceResized(e)

Next == Host \/ Gpu \/ WindowSystem

Spec == Init /\ [][Next]_vars

(* The host thread is never descheduled for good, and the GPU and the      *)
(* presentation engine get on with work whose semaphores are signaled.     *)
Fairness == WF_vars(Host) /\ WF_vars(GpuDraw \/ GpuPresent)
            /\ \A f \in Frames : WF_vars(EngineReady(f))

FairSpec == Spec /\ Fairness
-----------------------------------------------------------------------------
(***************************************************************************)
(* Properties.                                                             *)
(***************************************************************************)

FramePoints == { "acquire", "submit", "wait_fence", "reset_fence", "present",
                 "advance", "poll" }

CreatePoints == { "create_swapchain", "create_image_views", "create_render_pass",
                  "create_pipeline_layout", "create_pipeline",
                  "create_command_buffers", "create_framebuffers",
                  "create_uniform_buffers", "record" }

CleanupPoints == { "destroy_uniform_buffers", "destroy_framebuffers",
                   "destroy_pipeline", "destroy_pipeline_layout",
                   "destroy_render_pass", "destroy_image_views",
                   "destroy_swapchain" }

Points == FramePoints \cup CreatePoints \cup CleanupPoints \cup
          { "create_set_layout", "create_sync", "wait_idle", "pick_extent",
            "destroy_sync", "destroy_set_layout", "destroyed", "aborted" }

Objects == Kinds \X Nat

Work == [ op : { "draw", "present" }, frame : Frames, image : Images,
          buffer : Nat, uses : SUBSET Objects ]

(* Every variable has its type.                                            *)
TypeOK ==
  /\ pc \in Points
  /\ caller \in { "ctor", "acquire", "present", "dtor" }
  /\ current_frame \in Frames
  /\ image_index \in Images
  /\ is_framebuffer_resized \in BOOLEAN
  /\ window_size \in Nat
  /\ swapchain_extent \in Nat
  /\ member \in [ Kinds -> Nat ]
  /\ recorded \in SUBSET Objects
  /\ live \in SUBSET Objects
  /\ generation \in Nat
  /\ image_available \in Semaphores
  /\ render_finished \in Semaphores
  /\ in_flight \in Semaphores
  /\ queue \in Seq(Work)
  /\ acquired \in SUBSET Images
  /\ onscreen \in Images \cup { NoImage }
  /\ surface \in Extents
  /\ events \in Seq(Extents)
  /\ is_wnd_open \in BOOLEAN
  /\ resizes \in 0 .. MaxResizes

Draws(q)    == { j \in 1 .. Len(q) : q[j].op = "draw" }
Presents(q) == { j \in 1 .. Len(q) : q[j].op = "present" }

(* When draw_frame submits (renderer.cpp:271-288), nothing on the queue    *)
(* still runs the command buffer it submits, will signal the fence it      *)
(* passes or waits on the semaphore it signals, and both are unsignaled:   *)
(* two frames share each of them, and images come back in any order.       *)
SubmitsIdleObjects ==
  pc = "submit" =>
    /\ in_flight[current_frame] = "unsignaled"
    /\ render_finished[current_frame] = "unsignaled"
    /\ \A j \in 1 .. Len(queue) :
         /\ queue[j].frame # current_frame
         /\ << queue[j].buffer, queue[j].image >> #
            << member["command_buffers"], image_index >>

(* When draw_frame acquires (renderer.cpp:236-243), the semaphore it       *)
(* passes is unsignaled and no submission is going to wait on it, whatever *)
(* way the last frame that used it ended.                                  *)
AcquiresWithIdleSemaphore ==
  pc = "acquire" =>
    /\ image_available[current_frame] = "unsignaled"
    /\ \A j \in Draws(queue) : queue[j].frame # current_frame

(* No object is destroyed (renderer.cpp:520-569) while work on the queue   *)
(* uses it: for a submission this holds at any time, for a presentation    *)
(* until the destructor, which does not wait for the device.               *)
WorkUsesLiveObjects ==
  \A j \in 1 .. Len(queue) :
    queue[j].op = "draw" \/ caller # "dtor" => queue[j].uses \subseteq live

(* The command buffer that is submitted was recorded (renderer.cpp:571-638)*)
(* for the objects the renderer holds now, not for those of a swapchain    *)
(* that has been replaced, and the uniform buffer written is alive.        *)
SubmitsCurrentRecording ==
  pc = "submit" =>
    /\ recorded = { << k, member[k] >> : k \in References }
    /\ << "uniform_buffers", member["uniform_buffers"] >> \in live

(* No object outlives one it was created from, through every step of       *)
(* cleanup_swapchain and create_swapchain and after a creation has failed. *)
ParentsOutliveChildren ==
  \A d \in CreatedFrom :
    (\E o \in live : o[1] = d[1]) => (\E o \in live : o[1] = d[2])

(* Recreating never forgets an object nor keeps the handle of a destroyed  *)
(* one: what is alive is what the renderer holds, and nothing after the    *)
(* destructor. Command buffers are left out: see AllObjectsDestroyed.      *)
Held == { << k, member[k] >> : k \in { h \in Kinds : member[h] # 0 } }

NothingLeaked ==
  /\ \A o \in live \cup Held : o[1] # "command_buffers" => o \in live \cap Held
  /\ pc = "destroyed" => \A o \in live : o[1] = "command_buffers"

(* The swapchain is destroyed with no image in the hands of the renderer,  *)
(* and the renderer never asks for a second image before it has given the  *)
(* first one back: a failed or out of date acquisition leaves none behind. *)
HoldsOneImage ==
  /\ acquired \subseteq { image_index }
  /\ pc \in { "acquire", "poll", "wait_idle", "destroy_swapchain" } => acquired = {}

(* Whoever waits gets on: when the host waits for its fence, for the       *)
(* device to be idle or for an image, there is work on the queue whose     *)
(* semaphore is signaled or will be by the presentation engine. So no      *)
(* order of acquisitions, recreations and presentations leaves the host    *)
(* and the queue waiting for each other.                                   *)
HostWaits ==
  \/ pc = "wait_fence" /\ in_flight[current_frame] # "signaled"
  \/ pc = "wait_idle" /\ queue # << >>
  \/ pc = "acquire" /\ Available = {}

WaitsForWork ==
  HostWaits =>
    /\ queue # << >>
    /\ LET w == Head(queue) IN
       IF w.op = "draw" THEN image_available[w.frame] \in { "pending", "signaled" }
       ELSE render_finished[w.frame] = "signaled"

(* No resize that is announced is lost: while frames are drawn, a          *)
(* swapchain whose extent is not the surface's has a notification on its   *)
(* way or the flag set, though the surface may change between reading the  *)
(* capabilities and any later step. When the surface leaves the extent to  *)
(* the application, it is that of the last notification or the flag is     *)
(* set. With OneDimension the first part does not hold (window.cpp:264).   *)
NoResizeLost ==
  pc \in FramePoints =>
    \/ is_framebuffer_resized
    \/ IF ReportsExtent THEN swapchain_extent = surface \/ events # << >>
       ELSE swapchain_extent = Clamped(window_size)

(* What renderer.hpp:79-81 says of cleanup_swapchain: "Destroy all objects *)
(* related to the swapchain."                                              *)
AllObjectsDestroyed ==
  pc = "pick_extent" => \A o \in live : o[1] = "set_layout"

(* A frame that has started comes to its end: the fence it waits for is    *)
(* signaled and the device becomes idle.                                   *)
FrameEnds == pc = "acquire" ~> pc = "poll"

(* Once the surface stops changing, the swapchain gets its extent, even if *)
(* the driver never answers out of date or the answer is not looked at. A  *)
(* resize of one dimension is never announced (window.cpp:264), and then   *)
(* only an acquisition that is out of date brings the extent back: this is *)
(* said of resizes that change both, ~ OneDimension.                       *)
CatchesUp == <>[](swapchain_extent = surface \/ ~ is_wnd_open)

-----------------------------------------------------------------------------
(***************************************************************************)
(* The renderer implements Presentation.                                   *)
(***************************************************************************)

(* The image the application holds has not been drawn: it is not           *)
(* submitted, or the submission has failed and its fence is waited for.    *)
ToBeDrawn ==
  \/ pc = "submit"
  \/ pc = "wait_fence" /\ in_flight[current_frame] # "signaled"

StageOf(i) ==
  IF i = onscreen THEN "onscreen"
  ELSE IF \E j \in Presents(queue) : queue[j].image = i THEN "queued"
  ELSE IF \E j \in Draws(queue) : queue[j].image = i THEN "drawing"
  ELSE IF i \notin acquired THEN "free"
  ELSE IF ToBeDrawn THEN "acquired" ELSE "drawn"

Abstract == INSTANCE Presentation WITH
  alive <- member["swapchain"] # 0,
  stage <- [ i \in Images |-> StageOf(i) ]

(* What the renderer relies on for that: every acquisition gives an image  *)
(* or says out of date, the only other result draw_frame looks at, and the *)
(* destructor finds no presentation waiting, which it does not wait for.   *)
Regular ==
  /\ pc \in { "submit", "wait_fence", "reset_fence", "present" } => acquired # {}
  /\ caller = "dtor" => queue = << >>

(* Every step of the renderer is a step of Presentation or leaves it       *)
(* unchanged, as long as it is Regular.                                    *)
Implements == Abstract!Spec

=============================================================================
