--------------------------- MODULE RendererProofs ---------------------------
(***************************************************************************)
(* Theorems about Renderer, for any number of images and of frames in      *)
(* flight, any extents and any results the driver may answer.              *)
(***************************************************************************)
EXTENDS RendererInvariant, TLAPS

(* What create_swapchain creates before the command buffers.               *)
LEMMA SwapchainCreations ==
  ASSUME create_swapchain_objects
  PROVE  \/ Create("swapchain", "create_swapchain", "create_image_views")
         \/ Create("image_views", "create_image_views", "create_render_pass")
         \/ Create("render_pass", "create_render_pass", "create_pipeline_layout")
         \/ Create("pipeline_layout", "create_pipeline_layout", "create_pipeline")
         \/ Create("pipeline", "create_pipeline", "create_command_buffers")
BY DEF create_swapchain_objects, create_swapchain_khr, create_image_views,
       create_render_pass, create_pipeline_layout, create_default_pipeline

(* The names used as program points, by group.                             *)
LEMMA PointNames ==
  /\ \A p \in { "acquire", "submit", "wait_fence", "reset_fence", "present",
                "advance", "poll" } : p \in Points /\ p \in FramePoints
  /\ \A p \in { "create_swapchain", "create_image_views", "create_render_pass",
                "create_pipeline_layout", "create_pipeline",
                "create_command_buffers", "create_framebuffers",
                "create_uniform_buffers", "record" } :
        p \in Points /\ p \in CreatePoints
  /\ \A p \in { "destroy_uniform_buffers", "destroy_framebuffers",
                "destroy_pipeline", "destroy_pipeline_layout",
                "destroy_render_pass", "destroy_image_views",
                "destroy_swapchain" } : p \in Points /\ p \in CleanupPoints
  /\ \A p \in { "create_set_layout", "create_sync", "wait_idle", "pick_extent",
                "destroy_sync", "destroy_set_layout", "destroyed", "aborted" } :
        p \in Points
BY DEF Points, FramePoints, CreatePoints, CleanupPoints

(* Kinds of objects, and that a kind and a number make an object.          *)
LEMMA KindNames ==
  /\ \A k \in { "swapchain", "image_views", "render_pass", "pipeline_layout",
                "pipeline", "framebuffers", "uniform_buffers" } :
        k \in Kinds /\ k \in SwapchainKinds
  /\ "set_layout" \in Kinds /\ "command_buffers" \in Kinds
  /\ References \subseteq Kinds
  /\ \A k \in Kinds, n \in Nat : << k, n >> \in Objects
BY DEF Kinds, SwapchainKinds, References, Objects

(* Images, frames and the order in which frames are used.                  *)
LEMMA Indices ==
  /\ 0 \in Images /\ NoImage \notin Images
  /\ 0 \in Frames
  /\ \A f \in Frames : /\ (f + 1) % MAX_FRAMES_IN_FLIGHT \in Frames
                       /\ (f + 1) % MAX_FRAMES_IN_FLIGHT # f
<1>1. 0 \in Images /\ NoImage \notin Images /\ 0 \in Frames
  BY CountAssumption DEF Images, Frames, NoImage
<1>2. ASSUME NEW f \in Frames
      PROVE  /\ (f + 1) % MAX_FRAMES_IN_FLIGHT \in Frames
             /\ (f + 1) % MAX_FRAMES_IN_FLIGHT # f
  <2> DEFINE N == MAX_FRAMES_IN_FLIGHT
  <2>1. f \in Nat /\ f <= N - 1 /\ N \in Nat /\ N >= 2
    BY CountAssumption DEF Frames
  <2>2. CASE f = N - 1
    <3>1. (f + 1) % N = 0
      BY <2>1, <2>2
    <3> QED
      BY <3>1, <2>1, <2>2 DEF Frames
  <2>3. CASE f < N - 1
    <3>1. (f + 1) % N = f + 1
      BY <2>1, <2>3
    <3> QED
      BY <3>1, <2>1, <2>3 DEF Frames
  <2> QED
    BY <2>1, <2>2, <2>3
<1> QED
  BY <1>1, <1>2

(* An extent, clamped or not, is a natural number.                         *)
LEMMA ExtentsAreNaturals ==
  /\ Extents \subseteq Nat
  /\ \A n \in Nat : Clamped(n) \in Nat
BY ExtentAssumption DEF Extents, Clamped

(* Taking from and adding to the graphics queue.                           *)
LEMMA QueueTypes ==
  /\ \A q \in Seq(Work), w \in Work : Append(q, w) \in Seq(Work)
  /\ \A q \in Seq(Work) : q # << >> =>
        /\ Head(q) \in Work /\ Tail(q) \in Seq(Work)
        /\ Head(q).frame \in Frames /\ Head(q).image \in Images
  /\ \A q \in Seq(Work) : \A j \in 1 .. Len(q) : q[j].op \in { "draw", "present" }
  /\ \A op \in { "draw", "present" }, f \in Frames, i \in Images, b \in Nat :
       \A u \in SUBSET Objects :
         [ op |-> op, frame |-> f, image |-> i, buffer |-> b, uses |-> u ] \in Work
<1>1. \A w \in Work : /\ w.op \in { "draw", "present" }
                     /\ w.frame \in Frames /\ w.image \in Images
  BY DEF Work
<1>2. \A q \in Seq(Work) : q # << >> => Head(q) \in Work /\ Tail(q) \in Seq(Work)
  OBVIOUS
<1>3. \A q \in Seq(Work), w \in Work : Append(q, w) \in Seq(Work)
  OBVIOUS
<1>4. \A op \in { "draw", "present" }, f \in Frames, i \in Images, b \in Nat :
        \A u \in SUBSET Objects :
          [ op |-> op, frame |-> f, image |-> i, buffer |-> b, uses |-> u ] \in Work
  BY DEF Work
<1> QED
  BY <1>1, <1>2, <1>3, <1>4

(* Taking from and adding to the notifications.                            *)
LEMMA EventTypes ==
  \A q \in Seq(Extents) :
    /\ \A e \in Extents : Append(q, e) \in Seq(Extents)
    /\ q # << >> => Head(q) \in Extents /\ Tail(q) \in Seq(Extents)
OBVIOUS

(* A creation keeps the types, whether it succeeds or aborts.              *)
LEMMA CreateType ==
  ASSUME TypeOK, NEW k \in Kinds, NEW here, NEW next \in Points,
         Create(k, here, next)
  PROVE  TypeOK'
BY PointNames, KindNames
DEF TypeOK, Create, Abort, Semaphores, frameVars, resizeVars, objectVars,
    syncVars,
    engineVars, windowVars

(* A destruction keeps the types.                                          *)
LEMMA DestroyType ==
  ASSUME TypeOK, NEW k \in Kinds, NEW here, NEW next \in Points,
         Destroy(k, here, next)
  PROVE  TypeOK'
BY DEF TypeOK, Destroy, Semaphores, frameVars, resizeVars, objectVars, syncVars,
       engineVars, windowVars

(* Every variable has its type at the start, and every step keeps it.      *)
LEMMA TypeInit == Init => TypeOK
<1> SUFFICES ASSUME Init PROVE TypeOK
  OBVIOUS
<1>1. /\ pc \in Points /\ member \in [Kinds -> Nat] /\ queue \in Seq(Work)
      /\ events \in Seq(Extents)
  BY PointNames DEF Init
<1>2. /\ image_available \in Semaphores /\ render_finished \in Semaphores
      /\ in_flight \in Semaphores
  BY DEF Init, Semaphores
<1>3. resizes \in 0 .. MaxResizes
  BY ExtentAssumption DEF Init
<1> QED
  BY <1>1, <1>2, <1>3, Indices DEF Init, TypeOK

(* Every step keeps the types, action by action.                           *)
LEMMA TypeStep == TypeOK /\ [Next]_vars => TypeOK'
<1> SUFFICES ASSUME TypeOK, [Next]_vars PROVE TypeOK'
  OBVIOUS
<1> USE DEF frameVars, resizeVars, objectVars, syncVars, engineVars, windowVars
<1>1. ASSUME create_descriptor_set_layout PROVE TypeOK'
  BY <1>1, KindNames, PointNames
  DEF TypeOK, create_descriptor_set_layout, Semaphores
<1>2. ASSUME create_sync_objects PROVE TypeOK'
  BY <1>2, KindNames, PointNames
  DEF TypeOK, create_sync_objects, Abort, Semaphores
<1>3. ASSUME device_wait_idle PROVE TypeOK'
  BY <1>3, PointNames
  DEF TypeOK, device_wait_idle, Semaphores
<1>4. ASSUME destroy_swapchain_resources PROVE TypeOK'
  BY <1>4, DestroyType, PointNames, KindNames DEF destroy_swapchain_resources
<1>5. ASSUME destroy_swapchain PROVE TypeOK'
  BY <1>5, KindNames, PointNames
  DEF TypeOK, destroy_swapchain, Semaphores
<1>6. ASSUME pick_swapchain_extent PROVE TypeOK'
  <2>1. swapchain_extent' \in Nat
    <3>1. CASE ReportsExtent
      BY <1>6, <3>1, ExtentsAreNaturals DEF TypeOK, pick_swapchain_extent
    <3>2. CASE ~ ReportsExtent
      BY <1>6, <3>2, ExtentsAreNaturals DEF TypeOK, pick_swapchain_extent
    <3> QED
      BY <3>1, <3>2
  <2> QED
    BY <2>1, <1>6, PointNames DEF TypeOK, pick_swapchain_extent
<1>7. ASSUME create_swapchain_objects PROVE TypeOK'
  BY <1>7, SwapchainCreations, CreateType, PointNames, KindNames
<1>8. ASSUME create_command_buffers PROVE TypeOK'
  BY <1>8, KindNames, PointNames
  DEF TypeOK, create_command_buffers, Abort, Semaphores
<1>9. ASSUME create_framebuffers PROVE TypeOK'
  BY <1>9, CreateType, PointNames, KindNames DEF create_framebuffers
<1>10. ASSUME create_uniform_buffers PROVE TypeOK'
  BY <1>10, KindNames, PointNames
  DEF TypeOK, create_uniform_buffers, Semaphores
<1>11. ASSUME record_command_buffers PROVE TypeOK'
  BY <1>11, KindNames, PointNames
  DEF TypeOK, record_command_buffers, Semaphores
<1>12. ASSUME NEW r \in AcquireResults, vkAcquireNextImageKHR(r) PROVE TypeOK'
  BY <1>12, Indices, PointNames
  DEF TypeOK, vkAcquireNextImageKHR, Semaphores, Available
<1>13. ASSUME NEW r \in SubmitResults, submit_queue(r) PROVE TypeOK'
  BY <1>13, KindNames, PointNames, QueueTypes
  DEF TypeOK, submit_queue, Semaphores
<1>14. ASSUME wait_for_fence PROVE TypeOK'
  BY <1>14, PointNames
  DEF TypeOK, wait_for_fence, Semaphores
<1>15. ASSUME reset_fence PROVE TypeOK'
  BY <1>15, PointNames
  DEF TypeOK, reset_fence, Semaphores
<1>16. ASSUME NEW r \in PresentResults, present_queue(r) PROVE TypeOK'
  BY <1>16, KindNames, PointNames, QueueTypes
  DEF TypeOK, present_queue, Semaphores
<1>17. ASSUME advance_frame PROVE TypeOK'
  BY <1>17, Indices, PointNames
  DEF TypeOK, advance_frame, Semaphores
<1>18. ASSUME on_framebuffer_resize PROVE TypeOK'
  BY <1>18, EventTypes, ExtentsAreNaturals, PointNames
  DEF TypeOK, on_framebuffer_resize, Semaphores
<1>19. ASSUME end_of_poll PROVE TypeOK'
  BY <1>19, PointNames
  DEF TypeOK, end_of_poll, Semaphores
<1>20. ASSUME destroy_sync_objects PROVE TypeOK'
  BY <1>20, KindNames, PointNames
  DEF TypeOK, destroy_sync_objects, Semaphores
<1>21. ASSUME destroy_descriptor_set_layout PROVE TypeOK'
  BY <1>21, DestroyType, PointNames, KindNames DEF destroy_descriptor_set_layout
<1>22. ASSUME GpuDraw PROVE TypeOK'
  BY <1>22, QueueTypes
  DEF TypeOK, GpuDraw, Semaphores
<1>23. ASSUME GpuPresent PROVE TypeOK'
  BY <1>23, QueueTypes
  DEF TypeOK, GpuPresent, Semaphores
<1>24. ASSUME NEW f \in Frames, EngineReady(f) PROVE TypeOK'
  BY <1>24, PointNames
  DEF TypeOK, EngineReady, Semaphores
<1>25. ASSUME close_window PROVE TypeOK'
  BY <1>25, PointNames
  DEF TypeOK, close_window
<1>26. ASSUME NEW e \in Extents, SurfaceResized(e) PROVE TypeOK'
  <2>1. resizes' \in 0 .. MaxResizes
    BY <1>26, ExtentAssumption DEF SurfaceResized, TypeOK
  <2> QED
    BY <2>1, <1>26, EventTypes DEF TypeOK, SurfaceResized
<1>27. ASSUME UNCHANGED vars PROVE TypeOK'
  BY <1>27
  DEF TypeOK, vars, Semaphores
<1> QED
  BY <1>1, <1>2, <1>3, <1>4, <1>5, <1>6, <1>7, <1>8, <1>9, <1>10, <1>11,
      <1>12, <1>13, <1>14, <1>15, <1>16, <1>17, <1>18, <1>19, <1>20, <1>21,
      <1>22, <1>23, <1>24, <1>25, <1>26, <1>27
  DEF Next, Host, Gpu, WindowSystem, create_swapchain, draw_frame, poll_events

(* Every step keeps the shape of the queue: the host only passes the wait  *)
(* for its fence once the submission has left the queue.                   *)
LEMMA QueueInvStep == IInv /\ [Next]_vars => QueueInv'
<1> SUFFICES ASSUME IInv, [Next]_vars PROVE QueueInv'
  OBVIOUS
<1> USE DEF FramePoints, CreatePoints, CleanupPoints, QuietPoints, frameVars,
        resizeVars, objectVars, syncVars, engineVars, windowVars
<1>1. ASSUME create_descriptor_set_layout PROVE QueueInv'
  BY <1>1 DEF IInv, QueueInv, create_descriptor_set_layout
<1>2. ASSUME create_sync_objects PROVE QueueInv'
  BY <1>2 DEF IInv, QueueInv, create_sync_objects, Abort
<1>3. ASSUME device_wait_idle PROVE QueueInv'
  BY <1>3 DEF IInv, QueueInv, device_wait_idle
<1>4. ASSUME destroy_swapchain_resources PROVE QueueInv'
  BY <1>4 DEF IInv, QueueInv, destroy_swapchain_resources, Destroy
<1>5. ASSUME destroy_swapchain PROVE QueueInv'
  BY <1>5 DEF IInv, QueueInv, destroy_swapchain
<1>6. ASSUME pick_swapchain_extent PROVE QueueInv'
  BY <1>6 DEF IInv, QueueInv, pick_swapchain_extent, Clamped
<1>7. ASSUME create_swapchain_objects PROVE QueueInv'
  BY <1>7, SwapchainCreations DEF IInv, QueueInv, Create, Abort
<1>8. ASSUME create_command_buffers PROVE QueueInv'
  BY <1>8 DEF IInv, QueueInv, create_command_buffers, Abort
<1>9. ASSUME create_framebuffers PROVE QueueInv'
  BY <1>9 DEF IInv, QueueInv, create_framebuffers, Create, Abort
<1>10. ASSUME create_uniform_buffers PROVE QueueInv'
  BY <1>10 DEF IInv, QueueInv, create_uniform_buffers
<1>11. ASSUME record_command_buffers PROVE QueueInv'
  BY <1>11 DEF IInv, QueueInv, record_command_buffers
<1>12. ASSUME NEW r \in AcquireResults, vkAcquireNextImageKHR(r) PROVE QueueInv'
  BY <1>12 DEF IInv, QueueInv, vkAcquireNextImageKHR
<1>13. ASSUME NEW r \in SubmitResults, submit_queue(r) PROVE QueueInv'
  BY <1>13 DEF IInv, QueueInv, SyncInv, TypeOK, submit_queue
<1>14. ASSUME wait_for_fence PROVE QueueInv'
  BY <1>14 DEF IInv, QueueInv, wait_for_fence
<1>15. ASSUME reset_fence PROVE QueueInv'
  BY <1>15 DEF IInv, QueueInv, reset_fence
<1>16. ASSUME NEW r \in PresentResults, present_queue(r) PROVE QueueInv'
  BY <1>16 DEF IInv, QueueInv, present_queue
<1>17. ASSUME advance_frame PROVE QueueInv'
  BY <1>17, Indices DEF IInv, QueueInv, TypeOK, advance_frame
<1>18. ASSUME on_framebuffer_resize PROVE QueueInv'
  BY <1>18 DEF IInv, QueueInv, on_framebuffer_resize
<1>19. ASSUME end_of_poll PROVE QueueInv'
  BY <1>19 DEF IInv, QueueInv, end_of_poll
<1>20. ASSUME destroy_sync_objects PROVE QueueInv'
  BY <1>20 DEF IInv, QueueInv, destroy_sync_objects
<1>21. ASSUME destroy_descriptor_set_layout PROVE QueueInv'
  BY <1>21 DEF IInv, QueueInv, destroy_descriptor_set_layout, Destroy
<1>22. ASSUME GpuDraw PROVE QueueInv'
  <2>1. Head(queue) = queue[1] /\ 1 \in 1 .. Len(queue) /\ queue[1].op = "draw"
    BY <1>22 DEF IInv, TypeOK, GpuDraw
  <2>2. Len(queue) = 1 /\ pc = "wait_fence"
    BY <2>1 DEF IInv, QueueInv
  <2> QED
    BY <1>22, <2>2 DEF IInv, QueueInv, TypeOK, GpuDraw
<1>23. ASSUME GpuPresent PROVE QueueInv'
  BY <1>23 DEF IInv, QueueInv, GpuPresent
<1>24. ASSUME NEW f \in Frames, EngineReady(f) PROVE QueueInv'
  BY <1>24 DEF IInv, QueueInv, EngineReady
<1>25. ASSUME close_window PROVE QueueInv'
  BY <1>25 DEF IInv, QueueInv, close_window
<1>26. ASSUME NEW e \in Extents, SurfaceResized(e) PROVE QueueInv'
  BY <1>26 DEF IInv, QueueInv, SurfaceResized
<1>27. ASSUME UNCHANGED vars PROVE QueueInv'
  BY <1>27 DEF IInv, QueueInv, vars
<1> QED
  BY <1>1, <1>2, <1>3, <1>4, <1>5, <1>6, <1>7, <1>8, <1>9, <1>10, <1>11,
      <1>12, <1>13, <1>14, <1>15, <1>16, <1>17, <1>18, <1>19, <1>20, <1>21,
      <1>22, <1>23, <1>24, <1>25, <1>26, <1>27
  DEF Next, Host, Gpu, WindowSystem, create_swapchain, draw_frame, poll_events

(* Every step keeps the semaphores and fences of the other frames           *)
(* unsignaled: what a frame arms, it consumes before the next one.         *)
LEMMA SyncInvStep == IInv /\ [Next]_vars => SyncInv'
<1> SUFFICES ASSUME IInv, [Next]_vars PROVE SyncInv'
  OBVIOUS
<1> USE DEF FramePoints, CreatePoints, CleanupPoints, QuietPoints, frameVars,
        resizeVars, objectVars, syncVars, engineVars, windowVars
<1>1. ASSUME create_descriptor_set_layout PROVE SyncInv'
  BY <1>1 DEF IInv, SyncInv, create_descriptor_set_layout
<1>2. ASSUME create_sync_objects PROVE SyncInv'
  BY <1>2 DEF IInv, SyncInv, create_sync_objects, Abort
<1>3. ASSUME device_wait_idle PROVE SyncInv'
  BY <1>3 DEF IInv, SyncInv, device_wait_idle
<1>4. ASSUME destroy_swapchain_resources PROVE SyncInv'
  BY <1>4 DEF IInv, SyncInv, destroy_swapchain_resources, Destroy
<1>5. ASSUME destroy_swapchain PROVE SyncInv'
  BY <1>5 DEF IInv, SyncInv, destroy_swapchain
<1>6. ASSUME pick_swapchain_extent PROVE SyncInv'
  BY <1>6 DEF IInv, SyncInv, pick_swapchain_extent, Clamped
<1>7. ASSUME create_swapchain_objects PROVE SyncInv'
  BY <1>7, SwapchainCreations DEF IInv, SyncInv, Create, Abort
<1>8. ASSUME create_command_buffers PROVE SyncInv'
  BY <1>8 DEF IInv, SyncInv, create_command_buffers, Abort
<1>9. ASSUME create_framebuffers PROVE SyncInv'
  BY <1>9 DEF IInv, SyncInv, create_framebuffers, Create, Abort
<1>10. ASSUME create_uniform_buffers PROVE SyncInv'
  BY <1>10 DEF IInv, SyncInv, create_uniform_buffers
<1>11. ASSUME record_command_buffers PROVE SyncInv'
  BY <1>11 DEF IInv, QueueInv, SyncInv, TypeOK, record_command_buffers
<1>12. ASSUME NEW r \in AcquireResults, vkAcquireNextImageKHR(r) PROVE SyncInv'
  <2>1. /\ pc = "acquire" /\ UNCHANGED << current_frame, render_finished, in_flight, queue >>
        /\ pc' \in { "submit", "wait_idle" }
        /\ caller' = caller \/ caller' = "acquire"
    BY <1>12 DEF vkAcquireNextImageKHR
  <2>2. \A f \in Frames :
          \/ image_available'[f] = image_available[f]
          \/ f = current_frame /\ image_available'[f] = "pending" /\ pc' = "submit"
    BY <1>12 DEF IInv, TypeOK, Semaphores, vkAcquireNextImageKHR
  <2> QED
    BY <2>1, <2>2 DEF IInv, SyncInv
<1>13. ASSUME NEW r \in SubmitResults, submit_queue(r) PROVE SyncInv'
  BY <1>13 DEF IInv, SyncInv, submit_queue
<1>14. ASSUME wait_for_fence PROVE SyncInv'
  BY <1>14 DEF IInv, SyncInv, wait_for_fence
<1>15. ASSUME reset_fence PROVE SyncInv'
  BY <1>15 DEF IInv, QueueInv, SyncInv, TypeOK, Semaphores, reset_fence
<1>16. ASSUME NEW r \in PresentResults, present_queue(r) PROVE SyncInv'
  BY <1>16 DEF IInv, SyncInv, present_queue
<1>17. ASSUME advance_frame PROVE SyncInv'
  BY <1>17 DEF IInv, SyncInv, advance_frame
<1>18. ASSUME on_framebuffer_resize PROVE SyncInv'
  BY <1>18 DEF IInv, SyncInv, on_framebuffer_resize
<1>19. ASSUME end_of_poll PROVE SyncInv'
  BY <1>19 DEF IInv, SyncInv, end_of_poll
<1>20. ASSUME destroy_sync_objects PROVE SyncInv'
  BY <1>20 DEF IInv, SyncInv, destroy_sync_objects
<1>21. ASSUME destroy_descriptor_set_layout PROVE SyncInv'
  BY <1>21 DEF IInv, SyncInv, destroy_descriptor_set_layout, Destroy
<1>22. ASSUME GpuDraw PROVE SyncInv'
  <2>1. Head(queue) = queue[1] /\ 1 \in 1 .. Len(queue) /\ queue[1].op = "draw"
    BY <1>22 DEF IInv, TypeOK, GpuDraw
  <2>2. Len(queue) = 1 /\ queue[1].frame = current_frame /\ pc = "wait_fence"
    BY <2>1 DEF IInv, QueueInv
  <2>3. queue' = << >> /\ pc' = pc /\ caller' = caller /\ current_frame' = current_frame
    BY <1>22, <2>2 DEF IInv, TypeOK, GpuDraw
  <2> QED
    BY <1>22, <2>1, <2>2, <2>3 DEF IInv, SyncInv, TypeOK, Semaphores, GpuDraw
<1>23. ASSUME GpuPresent PROVE SyncInv'
  <2>1. /\ Head(queue) = queue[1] /\ Head(queue).frame \in Frames
        /\ \A j \in 1 .. Len(queue) :
             j = 1 \/ (j - 1 \in 1 .. Len(queue') /\ queue'[j - 1] = queue[j])
    BY <1>23, QueueTypes DEF IInv, TypeOK, GpuPresent
  <2>2. ASSUME NEW f \in Frames, f # Head(queue).frame, NEW j \in 1 .. Len(queue),
               queue[j].op = "present", queue[j].frame = f
        PROVE  \E i \in 1 .. Len(queue') : queue'[i].op = "present" /\ queue'[i].frame = f
    <3>1. j # 1
      BY <2>1, <2>2
    <3> QED
      BY <2>1, <2>2, <3>1
  <2>3. /\ render_finished'[Head(queue).frame] = "unsignaled"
        /\ \A f \in Frames \ { Head(queue).frame } :
             render_finished'[f] = render_finished[f]
    BY <1>23, <2>1 DEF IInv, TypeOK, Semaphores, GpuPresent
  <2> QED
    BY <1>23, <2>1, <2>2, <2>3 DEF IInv, SyncInv, GpuPresent
<1>24. ASSUME NEW f \in Frames, EngineReady(f) PROVE SyncInv'
  BY <1>24 DEF IInv, SyncInv, EngineReady
<1>25. ASSUME close_window PROVE SyncInv'
  BY <1>25 DEF IInv, SyncInv, close_window
<1>26. ASSUME NEW e \in Extents, SurfaceResized(e) PROVE SyncInv'
  BY <1>26 DEF IInv, SyncInv, SurfaceResized
<1>27. ASSUME UNCHANGED vars PROVE SyncInv'
  BY <1>27 DEF IInv, SyncInv, vars
<1> QED
  BY <1>1, <1>2, <1>3, <1>4, <1>5, <1>6, <1>7, <1>8, <1>9, <1>10, <1>11,
      <1>12, <1>13, <1>14, <1>15, <1>16, <1>17, <1>18, <1>19, <1>20, <1>21,
      <1>22, <1>23, <1>24, <1>25, <1>26, <1>27
  DEF Next, Host, Gpu, WindowSystem, create_swapchain, draw_frame, poll_events

(* Every step of create_swapchain adds the object it stands for, and       *)
(* frames are drawn with all of them.                                      *)
LEMMA ObjectInvStep == IInv /\ [Next]_vars => ObjectInv'
<1> SUFFICES ASSUME IInv, [Next]_vars PROVE ObjectInv'
  OBVIOUS
<1> USE DEF FramePoints, CreatePoints, CleanupPoints, QuietPoints, frameVars,
        resizeVars, objectVars, syncVars, engineVars, windowVars
<1>1. ASSUME create_descriptor_set_layout PROVE ObjectInv'
  BY <1>1 DEF IInv, ObjectInv, Alive, create_descriptor_set_layout
<1>2. ASSUME create_sync_objects PROVE ObjectInv'
  BY <1>2 DEF IInv, ObjectInv, Alive, create_sync_objects, Abort
<1>3. ASSUME device_wait_idle PROVE ObjectInv'
  BY <1>3 DEF IInv, ObjectInv, Alive, device_wait_idle
<1>4. ASSUME destroy_swapchain_resources PROVE ObjectInv'
  BY <1>4 DEF IInv, ObjectInv, Alive, destroy_swapchain_resources, Destroy
<1>5. ASSUME destroy_swapchain PROVE ObjectInv'
  BY <1>5 DEF IInv, ObjectInv, Alive, destroy_swapchain
<1>6. ASSUME pick_swapchain_extent PROVE ObjectInv'
  BY <1>6, KindNames
  DEF IInv, ObjectInv, Alive, TypeOK, SwapchainKinds, pick_swapchain_extent
<1>7. ASSUME create_swapchain_objects PROVE ObjectInv'
  BY <1>7, SwapchainCreations, KindNames
  DEF IInv, ObjectInv, Alive, TypeOK, SwapchainKinds, Create, Abort
<1>8. ASSUME create_command_buffers PROVE ObjectInv'
  <2>1. CASE pc' = "aborted"
    BY <2>1 DEF ObjectInv
  <2>2. CASE pc' = "create_framebuffers"
    <3>1. /\ \A k \in SwapchainKinds : Alive(k) => Alive(k)'
          /\ member'["command_buffers"] = generation /\ generation' = generation
          /\ recorded' = {} /\ pc = "create_command_buffers"
      BY <1>8, <2>2, KindNames
      DEF IInv, TypeOK, Alive, SwapchainKinds, create_command_buffers, Abort
    <3> QED
      BY <2>2, <3>1 DEF IInv, ObjectInv, SwapchainKinds
  <2> QED
    BY <1>8, <2>1, <2>2 DEF create_command_buffers, Abort
<1>9. ASSUME create_framebuffers PROVE ObjectInv'
  BY <1>9, KindNames
  DEF IInv, ObjectInv, Alive, TypeOK, SwapchainKinds, create_framebuffers,
      Create, Abort
<1>10. ASSUME create_uniform_buffers PROVE ObjectInv'
  BY <1>10, KindNames
  DEF IInv, ObjectInv, Alive, TypeOK, SwapchainKinds, create_uniform_buffers
<1>11. ASSUME record_command_buffers PROVE ObjectInv'
  BY <1>11, KindNames
  DEF IInv, ObjectInv, Alive, TypeOK, SwapchainKinds, record_command_buffers
<1>12. ASSUME NEW r \in AcquireResults, vkAcquireNextImageKHR(r) PROVE ObjectInv'
  BY <1>12 DEF IInv, ObjectInv, Alive, vkAcquireNextImageKHR
<1>13. ASSUME NEW r \in SubmitResults, submit_queue(r) PROVE ObjectInv'
  BY <1>13 DEF IInv, ObjectInv, Alive, submit_queue
<1>14. ASSUME wait_for_fence PROVE ObjectInv'
  BY <1>14 DEF IInv, ObjectInv, Alive, wait_for_fence
<1>15. ASSUME reset_fence PROVE ObjectInv'
  BY <1>15 DEF IInv, ObjectInv, Alive, reset_fence
<1>16. ASSUME NEW r \in PresentResults, present_queue(r) PROVE ObjectInv'
  BY <1>16 DEF IInv, ObjectInv, Alive, present_queue
<1>17. ASSUME advance_frame PROVE ObjectInv'
  BY <1>17 DEF IInv, ObjectInv, Alive, advance_frame
<1>18. ASSUME on_framebuffer_resize PROVE ObjectInv'
  BY <1>18 DEF IInv, ObjectInv, Alive, on_framebuffer_resize
<1>19. ASSUME end_of_poll PROVE ObjectInv'
  BY <1>19 DEF IInv, ObjectInv, Alive, end_of_poll
<1>20. ASSUME destroy_sync_objects PROVE ObjectInv'
  BY <1>20 DEF IInv, ObjectInv, Alive, destroy_sync_objects
<1>21. ASSUME destroy_descriptor_set_layout PROVE ObjectInv'
  BY <1>21 DEF IInv, ObjectInv, Alive, destroy_descriptor_set_layout, Destroy
<1>22. ASSUME GpuDraw PROVE ObjectInv'
  BY <1>22 DEF IInv, ObjectInv, Alive, GpuDraw
<1>23. ASSUME GpuPresent PROVE ObjectInv'
  BY <1>23 DEF IInv, ObjectInv, Alive, GpuPresent
<1>24. ASSUME NEW f \in Frames, EngineReady(f) PROVE ObjectInv'
  BY <1>24 DEF IInv, ObjectInv, Alive, EngineReady
<1>25. ASSUME close_window PROVE ObjectInv'
  BY <1>25 DEF IInv, ObjectInv, Alive, close_window
<1>26. ASSUME NEW e \in Extents, SurfaceResized(e) PROVE ObjectInv'
  BY <1>26 DEF IInv, ObjectInv, Alive, SurfaceResized
<1>27. ASSUME UNCHANGED vars PROVE ObjectInv'
  BY <1>27 DEF IInv, ObjectInv, Alive, vars
<1> QED
  BY <1>1, <1>2, <1>3, <1>4, <1>5, <1>6, <1>7, <1>8, <1>9, <1>10, <1>11,
      <1>12, <1>13, <1>14, <1>15, <1>16, <1>17, <1>18, <1>19, <1>20, <1>21,
      <1>22, <1>23, <1>24, <1>25, <1>26, <1>27
  DEF Next, Host, Gpu, WindowSystem, create_swapchain, draw_frame, poll_events

(* Every step gives back or keeps the image of the current frame.          *)
LEMMA HeldInvStep == IInv /\ [Next]_vars => HeldInv'
<1> SUFFICES ASSUME IInv, [Next]_vars PROVE HeldInv'
  OBVIOUS
<1> USE DEF FramePoints, CreatePoints, CleanupPoints, QuietPoints, frameVars,
        resizeVars, objectVars, syncVars, engineVars, windowVars
<1>1. ASSUME create_descriptor_set_layout PROVE HeldInv'
  BY <1>1 DEF IInv, HeldInv, create_descriptor_set_layout
<1>2. ASSUME create_sync_objects PROVE HeldInv'
  BY <1>2 DEF IInv, HeldInv, create_sync_objects, Abort
<1>3. ASSUME device_wait_idle PROVE HeldInv'
  BY <1>3 DEF IInv, HeldInv, device_wait_idle
<1>4. ASSUME destroy_swapchain_resources PROVE HeldInv'
  BY <1>4 DEF IInv, HeldInv, destroy_swapchain_resources, Destroy
<1>5. ASSUME destroy_swapchain PROVE HeldInv'
  BY <1>5 DEF IInv, HeldInv, destroy_swapchain
<1>6. ASSUME pick_swapchain_extent PROVE HeldInv'
  BY <1>6 DEF IInv, HeldInv, pick_swapchain_extent, Clamped
<1>7. ASSUME create_swapchain_objects PROVE HeldInv'
  BY <1>7, SwapchainCreations DEF IInv, HeldInv, Create, Abort
<1>8. ASSUME create_command_buffers PROVE HeldInv'
  BY <1>8 DEF IInv, HeldInv, create_command_buffers, Abort
<1>9. ASSUME create_framebuffers PROVE HeldInv'
  BY <1>9 DEF IInv, HeldInv, create_framebuffers, Create, Abort
<1>10. ASSUME create_uniform_buffers PROVE HeldInv'
  BY <1>10 DEF IInv, HeldInv, create_uniform_buffers
<1>11. ASSUME record_command_buffers PROVE HeldInv'
  BY <1>11 DEF IInv, HeldInv, record_command_buffers
<1>12. ASSUME NEW r \in AcquireResults, vkAcquireNextImageKHR(r) PROVE HeldInv'
  BY <1>12 DEF IInv, HeldInv, vkAcquireNextImageKHR
<1>13. ASSUME NEW r \in SubmitResults, submit_queue(r) PROVE HeldInv'
  BY <1>13 DEF IInv, HeldInv, submit_queue
<1>14. ASSUME wait_for_fence PROVE HeldInv'
  BY <1>14 DEF IInv, HeldInv, wait_for_fence
<1>15. ASSUME reset_fence PROVE HeldInv'
  BY <1>15 DEF IInv, HeldInv, reset_fence
<1>16. ASSUME NEW r \in PresentResults, present_queue(r) PROVE HeldInv'
  BY <1>16 DEF IInv, HeldInv, present_queue
<1>17. ASSUME advance_frame PROVE HeldInv'
  BY <1>17 DEF IInv, HeldInv, advance_frame
<1>18. ASSUME on_framebuffer_resize PROVE HeldInv'
  BY <1>18 DEF IInv, HeldInv, on_framebuffer_resize
<1>19. ASSUME end_of_poll PROVE HeldInv'
  BY <1>19 DEF IInv, HeldInv, end_of_poll
<1>20. ASSUME destroy_sync_objects PROVE HeldInv'
  BY <1>20 DEF IInv, HeldInv, destroy_sync_objects
<1>21. ASSUME destroy_descriptor_set_layout PROVE HeldInv'
  BY <1>21 DEF IInv, HeldInv, destroy_descriptor_set_layout, Destroy
<1>22. ASSUME GpuDraw PROVE HeldInv'
  BY <1>22 DEF IInv, HeldInv, GpuDraw
<1>23. ASSUME GpuPresent PROVE HeldInv'
  BY <1>23 DEF IInv, HeldInv, GpuPresent
<1>24. ASSUME NEW f \in Frames, EngineReady(f) PROVE HeldInv'
  BY <1>24 DEF IInv, HeldInv, EngineReady
<1>25. ASSUME close_window PROVE HeldInv'
  BY <1>25 DEF IInv, HeldInv, close_window
<1>26. ASSUME NEW e \in Extents, SurfaceResized(e) PROVE HeldInv'
  BY <1>26 DEF IInv, HeldInv, SurfaceResized
<1>27. ASSUME UNCHANGED vars PROVE HeldInv'
  BY <1>27 DEF IInv, HeldInv, vars
<1> QED
  BY <1>1, <1>2, <1>3, <1>4, <1>5, <1>6, <1>7, <1>8, <1>9, <1>10, <1>11,
      <1>12, <1>13, <1>14, <1>15, <1>16, <1>17, <1>18, <1>19, <1>20, <1>21,
      <1>22, <1>23, <1>24, <1>25, <1>26, <1>27
  DEF Next, Host, Gpu, WindowSystem, create_swapchain, draw_frame, poll_events

(* No step forgets a resize of the surface.                                *)
LEMMA ResizeInvStep == IInv /\ [Next]_vars => ResizeInv'
<1> SUFFICES ASSUME IInv, [Next]_vars PROVE ResizeInv'
  OBVIOUS
<1> USE DEF FramePoints, CreatePoints, CleanupPoints, QuietPoints, frameVars,
        resizeVars, objectVars, syncVars, engineVars, windowVars
<1>1. ASSUME create_descriptor_set_layout PROVE ResizeInv'
  BY <1>1 DEF IInv, ResizeInv, create_descriptor_set_layout
<1>2. ASSUME create_sync_objects PROVE ResizeInv'
  BY <1>2 DEF IInv, ResizeInv, create_sync_objects, Abort
<1>3. ASSUME device_wait_idle PROVE ResizeInv'
  BY <1>3 DEF IInv, ResizeInv, device_wait_idle
<1>4. ASSUME destroy_swapchain_resources PROVE ResizeInv'
  BY <1>4 DEF IInv, ResizeInv, destroy_swapchain_resources, Destroy
<1>5. ASSUME destroy_swapchain PROVE ResizeInv'
  BY <1>5 DEF IInv, ResizeInv, destroy_swapchain
<1>6. ASSUME pick_swapchain_extent PROVE ResizeInv'
  BY <1>6 DEF IInv, ResizeInv, pick_swapchain_extent, Clamped
<1>7. ASSUME create_swapchain_objects PROVE ResizeInv'
  BY <1>7, SwapchainCreations DEF IInv, ResizeInv, Create, Abort
<1>8. ASSUME create_command_buffers PROVE ResizeInv'
  BY <1>8 DEF IInv, ResizeInv, create_command_buffers, Abort
<1>9. ASSUME create_framebuffers PROVE ResizeInv'
  BY <1>9 DEF IInv, ResizeInv, create_framebuffers, Create, Abort
<1>10. ASSUME create_uniform_buffers PROVE ResizeInv'
  BY <1>10 DEF IInv, ResizeInv, create_uniform_buffers
<1>11. ASSUME record_command_buffers PROVE ResizeInv'
  BY <1>11 DEF IInv, ResizeInv, record_command_buffers
<1>12. ASSUME NEW r \in AcquireResults, vkAcquireNextImageKHR(r) PROVE ResizeInv'
  BY <1>12 DEF IInv, ResizeInv, vkAcquireNextImageKHR
<1>13. ASSUME NEW r \in SubmitResults, submit_queue(r) PROVE ResizeInv'
  BY <1>13 DEF IInv, ResizeInv, submit_queue
<1>14. ASSUME wait_for_fence PROVE ResizeInv'
  BY <1>14 DEF IInv, ResizeInv, wait_for_fence
<1>15. ASSUME reset_fence PROVE ResizeInv'
  BY <1>15 DEF IInv, ResizeInv, reset_fence
<1>16. ASSUME NEW r \in PresentResults, present_queue(r) PROVE ResizeInv'
  BY <1>16 DEF IInv, ResizeInv, present_queue
<1>17. ASSUME advance_frame PROVE ResizeInv'
  BY <1>17 DEF IInv, ResizeInv, advance_frame
<1>18. ASSUME on_framebuffer_resize PROVE ResizeInv'
  BY <1>18 DEF IInv, ResizeInv, on_framebuffer_resize
<1>19. ASSUME end_of_poll PROVE ResizeInv'
  BY <1>19 DEF IInv, ResizeInv, end_of_poll
<1>20. ASSUME destroy_sync_objects PROVE ResizeInv'
  BY <1>20 DEF IInv, ResizeInv, destroy_sync_objects
<1>21. ASSUME destroy_descriptor_set_layout PROVE ResizeInv'
  BY <1>21 DEF IInv, ResizeInv, destroy_descriptor_set_layout, Destroy
<1>22. ASSUME GpuDraw PROVE ResizeInv'
  BY <1>22 DEF IInv, ResizeInv, GpuDraw
<1>23. ASSUME GpuPresent PROVE ResizeInv'
  BY <1>23 DEF IInv, ResizeInv, GpuPresent
<1>24. ASSUME NEW f \in Frames, EngineReady(f) PROVE ResizeInv'
  BY <1>24 DEF IInv, ResizeInv, EngineReady
<1>25. ASSUME close_window PROVE ResizeInv'
  BY <1>25 DEF IInv, ResizeInv, close_window
<1>26. ASSUME NEW e \in Extents, SurfaceResized(e) PROVE ResizeInv'
  BY <1>26 DEF IInv, ResizeInv, SurfaceResized
<1>27. ASSUME UNCHANGED vars PROVE ResizeInv'
  BY <1>27 DEF IInv, ResizeInv, vars
<1> QED
  BY <1>1, <1>2, <1>3, <1>4, <1>5, <1>6, <1>7, <1>8, <1>9, <1>10, <1>11,
      <1>12, <1>13, <1>14, <1>15, <1>16, <1>17, <1>18, <1>19, <1>20, <1>21,
      <1>22, <1>23, <1>24, <1>25, <1>26, <1>27
  DEF Next, Host, Gpu, WindowSystem, create_swapchain, draw_frame, poll_events

(* No step destroys what the queue still uses.                             *)
LEMMA WorkUsesLiveObjectsStep == IInv /\ [Next]_vars => WorkUsesLiveObjects'
<1> SUFFICES ASSUME IInv, [Next]_vars PROVE WorkUsesLiveObjects'
  OBVIOUS
<1> USE DEF FramePoints, CreatePoints, CleanupPoints, QuietPoints, frameVars,
        resizeVars, objectVars, syncVars, engineVars, windowVars
<1>1. ASSUME create_descriptor_set_layout PROVE WorkUsesLiveObjects'
  BY <1>1 DEF IInv, QueueInv, WorkUsesLiveObjects, create_descriptor_set_layout
<1>2. ASSUME create_sync_objects PROVE WorkUsesLiveObjects'
  BY <1>2 DEF IInv, QueueInv, WorkUsesLiveObjects, create_sync_objects, Abort
<1>3. ASSUME device_wait_idle PROVE WorkUsesLiveObjects'
  BY <1>3 DEF IInv, QueueInv, WorkUsesLiveObjects, device_wait_idle
<1>4. ASSUME destroy_swapchain_resources PROVE WorkUsesLiveObjects'
  BY <1>4
  DEF IInv, QueueInv, WorkUsesLiveObjects, destroy_swapchain_resources,
      Destroy
<1>5. ASSUME destroy_swapchain PROVE WorkUsesLiveObjects'
  BY <1>5 DEF IInv, QueueInv, WorkUsesLiveObjects, destroy_swapchain
<1>6. ASSUME pick_swapchain_extent PROVE WorkUsesLiveObjects'
  BY <1>6
  DEF IInv, QueueInv, WorkUsesLiveObjects, pick_swapchain_extent, Clamped
<1>7. ASSUME create_swapchain_objects PROVE WorkUsesLiveObjects'
  BY <1>7, SwapchainCreations
  DEF IInv, QueueInv, WorkUsesLiveObjects, Create,
      Abort
<1>8. ASSUME create_command_buffers PROVE WorkUsesLiveObjects'
  BY <1>8 DEF IInv, QueueInv, WorkUsesLiveObjects, create_command_buffers, Abort
<1>9. ASSUME create_framebuffers PROVE WorkUsesLiveObjects'
  BY <1>9
  DEF IInv, QueueInv, WorkUsesLiveObjects, create_framebuffers, Create, Abort
<1>10. ASSUME create_uniform_buffers PROVE WorkUsesLiveObjects'
  BY <1>10 DEF IInv, QueueInv, WorkUsesLiveObjects, create_uniform_buffers
<1>11. ASSUME record_command_buffers PROVE WorkUsesLiveObjects'
  BY <1>11 DEF IInv, QueueInv, WorkUsesLiveObjects, record_command_buffers
<1>12. ASSUME NEW r \in AcquireResults, vkAcquireNextImageKHR(r) PROVE WorkUsesLiveObjects'
  BY <1>12 DEF IInv, QueueInv, WorkUsesLiveObjects, vkAcquireNextImageKHR
<1>13. ASSUME NEW r \in SubmitResults, submit_queue(r) PROVE WorkUsesLiveObjects'
  <2>1. recorded \subseteq live
    BY <1>13
    DEF IInv, ObjectInv, Alive, References, SwapchainKinds, submit_queue
  <2>2. \A j \in 1 .. Len(queue') :
          queue'[j].uses = recorded \/ (j \in 1 .. Len(queue) /\ queue'[j] = queue[j])
    BY <1>13 DEF IInv, TypeOK, submit_queue
  <2> QED
    BY <1>13, <2>1, <2>2 DEF IInv, WorkUsesLiveObjects, submit_queue
<1>14. ASSUME wait_for_fence PROVE WorkUsesLiveObjects'
  BY <1>14 DEF IInv, QueueInv, WorkUsesLiveObjects, wait_for_fence
<1>15. ASSUME reset_fence PROVE WorkUsesLiveObjects'
  BY <1>15 DEF IInv, QueueInv, WorkUsesLiveObjects, reset_fence
<1>16. ASSUME NEW r \in PresentResults, present_queue(r) PROVE WorkUsesLiveObjects'
  <2>1. Alive("swapchain") /\ queue = << >>
    BY <1>16 DEF IInv, ObjectInv, QueueInv, SwapchainKinds, present_queue
  <2>2. \A j \in 1 .. Len(queue') :
          queue'[j].uses = { << "swapchain", member["swapchain"] >> }
    BY <1>16, <2>1 DEF present_queue
  <2> QED
    BY <1>16, <2>1, <2>2 DEF WorkUsesLiveObjects, Alive, present_queue
<1>17. ASSUME advance_frame PROVE WorkUsesLiveObjects'
  BY <1>17 DEF IInv, QueueInv, WorkUsesLiveObjects, advance_frame
<1>18. ASSUME on_framebuffer_resize PROVE WorkUsesLiveObjects'
  BY <1>18 DEF IInv, QueueInv, WorkUsesLiveObjects, on_framebuffer_resize
<1>19. ASSUME end_of_poll PROVE WorkUsesLiveObjects'
  BY <1>19 DEF IInv, QueueInv, WorkUsesLiveObjects, end_of_poll
<1>20. ASSUME destroy_sync_objects PROVE WorkUsesLiveObjects'
  BY <1>20 DEF IInv, QueueInv, WorkUsesLiveObjects, destroy_sync_objects
<1>21. ASSUME destroy_descriptor_set_layout PROVE WorkUsesLiveObjects'
  BY <1>21
  DEF IInv, QueueInv, WorkUsesLiveObjects, destroy_descriptor_set_layout,
      Destroy
<1>22. ASSUME GpuDraw PROVE WorkUsesLiveObjects'
  BY <1>22 DEF IInv, QueueInv, WorkUsesLiveObjects, GpuDraw
<1>23. ASSUME GpuPresent PROVE WorkUsesLiveObjects'
  BY <1>23 DEF IInv, QueueInv, WorkUsesLiveObjects, GpuPresent
<1>24. ASSUME NEW f \in Frames, EngineReady(f) PROVE WorkUsesLiveObjects'
  BY <1>24 DEF IInv, QueueInv, WorkUsesLiveObjects, EngineReady
<1>25. ASSUME close_window PROVE WorkUsesLiveObjects'
  BY <1>25 DEF IInv, QueueInv, WorkUsesLiveObjects, close_window
<1>26. ASSUME NEW e \in Extents, SurfaceResized(e) PROVE WorkUsesLiveObjects'
  BY <1>26 DEF IInv, QueueInv, WorkUsesLiveObjects, SurfaceResized
<1>27. ASSUME UNCHANGED vars PROVE WorkUsesLiveObjects'
  BY <1>27 DEF IInv, QueueInv, WorkUsesLiveObjects, vars
<1> QED
  BY <1>1, <1>2, <1>3, <1>4, <1>5, <1>6, <1>7, <1>8, <1>9, <1>10, <1>11,
      <1>12, <1>13, <1>14, <1>15, <1>16, <1>17, <1>18, <1>19, <1>20, <1>21,
      <1>22, <1>23, <1>24, <1>25, <1>26, <1>27
  DEF Next, Host, Gpu, WindowSystem, create_swapchain, draw_frame, poll_events

(* The inductive invariant holds in every reachable state.                 *)
THEOREM Invariance == Spec => []IInv
<1>1. Init => IInv
  <2> SUFFICES ASSUME Init PROVE IInv
    OBVIOUS
  <2>1. TypeOK
    BY TypeInit
  <2>2. QueueInv /\ WorkUsesLiveObjects /\ HeldInv
    BY DEF Init, QueueInv, WorkUsesLiveObjects, HeldInv, CleanupPoints
  <2>3. SyncInv
    BY DEF Init, SyncInv, FramePoints
  <2>4. ObjectInv /\ ResizeInv
    BY DEF Init, ObjectInv, ResizeInv, FramePoints, CreatePoints
  <2> QED
    BY <2>1, <2>2, <2>3, <2>4 DEF IInv
<1>2. IInv /\ [Next]_vars => IInv'
  BY TypeStep, QueueInvStep, SyncInvStep, ObjectInvStep, HeldInvStep,
     ResizeInvStep, WorkUsesLiveObjectsStep
  DEF IInv
<1> QED
  BY <1>1, <1>2, PTL DEF Spec

(* Every variable of the renderer keeps its type: in particular            *)
(* current_frame and image_index stay inside the arrays they index.        *)
THEOREM TypeCorrect == Spec => []TypeOK
<1>1. IInv => TypeOK
  BY DEF IInv
<1> QED
  BY <1>1, Invariance, PTL

(* draw_frame never submits a command buffer, fence or semaphore that work *)
(* on the queue still uses.                                                *)
THEOREM SubmissionsIdle == Spec => []SubmitsIdleObjects
<1>1. IInv => SubmitsIdleObjects
  <2> SUFFICES ASSUME IInv, pc = "submit" PROVE SubmitsIdleObjects
    BY DEF SubmitsIdleObjects
  <2>1. /\ in_flight[current_frame] = "unsignaled"
        /\ render_finished[current_frame] = "unsignaled"
    <3>1. \A j \in 1 .. Len(queue) :
            queue[j].op = "present" => queue[j].frame # current_frame
      BY DEF IInv, QueueInv
    <3> QED
      BY <3>1 DEF IInv, TypeOK, SyncInv, FramePoints
  <2>2. ASSUME NEW j \in 1 .. Len(queue)
        PROVE  queue[j].frame # current_frame /\ queue[j].buffer = 0
    <3>1. queue[j].op \in { "draw", "present" }
      BY QueueTypes DEF IInv, TypeOK
    <3> QED
      BY <3>1 DEF IInv, QueueInv
  <2>3. member["command_buffers"] # 0
    BY DEF IInv, ObjectInv, FramePoints
  <2> QED
    BY <2>1, <2>2, <2>3 DEF SubmitsIdleObjects
<1> QED
  BY <1>1, Invariance, PTL

(* draw_frame never acquires with a semaphore that is signaled or that     *)
(* something still waits on.                                               *)
THEOREM AcquisitionsIdle == Spec => []AcquiresWithIdleSemaphore
<1>1. IInv => AcquiresWithIdleSemaphore
  <2> SUFFICES ASSUME IInv, pc = "acquire" PROVE AcquiresWithIdleSemaphore
    BY DEF AcquiresWithIdleSemaphore
  <2>1. image_available[current_frame] = "unsignaled"
    BY DEF IInv, TypeOK, Semaphores, SyncInv, FramePoints
  <2>2. \A j \in Draws(queue) : queue[j].frame # current_frame
    BY DEF IInv, QueueInv, Draws
  <2> QED
    BY <2>1, <2>2 DEF AcquiresWithIdleSemaphore
<1> QED
  BY <1>1, Invariance, PTL

(* Nothing the queue still uses is destroyed.                              *)
THEOREM WorkSafe == Spec => []WorkUsesLiveObjects
<1>1. IInv => WorkUsesLiveObjects
  BY DEF IInv
<1> QED
  BY <1>1, Invariance, PTL

(* What is submitted was recorded for the objects held now.                *)
THEOREM RecordingsCurrent == Spec => []SubmitsCurrentRecording
<1>1. IInv => SubmitsCurrentRecording
  BY DEF IInv, ObjectInv, Alive, SubmitsCurrentRecording, FramePoints, SwapchainKinds
<1> QED
  BY <1>1, Invariance, PTL

(* At most one image is held, and none when another is asked for or the    *)
(* swapchain is destroyed.                                                 *)
THEOREM OneImageHeld == Spec => []HoldsOneImage
<1>1. IInv => HoldsOneImage
  BY DEF IInv, HeldInv, HoldsOneImage
<1> QED
  BY <1>1, Invariance, PTL

(* No resize of the surface is lost, if each is announced or the surface   *)
(* leaves its extent to the application: a resize of one dimension, which  *)
(* poll_events passes over (window.cpp:264), can only be learned from the  *)
(* surface.                                                                *)
THEOREM ResizesKept ==
  ASSUME ~ OneDimension \/ ~ ReportsExtent
  PROVE  Spec => []NoResizeLost
<1>1. IInv => NoResizeLost
  BY DEF IInv, ResizeInv, NoResizeLost
<1> QED
  BY <1>1, Invariance, PTL
=============================================================================
