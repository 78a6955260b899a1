---------------------------- MODULE ObjectProofs ----------------------------
(***************************************************************************)
(* Theorems about the objects of Renderer, on top of those of              *)
(* RendererProofs: none is forgotten, kept too long or destroyed before    *)
(* what was created from it, whatever calls fail.                          *)
(***************************************************************************)
EXTENDS RendererProofs

(* Points reached with all handles as they are.                            *)
KeptPoints == FramePoints \cup { "create_sync", "wait_idle", "destroy_uniform_buffers",
                                 "destroy_sync", "aborted" }

(* The steps of the renderer by what they do to its objects.               *)
LEMMA ObjectSteps ==
  ASSUME [Next]_vars
  PROVE  \/ create_descriptor_set_layout
         \/ destroy_swapchain_resources
         \/ destroy_swapchain
         \/ pick_swapchain_extent
         \/ create_swapchain_objects
         \/ create_command_buffers
         \/ create_framebuffers
         \/ create_uniform_buffers
         \/ destroy_descriptor_set_layout
         \/ /\ UNCHANGED << member, live >>
            /\ pc' = pc \/ pc' \in KeptPoints
<1> DEFINE Kept == /\ UNCHANGED << member, live >>
                   /\ pc' = pc \/ pc' \in KeptPoints
<1> USE DEF objectVars, KeptPoints, FramePoints
<1>1. ASSUME create_sync_objects PROVE Kept
  BY <1>1 DEF create_sync_objects, Abort
<1>2. ASSUME device_wait_idle PROVE Kept
  BY <1>2 DEF device_wait_idle
<1>3. ASSUME record_command_buffers PROVE Kept
  BY <1>3 DEF record_command_buffers
<1>4. ASSUME NEW r \in AcquireResults, vkAcquireNextImageKHR(r) PROVE Kept
  BY <1>4 DEF vkAcquireNextImageKHR
<1>5. ASSUME NEW r \in SubmitResults, submit_queue(r) PROVE Kept
  BY <1>5 DEF submit_queue
<1>6. ASSUME wait_for_fence PROVE Kept
  BY <1>6 DEF wait_for_fence
<1>7. ASSUME reset_fence PROVE Kept
  BY <1>7 DEF reset_fence
<1>8. ASSUME NEW r \in PresentResults, present_queue(r) PROVE Kept
  BY <1>8 DEF present_queue
<1>9. ASSUME advance_frame PROVE Kept
  BY <1>9 DEF advance_frame
<1>10. ASSUME on_framebuffer_resize PROVE Kept
  BY <1>10 DEF on_framebuffer_resize
<1>11. ASSUME end_of_poll PROVE Kept
  BY <1>11 DEF end_of_poll
<1>12. ASSUME destroy_sync_objects PROVE Kept
  BY <1>12 DEF destroy_sync_objects
<1>13. ASSUME Gpu PROVE Kept
  BY <1>13 DEF Gpu, GpuDraw, GpuPresent, EngineReady
<1>14. ASSUME WindowSystem PROVE Kept
  BY <1>14 DEF WindowSystem, close_window, SurfaceResized
<1>15. ASSUME UNCHANGED vars PROVE Kept
  BY <1>15 DEF vars
<1> QED
  BY <1>1, <1>2, <1>3, <1>4, <1>5, <1>6, <1>7, <1>8, <1>9, <1>10, <1>11,
     <1>12, <1>13, <1>14, <1>15
  DEF Next, Host, create_swapchain, draw_frame, poll_events

-----------------------------------------------------------------------------
(* An object made where there was none, of parents that exist.             *)
LEMMA MadeLives ==
  ASSUME TypeOK, HandleInv, ParentInv,
         NEW k \in Kinds, NEW n \in Nat \ { 0 }, member[k] = 0 \/ k = "command_buffers",
         member' = [ member EXCEPT ![k] = n ], live' = live \cup { << k, n >> },
         \A d \in CreatedFrom : d[1] = k => member[d[2]] # 0
  PROVE  /\ HandleInv' /\ ParentInv'
         /\ \A j \in Kinds \ { k } : member'[j] = member[j]
<1>1. /\ member'[k] = n /\ n # 0
      /\ \A j \in Kinds \ { k } : member'[j] = member[j]
  BY DEF TypeOK
<1>2. ASSUME NEW j \in Kinds \ { "command_buffers" }, NEW m \in Nat
      PROVE  << j, m >> \in live' <=> m # 0 /\ member'[j] = m
  <2>1. << j, m >> \in live <=> m # 0 /\ member[j] = m
    BY DEF HandleInv
  <2>2. << j, m >> \in live' <=> << j, m >> \in live \/ (j = k /\ m = n)
    OBVIOUS
  <2> QED
    BY <1>1, <2>1, <2>2
<1>3. ASSUME NEW d \in CreatedFrom, member'[d[1]] # 0
      PROVE  member'[d[2]] # 0
  <2>1. d[1] \in Kinds /\ d[2] \in Kinds
    BY KindNames DEF CreatedFrom
  <2> QED
    BY <1>1, <1>3, <2>1 DEF ParentInv
<1> QED
  BY <1>1, <1>2, <1>3 DEF HandleInv, ParentInv

(* A handle given back, of which nothing is left that was made from it.    *)
LEMMA GivenBack ==
  ASSUME TypeOK, HandleInv, ParentInv,
         NEW k \in Kinds,
         member' = [ member EXCEPT ![k] = 0 ], live' = live \ { << k, member[k] >> },
         \A d \in CreatedFrom : d[2] = k => member[d[1]] = 0
  PROVE  /\ HandleInv' /\ ParentInv'
         /\ member'[k] = 0
         /\ \A j \in Kinds \ { k } : member'[j] = member[j]
<1>1. /\ member'[k] = 0
      /\ \A j \in Kinds \ { k } : member'[j] = member[j]
      /\ member[k] \in Nat
  BY DEF TypeOK
<1>2. ASSUME NEW j \in Kinds \ { "command_buffers" }, NEW m \in Nat
      PROVE  << j, m >> \in live' <=> m # 0 /\ member'[j] = m
  <2>1. << j, m >> \in live <=> m # 0 /\ member[j] = m
    BY DEF HandleInv
  <2>2. << j, m >> \in live' <=> << j, m >> \in live /\ ~ (j = k /\ m = member[k])
    OBVIOUS
  <2> QED
    BY <1>1, <2>1, <2>2
<1>3. ASSUME NEW d \in CreatedFrom, member'[d[1]] # 0
      PROVE  member'[d[2]] # 0
  <2>1. d[1] \in Kinds /\ d[2] \in Kinds
    BY KindNames DEF CreatedFrom
  <2> QED
    BY <1>1, <1>3, <2>1 DEF ParentInv
<1> QED
  BY <1>1, <1>2, <1>3 DEF HandleInv, ParentInv

(* A creation of create_swapchain, where what it is made from lives.       *)
LEMMA CreateLives ==
  ASSUME IInv, LifeInv, NEW k \in SwapchainKinds, NEW here \in CreatePoints, NEW next,
         Create(k, here, next), member[k] = 0,
         \A d \in CreatedFrom : d[1] = k => member[d[2]] # 0
  PROVE  \/ pc' = "aborted" /\ UNCHANGED << member, live >>
         \/ /\ pc = here /\ pc' = next
            /\ HandleInv' /\ ParentInv'
            /\ \A j \in Kinds \ { k } : member'[j] = member[j]
<1>1. generation \in Nat \ { 0 }
  BY DEF IInv, TypeOK, ObjectInv, Create
<1>2. CASE pc' = "aborted" /\ UNCHANGED << member, live >>
  BY <1>2
<1>3. CASE /\ pc' = next
           /\ member' = [ member EXCEPT ![k] = generation ]
           /\ live' = live \cup { << k, generation >> }
  <2>1. k \in Kinds /\ pc = here
    BY DEF Kinds, Create
  <2> QED
    BY <1>1, <1>3, <2>1, MadeLives DEF IInv, LifeInv
<1> QED
  BY <1>2, <1>3 DEF Create, Abort, objectVars

(* A destruction of cleanup_swapchain, of which nothing is left.           *)
LEMMA DestroyLives ==
  ASSUME IInv, LifeInv, NEW k \in Kinds, NEW here, NEW next,
         Destroy(k, here, next),
         \A d \in CreatedFrom : d[2] = k => member[d[1]] = 0
  PROVE  /\ pc = here /\ pc' = next
         /\ HandleInv' /\ ParentInv'
         /\ member'[k] = 0
         /\ \A j \in Kinds \ { k } : member'[j] = member[j]
<1>1. /\ pc = here /\ pc' = next
      /\ member' = [ member EXCEPT ![k] = 0 ]
      /\ live' = live \ { << k, member[k] >> }
  BY DEF Destroy
<1> QED
  BY <1>1, GivenBack DEF IInv, LifeInv

(* A handle is held where ObjectInv says that its object is alive.         *)
LEMMA AliveHeld ==
  ASSUME IInv, LifeInv, NEW k \in SwapchainKinds, Alive(k)
  PROVE  member[k] # 0
<1>1. k \in Kinds \ { "command_buffers" } /\ member[k] \in Nat
  BY DEF IInv, TypeOK, Kinds, SwapchainKinds
<1> QED
  BY <1>1 DEF LifeInv, HandleInv, Alive

-----------------------------------------------------------------------------
(* Nothing is asked of the handles at the points they are kept to.         *)
LEMMA KeptPointsAskNothing ==
  ASSUME pc' \in KeptPoints
  PROVE  NullInv'
BY DEF KeptPoints, FramePoints, NullInv, BarePoints, CleanupPoints, CreatePoints

LEMMA KeepStep ==
  ASSUME LifeInv, UNCHANGED << member, live >>, pc' = pc \/ pc' \in KeptPoints
  PROVE  LifeInv'
<1>1. HandleInv' /\ ParentInv'
  BY DEF LifeInv, HandleInv, ParentInv
<1>2. pc' = pc => NullInv'
  BY DEF LifeInv, NullInv
<1> QED
  BY <1>1, <1>2, KeptPointsAskNothing DEF LifeInv

LEMMA SetLayoutStep ==
  ASSUME IInv, LifeInv, create_descriptor_set_layout
  PROVE  LifeInv'
<1>1. pc' \in KeptPoints
  BY DEF create_descriptor_set_layout, KeptPoints
<1>2. CASE UNCHANGED << member, live >>
  BY <1>1, <1>2, KeepStep
<1>3. CASE /\ member' = [ member EXCEPT !["set_layout"] = 1 ]
           /\ live' = live \cup { << "set_layout", 1 >> }
  <2>1. member["set_layout"] = 0
    BY DEF LifeInv, NullInv, create_descriptor_set_layout
  <2>2. \A d \in CreatedFrom : d[1] # "set_layout"
    BY DEF CreatedFrom
  <2>3. "set_layout" \in Kinds /\ 1 \in Nat \ { 0 } /\ TypeOK /\ HandleInv /\ ParentInv
    BY KindNames DEF IInv, LifeInv
  <2>4. HandleInv' /\ ParentInv'
    BY <1>3, <2>1, <2>2, <2>3, MadeLives
  <2> QED
    BY <1>1, <2>4, KeptPointsAskNothing DEF LifeInv
<1> QED
  BY <1>2, <1>3 DEF create_descriptor_set_layout

(* cleanup_swapchain takes each object after those that were made from it. *)
LEMMA CleanupStep ==
  ASSUME IInv, LifeInv, destroy_swapchain_resources
  PROVE  LifeInv'
<1>1. CASE Destroy("uniform_buffers", "destroy_uniform_buffers", "destroy_framebuffers")
  <2>1. \A d \in CreatedFrom : d[2] # "uniform_buffers"
    BY DEF CreatedFrom
  <2>2. /\ pc = "destroy_uniform_buffers" /\ pc' = "destroy_framebuffers"
        /\ HandleInv' /\ ParentInv' /\ member'["uniform_buffers"] = 0
    BY <1>1, <2>1, KindNames, DestroyLives
  <2> QED
    BY <2>2 DEF LifeInv, NullInv, BarePoints, CleanupPoints, CreatePoints
<1>2. CASE Destroy("framebuffers", "destroy_framebuffers", "destroy_pipeline")
  <2>1. \A d \in CreatedFrom : d[2] # "framebuffers"
    BY DEF CreatedFrom
  <2>2. /\ pc = "destroy_framebuffers" /\ pc' = "destroy_pipeline"
        /\ HandleInv' /\ ParentInv' /\ member'["framebuffers"] = 0
        /\ member'["uniform_buffers"] = member["uniform_buffers"]
    BY <1>2, <2>1, KindNames, DestroyLives
  <2> QED
    BY <2>2 DEF LifeInv, NullInv, BarePoints, CleanupPoints, CreatePoints
<1>3. CASE Destroy("pipeline", "destroy_pipeline", "destroy_pipeline_layout")
  <2>1. \A d \in CreatedFrom : d[2] # "pipeline"
    BY DEF CreatedFrom
  <2>2. /\ pc = "destroy_pipeline" /\ pc' = "destroy_pipeline_layout"
        /\ HandleInv' /\ ParentInv' /\ member'["pipeline"] = 0
        /\ member'["uniform_buffers"] = member["uniform_buffers"]
        /\ member'["framebuffers"] = member["framebuffers"]
    BY <1>3, <2>1, KindNames, DestroyLives
  <2> QED
    BY <2>2 DEF LifeInv, NullInv, BarePoints, CleanupPoints, CreatePoints
<1>4. CASE Destroy("pipeline_layout", "destroy_pipeline_layout", "destroy_render_pass")
  <2>1. pc = "destroy_pipeline_layout" => member["pipeline"] = 0
    BY DEF LifeInv, NullInv, CleanupPoints
  <2>2. \A d \in CreatedFrom : d[2] = "pipeline_layout" => d[1] = "pipeline"
    BY DEF CreatedFrom
  <2>3. /\ pc = "destroy_pipeline_layout" /\ pc' = "destroy_render_pass"
        /\ HandleInv' /\ ParentInv' /\ member'["pipeline_layout"] = 0
        /\ \A j \in Kinds \ { "pipeline_layout" } : member'[j] = member[j]
    BY <1>4, <2>1, <2>2, KindNames, DestroyLives DEF Destroy
  <2> QED
    BY <2>3, KindNames DEF LifeInv, NullInv, BarePoints, CleanupPoints, CreatePoints
<1>5. CASE Destroy("render_pass", "destroy_render_pass", "destroy_image_views")
  <2>1. pc = "destroy_render_pass" => member["pipeline"] = 0 /\ member["framebuffers"] = 0
    BY DEF LifeInv, NullInv, CleanupPoints
  <2>2. \A d \in CreatedFrom : d[2] = "render_pass" => d[1] \in { "pipeline", "framebuffers" }
    BY DEF CreatedFrom
  <2>3. /\ pc = "destroy_render_pass" /\ pc' = "destroy_image_views"
        /\ HandleInv' /\ ParentInv' /\ member'["render_pass"] = 0
        /\ \A j \in Kinds \ { "render_pass" } : member'[j] = member[j]
    BY <1>5, <2>1, <2>2, KindNames, DestroyLives DEF Destroy
  <2> QED
    BY <2>3, KindNames DEF LifeInv, NullInv, BarePoints, CleanupPoints, CreatePoints
<1>6. CASE Destroy("image_views", "destroy_image_views", "destroy_swapchain")
  <2>1. pc = "destroy_image_views" => member["framebuffers"] = 0
    BY DEF LifeInv, NullInv, CleanupPoints
  <2>2. \A d \in CreatedFrom : d[2] = "image_views" => d[1] = "framebuffers"
    BY DEF CreatedFrom
  <2>3. /\ pc = "destroy_image_views" /\ pc' = "destroy_swapchain"
        /\ HandleInv' /\ ParentInv' /\ member'["image_views"] = 0
        /\ \A j \in Kinds \ { "image_views" } : member'[j] = member[j]
    BY <1>6, <2>1, <2>2, KindNames, DestroyLives DEF Destroy
  <2> QED
    BY <2>3, KindNames DEF LifeInv, NullInv, BarePoints, CleanupPoints, CreatePoints
<1> QED
  BY <1>1, <1>2, <1>3, <1>4, <1>5, <1>6 DEF destroy_swapchain_resources

LEMMA DestroySwapchainStep ==
  ASSUME IInv, LifeInv, destroy_swapchain
  PROVE  LifeInv'
<1>1. /\ pc = "destroy_swapchain" /\ pc' \in { "destroy_set_layout", "pick_extent" }
      /\ member' = [ member EXCEPT !["swapchain"] = 0 ]
      /\ live' = live \ { << "swapchain", member["swapchain"] >> }
  BY DEF destroy_swapchain
<1>2. member["image_views"] = 0
  BY <1>1 DEF LifeInv, NullInv
<1>3. \A d \in CreatedFrom : d[2] = "swapchain" => d[1] = "image_views"
  BY DEF CreatedFrom
<1>4. /\ HandleInv' /\ ParentInv' /\ member'["swapchain"] = 0
      /\ \A j \in Kinds \ { "swapchain" } : member'[j] = member[j]
  BY <1>1, <1>2, <1>3, KindNames, GivenBack DEF IInv, LifeInv
<1> QED
  BY <1>1, <1>4, KindNames DEF LifeInv, NullInv, BarePoints, CleanupPoints, CreatePoints

LEMMA PickExtentStep ==
  ASSUME LifeInv, pick_swapchain_extent
  PROVE  LifeInv'
<1>1. /\ pc = "pick_extent" /\ pc' = "create_swapchain"
      /\ member' = member /\ live' = live
  BY DEF pick_swapchain_extent
<1>2. HandleInv' /\ ParentInv'
  BY <1>1 DEF LifeInv, HandleInv, ParentInv
<1>3. NullInv'
  BY <1>1 DEF LifeInv, NullInv, BarePoints, CleanupPoints, CreatePoints
<1> QED
  BY <1>2, <1>3 DEF LifeInv

(* create_swapchain makes each object after those it is made from, and     *)
(* finds its handle null.                                                  *)
LEMMA CreationStep ==
  ASSUME IInv, LifeInv, create_swapchain_objects
  PROVE  LifeInv'
<1> USE DEF BarePoints, CleanupPoints, CreatePoints
<1>1. CASE pc' = "aborted" /\ UNCHANGED << member, live >>
  BY <1>1, KeepStep DEF KeptPoints
<1>2. CASE Create("swapchain", "create_swapchain", "create_image_views")
  <2>1. pc = "create_swapchain" /\ member["swapchain"] = 0
    BY <1>2 DEF LifeInv, NullInv, Create
  <2>2. \A d \in CreatedFrom : d[1] # "swapchain"
    BY DEF CreatedFrom
  <2>3. \/ pc' = "aborted" /\ UNCHANGED << member, live >>
        \/ /\ pc' = "create_image_views" /\ HandleInv' /\ ParentInv'
           /\ \A j \in Kinds \ { "swapchain" } : member'[j] = member[j]
    BY <1>2, <2>1, <2>2, KindNames, CreateLives
  <2> QED
    BY <1>1, <2>1, <2>3, KindNames DEF LifeInv, NullInv
<1>3. CASE Create("image_views", "create_image_views", "create_render_pass")
  <2>1. pc = "create_image_views" /\ member["image_views"] = 0
    BY <1>3 DEF LifeInv, NullInv, Create
  <2>2. member["swapchain"] # 0
    BY <2>1, KindNames, AliveHeld DEF IInv, ObjectInv
  <2>3. \A d \in CreatedFrom : d[1] = "image_views" => d[2] = "swapchain"
    BY DEF CreatedFrom
  <2>4. \/ pc' = "aborted" /\ UNCHANGED << member, live >>
        \/ /\ pc' = "create_render_pass" /\ HandleInv' /\ ParentInv'
           /\ \A j \in Kinds \ { "image_views" } : member'[j] = member[j]
    BY <1>3, <2>1, <2>2, <2>3, KindNames, CreateLives
  <2> QED
    BY <1>1, <2>1, <2>4, KindNames DEF LifeInv, NullInv
<1>4. CASE Create("render_pass", "create_render_pass", "create_pipeline_layout")
  <2>1. pc = "create_render_pass" /\ member["render_pass"] = 0
    BY <1>4 DEF LifeInv, NullInv, Create
  <2>2. \A d \in CreatedFrom : d[1] # "render_pass"
    BY DEF CreatedFrom
  <2>3. \/ pc' = "aborted" /\ UNCHANGED << member, live >>
        \/ /\ pc' = "create_pipeline_layout" /\ HandleInv' /\ ParentInv'
           /\ \A j \in Kinds \ { "render_pass" } : member'[j] = member[j]
    BY <1>4, <2>1, <2>2, KindNames, CreateLives
  <2> QED
    BY <1>1, <2>1, <2>3, KindNames DEF LifeInv, NullInv
<1>5. CASE Create("pipeline_layout", "create_pipeline_layout", "create_pipeline")
  <2>1. pc = "create_pipeline_layout" /\ member["pipeline_layout"] = 0
    BY <1>5 DEF LifeInv, NullInv, Create
  <2>2. \A d \in CreatedFrom : d[1] # "pipeline_layout"
    BY DEF CreatedFrom
  <2>3. \/ pc' = "aborted" /\ UNCHANGED << member, live >>
        \/ /\ pc' = "create_pipeline" /\ HandleInv' /\ ParentInv'
           /\ \A j \in Kinds \ { "pipeline_layout" } : member'[j] = member[j]
    BY <1>5, <2>1, <2>2, KindNames, CreateLives
  <2> QED
    BY <1>1, <2>1, <2>3, KindNames DEF LifeInv, NullInv
<1>6. CASE Create("pipeline", "create_pipeline", "create_command_buffers")
  <2>1. pc = "create_pipeline" /\ member["pipeline"] = 0
    BY <1>6 DEF LifeInv, NullInv, Create
  <2>2. member["render_pass"] # 0 /\ member["pipeline_layout"] # 0
    BY <2>1, KindNames, AliveHeld DEF IInv, ObjectInv
  <2>3. \A d \in CreatedFrom : d[1] = "pipeline" => d[2] \in { "render_pass", "pipeline_layout" }
    BY DEF CreatedFrom
  <2>4. \/ pc' = "aborted" /\ UNCHANGED << member, live >>
        \/ /\ pc' = "create_command_buffers" /\ HandleInv' /\ ParentInv'
           /\ \A j \in Kinds \ { "pipeline" } : member'[j] = member[j]
    BY <1>6, <2>1, <2>2, <2>3, KindNames, CreateLives
  <2> QED
    BY <1>1, <2>1, <2>4, KindNames DEF LifeInv, NullInv
<1> QED
  BY <1>2, <1>3, <1>4, <1>5, <1>6, SwapchainCreations

LEMMA CommandBuffersStep ==
  ASSUME IInv, LifeInv, create_command_buffers
  PROVE  LifeInv'
<1>1. CASE pc' = "aborted" /\ UNCHANGED << member, live >>
  BY <1>1, KeepStep DEF KeptPoints
<1>2. CASE /\ pc' = "create_framebuffers"
           /\ member' = [ member EXCEPT !["command_buffers"] = generation ]
           /\ live' = live \cup { << "command_buffers", generation >> }
  <2>1. pc = "create_command_buffers"
    BY DEF create_command_buffers
  <2>2. generation \in Nat \ { 0 }
    BY <2>1 DEF IInv, TypeOK, ObjectInv, CreatePoints
  <2>3. \A d \in CreatedFrom : d[1] # "command_buffers"
    BY DEF CreatedFrom
  <2>4. /\ HandleInv' /\ ParentInv'
        /\ \A j \in Kinds \ { "command_buffers" } : member'[j] = member[j]
    BY <1>2, <2>2, <2>3, KindNames, MadeLives DEF IInv, LifeInv
  <2> QED
    BY <1>2, <2>1, <2>4, KindNames
    DEF LifeInv, NullInv, BarePoints, CleanupPoints, CreatePoints
<1> QED
  BY <1>1, <1>2 DEF create_command_buffers, Abort, objectVars

LEMMA FramebuffersStep ==
  ASSUME IInv, LifeInv, create_framebuffers
  PROVE  LifeInv'
<1>1. pc = "create_framebuffers" /\ member["framebuffers"] = 0
  BY DEF LifeInv, NullInv, CreatePoints, create_framebuffers, Create
<1>2. member["image_views"] # 0 /\ member["render_pass"] # 0
  BY <1>1, KindNames, AliveHeld DEF IInv, ObjectInv, CreatePoints
<1>3. \A d \in CreatedFrom : d[1] = "framebuffers" => d[2] \in { "image_views", "render_pass" }
  BY DEF CreatedFrom
<1>4. \/ pc' = "aborted" /\ UNCHANGED << member, live >>
      \/ /\ pc' = "create_uniform_buffers" /\ HandleInv' /\ ParentInv'
         /\ \A j \in Kinds \ { "framebuffers" } : member'[j] = member[j]
  BY <1>1, <1>2, <1>3, KindNames, CreateLives DEF create_framebuffers, CreatePoints
<1>5. CASE pc' = "aborted" /\ UNCHANGED << member, live >>
  BY <1>5, KeepStep DEF KeptPoints
<1> QED
  BY <1>1, <1>4, <1>5, KindNames
  DEF LifeInv, NullInv, BarePoints, CleanupPoints, CreatePoints

LEMMA UniformBuffersStep ==
  ASSUME IInv, LifeInv, create_uniform_buffers
  PROVE  LifeInv'
<1>1. /\ pc = "create_uniform_buffers" /\ pc' = "record"
      /\ member' = [ member EXCEPT !["uniform_buffers"] = generation ]
      /\ live' = live \cup { << "uniform_buffers", generation >> }
  BY DEF create_uniform_buffers
<1>2. generation \in Nat \ { 0 } /\ member["uniform_buffers"] = 0
  BY <1>1 DEF IInv, TypeOK, ObjectInv, LifeInv, NullInv, CreatePoints
<1>3. \A d \in CreatedFrom : d[1] # "uniform_buffers"
  BY DEF CreatedFrom
<1>4. HandleInv' /\ ParentInv'
  BY <1>1, <1>2, <1>3, KindNames, MadeLives DEF IInv, LifeInv
<1>5. NullInv'
  BY <1>1 DEF NullInv, BarePoints, CleanupPoints, CreatePoints
<1> QED
  BY <1>4, <1>5 DEF LifeInv

LEMMA EndStep ==
  ASSUME IInv, LifeInv, destroy_descriptor_set_layout
  PROVE  LifeInv'
<1>1. \A d \in CreatedFrom : d[2] # "set_layout"
  BY DEF CreatedFrom
<1>2. /\ pc = "destroy_set_layout" /\ pc' = "destroyed"
      /\ HandleInv' /\ ParentInv' /\ member'["set_layout"] = 0
      /\ \A j \in Kinds \ { "set_layout" } : member'[j] = member[j]
  BY <1>1, KindNames, DestroyLives DEF destroy_descriptor_set_layout
<1> QED
  BY <1>2, KindNames DEF LifeInv, NullInv, BarePoints, CleanupPoints, CreatePoints

(* What is alive is what is held, in every reachable state.                *)
THEOREM ObjectInvariance == Spec => []LifeInv
<1>1. Init => LifeInv
  <2> SUFFICES ASSUME Init PROVE LifeInv
    OBVIOUS
  <2>1. pc = "create_set_layout" /\ live = {} /\ \A k \in Kinds : member[k] = 0
    BY DEF Init
  <2>2. \A d \in CreatedFrom : d[1] \in Kinds
    BY KindNames DEF CreatedFrom
  <2> QED
    BY <2>1, <2>2, KindNames DEF LifeInv, HandleInv, ParentInv, NullInv
<1>2. ASSUME IInv, LifeInv, [Next]_vars PROVE LifeInv'
  BY <1>2, ObjectSteps, KeepStep, SetLayoutStep, CleanupStep, DestroySwapchainStep,
     PickExtentStep, CreationStep, CommandBuffersStep, FramebuffersStep,
     UniformBuffersStep, EndStep
<1> QED
  BY <1>1, <1>2, Invariance, PTL DEF Spec

(* No object is alive whose parent is not, through cleanup_swapchain,      *)
(* create_swapchain and after a creation has failed.                       *)
THEOREM ParentsLast == Spec => []ParentsOutliveChildren
<1>1. IInv /\ LifeInv => ParentsOutliveChildren
  <2> SUFFICES ASSUME IInv, LifeInv, NEW d \in CreatedFrom,
                      NEW o \in live, o[1] = d[1]
               PROVE  \E q \in live : q[1] = d[2]
    BY DEF ParentsOutliveChildren
  <2>1. /\ d[1] \in Kinds \ { "command_buffers" }
        /\ d[2] \in Kinds \ { "command_buffers" }
    BY KindNames DEF CreatedFrom
  <2>2. o = << d[1], o[2] >> /\ o[2] \in Nat
    BY DEF IInv, TypeOK, Objects
  <2>3. member[d[1]] # 0
    BY <2>1, <2>2 DEF LifeInv, HandleInv
  <2>4. member[d[2]] # 0 /\ member[d[2]] \in Nat
    BY <2>1, <2>3 DEF IInv, TypeOK, LifeInv, ParentInv
  <2>5. << d[2], member[d[2]] >> \in live
    BY <2>1, <2>4 DEF LifeInv, HandleInv
  <2> QED
    BY <2>5
<1> QED
  BY <1>1, Invariance, ObjectInvariance, PTL

(* Recreating forgets no object and keeps no handle of a destroyed one,    *)
(* and nothing but command buffers is left after the destructor.           *)
THEOREM NothingForgotten == Spec => []NothingLeaked
<1>1. IInv /\ LifeInv => NothingLeaked
  <2> SUFFICES ASSUME IInv, LifeInv PROVE NothingLeaked
    OBVIOUS
  <2>1. ASSUME NEW o \in live, o[1] # "command_buffers"
        PROVE  /\ o[1] \in Kinds \ { "command_buffers" } /\ member[o[1]] # 0
               /\ o = << o[1], member[o[1]] >>
    <3>1. o = << o[1], o[2] >> /\ o[1] \in Kinds /\ o[2] \in Nat
      BY DEF IInv, TypeOK, Objects
    <3> QED
      BY <2>1, <3>1 DEF LifeInv, HandleInv
  <2>2. ASSUME NEW o \in live, o[1] # "command_buffers"
        PROVE  o \in Held
    BY <2>1, <2>2 DEF Held
  <2>3. ASSUME NEW o \in Held, o[1] # "command_buffers"
        PROVE  o \in live
    <3>1. PICK k \in Kinds : member[k] # 0 /\ o = << k, member[k] >>
      BY DEF Held
    <3>2. k \in Kinds \ { "command_buffers" } /\ member[k] \in Nat
      BY <2>3, <3>1 DEF IInv, TypeOK
    <3> QED
      BY <3>1, <3>2 DEF LifeInv, HandleInv
  <2>4. ASSUME pc = "destroyed", NEW o \in live PROVE o[1] = "command_buffers"
    <3>1. \A k \in Kinds \ { "command_buffers" } : member[k] = 0
      BY <2>4 DEF LifeInv, NullInv, BarePoints, Kinds, SwapchainKinds
    <3> QED
      BY <2>1, <3>1
  <2> QED
    BY <2>2, <2>3, <2>4 DEF NothingLeaked
<1> QED
  BY <1>1, Invariance, ObjectInvariance, PTL
=============================================================================
