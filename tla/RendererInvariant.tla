-------------------------- MODULE RendererInvariant --------------------------
(***************************************************************************)
(* The inductive invariant behind the theorems of RendererProofs: what     *)
(* holds at each point of the host's code. The properties of Renderer are  *)
(* not inductive, each needs to know what the steps before left behind.    *)
(***************************************************************************)
EXTENDS Renderer

(* Points at which the host knows that the queue is empty: it has waited   *)
(* for the fence of the last submission, or for the device.                *)
QuietPoints == { "reset_fence", "present", "pick_extent", "create_set_layout",
                 "create_sync" } \cup CreatePoints

(* A submission is on the queue only while its fence is waited for, and it *)
(* is the last entry; the presentations before it are of other frames.     *)
QueueInv ==
  /\ \A j \in 1 .. Len(queue) :
       /\ queue[j].op = "draw" =>
            pc = "wait_fence" /\ j = Len(queue) /\ queue[j].frame = current_frame
       /\ queue[j].op = "present" => queue[j].buffer = 0
       /\ pc \in { "acquire", "submit", "wait_fence", "poll" } =>
            queue[j].op = "draw" \/ queue[j].frame # current_frame
       /\ pc = "advance" => queue[j].frame = current_frame
  /\ pc \in QuietPoints => queue = << >>
  /\ pc \in CleanupPoints /\ caller # "dtor" => queue = << >>
  /\ pc = "wait_fence" /\ in_flight[current_frame] = "signaled" => queue = << >>
  /\ caller = "dtor" => pc \in CleanupPoints \cup { "destroy_set_layout", "destroyed" }
  /\ pc = "destroy_set_layout" => caller = "dtor"

(* Only the current frame has a fence or an acquisition semaphore that is  *)
(* not unsignaled; a signaled rendering semaphore has its presentation on  *)
(* the queue or about to be put there.                                     *)
SyncInv ==
  /\ pc \in FramePoints \/ caller \in { "acquire", "present" } =>
       \A f \in Frames : /\ in_flight[f] \in { "unsignaled", "signaled" }
                         /\ render_finished[f] \in { "unsignaled", "signaled" }
                         /\ image_available[f] # "null"
  /\ \A f \in Frames :
       /\ in_flight[f] = "signaled" =>
            f = current_frame /\ pc \in { "wait_fence", "reset_fence" }
       /\ image_available[f] \in { "pending", "signaled" } =>
            /\ f = current_frame /\ pc \in { "submit", "wait_fence" }
            /\ in_flight[f] # "signaled"
       /\ render_finished[f] = "signaled" =>
            \/ f = current_frame /\ pc \in { "wait_fence", "reset_fence", "present" }
            \/ \E j \in 1 .. Len(queue) :
                 queue[j].op = "present" /\ queue[j].frame = f

Alive(k) == << k, member[k] >> \in live

(* create_swapchain has built what it has passed.                          *)
ObjectInv ==
  /\ pc \in CreatePoints => generation > 0
  /\ pc \in FramePoints \cup { "create_sync" } =>
       /\ \A k \in SwapchainKinds : Alive(k)
       /\ recorded = { << k, member[k] >> : k \in References }
  /\ pc \in FramePoints \cup { "create_framebuffers", "create_uniform_buffers",
                               "record", "create_sync" } =>
       member["command_buffers"] # 0
  /\ pc \in CreatePoints \ { "create_swapchain" } => Alive("swapchain")
  /\ pc \in CreatePoints \ { "create_swapchain", "create_image_views" } =>
       Alive("image_views")
  /\ pc \in { "create_pipeline_layout", "create_pipeline", "create_command_buffers",
              "create_framebuffers", "create_uniform_buffers", "record" } =>
       Alive("render_pass")
  /\ pc \in { "create_pipeline", "create_command_buffers", "create_framebuffers",
              "create_uniform_buffers", "record" } => Alive("pipeline_layout")
  /\ pc \in { "create_command_buffers", "create_framebuffers",
              "create_uniform_buffers", "record" } => Alive("pipeline")
  /\ pc \in { "create_uniform_buffers", "record" } => Alive("framebuffers")
  /\ pc = "record" => Alive("uniform_buffers")
  /\ pc \in { "create_framebuffers", "create_uniform_buffers", "record" } =>
       recorded = {}

(* An image is held between its acquisition and its presentation.          *)
HeldInv ==
  acquired # {} => /\ acquired \subseteq { image_index }
                   /\ pc \in { "submit", "wait_fence", "reset_fence", "present" }

(* NoResizeLost holds from the moment the capabilities are read, of a      *)
(* surface that tells its extent if all resizes are announced.             *)
ResizeInv ==
  pc \in FramePoints \cup CreatePoints \cup { "create_sync" } =>
    \/ is_framebuffer_resized
    \/ IF ReportsExtent THEN OneDimension \/ swapchain_extent = surface \/ events # << >>
       ELSE swapchain_extent = Clamped(window_size)

IInv ==
  /\ TypeOK
  /\ QueueInv
  /\ SyncInv
  /\ ObjectInv
  /\ HeldInv
  /\ ResizeInv
  /\ WorkUsesLiveObjects

-----------------------------------------------------------------------------
(***************************************************************************)
(* A second invariant, on top of the first: what is alive is what is held. *)
(***************************************************************************)

(* A handle that is not null is that of a living object, and the other way *)
(* round. The command buffers are left out: the old ones are forgotten.    *)
HandleInv ==
  \A k \in Kinds \ { "command_buffers" }, n \in Nat :
    << k, n >> \in live <=> n # 0 /\ member[k] = n

ParentInv == \A d \in CreatedFrom : member[d[1]] # 0 => member[d[2]] # 0

(* Points at which the renderer holds no object of a swapchain.            *)
BarePoints == { "create_set_layout", "pick_extent", "create_swapchain",
                "destroy_set_layout", "destroyed" }

(* cleanup_swapchain leaves null what it has passed, and create_swapchain  *)
(* finds null what it has yet to make: it writes over no handle.           *)
NullInv ==
  /\ pc \in BarePoints => member["swapchain"] = 0
  /\ pc \in BarePoints \cup { "destroy_swapchain", "create_image_views" } =>
       member["image_views"] = 0
  /\ pc \in BarePoints \cup { "destroy_image_views", "destroy_swapchain",
                              "create_image_views", "create_render_pass" } =>
       member["render_pass"] = 0
  /\ pc \in BarePoints \cup { "destroy_render_pass", "destroy_image_views",
                              "destroy_swapchain", "create_image_views",
                              "create_render_pass", "create_pipeline_layout" } =>
       member["pipeline_layout"] = 0
  /\ pc \in BarePoints
            \cup (CleanupPoints \ { "destroy_uniform_buffers", "destroy_framebuffers",
                                    "destroy_pipeline" })
            \cup { "create_image_views", "create_render_pass",
                   "create_pipeline_layout", "create_pipeline" } =>
       member["pipeline"] = 0
  /\ pc \in BarePoints
            \cup (CleanupPoints \ { "destroy_uniform_buffers", "destroy_framebuffers" })
            \cup (CreatePoints \ { "create_uniform_buffers", "record" }) =>
       member["framebuffers"] = 0
  /\ pc \in BarePoints
            \cup (CleanupPoints \ { "destroy_uniform_buffers" })
            \cup (CreatePoints \ { "record" }) =>
       member["uniform_buffers"] = 0
  /\ pc \in { "create_set_layout", "destroyed" } => member["set_layout"] = 0

LifeInv == HandleInv /\ ParentInv /\ NullInv

-----------------------------------------------------------------------------
(***************************************************************************)
(* Two more, on top of the first: where the images are, and who is going   *)
(* to end a wait of the host.                                              *)
(***************************************************************************)

(* The images that are waiting to be shown and those being drawn.          *)
ShowImages(q) == { q[j].image : j \in Presents(q) }
DrawImages(q) == { q[j].image : j \in Draws(q) }

(* An image is in one place: on screen, on the queue once, or with the     *)
(* application, which keeps it while it is drawn. Without a swapchain      *)
(* there is none.                                                          *)
PlaceInv ==
  /\ \A j, k \in 1 .. Len(queue) : queue[j].image = queue[k].image => j = k
  /\ onscreen \notin ShowImages(queue) \cup DrawImages(queue) \cup acquired
  /\ DrawImages(queue) \subseteq acquired
  /\ ShowImages(queue) \cap acquired = {}
  /\ member["swapchain"] = 0 => onscreen = NoImage /\ acquired = {} /\ queue = << >>

(* Behind every wait there is work that can go on: a submission has its    *)
(* image on the way, a fence that is waited for its submission, and a      *)
(* presentation, of which there is one at a time, its rendering done.      *)
WaitInv ==
  /\ pc = "submit" => image_available[current_frame] \in { "pending", "signaled" }
  /\ pc = "wait_fence" =>
       \/ in_flight[current_frame] = "signaled"
       \/ \E j \in 1 .. Len(queue) : queue[j].op = "draw"
  /\ in_flight[current_frame] = "signaled" \/ pc \in { "reset_fence", "present" } =>
       render_finished[current_frame] = "signaled"
  /\ \A j \in 1 .. Len(queue) :
       /\ queue[j].op = "draw" =>
            image_available[queue[j].frame] \in { "pending", "signaled" }
       /\ queue[j].op = "present" =>
            /\ caller # "dtor" => render_finished[queue[j].frame] = "signaled"
            /\ \A k \in 1 .. Len(queue) : queue[k].op = "present" => k = j
=============================================================================
