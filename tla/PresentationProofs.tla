------------------------- MODULE PresentationProofs -------------------------
(***************************************************************************)
(* Renderer implements Presentation, and its host never waits in vain, for *)
(* any number of images, frames in flight and resizes.                     *)
(***************************************************************************)
EXTENDS ObjectProofs

(* The stage of an image, from where it is.                                *)
Stage(i, shown, waiting, drawn, held, todo) ==
  IF i = shown THEN "onscreen"
  ELSE IF i \in waiting THEN "queued"
  ELSE IF i \in drawn THEN "drawing"
  ELSE IF i \notin held THEN "free"
  ELSE IF todo THEN "acquired" ELSE "drawn"

(* StageOf, before and after a step, in terms of the sets of images.       *)
LEMMA StageIs ==
  \A i : /\ StageOf(i) = Stage(i, onscreen, ShowImages(queue), DrawImages(queue),
                               acquired, ToBeDrawn)
         /\ StageOf(i)' = Stage(i, onscreen', ShowImages(queue'), DrawImages(queue'),
                                acquired', ToBeDrawn')
<1> SUFFICES ASSUME NEW i
             PROVE  /\ StageOf(i) = Stage(i, onscreen, ShowImages(queue), DrawImages(queue),
                                          acquired, ToBeDrawn)
                    /\ StageOf(i)' = Stage(i, onscreen', ShowImages(queue'),
                                           DrawImages(queue'), acquired', ToBeDrawn')
  OBVIOUS
<1>1. \A q : /\ (\E j \in Presents(q) : q[j].image = i) <=> i \in ShowImages(q)
             /\ (\E j \in Draws(q) : q[j].image = i) <=> i \in DrawImages(q)
  BY DEF ShowImages, DrawImages
<1>2. /\ (\E j \in Presents(queue) : queue[j].image = i)' <=> i \in ShowImages(queue')
      /\ (\E j \in Draws(queue) : queue[j].image = i)' <=> i \in DrawImages(queue')
  BY <1>1
<1> QED
  BY <1>1, <1>2, Zenon DEF StageOf, Stage

-----------------------------------------------------------------------------
(***************************************************************************)
(* Taking work from the queue and putting it there.                        *)
(***************************************************************************)
(* Work put on the queue adds its image to those waiting or being drawn.   *)
LEMMA Appended ==
  ASSUME NEW q \in Seq(Work), NEW w \in Work
  PROVE  /\ w.op = "present" => /\ ShowImages(Append(q, w)) = ShowImages(q) \cup { w.image }
                                /\ DrawImages(Append(q, w)) = DrawImages(q)
         /\ w.op = "draw" => /\ ShowImages(Append(q, w)) = ShowImages(q)
                             /\ DrawImages(Append(q, w)) = DrawImages(q) \cup { w.image }
         /\ Len(Append(q, w)) = Len(q) + 1
         /\ \A j \in 1 .. Len(q) : Append(q, w)[j] = q[j]
         /\ Append(q, w)[Len(q) + 1] = w
<1> DEFINE r == Append(q, w)
<1>1. /\ Len(q) \in Nat /\ Len(r) = Len(q) + 1 /\ r[Len(q) + 1] = w
      /\ \A j \in 1 .. Len(q) : r[j] = q[j]
  OBVIOUS
<1> HIDE DEF r
<1>2. 1 .. Len(r) = 1 .. Len(q) \cup { Len(q) + 1 } /\ Len(q) + 1 \notin 1 .. Len(q)
  BY <1>1
<1>3. /\ Presents(r) = Presents(q) \cup (IF w.op = "present" THEN { Len(q) + 1 } ELSE {})
      /\ Draws(r) = Draws(q) \cup (IF w.op = "draw" THEN { Len(q) + 1 } ELSE {})
  BY <1>1, <1>2 DEF Presents, Draws
<1>4. \A j \in Presents(q) \cup Draws(q) : r[j] = q[j]
  BY <1>1 DEF Presents, Draws
<1>5. /\ ShowImages(r) = ShowImages(q) \cup (IF w.op = "present" THEN { w.image } ELSE {})
      /\ DrawImages(r) = DrawImages(q) \cup (IF w.op = "draw" THEN { w.image } ELSE {})
  BY <1>1, <1>3, <1>4 DEF ShowImages, DrawImages
<1> QED
  BY <1>1, <1>5 DEF r

(* Work taken from the queue takes its image with it.                      *)
LEMMA Taken ==
  ASSUME NEW q \in Seq(Work), q # << >>,
         \A j, k \in 1 .. Len(q) : q[j].image = q[k].image => j = k
  PROVE  /\ ShowImages(Tail(q)) = ShowImages(q) \ { Head(q).image }
         /\ DrawImages(Tail(q)) = DrawImages(q) \ { Head(q).image }
         /\ Head(q).op = "present" => Head(q).image \in ShowImages(q)
                                      /\ Head(q).image \notin DrawImages(q)
         /\ Head(q).op = "draw" => Head(q).image \in DrawImages(q)
                                   /\ Head(q).image \notin ShowImages(q)
         /\ \A j, k \in 1 .. Len(Tail(q)) : Tail(q)[j].image = Tail(q)[k].image => j = k
<1> DEFINE r == Tail(q)
<1>1. /\ Len(q) \in Nat /\ Len(q) > 0 /\ Len(r) = Len(q) - 1 /\ Head(q) = q[1]
      /\ \A j \in 1 .. Len(r) : r[j] = q[j + 1]
  OBVIOUS
<1>2. ASSUME NEW op
      PROVE  { r[j].image : j \in { k \in 1 .. Len(r) : r[k].op = op } }
             = { q[j].image : j \in { k \in 1 .. Len(q) : q[k].op = op } } \ { Head(q).image }
  <2>1. ASSUME NEW j \in 1 .. Len(r)
        PROVE  j + 1 \in 1 .. Len(q) /\ r[j] = q[j + 1] /\ q[j + 1].image # Head(q).image
    BY <1>1
  <2>2. ASSUME NEW j \in 1 .. Len(q), q[j].image # Head(q).image
        PROVE  j - 1 \in 1 .. Len(r) /\ r[j - 1] = q[j]
    <3>1. j # 1
      BY <1>1, <2>2
    <3>2. j - 1 \in 1 .. Len(r) /\ (j - 1) + 1 = j
      BY <1>1, <3>1
    <3> QED
      BY <1>1, <3>2
  <2> HIDE DEF r
  <2>3. ASSUME NEW j \in 1 .. Len(r), r[j].op = op
        PROVE  r[j].image \in { q[i].image : i \in { k \in 1 .. Len(q) : q[k].op = op } }
                               \ { Head(q).image }
    BY <2>1, <2>3
  <2>4. ASSUME NEW j \in 1 .. Len(q), q[j].op = op, q[j].image # Head(q).image
        PROVE  q[j].image \in { r[i].image : i \in { k \in 1 .. Len(r) : r[k].op = op } }
    BY <2>2, <2>4
  <2> QED
    BY <2>3, <2>4
<1>3. ASSUME NEW j \in 1 .. Len(r), NEW k \in 1 .. Len(r), r[j].image = r[k].image
      PROVE  j = k
  <2>1. j + 1 \in 1 .. Len(q) /\ k + 1 \in 1 .. Len(q) /\ r[j] = q[j + 1] /\ r[k] = q[k + 1]
    BY <1>1
  <2>2. j + 1 = k + 1
    BY <1>3, <2>1
  <2> QED
    BY <2>2
<1>4. 1 \in 1 .. Len(q)
  BY <1>1
<1>5. \A op : q[1].op # op =>
        q[1].image \notin { q[j].image : j \in { k \in 1 .. Len(q) : q[k].op = op } }
  BY <1>4
<1> HIDE DEF r
<1>6. /\ ShowImages(r) = ShowImages(q) \ { Head(q).image }
      /\ DrawImages(r) = DrawImages(q) \ { Head(q).image }
  BY <1>2 DEF ShowImages, DrawImages, Presents, Draws
<1>7. /\ q[1].op = "present" => q[1].image \in ShowImages(q) /\ q[1].image \notin DrawImages(q)
      /\ q[1].op = "draw" => q[1].image \in DrawImages(q) /\ q[1].image \notin ShowImages(q)
  BY <1>4, <1>5 DEF ShowImages, DrawImages, Presents, Draws
<1> QED
  BY <1>1, <1>3, <1>6, <1>7 DEF r

-----------------------------------------------------------------------------
(***************************************************************************)
(* Steps after which every image is where it was.                          *)
(***************************************************************************)

Unmoved ==
  /\ UNCHANGED << queue, acquired, onscreen >>
  /\ member'["swapchain"] = member["swapchain"]
  /\ acquired # {} => (ToBeDrawn' <=> ToBeDrawn)

(* They leave Presentation as it is.                                       *)
LEMMA UnmovedStep ==
  ASSUME PlaceInv, Unmoved
  PROVE  PlaceInv' /\ UNCHANGED Abstract!vars
<1>1. PlaceInv'
  BY DEF PlaceInv, Unmoved, ShowImages, DrawImages, Presents, Draws
<1>2. \A k \in Images : StageOf(k)' = StageOf(k)
  BY StageIs DEF Unmoved, Stage
<1> QED
  BY <1>1, <1>2 DEF Abstract!vars, Unmoved

(* Every step but seven is one of them.                                    *)
LEMMA ImageSteps ==
  ASSUME IInv, [Next]_vars
  PROVE  \/ Unmoved
         \/ create_swapchain_khr \/ destroy_swapchain
         \/ \E r \in AcquireResults : vkAcquireNextImageKHR(r)
         \/ \E r \in SubmitResults : submit_queue(r)
         \/ \E r \in PresentResults : present_queue(r)
         \/ GpuDraw \/ GpuPresent
<1> USE DEF frameVars, resizeVars, objectVars, syncVars, engineVars, windowVars,
            Unmoved, ToBeDrawn
<1>1. acquired # {} => pc \in { "submit", "wait_fence", "reset_fence", "present" }
  BY DEF IInv, HeldInv
<1>2. /\ current_frame \in Frames /\ in_flight \in Semaphores
      /\ DOMAIN member = Kinds /\ "swapchain" \in Kinds
      /\ "set_layout" # "swapchain"
  BY KindNames DEF IInv, TypeOK
<1>3. \A kind, here, next :
        /\ kind # "swapchain"
        /\ Create(kind, here, next) \/ Destroy(kind, here, next)
        /\ here \notin { "submit", "wait_fence", "reset_fence", "present" }
        => Unmoved
  BY <1>1, <1>2 DEF Create, Abort, Destroy
<1>4. ASSUME create_swapchain_objects, ~ create_swapchain_khr PROVE Unmoved
  BY <1>3, <1>4 DEF create_swapchain_objects, create_image_views, create_render_pass,
                    create_pipeline_layout, create_default_pipeline
<1>5. ASSUME destroy_swapchain_resources PROVE Unmoved
  BY <1>3, <1>5 DEF destroy_swapchain_resources
<1>6. ASSUME create_descriptor_set_layout PROVE Unmoved
  BY <1>1, <1>2, <1>6 DEF create_descriptor_set_layout
<1>7. ASSUME create_sync_objects \/ destroy_sync_objects PROVE Unmoved
  BY <1>1, <1>7 DEF create_sync_objects, Abort, destroy_sync_objects
<1>8. ASSUME device_wait_idle \/ pick_swapchain_extent \/ record_command_buffers
      PROVE  Unmoved
  BY <1>1, <1>8 DEF device_wait_idle, pick_swapchain_extent, record_command_buffers
<1>9. ASSUME create_command_buffers \/ create_uniform_buffers PROVE Unmoved
  BY <1>1, <1>2, <1>9 DEF create_command_buffers, Abort, create_uniform_buffers
<1>10. ASSUME create_framebuffers \/ destroy_descriptor_set_layout PROVE Unmoved
  BY <1>3, <1>10 DEF create_framebuffers, destroy_descriptor_set_layout
<1>11. ASSUME wait_for_fence PROVE Unmoved
  BY <1>11 DEF wait_for_fence
<1>12. ASSUME reset_fence PROVE Unmoved
  BY <1>12 DEF reset_fence
<1>13. ASSUME advance_frame \/ on_framebuffer_resize \/ end_of_poll PROVE Unmoved
  BY <1>1, <1>13 DEF advance_frame, on_framebuffer_resize, end_of_poll
<1>14. ASSUME NEW f \in Frames, EngineReady(f) PROVE Unmoved
  BY <1>14 DEF EngineReady
<1>15. ASSUME close_window PROVE Unmoved
  BY <1>15 DEF close_window
<1>16. ASSUME NEW e \in Extents, SurfaceResized(e) PROVE Unmoved
  BY <1>16 DEF SurfaceResized
<1>17. ASSUME UNCHANGED vars PROVE Unmoved
  BY <1>17 DEF vars
<1> QED
  BY <1>4, <1>5, <1>6, <1>7, <1>8, <1>9, <1>10, <1>11, <1>12, <1>13, <1>14, <1>15,
     <1>16, <1>17
  DEF Next, Host, Gpu, WindowSystem, create_swapchain, draw_frame, poll_events

-----------------------------------------------------------------------------
(***************************************************************************)
(* The other steps, each an action of Presentation.                        *)
(***************************************************************************)
(* An image that moves alone makes a Move of Presentation.                 *)
LEMMA MoveOne ==
  ASSUME NEW i \in Images, NEW from, NEW to,
         StageOf(i) = from, StageOf(i)' = to,
         \A k \in Images \ { i } : StageOf(k)' = StageOf(k),
         member'["swapchain"] = member["swapchain"]
  PROVE  Abstract!Move(i, from, to)
<1> DEFINE stage == [ k \in Images |-> StageOf(k) ]
<1>1. stage[i] = from
  OBVIOUS
<1>2. stage' = [ stage EXCEPT ![i] = to ]
  OBVIOUS
<1> QED
  BY <1>1, <1>2 DEF Abstract!Move

(* create_swapchain establishes a swapchain, with every image free.        *)
LEMMA CreateStep ==
  ASSUME IInv, LifeInv, PlaceInv, create_swapchain_khr
  PROVE  PlaceInv' /\ [Abstract!Next]_(Abstract!vars)
<1> USE DEF frameVars, resizeVars, objectVars, syncVars, engineVars, windowVars
<1>1. /\ pc = "create_swapchain"
      /\ member["swapchain"] = 0 /\ generation # 0 /\ acquired = {}
      /\ onscreen = NoImage /\ queue = << >>
  BY DEF create_swapchain_khr, Create, LifeInv, NullInv, BarePoints, IInv, ObjectInv,
         CreatePoints, PlaceInv, TypeOK
<1>2. UNCHANGED << queue, acquired, onscreen >>
  BY DEF create_swapchain_khr, Create, Abort
<1>3. \/ member' = member
      \/ member'["swapchain"] = generation
  BY KindNames DEF create_swapchain_khr, Create, Abort, IInv, TypeOK
<1>4. PlaceInv'
  BY <1>1, <1>2 DEF PlaceInv, ShowImages, DrawImages, Presents, Draws
<1>5. \A k \in Images : StageOf(k)' = StageOf(k)
  BY <1>1, <1>2, StageIs DEF Stage
<1>6. CASE member' = member
  BY <1>4, <1>5, <1>6 DEF Abstract!vars
<1>7. CASE member'["swapchain"] = generation
  <2>1. Abstract!Establish
    BY <1>1, <1>5, <1>7 DEF Abstract!Establish
  <2> QED
    BY <1>4, <2>1 DEF Abstract!Next
<1> QED
  BY <1>3, <1>6, <1>7

(* cleanup_swapchain retires it, when no image is in use.                  *)
LEMMA DestroyStep ==
  ASSUME IInv, LifeInv, PlaceInv, Regular, destroy_swapchain
  PROVE  PlaceInv' /\ [Abstract!Next]_(Abstract!vars)
<1>1. /\ pc = "destroy_swapchain" /\ queue = << >> /\ acquired = {}
      /\ queue' = << >> /\ acquired' = {} /\ onscreen' = NoImage
      /\ member'["swapchain"] = 0
  <2>1. "destroy_swapchain" \in CleanupPoints
    BY PointNames
  <2> QED
    BY <2>1, KindNames DEF destroy_swapchain, IInv, QueueInv, HeldInv, Regular, TypeOK
<1>2. PlaceInv'
  BY <1>1 DEF PlaceInv, ShowImages, DrawImages, Presents, Draws
<1>3. \A k \in Images : StageOf(k)' = "free" /\ StageOf(k) \in { "free", "onscreen" }
  <2>1. ShowImages(queue) = {} /\ DrawImages(queue) = {} /\ ShowImages(queue') = {}
        /\ DrawImages(queue') = {}
    BY <1>1 DEF ShowImages, DrawImages, Presents, Draws
  <2> QED
    BY <1>1, <2>1, StageIs, Indices DEF Stage
<1>4. CASE member["swapchain"] # 0
  <2>1. Abstract!Retire
    BY <1>1, <1>3, <1>4 DEF Abstract!Retire
  <2> QED
    BY <1>2, <2>1 DEF Abstract!Next
<1>5. CASE member["swapchain"] = 0
  <2>1. onscreen = NoImage
    BY <1>5 DEF PlaceInv
  <2>2. \A k \in Images : StageOf(k) = "free"
    <3>1. ShowImages(queue) = {} /\ DrawImages(queue) = {}
      BY <1>1 DEF ShowImages, DrawImages, Presents, Draws
    <3> QED
      BY <1>1, <2>1, <3>1, StageIs, Indices DEF Stage
  <2> QED
    BY <1>1, <1>2, <1>3, <1>5, <2>2 DEF Abstract!vars
<1> QED
  BY <1>4, <1>5

(* While frames are drawn there is a swapchain.                            *)
LEMMA ASwapchain ==
  ASSUME IInv, LifeInv, pc \in FramePoints
  PROVE  member["swapchain"] # 0
<1>1. << "swapchain", member["swapchain"] >> \in live /\ member["swapchain"] \in Nat
  BY KindNames DEF IInv, ObjectInv, Alive, TypeOK
<1>2. "swapchain" \in Kinds \ { "command_buffers" }
  BY KindNames
<1> QED
  BY <1>1, <1>2 DEF LifeInv, HandleInv

(* An acquisition takes a free image, and is the only one of its frame.    *)
LEMMA AcquireStep ==
  ASSUME IInv, LifeInv, PlaceInv, NEW r \in AcquireResults, vkAcquireNextImageKHR(r)
  PROVE  PlaceInv' /\ [Abstract!Next]_(Abstract!vars)
<1>1. /\ pc = "acquire" /\ acquired = {} /\ Draws(queue) = {}
      /\ member["swapchain"] # 0
  <2>1. "acquire" \in FramePoints
    BY PointNames
  <2>2. pc = "acquire" /\ acquired = {} /\ Draws(queue) = {}
    BY DEF vkAcquireNextImageKHR, IInv, HeldInv, QueueInv, Draws
  <2> QED
    BY <2>1, <2>2, ASwapchain
<1>2. DrawImages(queue) = {}
  BY <1>1 DEF DrawImages
<1>3. UNCHANGED << queue, onscreen, member >>
  BY DEF vkAcquireNextImageKHR, objectVars
<1>4. CASE acquired' = acquired
  <2>1. \A k \in Images : StageOf(k)' = StageOf(k)
    BY <1>1, <1>3, <1>4, StageIs DEF Stage
  <2>2. PlaceInv'
    BY <1>3, <1>4 DEF PlaceInv, ShowImages, DrawImages, Presents, Draws
  <2> QED
    BY <1>3, <2>1, <2>2 DEF Abstract!vars
<1>5. ASSUME NEW i \in Available, acquired' = { i }, pc' = "submit"
      PROVE  PlaceInv' /\ [Abstract!Next]_(Abstract!vars)
  <2>1. /\ i \in Images /\ i # onscreen /\ i \notin ShowImages(queue)
    BY DEF Available, ShowImages, Presents
  <2>2. PlaceInv'
    BY <1>1, <1>2, <1>3, <1>5, <2>1 DEF PlaceInv, ShowImages, DrawImages, Presents, Draws
  <2>3. ToBeDrawn'
    BY <1>5 DEF ToBeDrawn
  <2>4. /\ StageOf(i) = "free" /\ StageOf(i)' = "acquired"
        /\ \A k \in Images \ { i } : StageOf(k)' = StageOf(k)
        /\ \A k \in Images : StageOf(k) \notin { "acquired", "drawing", "drawn" }
    BY <1>1, <1>2, <1>3, <1>5, <2>1, <2>3, StageIs DEF Stage
  <2>5. Abstract!Move(i, "free", "acquired")
    BY <1>3, <2>1, <2>4, MoveOne
  <2>6. Abstract!Acquire(i)
    BY <1>1, <2>4, <2>5 DEF Abstract!Acquire
  <2> QED
    BY <2>1, <2>2, <2>6 DEF Abstract!Next
<1> QED
  BY <1>1, <1>4, <1>5 DEF vkAcquireNextImageKHR

(* A submission puts the acquired image in the hands of the GPU.           *)
LEMMA SubmitStep ==
  ASSUME IInv, LifeInv, PlaceInv, Regular, NEW r \in SubmitResults, submit_queue(r)
  PROVE  PlaceInv' /\ [Abstract!Next]_(Abstract!vars)
<1>1. PICK w \in Work :
        w = [ op |-> "draw", frame |-> current_frame, image |-> image_index,
              buffer |-> member["command_buffers"], uses |-> recorded ]
  BY KindNames, QueueTypes DEF IInv, TypeOK
<1>2. PICK i \in Images : i = w.image
  BY DEF Work
<1>3. /\ pc = "submit" /\ pc' = "wait_fence" /\ acquired = { i } /\ i = image_index
      /\ queue \in Seq(Work) /\ w.op = "draw" /\ w.image = i
      /\ UNCHANGED << acquired, onscreen, member, in_flight, current_frame >>
      /\ queue' \in { queue, Append(queue, w) }
  BY <1>1, <1>2
  DEF submit_queue, Regular, IInv, HeldInv, TypeOK, objectVars, syncVars, frameVars
<1>4. ToBeDrawn /\ ToBeDrawn'
  BY <1>3 DEF ToBeDrawn, IInv, SyncInv, TypeOK
<1>5. DrawImages(queue) = {}
  BY <1>3 DEF IInv, QueueInv, DrawImages, Draws
<1>6. CASE queue' = queue
  <2>1. Unmoved
    BY <1>3, <1>4, <1>6 DEF Unmoved
  <2> QED
    BY <2>1, UnmovedStep
<1>7. CASE queue' = Append(queue, w)
  <2>1. /\ ShowImages(queue') = ShowImages(queue) /\ DrawImages(queue') = { i }
        /\ Len(queue') = Len(queue) + 1 /\ queue'[Len(queue) + 1] = w
        /\ \A j \in 1 .. Len(queue) : queue'[j] = queue[j]
    <3>1. /\ ShowImages(Append(queue, w)) = ShowImages(queue)
          /\ DrawImages(Append(queue, w)) = DrawImages(queue) \cup { w.image }
          /\ Len(Append(queue, w)) = Len(queue) + 1
          /\ \A j \in 1 .. Len(queue) : Append(queue, w)[j] = queue[j]
          /\ Append(queue, w)[Len(queue) + 1] = w
      BY <1>3, Appended
    <3> QED
      BY <1>3, <1>5, <1>7, <3>1
  <2>2. i # onscreen /\ i \notin ShowImages(queue)
    BY <1>3 DEF PlaceInv
  <2>3. \A j \in 1 .. Len(queue) : queue[j].image # i
    <3>1. \A j \in 1 .. Len(queue) : queue[j].op \in { "draw", "present" }
      BY <1>3, QueueTypes
    <3> QED
      BY <1>5, <2>2, <3>1 DEF ShowImages, DrawImages, Presents, Draws
  <2>4. \A j, k \in 1 .. Len(queue') : queue'[j].image = queue'[k].image => j = k
    <3>1. 1 .. Len(queue') = 1 .. Len(queue) \cup { Len(queue) + 1 }
      BY <1>3, <2>1
    <3> QED
      BY <1>3, <2>1, <2>3, <3>1 DEF PlaceInv
  <2>5. PlaceInv'
    BY <1>3, <1>5, <2>1, <2>4, ASwapchain, PointNames DEF PlaceInv
  <2>6. StageOf(i) = "acquired" /\ StageOf(i)' = "drawing"
    BY <1>3, <1>4, <1>5, <2>1, <2>2, StageIs DEF Stage
  <2>7. \A k \in Images \ { i } : StageOf(k)' = StageOf(k)
    BY <1>3, <1>4, <1>5, <2>1, StageIs DEF Stage
  <2>8. Abstract!Draw(i)
    BY <1>3, <2>6, <2>7, MoveOne DEF Abstract!Draw
  <2> QED
    BY <2>5, <2>8 DEF Abstract!Next
<1> QED
  BY <1>3, <1>6, <1>7

(* A presentation hands over an image that has been drawn.                 *)
LEMMA PresentStep ==
  ASSUME IInv, LifeInv, PlaceInv, Regular, NEW r \in PresentResults, present_queue(r)
  PROVE  PlaceInv' /\ [Abstract!Next]_(Abstract!vars)
<1>1. PICK w \in Work :
        w = [ op |-> "present", frame |-> current_frame, image |-> image_index,
              buffer |-> 0, uses |-> { << "swapchain", member["swapchain"] >> } ]
  <2>1. { << "swapchain", member["swapchain"] >> } \in SUBSET Objects
    BY KindNames DEF IInv, TypeOK
  <2> QED
    BY <2>1, QueueTypes DEF IInv, TypeOK
<1>2. PICK i \in Images : i = w.image
  BY DEF Work
<1>3. /\ pc = "present" /\ acquired = { i } /\ acquired' = {}
      /\ w.op = "present" /\ w.image = i /\ queue \in Seq(Work)
      /\ queue = << >> /\ queue' = Append(queue, w)
      /\ UNCHANGED << onscreen, member >>
  BY <1>1, <1>2
  DEF present_queue, Regular, IInv, HeldInv, TypeOK, objectVars, QueueInv, QuietPoints
<1>4. ~ ToBeDrawn
  BY <1>3 DEF ToBeDrawn
<1>5. /\ ShowImages(queue) = {} /\ DrawImages(queue) = {} /\ Len(queue) = 0
  BY <1>3 DEF ShowImages, DrawImages, Presents, Draws
<1>6. /\ ShowImages(queue') = { i } /\ DrawImages(queue') = {} /\ Len(queue') = 1
  <2>1. ShowImages(Append(queue, w)) = ShowImages(queue) \cup { w.image }
        /\ DrawImages(Append(queue, w)) = DrawImages(queue)
        /\ Len(Append(queue, w)) = Len(queue) + 1
    BY <1>3, Appended
  <2> QED
    BY <1>3, <1>5, <2>1
<1>7. i # onscreen /\ member["swapchain"] # 0
  BY <1>3, ASwapchain, PointNames DEF PlaceInv
<1>8. PlaceInv'
  BY <1>3, <1>6, <1>7 DEF PlaceInv
<1>9. StageOf(i) = "drawn" /\ StageOf(i)' = "queued"
  BY <1>3, <1>4, <1>5, <1>6, <1>7, StageIs DEF Stage
<1>10. \A k \in Images \ { i } : StageOf(k)' = StageOf(k)
  BY <1>3, <1>5, <1>6, StageIs DEF Stage
<1>11. Abstract!HandOver(i)
  BY <1>3, <1>9, <1>10, MoveOne DEF Abstract!HandOver
<1> QED
  BY <1>8, <1>11 DEF Abstract!Next

(* The GPU finishes an image.                                              *)
LEMMA GpuDrawStep ==
  ASSUME IInv, PlaceInv, GpuDraw
  PROVE  PlaceInv' /\ [Abstract!Next]_(Abstract!vars)
<1>1. PICK i \in Images : i = Head(queue).image
  BY QueueTypes DEF GpuDraw, IInv, TypeOK
<1>2. /\ queue \in Seq(Work) /\ queue # << >> /\ Head(queue).op = "draw"
      /\ queue' = Tail(queue)
      /\ UNCHANGED << pc, current_frame, acquired, onscreen, member >>
      /\ in_flight' = [ in_flight EXCEPT ![Head(queue).frame] = "signaled" ]
  BY DEF GpuDraw, IInv, TypeOK, objectVars, frameVars
<1>3. pc = "wait_fence" /\ Head(queue).frame = current_frame
  <2>1. Head(queue) = queue[1] /\ 1 \in 1 .. Len(queue)
    BY <1>2
  <2> QED
    BY <1>2, <2>1 DEF IInv, QueueInv
<1>4. ~ ToBeDrawn'
  BY <1>2, <1>3 DEF ToBeDrawn, IInv, TypeOK, Semaphores
<1>5. /\ ShowImages(queue') = ShowImages(queue) \ { i }
      /\ DrawImages(queue') = DrawImages(queue) \ { i }
      /\ i \in DrawImages(queue) /\ i \notin ShowImages(queue)
      /\ \A j, k \in 1 .. Len(queue') : queue'[j].image = queue'[k].image => j = k
  BY <1>1, <1>2, Taken DEF PlaceInv
<1>6. acquired = { i } /\ i # onscreen
  BY <1>5 DEF PlaceInv, IInv, HeldInv
<1>7. PlaceInv'
  BY <1>2, <1>5 DEF PlaceInv
<1>8. StageOf(i) = "drawing" /\ StageOf(i)' = "drawn"
  BY <1>2, <1>4, <1>5, <1>6, StageIs DEF Stage
<1>9. \A k \in Images \ { i } : StageOf(k)' = StageOf(k)
  BY <1>2, <1>5, <1>6, StageIs DEF Stage
<1>10. Abstract!Finish(i)
  BY <1>2, <1>8, <1>9, MoveOne DEF Abstract!Finish
<1> QED
  BY <1>7, <1>10 DEF Abstract!Next

(* The presentation engine shows the image or drops it.                    *)
LEMMA GpuPresentStep ==
  ASSUME IInv, PlaceInv, GpuPresent
  PROVE  PlaceInv' /\ [Abstract!Next]_(Abstract!vars)
<1> DEFINE i == Head(queue).image
           stage == [ k \in Images |-> StageOf(k) ]
<1>1. /\ queue \in Seq(Work) /\ queue # << >> /\ Head(queue).op = "present"
      /\ queue' = Tail(queue) /\ i \in Images /\ onscreen' \in { onscreen, i }
      /\ UNCHANGED << pc, current_frame, acquired, in_flight, member >>
  BY QueueTypes DEF GpuPresent, IInv, TypeOK, objectVars, frameVars
<1>2. ToBeDrawn' <=> ToBeDrawn
  BY <1>1 DEF ToBeDrawn
<1> HIDE DEF i
<1>3. /\ ShowImages(queue') = ShowImages(queue) \ { i }
      /\ DrawImages(queue') = DrawImages(queue) \ { i }
      /\ i \in ShowImages(queue) /\ i \notin DrawImages(queue)
      /\ \A j, k \in 1 .. Len(queue') : queue'[j].image = queue'[k].image => j = k
  BY <1>1, Taken DEF PlaceInv, i
<1>4. i \notin acquired /\ i # onscreen
  BY <1>3 DEF PlaceInv
<1>5. PlaceInv'
  BY <1>1, <1>3, <1>4 DEF PlaceInv
<1>6. StageOf(i) = "queued"
  BY <1>3, <1>4, StageIs DEF Stage
<1>7. \/ \A k \in Images : StageOf(k)' = IF k = i THEN "onscreen"
                                         ELSE IF StageOf(k) = "onscreen" THEN "free"
                                         ELSE StageOf(k)
      \/ \A k \in Images : StageOf(k)' = IF k = i THEN "free" ELSE StageOf(k)
  <2>1. CASE onscreen' = onscreen
    BY <1>1, <1>2, <1>3, <1>4, <2>1, StageIs DEF Stage
  <2>2. CASE onscreen' = i
    BY <1>1, <1>2, <1>3, <1>4, <2>2, StageIs DEF Stage, PlaceInv
  <2> QED
    BY <1>1, <2>1, <2>2
<1>8. \/ stage' = [ j \in Images |-> IF j = i THEN "onscreen"
                                     ELSE IF stage[j] = "onscreen" THEN "free"
                                     ELSE stage[j] ]
      \/ stage' = [ stage EXCEPT ![i] = "free" ]
  BY <1>7
<1>9. Abstract!Show(i)
  BY <1>1, <1>6, <1>8 DEF Abstract!Show, i
<1> QED
  BY <1>1, <1>5, <1>9 DEF Abstract!Next, i

-----------------------------------------------------------------------------
(***************************************************************************)
(* The refinement.                                                         *)
(***************************************************************************)

(* At the start there is no swapchain and every image is free.             *)
LEMMA PlaceInit == Init => PlaceInv /\ Abstract!Init
<1> SUFFICES ASSUME Init PROVE PlaceInv /\ Abstract!Init
  OBVIOUS
<1>1. /\ queue = << >> /\ acquired = {} /\ onscreen = NoImage
      /\ member["swapchain"] = 0
  BY KindNames DEF Init
<1>2. ShowImages(queue) = {} /\ DrawImages(queue) = {}
  BY <1>1 DEF ShowImages, DrawImages, Presents, Draws
<1>3. PlaceInv
  BY <1>1, <1>2, Indices DEF PlaceInv
<1>4. \A i \in Images : StageOf(i) = "free"
  BY <1>1, <1>2, StageIs, Indices DEF Stage
<1> QED
  BY <1>1, <1>3, <1>4 DEF Abstract!Init

(* Every step of the renderer keeps each image in one place and is a step  *)
(* of Presentation or leaves it unchanged.                                 *)
LEMMA PlaceStep ==
  ASSUME IInv, LifeInv, PlaceInv, Regular, [Next]_vars
  PROVE  PlaceInv' /\ [Abstract!Next]_(Abstract!vars)
<1>1. CASE Unmoved
  BY <1>1, UnmovedStep
<1> QED
  BY <1>1, ImageSteps, CreateStep, DestroyStep, AcquireStep, SubmitStep, PresentStep,
     GpuDrawStep, GpuPresentStep

(* The renderer implements Presentation (renderer.cpp:232-314, 486-569):   *)
(* for any number of images and frames in flight, whatever fails and       *)
(* however often the swapchain is replaced, an image is drawn once it has  *)
(* been acquired, handed over once it has been drawn, and gone with its    *)
(* swapchain only when it is not in use.                                   *)
THEOREM FollowsPresentation == Spec /\ []Regular => Implements
<1>1. Init => PlaceInv /\ Abstract!Init
  BY PlaceInit
<1>2. IInv /\ LifeInv /\ PlaceInv /\ Regular /\ [Next]_vars
      => PlaceInv' /\ [Abstract!Next]_(Abstract!vars)
  BY PlaceStep
<1> QED
  BY <1>1, <1>2, Invariance, ObjectInvariance, PTL DEF Spec, Implements, Abstract!Spec

(* What draw_frame relies on holds while acquisitions give an image or say *)
(* out of date, as those of a surface that is not lost do, and the window  *)
(* is open (renderer.cpp:236-256, main.cpp's loop).                        *)
THEOREM RegularFrames ==
  ASSUME AcquireResults \subseteq { "success", "suboptimal", "out_of_date" }, ~ MayClose
  PROVE  Spec => []Regular
<1> DEFINE Open == is_wnd_open /\ pc # "destroy_sync" /\ caller # "dtor"
<1>1. Init => Open /\ Regular
  BY DEF Init, Regular
<1>2. ASSUME IInv, Open, Regular, [Next]_vars PROVE Open' /\ Regular'
  <2> USE DEF frameVars, resizeVars, objectVars, syncVars, engineVars, windowVars
  <2>1. caller # "dtor" /\ is_wnd_open /\ pc # "destroy_sync" /\ pc # "destroy_set_layout"
    BY <1>2 DEF IInv, QueueInv
  <2> DEFINE Good == Open' /\ Regular'
  <2> USE <1>2, <2>1
  <2>2. ASSUME create_descriptor_set_layout \/ create_sync_objects PROVE Good
    BY <2>2 DEF Regular, create_descriptor_set_layout, create_sync_objects, Abort
  <2>3. ASSUME device_wait_idle \/ destroy_swapchain \/ pick_swapchain_extent PROVE Good
    BY <2>3 DEF Regular, device_wait_idle, destroy_swapchain, pick_swapchain_extent
  <2>4. ASSUME destroy_swapchain_resources PROVE Good
    BY <2>4 DEF Regular, destroy_swapchain_resources, Destroy
  <2>5. ASSUME create_swapchain_objects PROVE Good
    BY <2>5, SwapchainCreations DEF Regular, Create, Abort
  <2>6. ASSUME create_command_buffers \/ create_framebuffers PROVE Good
    BY <2>6 DEF Regular, create_command_buffers, create_framebuffers, Create, Abort
  <2>7. ASSUME create_uniform_buffers \/ record_command_buffers PROVE Good
    BY <2>7 DEF Regular, create_uniform_buffers, record_command_buffers
  <2>8. ASSUME NEW r \in AcquireResults, vkAcquireNextImageKHR(r) PROVE Good
    BY <2>8 DEF Regular, vkAcquireNextImageKHR
  <2>9. ASSUME NEW r \in SubmitResults, submit_queue(r) PROVE Good
    BY <2>9 DEF Regular, submit_queue
  <2>10. ASSUME wait_for_fence \/ reset_fence \/ advance_frame PROVE Good
    BY <2>10 DEF Regular, wait_for_fence, reset_fence, advance_frame
  <2>11. ASSUME NEW r \in PresentResults, present_queue(r) PROVE Good
    BY <2>11 DEF Regular, present_queue
  <2>12. ASSUME on_framebuffer_resize \/ end_of_poll PROVE Good
    BY <2>12 DEF Regular, on_framebuffer_resize, end_of_poll
  <2>13. ~ destroy_sync_objects /\ ~ destroy_descriptor_set_layout /\ ~ close_window
    BY DEF destroy_sync_objects, destroy_descriptor_set_layout, Destroy, close_window
  <2>14. ASSUME GpuDraw \/ GpuPresent \/ \E f \in Frames : EngineReady(f) PROVE Good
    BY <2>14 DEF Regular, GpuDraw, GpuPresent, EngineReady
  <2>15. ASSUME NEW e \in Extents, SurfaceResized(e) PROVE Good
    BY <2>15 DEF Regular, SurfaceResized
  <2>16. ASSUME UNCHANGED vars PROVE Good
    BY <2>16 DEF Regular, vars
  <2> QED
    BY <2>2, <2>3, <2>4, <2>5, <2>6, <2>7, <2>8, <2>9, <2>10, <2>11, <2>12, <2>13,
       <2>14, <2>15, <2>16
    DEF Next, Host, Gpu, WindowSystem, create_swapchain, draw_frame, poll_events
<1> QED
  BY <1>1, <1>2, Invariance, PTL DEF Spec

(* In such a run every step of the renderer follows Presentation.          *)
COROLLARY FramesFollowPresentation ==
  ASSUME AcquireResults \subseteq { "success", "suboptimal", "out_of_date" }, ~ MayClose
  PROVE  Spec => Implements
BY RegularFrames, FollowsPresentation, PTL

-----------------------------------------------------------------------------
(***************************************************************************)
(* Nobody waits in vain.                                                   *)
(***************************************************************************)

(* Every step leaves behind each wait work that can go on.                 *)
LEMMA WaitInvStep ==
  ASSUME AcquireResults \subseteq { "success", "suboptimal", "out_of_date" },
         SubmitResults \subseteq { "success" },
         IInv, WaitInv, [Next]_vars
  PROVE  WaitInv'
<1> USE DEF frameVars, resizeVars, objectVars, syncVars, engineVars, windowVars,
            FramePoints, CreatePoints, CleanupPoints, QuietPoints
<1>1. ASSUME create_descriptor_set_layout \/ create_sync_objects PROVE WaitInv'
  BY <1>1, Indices
  DEF IInv, TypeOK, QueueInv, WaitInv, create_descriptor_set_layout,
      create_sync_objects, Abort
<1>2. ASSUME device_wait_idle \/ destroy_swapchain \/ pick_swapchain_extent
      PROVE  WaitInv'
  BY <1>2 DEF WaitInv, device_wait_idle, destroy_swapchain, pick_swapchain_extent
<1>3. ASSUME destroy_swapchain_resources PROVE WaitInv'
  BY <1>3 DEF WaitInv, destroy_swapchain_resources, Destroy
<1>4. ASSUME create_swapchain_objects PROVE WaitInv'
  BY <1>4, SwapchainCreations DEF WaitInv, Create, Abort
<1>5. ASSUME create_command_buffers \/ create_framebuffers PROVE WaitInv'
  BY <1>5 DEF WaitInv, create_command_buffers, create_framebuffers, Create, Abort
<1>6. ASSUME create_uniform_buffers \/ record_command_buffers PROVE WaitInv'
  BY <1>6 DEF WaitInv, create_uniform_buffers, record_command_buffers
<1>7. ASSUME NEW r \in AcquireResults, vkAcquireNextImageKHR(r) PROVE WaitInv'
  BY <1>7 DEF IInv, TypeOK, Semaphores, QueueInv, WaitInv, vkAcquireNextImageKHR
<1>8. ASSUME NEW r \in SubmitResults, submit_queue(r) PROVE WaitInv'
  BY <1>8 DEF IInv, TypeOK, SyncInv, WaitInv, submit_queue
<1>9. ASSUME wait_for_fence PROVE WaitInv'
  BY <1>9 DEF WaitInv, wait_for_fence
<1>10. ASSUME reset_fence PROVE WaitInv'
  BY <1>10 DEF IInv, TypeOK, Semaphores, WaitInv, reset_fence
<1>11. ASSUME NEW r \in PresentResults, present_queue(r) PROVE WaitInv'
  BY <1>11 DEF IInv, TypeOK, QueueInv, WaitInv, present_queue
<1>12. ASSUME advance_frame PROVE WaitInv'
  BY <1>12, Indices DEF IInv, TypeOK, SyncInv, WaitInv, advance_frame
<1>13. ASSUME on_framebuffer_resize \/ end_of_poll PROVE WaitInv'
  BY <1>13 DEF WaitInv, on_framebuffer_resize, end_of_poll
<1>14. ASSUME destroy_sync_objects PROVE WaitInv'
  BY <1>14 DEF IInv, TypeOK, QueueInv, WaitInv, destroy_sync_objects
<1>15. ASSUME destroy_descriptor_set_layout PROVE WaitInv'
  BY <1>15 DEF WaitInv, destroy_descriptor_set_layout, Destroy
<1>16. ASSUME GpuDraw PROVE WaitInv'
  <2>1. Head(queue) = queue[1] /\ 1 \in 1 .. Len(queue) /\ queue[1].op = "draw"
    BY <1>16 DEF IInv, TypeOK, GpuDraw
  <2>2. Len(queue) = 1 /\ pc = "wait_fence" /\ queue[1].frame = current_frame
    BY <2>1 DEF IInv, QueueInv
  <2> QED
    BY <1>16, <2>1, <2>2 DEF IInv, TypeOK, Semaphores, WaitInv, GpuDraw
<1>17. ASSUME GpuPresent PROVE WaitInv'
  <2>1. Head(queue) = queue[1] /\ 1 \in 1 .. Len(queue) /\ queue[1].op = "present"
    BY <1>17 DEF IInv, TypeOK, GpuPresent
  <2>2. /\ ~ (in_flight[current_frame] = "signaled" \/ pc \in { "reset_fence", "present" })
    BY <2>1 DEF IInv, QueueInv, SyncInv, TypeOK
  <2>3. /\ Len(queue') = Len(queue) - 1
        /\ \A j \in 1 .. Len(queue') : j + 1 \in 1 .. Len(queue) /\ queue'[j] = queue[j + 1]
        /\ \A j \in 1 .. Len(queue) : j # 1 => j - 1 \in 1 .. Len(queue')
                                             /\ queue'[j - 1] = queue[j]
    BY <1>17, <2>1 DEF IInv, TypeOK, GpuPresent
  <2>4. ASSUME NEW j \in 1 .. Len(queue'), queue'[j].op = "present" PROVE FALSE
    <3>1. j + 1 \in 1 .. Len(queue) /\ queue[j + 1].op = "present" /\ j + 1 # 1
      BY <2>3, <2>4 DEF IInv, TypeOK
    <3>2. j + 1 = 1
      BY <2>1, <3>1 DEF WaitInv
    <3> QED
      BY <3>1, <3>2
  <2>5. /\ UNCHANGED << pc, caller, current_frame, image_available, in_flight >>
        /\ render_finished' = [ render_finished EXCEPT ![queue[1].frame] = "unsignaled" ]
    BY <1>17, <2>1 DEF GpuPresent
  <2>6. pc = "wait_fence" => \E j \in 1 .. Len(queue') : queue'[j].op = "draw"
    <3> SUFFICES ASSUME pc = "wait_fence"
                 PROVE  \E j \in 1 .. Len(queue') : queue'[j].op = "draw"
      OBVIOUS
    <3>1. PICK j \in 1 .. Len(queue) : queue[j].op = "draw"
      BY <2>2 DEF WaitInv
    <3>2. j # 1
      BY <2>1, <3>1
    <3> QED
      BY <2>3, <3>1, <3>2
  <2>7. \A j \in 1 .. Len(queue') : queue'[j].op = "draw" =>
          image_available[queue'[j].frame] \in { "pending", "signaled" }
    BY <2>3 DEF WaitInv
  <2> QED
    BY <2>2, <2>4, <2>5, <2>6, <2>7 DEF WaitInv
<1>18. ASSUME NEW f \in Frames, EngineReady(f) PROVE WaitInv'
  <2>1. /\ image_available' = [ image_available EXCEPT ![f] = "signaled" ]
        /\ UNCHANGED << pc, caller, current_frame, render_finished, in_flight, queue >>
    BY <1>18 DEF EngineReady
  <2>2. \A g \in Frames : image_available[g] \in { "pending", "signaled" }
                          => image_available'[g] \in { "pending", "signaled" }
    BY <2>1 DEF IInv, TypeOK, Semaphores
  <2>3. current_frame \in Frames /\ \A j \in 1 .. Len(queue) : queue[j].frame \in Frames
    <3>1. \A j \in 1 .. Len(queue) : queue[j] \in Work
      BY DEF IInv, TypeOK
    <3> QED
      BY <3>1 DEF IInv, TypeOK, Work
  <2> QED
    BY <2>1, <2>2, <2>3 DEF WaitInv
<1>19. ASSUME close_window PROVE WaitInv'
  BY <1>19 DEF WaitInv, close_window
<1>20. ASSUME NEW e \in Extents, SurfaceResized(e) PROVE WaitInv'
  BY <1>20 DEF WaitInv, SurfaceResized
<1>21. ASSUME UNCHANGED vars PROVE WaitInv'
  BY <1>21 DEF WaitInv, vars
<1> QED
  BY <1>1, <1>2, <1>3, <1>4, <1>5, <1>6, <1>7, <1>8, <1>9, <1>10, <1>11, <1>12, <1>13,
     <1>14, <1>15, <1>16, <1>17, <1>18, <1>19, <1>20, <1>21
  DEF Next, Host, Gpu, WindowSystem, create_swapchain, draw_frame, poll_events

(* When the host waits, for its fence, the device or an image              *)
(* (renderer.cpp:236-243, 291, 495), the work at the head of the queue     *)
(* waits for nobody but the presentation engine: unless a submission or an *)
(* acquisition fails, host and queue never wait for each other.            *)
THEOREM NobodyWaitsInVain ==
  ASSUME AcquireResults \subseteq { "success", "suboptimal", "out_of_date" },
         SubmitResults \subseteq { "success" }
  PROVE  Spec => []WaitsForWork
<1>1. Init => WaitInv
  BY DEF Init, WaitInv
<1>2. IInv /\ WaitInv /\ [Next]_vars => WaitInv'
  BY WaitInvStep
<1>3. IInv /\ WaitInv => WaitsForWork
  <2> SUFFICES ASSUME IInv, WaitInv, HostWaits
               PROVE  /\ queue # << >>
                      /\ IF Head(queue).op = "draw"
                         THEN image_available[Head(queue).frame] \in { "pending", "signaled" }
                         ELSE render_finished[Head(queue).frame] = "signaled"
    BY DEF WaitsForWork
  <2>1. queue # << >>
    <3>1. CASE pc = "wait_fence" /\ in_flight[current_frame] # "signaled"
      BY <3>1 DEF WaitInv
    <3>2. CASE pc = "acquire" /\ Available = {}
      <4>1. acquired = {}
        BY <3>2 DEF IInv, HeldInv
      <4>2. PICK i \in Images : i # onscreen
        BY CountAssumption DEF Images
      <4> QED
        BY <3>2, <4>1, <4>2 DEF Available
    <3> QED
      BY <3>1, <3>2 DEF HostWaits
  <2>2. Head(queue) = queue[1] /\ 1 \in 1 .. Len(queue)
        /\ queue[1].op \in { "draw", "present" }
    BY <2>1, QueueTypes DEF IInv, TypeOK
  <2>3. caller # "dtor"
    BY DEF HostWaits, IInv, QueueInv, CleanupPoints
  <2> QED
    BY <2>1, <2>2, <2>3 DEF WaitInv
<1> QED
  BY <1>1, <1>2, <1>3, Invariance, PTL DEF Spec
=============================================================================
