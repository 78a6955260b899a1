# Luciole: models, model checking and proofs

Luciole is a small C++ Vulkan engine: a window on an X server (`ui/window.cpp`),
a Vulkan context (`context.cpp`), and a renderer (`graphics/renderer.cpp`) that
draws vertex and index buffers with two frames in flight. This directory holds
TLA+ models of the parts of it that decide in which order things happen, the TLC
runs that check them, and TLAPS proofs of every invariant, refinement and action
property that the passing runs check.

Paths below are relative to `src/`: `renderer.cpp` is
`src/luciole/graphics/renderer.cpp`, `context.hpp` is
`includes/luciole/context.hpp`, and so on.

## The system

| Component | State | Operations | Talks to |
|---|---|---|---|
| Renderer (`renderer.cpp`, `renderer.hpp`) | one handle (or vector of handles) per kind of Vulkan object; two semaphores and a fence per frame in flight; `current_frame`, `is_framebuffer_resized`, window size, swapchain extent | constructor, `draw_frame`, `create_swapchain`, `cleanup_swapchain`, `record_command_buffers`, the resize callback, destructor | the driver (graphics queue, presentation engine) through the context; the window through a callback |
| Window (`window.cpp`, `message_handler.hpp`) | position, size, open flag, lists of listeners | constructor, moves, `poll_events`, `add_callback`, getters | X server (a queue of events), listeners |
| Context (`context.cpp`) | instance, messenger, surface, gpu, device, command pools, queues, allocator | constructor, moves, destructor, one wrapper per driver call | the driver |
| Queue selection (`context.cpp` 783-806, 1259-1401) | map from roles to queues, map from families to pools | `get_queues`, `create_command_pools`, `get_unique_family_indices` | the driver's list of families |
| Errors (`errors.hpp`, `errors.cpp`) | none | `to_type`, `to_string`, `is_error` | used by every class above |
| Vertex and index buffers (`vk/buffers`) | buffer, allocation, allocator handle | construction through a staging buffer, moves, destruction | transfer queue, allocator |
| Uniform buffers (`vk/buffers`) | as above, mapped by the host | construction, `map_data`, moves, destruction | allocator; held by the renderer |
| Shaders (`vk/shaders`) | a module; a map from ids to shaders; a static counter of ids | `load_shader`, compilation, moves, destruction | context; the renderer's `load_shader` |
| Descriptor pool (`vk/descriptor_pool.cpp`) | pool, capacity | construction, moves, destruction | context; nothing allocates from it yet |
| Triangle example (`examples/triangle/main.cpp`) | none | constructs window, context, renderer; loop of `draw_frame` and `poll_events` | all |

`thread_pool` is empty, `atomic_queue::push` does not compile when it is
instantiated, `sys/component.hpp` is commented out; `external/` and the
delegates are third-party. None of these is modelled.

How they interact: `main` constructs a window, a context from it and a renderer
from both, then draws a frame and polls events until the window is closed. The
program has one thread, and the concurrency is with machines it does not
control. The GPU takes submissions from the graphics and transfer queues and
signals semaphores and fences when it likes. The presentation engine hands out
images in any order and may call a swapchain outdated. The X server resizes the
window at any moment and queues a notification that the program reads later.

What is hard, and what makes each component correct:

- **Renderer.** Two frames share semaphores, fences and per-image command
  buffers. What is submitted must be idle, alive and recorded for the current
  swapchain; a semaphore given to an acquisition must not be armed already,
  whatever early return the last frame took; no image is kept; a resize that
  arrives between reading the capabilities and creating the swapchain is not
  forgotten; ten kinds of objects, destroyed and cleared by hand, are never
  destroyed twice, forgotten or destroyed before what was created from them.
- **Window.** Several events are queued between two polls, the window may be
  moved and the connection may break; the listeners must end in the server's
  state, with a size that is real, each resize of both dimensions must be told
  once and in order, and a close must end the loop with nothing unread.
- **Context.** A constructor of ten steps that may each fail, moves that take
  handles and swap containers: each object has one owner, together with its
  parent, and children are destroyed first.
- **Queue selection.** Loops over families with flags and hand-counted queue
  indices, and iteration over unordered maps: the right families whatever their
  order, no queue shared by two roles, a pool with the right flags for each.
- **Owners of handles.** Six classes, each with hand-written moves and its own
  test in the destructor: a handle must be destroyed once, by an object that
  knows its device or allocator. A staging buffer that the transfer queue reads
  is destroyed by the host; what is kept must be uploaded. Shaders are found by
  an id that a static counter gives out, whichever manager loads them.
- **Errors.** An enumeration, a switch and a table of strings kept in step by
  hand; results without a case count as success.

`PROJECT.json` lists every hazard at its line under "hazards", with the
properties that would catch it, or why there is none.

## Modules

| Module | Models |
|---|---|
| `Errors` | `VkResult` to `vk::error::type` to string; used by all modules that look at a result |
| `ErrorReports` | an error from its construction to its message |
| `Renderer` | the renderer with the GPU, the presentation engine and the window system around it |
| `Presentation` | abstract: the life of swapchain images |
| `Notifications` | abstract: how a size travels from the window system to a window and its listeners |
| `RendererInvariant` | the inductive invariants of the renderer, as TLC can check them too |
| `RendererProofs`, `ObjectProofs`, `PresentationProofs` | the renderer's theorems: synchronisation and resizes; the life of its objects; the refinement of `Presentation`, and that nobody waits in vain |
| `ReleaseBuild` | the renderer when the compiler removes calls declared `PURE` |
| `Window`, `WindowProofs` | `poll_events`, the listeners, moves, the main loop, and the X server; theorems |
| `QueueSelection`, `QueueSelectionProofs` | queues, pools and family indices; theorems |
| `Context`, `ContextProofs` | construction, moves and destruction of contexts; theorems |
| `Resources`, `ResourcesProofs`, `ContentProofs` | the six classes that own a handle of the device, in a program that builds, moves and destroys them; theorems |
| `Ownership` | abstract: a thing that was made has one owner until it is destroyed |
| `MC...` | values of the constants for TLC |

How they are composed. `Errors` is extended by every module that looks at a
result. `Window` and `Renderer` meet in one thing, the size. `Window` implements
`Notifications`: it may pass over an announcement that shares a dimension with
the size it has, and tells every other, as it was and in order, to the listeners
it has. `Renderer` takes that for its environment: the surface changes, and the
notification waits to be polled or, when `OneDimension` is true, may never come.
With `OneDimension` false it is the environment `Window` guarantees when no
resize changes a single dimension (finding 4) and the window is not moved; `NoResizeLost` and `CatchesUp` are said of that one, every other
theorem about `Renderer` of either. A product of the two state spaces would say
the same in many more states. `Renderer` takes uniform buffers as one kind of
swapchain object and `Resources` models their class; `Context` takes its queues
from what `QueueSelection` establishes.

### Renderer

`pc` names the driver call the host makes next; one action is one call, because
between two calls the GPU or the window system may act. `caller` is the return
address of `create_swapchain` (constructor, `draw_frame` after an outdated
acquisition, `draw_frame` after presenting) or of `cleanup_swapchain`
(destructor). A driver object is a pair of a kind and an id, and `member` maps
each kind to the id held, 0 being `VK_NULL_HANDLE`; per-image vectors are filled
and cleared as a whole and stand as one object. `generation` counts calls of
`create_swapchain`, so an object of an older swapchain is distinguishable.
`live` is what the driver has created and not destroyed. Each entry of `queue`
carries the objects it uses.

Driver assumptions (external): submissions and presentations of one queue
execute in order; a submission starts when the semaphore it waits for is
signaled; a presentation starts when rendering is finished, and unlike a
submission has no fence; the surface's extent differs from the swapchain's
whenever "out of date" is answered; waits for fences and for an idle device do
not fail (`device_wait_idle` does not look at the result, `renderer.cpp:344`).
The extent is one number: width and height are clamped and compared in the same
way in `pick_swapchain_extent`. `MaxResizes` bounds the resizes of the surface,
nothing else is bounded: every other variable is finite because a recreation
needs a resize.

Creations in `Renderer` fail with a result `to_type` knows (`ResultAssumption`).
Results it does not know count as success and leave a null handle; what happens
then is modelled once, in `Context`.

Left out: `operator=(renderer&&)` (the example never moves a renderer),
`load_shader`, and the contents of create infos (formats, present mode, pipeline
stages).

### ReleaseBuild

`luciole_core.hpp:27-33` defines `PURE` as `__attribute__((pure))`, and
`context.hpp` puts it on functions that are called for their effect. The results
of `submit_queue` and `device_wait_idle` are thrown away, so an optimising
compiler may remove the calls, and `Release` is the default build type
(`CMakeLists.txt:23-25`). `ReleaseBuild` is the renderer without the call of
`submit_queue`. The other modules model a build that keeps every call, as an
unoptimised one does; `queue_wait_idle`, on which the staging buffers of
`Resources` depend, is declared `PURE` in the same way (`context.hpp:431`).

### Window

`server` is the truth the X server keeps; each change of it appends one event.
`wnd` is the window with what its listeners were told last: no size before the
first resize (`Untold`, the 0 that the renderer starts from). A poll takes
events until the queue is empty, one action per event, so the server may send
more in the middle of it. `ServerLost` breaks the connection: events that were
not read may be lost, and `xcb_poll_for_event` answers null from then on, which
`poll_events` takes for an empty queue. `move_window` is a move construction or
assignment; position, size and state go along, the message handlers do not, and
`has_listeners` is false from then on, and `told` stays as it is. `MaxEvents`
bounds the events of a behaviour. Left out: key code translation and the
creation of the X window.

### QueueSelection

One action per iteration of a loop; `todo` holds the elements of an unordered
map that the loop has yet to visit, so that every iteration order is explored.

### Context

`pc` walks through the constructor and the destructor; `ctx` maps each of
several slots, in which the program can hold a context, to its handles; `alive`
is what the driver keeps. `machine` says which layers, extensions and gpus there
are and `enable_debug_layers` how the engine was built. A null handle that is
given to the driver ends in `"undefined"`: the model does not follow the process
further. An assignment swaps nothing but the containers: the handles of the
context assigned to are written over. `overwritten` remembers which objects that
happened to, so that the properties can say of all others that nothing is
forgotten. Assumption on the program, which the example satisfies: it constructs
one context from a window (a second would register its logger again, which
throws).

### Resources

A program has a few variables (`Slots`), and in each of them an object of one of
six classes: `vertex_buffer`, `index_buffer`, `uniform_buffer`,
`descriptor_pool`, `shader`, `shader_manager`. It default constructs them, gives
them a handle as `renderer.cpp:66-110` does (a temporary that is move assigned),
moves them, and destroys them, in any order. An object is its class, its
`handle`, its shaders if it is a manager, and its `parent`, the `p_context` or
allocator it needs in order to destroy the handle. A default constructed manager
has an indeterminate `p_context` (`shader_manager.hpp:30, 55`), and the
manager's own moves move nothing; `main.cpp:37-38` loads two shaders through
such a manager. That is undefined behaviour, and `"undefined"` is where a
behaviour with it ends, as it is for `map_data` on a buffer without memory.

The two uploaded buffers have the same constructor, line for line: staging
buffer, `map_data`, buffer, recorded copy, `submit_queue`, `queue_wait_idle`,
end of the staging buffer, one action each, while the transfer queue (`Copy`)
runs a submitted copy when it likes. `queue_wait_idle` is taken to succeed; the
code does not look at its result (`vertex_buffer.cpp:162`). `load_shader` is one
action: a file that cannot be read ends the program, a name without a known
stage fails an assertion that a release build goes past (`"undefined"`), and
source that does not compile is passed over: it gets an id and a module like any
other.

## Runs

| Run | Question | Bounds |
|---|---|---|
| `renderer_frames` | Is everything handed to the queue idle and current? Is no image kept, no announced resize lost? Does each step implement `Presentation`? Can the work the host waits for always go on? Does each frame end and the swapchain catch up? | 3 images, 2 frames in flight, extents 1..2, 2 resizes; 19,434 states |
| `renderer_teardown` | Under failing acquisitions, submissions, presentations and creations, resizes that are not announced and a close at any frame: do objects die in order and exactly once, down to the destructor, and does work on the queue use live ones? | 2 images, 2 frames, 2 resizes; 83,822 states |
| `window_events` | Do window and listeners end in the server's state? Does the window implement `Notifications`? Does a close end the loop, unless the connection breaks? | 3 events, 1 key, 1 button, 2 positions, 4 sizes, any moves; 825,120 states |
| `queue_selection` | Are families, queues, pools and sharing indices right for every list? | lists of up to 3 families, any iteration order; 53,467 states |
| `context_lifetime` | Do contexts own what exists, once and with its parent, from construction through moves and assignments to destruction? | 28 machines, both builds, 3 slots; 47,094 states |
| `buffer_upload` | Is what is kept uploaded, owned once and destroyed with its parent? Do ids name their shaders? Do the classes implement `Ownership`? | 2 variables, 6 classes, 3 files, 3 results, 2 loads, 3 handles; 1,094,668 states |
| `renderer_command_buffer_leak` | violation of `AllObjectsDestroyed` | 2 images |
| `release_without_submit` | violation of `FenceIsReached` | 2 images, no resize |
| `error_strings` | violation of `StringIsEquivalent` | all types |
| `window_resize` | violation of `SizeFollowsServer` | as `window_events` |
| `context_device_extensions` | violation of `DeviceExtensionsSupported` | as `context_lifetime` |
| `context_pick_gpu` | violation of `PicksSuitableGpu` | as `context_lifetime` |

Why these bounds are enough. Two frames in flight is the constant of the code
and the least with which two frames compete; with three images an image can be
shown, one queued and one drawn at once and they come back in different orders.
Two resizes give a recreation during which the surface changes again. Three
events put two in the queue while a third arrives in the middle of a poll; the
four sizes differ pairwise in the width, in the height or in both. Three
families cover one that is exclusive, one universal and one neither, in each
order; three contexts let one be moved through another back to where it was. In
`Resources` two variables are enough for every pair of classes to exist at once
and for a move in either direction, three handles for a move over an object that
has one after another was given away, two loads for two managers that share the
counter; two of the three files have a known suffix and one has none, and each
may fail to be read or to compile. For the renderer, the queue selection, the
window's sizes, the contexts and the resources the proofs remove the bounds.

Deadlock is checked in `renderer_frames`. In the other passing runs the system
may really stop: the window is closed, the process aborts, the program has
ended, or a fence is waited for that a failed submission never signals.

### Fairness

`renderer_frames` uses `FairSpec`: weak fairness of the host (one thread that
runs on whenever the call it makes can return), of the GPU's queue (it executes
what it was given) and of the presentation engine making an acquired image ready
(acquisition without a timeout is documented to signal its semaphore). The
window system owes nothing: resizes may never come. `Window!FairSpec` asks weak
fairness of the main loop only; the user and the server owe nothing.
`CatchesUp` does not rely on the driver reporting an outdated swapchain: it may
answer so or never. It does rely on the notification, which a resize of one
dimension does not send: `renderer_frames` has `OneDimension` false.

## What the runs found

Each of these is a run that violates one property, and a "finding" in
`PROJECT.json` that quotes the text the property states.

1. `cleanup_swapchain` does not free the command buffers, and the next
   `create_swapchain` overwrites their handles: one set is lost per recreation.
2. With the call of `submit_queue` removed as a pure call, the fence that
   `draw_frame` waits for is never signaled.
3. `string_type` lacks the entry for `e_out_of_date`: every later type gets its
   neighbour's string and the last one reads past the array.
4. A resize of only the width or only the height is ignored by `poll_events`.
   `SizeSharesDimension` is what still holds: the window is never wrong about
   both dimensions.
5. `load_device_extensions` uses `strcmp` as a condition, so an extension counts
   as found when the gpu has one with another name.
6. `pick_gpu` tests the highest rating and returns the gpu with the lowest.

Other disagreements are recorded as hazards, where no property is claimed for
them: a window that is moved forgets its listeners and goes on polling
(`ListenersFollowServer`, `SizeSharesDimension` and `TellsEveryResize` say what
still holds of it); a result `to_type` has no case for counts as success, and a
context goes on with a null handle (`NullUsedOnlyAfterAssignment` says when it
cannot happen); a shader that does not compile gets an id and a module without
its code; a machine without the optional validation layer aborts a debug build; a failed submission or lost surface
leaves the host waiting; a buffer whose copy was refused is drawn with contents
nobody wrote; assigning to a context that holds objects writes over their
handles and leaves its pools to a context without device; a wait that fails is
taken for one that succeeded; the destructor does not wait for presentations; a
broken connection leaves the window open for the program (`CloseEndsLoop` is
stated with that exception); the default constructed shader manager of a
renderer has no context. Two that the models leave out: the `operator=` of the
three buffers and of the descriptor pool have no return statement
(`vertex_buffer.cpp:193`, for one), and `shader.cpp:41` gives the size of the
code in words where bytes are meant.

## Proofs

All proofs are checked by `tlapm` with SMT, Zenon and the LS4 backend, for every
value of the constants that satisfies the named assumptions.

**`RendererProofs`** assumes `CountAssumption` (at least two images and two
frames in flight), `ExtentAssumption` and `ResultAssumption`. It covers surfaces
that leave the extent to the application (`ReportsExtent = FALSE`), any number
of resizes and every subset of failing results, which no single run does. The
properties are not inductive: that the fence of a submission is idle depends on
what the previous frame left on the queue. `IInv` (module `RendererInvariant`)
adds, for each point of the host's code,

- `QueueInv`: a submission is on the queue only while its own frame waits for
  its fence; the queue is empty at the points reached after such a wait or after
  `device_wait_idle`; a presentation left on the queue belongs to another frame;
- `SyncInv`: only the current frame has a fence or acquisition semaphore that is
  not unsignaled, and a signaled rendering semaphore has a presentation pending;
- `ObjectInv`: what `create_swapchain` has built by each point is alive, and the
  recording refers to it;
- `HeldInv`, `ResizeInv`: an image is held between acquisition and presentation;
  the extent read, the flag and the events on their way never all miss a resize.

`Invariance` proves `Spec => []IInv` with one lemma per conjunct and one step
per action; the theorems `TypeCorrect`, `SubmissionsIdle`, `AcquisitionsIdle`,
`WorkSafe`, `RecordingsCurrent`, `OneImageHeld` and `ResizesKept` follow from it,
the last for a surface whose resizes are all announced (`~ OneDimension`) or that
leaves its extent to the application (`~ ReportsExtent`).

**`ObjectProofs`** has the renderer's assumptions and builds on `Invariance`. Its
invariant `LifeInv` (module `RendererInvariant`) says that a handle is not null
exactly when its object is alive (`HandleInv`), that what an object was made
from is held with it (`ParentInv`), and which handles are null at each point of
`cleanup_swapchain` and `create_swapchain` (`NullInv`): without the last a
creation could write over the handle of a living object, and a destruction could
leave a child behind. `MadeLives` and `GivenBack` prove the first two for any
creation and destruction; each action then shows that it meets their conditions.
From it: `ParentsLast` and `NothingForgotten`.

**`PresentationProofs`** has the renderer's assumptions. Its invariant
`PlaceInv` says that an image is in one place only (on the screen, on the queue
once, or with the application, which keeps it while it is drawn), so that
`StageOf` gives each image one stage and a step changes the stage of the image
it is about. The refinement does not hold of every behaviour, and should not:
after an acquisition that fails with anything but "out of date" `draw_frame`
submits an image it does not have, and the destructor does not wait for
presentations. `Regular` says that neither happens. `FollowsPresentation` proves
the refinement for every behaviour that is `Regular` throughout; `RegularFrames`
proves that a surface that is not lost and a window that stays open make it so,
whatever the creations and presentations answer; `FramesFollowPresentation` puts
the two together.

`NobodyWaitsInVain` is the safety half of `FrameEnds`, and holds with a window
that closes and creations and presentations that fail: whenever the host has to
wait, for a fence, for the device to be idle or for an image, there is work on
the queue, and what its first entry waits for has happened or will
(`WaitsForWork`). `WaitInv` is inductive over `IInv`: a submission on the queue
waits for a semaphore that an acquisition signals, a fence that is waited for
has its submission on the queue, and a presentation, of which there is one at a
time, finds its rendering done. Its two hypotheses are the two hazards of
`renderer.cpp:236`: no acquisition fails with anything but "out of date", and no
submission fails. With the values of `renderer_teardown` and only one of the
two, TLC finds a wait that nothing ends: neither can be dropped.

**`WindowProofs`** assumes `MaxEventsAssumption` only. `IInv` is the type of
window, queue and server, and `ChainInv`: an event that announces no size
carries the one announced before it (the first in the queue shares a dimension
with the window's), and the last event carries the size the server has. It is
needed because `poll_events` passes over events that say nothing of the size,
and the refinement must allow that each of them is ignored. `DispatchSize` says
what one event does to the size; the `Announced...` lemmas say that queueing,
polling and losing events is appending, taking and losing sizes. From these:
`SizesReal`, `DimensionsShared`, and `ResizesTold`: the window implements
`Notifications` for any sizes, any number of events and moves, and a connection
that may break.

`ListenersFollow` is about what the window will be once everything that is queued
now has been polled. `After` computes that by recursion on the queue, as a
recursive function, and its proof is an induction on the length of the queue. The
library states induction for an operator parameter, which the backends cannot
instantiate; `Induction` derives it for sets of numbers from the well-foundedness
of `<` (`NatLessThanWellFounded` and `WFMin`), and `PollingExists` and
`PollingUnique` show that the function exists and is the only one. With that,
`AfterAppend` and `AfterTail` say what one more event and one event less do to
`After`, `AfterMove` what a move does, and the invariant follows action by
action. `LoopLeftDrained` needs that a window that is closed was asked to close
(`CloseInv`).

**`QueueSelectionProofs`** assumes `FamilyListsAssumption` and
`PoolResultsAssumption`, so it holds for lists of any length. Its `IInv` adds
what the flags of the loops say of the families passed (`FlagsInv`), which
family each role has been given (`ChosenInv`), that visited queues have pools
with the flags accumulated so far (`PoolsInv`) and that indices are the families
of the queues visited (`IndicesInv`). From it: `TypeCorrect`,
`SelectsFirstFamilies`, `RolesHaveTheirQueues`, `QueueIndicesDense`,
`QueuesHavePools`, `SharesBetweenFamilies`.

**`ContextProofs`** assumes `SlotsAssumption` (the first context is one of the
slots) and, for the types, `MachinesAssumption` (the shape of what the driver
says of its gpus). It holds for any machines, any results and any number of
contexts. Its
`IInv` has, next to the four properties of the run (`OwnInv`), what was written
over (`OverwrittenInv`: it is held by no context and its parent was written over
with it), who can hold something (`LiveInv`: during construction one context
holds all there is; later, only constructed contexts hold anything), which
handles are null at each point of constructor and destructor (`NullInv`: a
creation never writes over a handle, and when a parent is destroyed its children
are gone) and that a build without debug layers has no messenger
(`MessengerInv`, since its destructor passes over one). A step makes an object,
hands objects over, destroys some or forgets the instance: `MakesKeeps`,
`HandsKeeps`, `DropsKeeps` and `ForgetsKeeps` prove `OwnInv` for each, in terms
of what contexts hold alone. From it: `ObjectsHaveOneContext`,
`ChildrenDieFirst`, `FamiliesStayTogether`, `OnlyAssignmentsLose`.
`ExtensionsAreSupported` needs a smaller invariant, of `enabled` alone.

`TypeCorrect` has one part that is not a matter of shape: the gpu that later
steps ask for queues, extensions and a device is one the driver enumerated. It
needs that `pick_gpu`'s multimap has a first element, one with the lowest rating
and, among those, the one inserted first (`CandidatesBegin`, from `LeastExists`).

`NullUsedOnlyAfterAssignment` says which of the hazards of `context.cpp` can make
the engine give the driver a null handle: a result `to_type` does not know
(`errors.hpp:117`), a gpu without the swapchain extension, which
`load_device_extensions` takes for supported (`context.cpp:977`), and an
assignment to a context that holds objects (`context.cpp:364`). Without the first
two (`ResultsAreKnown`, `SwapchainsEverywhere`) the constructor never does, and
the destructor only when it has pools whose device an assignment wrote over. No
run has the two hypotheses, since the machines and results of `context_lifetime`
are chosen to break them; with the other values of `MCContext` TLC finds no
counterexample to it, and finds one as soon as either hypothesis is dropped.

**`ResourcesProofs`** assumes `ResourcesAssumption` and `SlotsAssumption` (a
variable of the program is none of the words `Ownership` uses for a handle that
nobody has). Its `IInv` adds to `OneOwner` where the constructor of an uploaded
buffer has come to (`UploadInv`: a copy is on the transfer queue only while it
is waited for, and it is between the staging buffer and the buffer being built)
and that handles come in order and ids from the counter (`TypeInv`), so that a
new handle is nobody's and the id of a load is in no map. Each action is shown
to be one of four things to the handles, an `Effect`: nothing, making one,
handing all of an object's over, or dropping them. `EffectKeepsOwner` and
`EffectIsStep` then speak of effects only, and give `HandlesHaveOneOwner`,
`CopiesUseLiveBuffers` and `ImplementsOwnership`, for any variables and files,
any results and any number of handles and loads. `DestroysWhatItHas` is where the
five conditions of the destructors come in: they differ, and with one owner
each of them comes to the same. `TypeCorrect` adds to `IInv` where the
constructors are and what the queue refused (`UploadTypes`).

**`ContentProofs`** has the same assumptions and builds on `ResourcesInvariance`.
`ContentInv` adds to `KeptIsUploaded` and `IdsNameTheirShaders` what the staging
buffer and the buffer being built hold at each point of the constructor
(`BuildInv`). Because a handle has one owner, an object that a step leaves alone
keeps what it holds (`Same`, `StaysUploaded`, `StaysNamed`); so each action has
only its own object to account for. From it: `UploadsAreKept` and `IdsStayTrue`.

Only model-checked: liveness (`FrameEnds`, `CatchesUp`, `CloseEndsLoop`), which
TLAPS cannot prove, and everything about `ReleaseBuild` and `ErrorReports`, which
have only a violation to show. Each invariant, each refinement and the action
property of a passing run is stated by a theorem of the table under "theorems" in
`PROJECT.json`.

## Not modelled

- `operator=(renderer&&)` and moves of renderers: the example uses none, and the
  operator leaves ten members behind.
- A swapchain with another number of images than asked for
  (`context.cpp:740-773`, `renderer.cpp:640-663`): the driver may make more than
  the vectors have room for, and what happens then is undefined.
- The callback of a renderer that is gone: the window keeps a pointer to it, and
  a resize polled after that is undefined; `main` destroys the renderer with the
  window, after the last poll.
- Waits that fail (`vkWaitForFences`, `vkDeviceWaitIdle`, `vkQueueWaitIdle`: the
  device is lost or memory has run out). The code discards the results
  (`renderer.cpp:344`, `vertex_buffer.cpp:162`) and goes on: `WorkUsesLiveObjects`,
  `CopyUsesLiveBuffers` and `KeptIsUploaded` say nothing of what happens then.
- The missing return of the `operator=` of buffers and pool, and the code
  size in words: undefined from there on, whatever the program does.
- The shader compiler and the vendored libraries; delegates (a call of the
  listener); the translation of key codes; the contents of create infos (formats,
  present mode, stages). They keep no state of this program.
- `thread_pool` is empty, `atomic_queue` does not compile when it is used,
  `sys/component.hpp` is commented out: there is no behaviour.

## Plan

Built: `Errors`, `Renderer` with its proofs, `Presentation`, `Window` with its
proofs, `Notifications`, `QueueSelection` with its proofs, `Context` with its
proofs, `Resources` with its proofs, `Ownership`, `ReleaseBuild`.

To extend the model: assignment of renderers, once a program uses it, and
swapchains with more images than asked for.
