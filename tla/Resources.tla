------------------------------ MODULE Resources ------------------------------
(***************************************************************************)
(* The classes of src/luciole/vk that own a handle of the device:          *)
(* vertex_buffer, index_buffer, uniform_buffer, descriptor_pool, shader,   *)
(* and shader_manager, which owns the shaders it loads. A program (the     *)
(* renderer is one, renderer.cpp:66-110) builds objects of these classes   *)
(* in its variables, moves them and destroys them, in any order. Vertex    *)
(* and index buffers are filled through a staging buffer that the transfer *)
(* queue, an actor of its own, copies from.                                *)
(*                                                                         *)
(* A buffer and its allocation come and go together: one handle stands for *)
(* both. The parent of an object is its p_context or memory_allocator. The *)
(* missing return of four of the operator= is undefined and left out.      *)
(***************************************************************************)
EXTENDS Naturals, Sequences, Errors

CONSTANTS
  Slots,         \* the variables of the program that hold objects
  Classes,       \* the classes of the objects it builds
  Files,         \* the shaders it loads: a name is the sequence of its parts between dots
  Results,       \* what the calls that create or submit may answer
  MaxLoads,      \* bound: shaders loaded
  MaxHandles     \* bound: handles given out, the staging buffers' not counted

BufferClasses == { "vertex_buffer", "index_buffer" }
AllClasses == BufferClasses \cup { "uniform_buffer", "descriptor_pool", "shader", "shader_manager" }

ASSUME ResourcesAssumption ==
  /\ Classes \subseteq AllClasses
  /\ Files \subseteq Seq(STRING) \ { << >> }
  /\ Results \subseteq VkResults
  /\ MaxLoads \in Nat
  /\ MaxHandles \in Nat

(* The variables are told apart from what else a name may stand for.       *)
ASSUME SlotsAssumption == Slots \cap { "none", "unborn", "destroyed", "lost", "shared" } = {}

VARIABLES
  pc,          \* "ready", or what the constructor of an uploaded buffer does next
  building,    \* the variable whose object is being constructed
  object,      \* the objects
  staging,     \* locals of that constructor
  cmd_buffer,
  made,        \* the device: handles given out,
  alive,       \* those that exist,
  content,     \* what they hold,
  transfer,    \* copies submitted to the transfer queue,
  refused,     \* and buffers whose copy it did not take
  SHADER_ID_COUNT,        \* the statics of shader_manager
  GLSLANG_INITIALIZED,
  answers      \* ids the program got from load_shader

upload == << building, staging, cmd_buffer >>
queue == << transfer, refused >>
manager == << SHADER_ID_COUNT, GLSLANG_INITIALIZED, answers >>
vars == << pc, upload, object, made, alive, content, queue, manager >>

NULL == 0
None == "none"
Handles == 1 .. MaxHandles
STAGING == MaxHandles + 1
Buffers == Handles \cup { STAGING }
Parents == { "none", "device", "indeterminate" }
NoCopy == [ src |-> NULL, dst |-> NULL ]

Object(c, p, h) == [ class |-> c, parent |-> p, handle |-> h, shaders |-> << >> ]
Nothing == Object("nothing", "none", NULL)

holds(s, h) ==
  \/ object[s].handle = h
  \/ \E id \in DOMAIN object[s].shaders : object[s].shaders[id] = h

Unwritten == << >>
Filled(class) == << class >>
Compiled(file) == << "shader" >> \o file
NoCode == << "shader" >>

Init ==
  /\ pc = "ready"
  /\ building = None
  /\ object = [ s \in Slots |-> Nothing ]
  /\ staging = NULL
  /\ cmd_buffer = NoCopy
  /\ made = 0
  /\ alive = {}
  /\ content = [ h \in Buffers |-> Unwritten ]
  /\ transfer = << >>
  /\ refused = {}
  /\ SHADER_ID_COUNT = 0
  /\ GLSLANG_INITIALIZED = FALSE
  /\ answers = {}

(* The device answers a creation: it gives a handle only on success.       *)
given(r) == IF r = "success" THEN made + 1 ELSE NULL
create(r) ==
  /\ made < MaxHandles
  /\ made' = IF r = "success" THEN made + 1 ELSE made
  /\ alive' = alive \cup ({ given(r) } \ { NULL })

(* Handles are destroyed, and what they held is no more.                   *)
gone(S) ==
  /\ alive' = alive \ S
  /\ content' = [ h \in Buffers |-> IF h \in S THEN Unwritten ELSE content[h] ]
  /\ refused' = refused \ S

free(s) == pc = "ready" /\ object[s] = Nothing

-----------------------------------------------------------------------------
(***************************************************************************)
(* Construction.                                                           *)
(***************************************************************************)

(* shader_manager( ) leaves p_context as it finds it.                      *)
default_construct(s, c) ==
  /\ free(s)
  /\ IF c = "shader_manager"
     THEN object' = [ object EXCEPT ![s] = Object(c, "indeterminate", NULL) ] /\ GLSLANG_INITIALIZED' = TRUE
     ELSE object' = [ object EXCEPT ![s] = Object(c, "none", NULL) ] /\ UNCHANGED GLSLANG_INITIALIZED
  /\ UNCHANGED << pc, upload, made, alive, content, queue, SHADER_ID_COUNT, answers >>

(* The result of vmaCreateBuffer is not looked at.                         *)
construct_uniform_buffer(s) ==
  /\ free(s)
  /\ \E r \in Results :
       create(r) /\ object' = [ object EXCEPT ![s] = Object("uniform_buffer", "device", given(r)) ]
  /\ UNCHANGED << pc, upload, content, queue, manager >>

(* The sizes asked for are never put into the list that is passed, so that *)
(* no size is. What create_descriptor_pool answers with an error leaves    *)
(* the pool null, as the driver does with the failures that are no error.  *)
construct_descriptor_pool(s) ==
  /\ free(s)
  /\ \E r \in Results :
       create(r) /\ object' = [ object EXCEPT ![s] = Object("descriptor_pool", "device", given(r)) ]
  /\ UNCHANGED << pc, upload, content, queue, manager >>

(* create_shader_module answers null unless the driver succeeds.           *)
construct_shader(s) ==
  /\ free(s)
  /\ \E r \in Results, f \in Files :
       /\ create(r)
       /\ object' = [ object EXCEPT ![s] = Object("shader", "device", given(r)) ]
       /\ content' = IF r = "success" THEN [ content EXCEPT ![given(r)] = Compiled(f) ] ELSE content
  /\ UNCHANGED << pc, upload, queue, manager >>

construct_shader_manager(s) ==
  /\ free(s)
  /\ object' = [ object EXCEPT ![s] = Object("shader_manager", "device", NULL) ]
  /\ GLSLANG_INITIALIZED' = TRUE
  /\ UNCHANGED << pc, upload, made, alive, content, queue, SHADER_ID_COUNT, answers >>

-----------------------------------------------------------------------------
(***************************************************************************)
(* The constructors of vertex_buffer and index_buffer.                     *)
(***************************************************************************)

(* The staging buffer; vmaCreateBuffer's result is not looked at.          *)
create_staging(s, c) ==
  /\ free(s)
  /\ made < MaxHandles
  /\ pc' = "map"
  /\ building' = s
  /\ object' = [ object EXCEPT ![s] = Object(c, "device", NULL) ]
  /\ \E r \in Results :
       LET buffer == IF r = "success" THEN STAGING ELSE NULL IN
       /\ staging' = buffer
       /\ alive' = alive \cup ({ buffer } \ { NULL })
  /\ UNCHANGED << cmd_buffer, made, content, queue, manager >>

(* Mapping the memory of a null buffer is undefined.                       *)
map_memory ==
  /\ pc = "map"
  /\ IF staging = NULL THEN pc' = "undefined" /\ UNCHANGED content
     ELSE pc' = "create" /\ content' = [ content EXCEPT ![staging] = Filled(object[building].class) ]
  /\ UNCHANGED << upload, object, made, alive, queue, manager >>

create_buffer ==
  /\ pc = "create"
  /\ pc' = "record"
  /\ \E r \in Results :
       create(r) /\ object' = [ object EXCEPT ![building].handle = given(r) ]
  /\ UNCHANGED << upload, content, queue, manager >>

(* Faulty variant: source and destination are swapped.                     *)
record_copy_swapped ==
  /\ pc = "record"
  /\ \E r \in Results :
       IF is_error(to_type(r)) THEN pc' = "aborted" /\ UNCHANGED cmd_buffer
       ELSE IF object[building].handle = NULL \/ r # "success" THEN pc' = "undefined" /\ UNCHANGED cmd_buffer
       ELSE pc' = "submit" /\ cmd_buffer' = [ src |-> object[building].handle, dst |-> staging ]
  /\ UNCHANGED << building, object, staging, made, alive, content, queue, manager >>

(* Faulty variant: records whatever the destination is.                    *)
record_copy_unchecked ==
  /\ pc = "record"
  /\ pc' = "submit"
  /\ cmd_buffer' = [ src |-> staging, dst |-> object[building].handle ]
  /\ UNCHANGED << building, object, staging, made, alive, content, queue, manager >>

(* create_command_buffers, then the recording: copying to a null buffer,   *)
(* and recording into a null command buffer, are undefined. The command    *)
(* buffer is never freed.                                                  *)
record_copy ==
  /\ pc = "record"
  /\ \E r \in Results :
       IF is_error(to_type(r)) THEN pc' = "aborted" /\ UNCHANGED cmd_buffer
       ELSE IF object[building].handle = NULL \/ r # "success" THEN pc' = "undefined" /\ UNCHANGED cmd_buffer
       ELSE pc' = "submit" /\ cmd_buffer' = [ src |-> staging, dst |-> object[building].handle ]
  /\ UNCHANGED << building, object, staging, made, alive, content, queue, manager >>

(* The result is ignored: the queue may have refused the copy. Here the    *)
(* compiler keeps the call, which is declared PURE (see ReleaseBuild).     *)
submit_queue ==
  /\ pc = "submit"
  /\ pc' = "wait"
  /\ \E r \in Results :
       IF r = "success" THEN transfer' = Append(transfer, cmd_buffer) /\ UNCHANGED refused
       ELSE refused' = refused \cup { cmd_buffer.dst } /\ UNCHANGED transfer
  /\ UNCHANGED << upload, object, made, alive, content, manager >>

(* Faulty variant: waits for a queue that has nothing to do.               *)
queue_wait_idle_other ==
  /\ pc = "wait"
  /\ pc' = "free_staging"
  /\ UNCHANGED << upload, object, made, alive, content, queue, manager >>

(* Declared PURE too; the model is of a build that keeps the call. Its     *)
(* result is not looked at: the wait is taken to succeed. (After one that  *)
(* fails the staging buffer would go before its copy.)                     *)
queue_wait_idle ==
  /\ pc = "wait"
  /\ transfer = << >>
  /\ pc' = "free_staging"
  /\ UNCHANGED << upload, object, made, alive, content, queue, manager >>

(* The last step: the constructor returns and its locals go.               *)
destroy_staging ==
  /\ pc = "free_staging"
  /\ pc' = "ready"
  /\ gone({ staging })
  /\ staging' = NULL
  /\ cmd_buffer' = NoCopy
  /\ building' = None
  /\ UNCHANGED << object, made, transfer, manager >>

(* The transfer queue runs its oldest copy.                                *)
Copy ==
  /\ transfer # << >>
  /\ content' = [ content EXCEPT ![Head(transfer).dst] = content[Head(transfer).src] ]
  /\ transfer' = Tail(transfer)
  /\ UNCHANGED << pc, upload, object, made, alive, refused, manager >>

-----------------------------------------------------------------------------
(***************************************************************************)
(* Loading shaders.                                                        *)
(***************************************************************************)

(* What follows the last dot, if there is one.                             *)
get_suffix(name) == IF Len(name) = 1 THEN "" ELSE name[Len(name)]

get_shader_stage(suffix) ==
  IF suffix \in { "vert", "tesc", "tese", "geom", "frag", "comp" } THEN suffix ELSE "unknown"

emplaced(shaders, id, h) ==
  [ i \in DOMAIN shaders \cup { id } |-> IF i \in DOMAIN shaders THEN shaders[i] ELSE h ]

(* Faulty variant: the count is not incremented.                           *)
load_shader_same_id(s, f) ==
  /\ pc = "ready"
  /\ object[s].class = "shader_manager" /\ object[s].parent = "device"
  /\ SHADER_ID_COUNT < MaxLoads
  /\ create("success")
  /\ content' = [ content EXCEPT ![made + 1] = Compiled(f) ]
  /\ object' = [ object EXCEPT ![s].shaders = emplaced(object[s].shaders, SHADER_ID_COUNT, made + 1) ]
  /\ answers' = answers \cup { [ manager |-> s, id |-> SHADER_ID_COUNT, file |-> f ] }
  /\ UNCHANGED << pc, upload, queue, SHADER_ID_COUNT, GLSLANG_INITIALIZED >>

(* The loader of the program is shader_compiler. Reading the file throws   *)
(* if it cannot, which nobody catches. A name without a known stage fails  *)
(* an assertion, which a release build goes past. That the source does not *)
(* preprocess, parse or link is passed over: the module is made from what  *)
(* there is, through whatever p_context holds. The shader is a temporary   *)
(* moved into the map, unless the map has its id.                          *)
load_shader(s, f) ==
  /\ pc = "ready"
  /\ object[s].class = "shader_manager"
  /\ SHADER_ID_COUNT < MaxLoads
  /\ \/ /\ pc' = "aborted"
        /\ UNCHANGED << object, made, alive, content, SHADER_ID_COUNT, answers >>
     \/ /\ get_shader_stage(get_suffix(f)) = "unknown" \/ object[s].parent = "indeterminate"
        /\ pc' = "undefined"
        /\ UNCHANGED << object, made, alive, content, SHADER_ID_COUNT, answers >>
     \/ /\ get_shader_stage(get_suffix(f)) # "unknown"
        /\ object[s].parent = "device"
        /\ made < MaxHandles
        /\ \E r \in Results, spir_v \in { Compiled(f), NoCode } :
             LET id == SHADER_ID_COUNT
                 shader == given(r)
                 shaders == emplaced(object[s].shaders, id, shader)
             IN /\ made' = IF r = "success" THEN made + 1 ELSE made
                /\ content' = IF r = "success" THEN [ content EXCEPT ![shader] = spir_v ] ELSE content
                /\ object' = [ object EXCEPT ![s].shaders = shaders ]
                /\ alive' = alive \cup (({ shaders[id] } \cap { shader }) \ { NULL })
                /\ SHADER_ID_COUNT' = id + 1
                /\ answers' = answers \cup { [ manager |-> s, id |-> id, file |-> f ] }
        /\ UNCHANGED pc
  /\ UNCHANGED << upload, queue, GLSLANG_INITIALIZED >>

-----------------------------------------------------------------------------
(***************************************************************************)
(* Moves, destruction, and the data of uniform buffers.                    *)
(***************************************************************************)

(* Faulty variant: the source keeps what was taken.                        *)
taken_copy(s, t) == [ object EXCEPT ![t] = object[s] ]

(* operator=: every field is taken, and nothing is left in the source. The *)
(* object assigned to does not destroy what it had.                        *)
taken(s, t) ==
  [ object EXCEPT ![t] = object[s], ![s] = Object(object[s].class, "none", NULL) ]

(* The move constructors assign to the default constructed object; that of *)
(* shader_manager, whose operator= moves nothing, is left with whatever    *)
(* p_context holds.                                                        *)
move_construct(s, t) ==
  /\ free(t)
  /\ object[s] # Nothing
  /\ object' = IF object[s].class = "shader_manager"
               THEN [ object EXCEPT ![t] = Object("shader_manager", "indeterminate", NULL) ]
               ELSE taken(s, t)
  /\ UNCHANGED << pc, upload, made, alive, content, queue, manager >>

(* Assigning a shader_manager changes nothing.                             *)
move_assign(s, t) ==
  /\ pc = "ready"
  /\ s # t
  /\ object[s].class = object[t].class
  /\ object[s].class \in AllClasses \ { "shader_manager" }
  /\ object' = taken(s, t)
  /\ UNCHANGED << pc, upload, made, alive, content, queue, manager >>

(* The conditions of the destructors. Those of uniform_buffer's that hold  *)
(* without a handle have vmaDestroyBuffer do nothing.                      *)
destroys_vertex_buffer(o) == o.handle # NULL
destroys_index_buffer(o) == o.parent # "none" /\ o.handle # NULL
destroys_uniform_buffer(o) == o.handle # NULL \/ o.parent # "none"
destroys_descriptor_pool(o) == o.handle # NULL

(* Faulty variant: a shader is destroyed by the one it was moved to only.  *)
destroys_shader_moved(o) == o.parent = "none" /\ o.handle # NULL

destroys_shader(o) == o.parent # "none" /\ o.handle # NULL

destroyed(o) ==
  LET destroys ==
        CASE o.class = "vertex_buffer"   -> destroys_vertex_buffer(o)
          [] o.class = "index_buffer"    -> destroys_index_buffer(o)
          [] o.class = "uniform_buffer"  -> destroys_uniform_buffer(o)
          [] o.class = "descriptor_pool" -> destroys_descriptor_pool(o)
          [] o.class = "shader"          -> destroys_shader(o)
          [] OTHER                       -> FALSE
  IN (IF destroys THEN { o.handle } ELSE {}) \cup { o.shaders[id] : id \in DOMAIN o.shaders }

(* The shaders of a manager go with its map, and with them the program's   *)
(* use of their ids.                                                       *)
destroy(s) ==
  /\ pc = "ready"
  /\ object[s] # Nothing
  /\ gone(destroyed(object[s]))
  /\ object' = [ object EXCEPT ![s] = Nothing ]
  /\ answers' = { a \in answers : a.manager # s }
  /\ UNCHANGED << pc, upload, made, transfer, SHADER_ID_COUNT, GLSLANG_INITIALIZED >>

(* The program writes to buffers that have memory; without, it is          *)
(* undefined.                                                              *)
map_data(s) ==
  /\ pc = "ready"
  /\ object[s].class = "uniform_buffer"
  /\ IF object[s].handle = NULL THEN pc' = "undefined" /\ UNCHANGED content
     ELSE content' = [ content EXCEPT ![object[s].handle] = Filled("uniform_buffer") ] /\ UNCHANGED pc
  /\ UNCHANGED << upload, object, made, alive, queue, manager >>

Construct(s, c) ==
  \/ default_construct(s, c)
  \/ c = "uniform_buffer" /\ construct_uniform_buffer(s)
  \/ c = "descriptor_pool" /\ construct_descriptor_pool(s)
  \/ c = "shader" /\ construct_shader(s)
  \/ c = "shader_manager" /\ construct_shader_manager(s)
  \/ c \in BufferClasses /\ create_staging(s, c)

Upload ==
  map_memory \/ create_buffer \/ record_copy \/ submit_queue \/ queue_wait_idle \/ destroy_staging

Next ==
  \/ \E s \in Slots, c \in Classes : Construct(s, c)
  \/ Upload
  \/ Copy
  \/ \E s \in Slots, f \in Files : load_shader(s, f)
  \/ \E s, t \in Slots : move_construct(s, t) \/ move_assign(s, t)
  \/ \E s \in Slots : destroy(s) \/ map_data(s)

Spec == Init /\ [][Next]_vars

-----------------------------------------------------------------------------
(***************************************************************************)
(* Properties.                                                             *)
(***************************************************************************)

(* Types: what is recorded and submitted copies between buffers that were  *)
(* created, and ids are those that were given out.                         *)
TypeOK ==
  /\ pc \in { "ready", "map", "create", "record", "submit", "wait", "free_staging", "aborted", "undefined" }
  /\ building \in Slots \cup { None }
  /\ \A s \in Slots :
       /\ object[s].class \in AllClasses \cup { "nothing" }
       /\ object[s].parent \in Parents
       /\ object[s].handle \in 0 .. made
       /\ DOMAIN object[s].shaders \subseteq 0 .. SHADER_ID_COUNT - 1
  /\ staging \in { NULL, STAGING }
  /\ cmd_buffer \in { NoCopy } \cup [ src : Buffers, dst : Buffers ]
  /\ made \in 0 .. MaxHandles
  /\ alive \subseteq Buffers
  /\ transfer \in Seq([ src : Buffers, dst : Buffers ])
  /\ refused \subseteq Handles

(* A staging buffer is not destroyed before the transfer queue has copied  *)
(* from it, nor is the buffer it copies to: context.hpp:424-431 says of    *)
(* queue_wait_idle "Wait on a queue do finish it's task."                  *)
CopyUsesLiveBuffers ==
  \A j \in DOMAIN transfer : { transfer[j].src, transfer[j].dst } \subseteq alive

(* A vertex or index buffer that is not being built holds all that was to  *)
(* be uploaded, in whatever object it ended up and whatever was built,     *)
(* moved or destroyed around it, unless the queue refused its copy.        *)
KeptIsUploaded ==
  \A s \in Slots \ { building } :
    LET h == object[s].handle IN
    object[s].class \in BufferClasses /\ h \notin { NULL } \cup refused =>
      content[h] = Filled(object[s].class)

(* A handle is held by one object at most, exists while it is held, so     *)
(* that it is never destroyed twice, and its object has the parent that is *)
(* needed to destroy it.                                                   *)
OneOwner ==
  \A h \in Handles, s \in Slots : holds(s, h) =>
    /\ h \in alive
    /\ object[s].parent = "device"
    /\ \A t \in Slots \ { s } : ~ holds(t, h)

(* The id load_shader answers is that of the shader it loaded, for as long *)
(* as the manager lives, however many managers count with the same static  *)
(* counter; no two loads get the same id. (A file that does not compile    *)
(* gets an id and a module without code.)                                  *)
IdsNameTheirShaders ==
  \A a \in answers :
    LET shaders == object[a.manager].shaders IN
    /\ a.id \in DOMAIN shaders
    /\ shaders[a.id] # NULL => content[shaders[a.id]] \in { Compiled(a.file), NoCode }
    /\ \A b \in answers : b.id = a.id => b = a

(* Who owns each handle, as Ownership has it.                              *)
owner ==
  [ h \in Handles |->
      LET holders == { s \in Slots : holds(s, h) } IN
      IF h > made THEN "unborn"
      ELSE IF h \notin alive THEN "destroyed"
      ELSE IF holders = {} THEN "lost"
      ELSE IF \E s \in Slots : holders = { s } THEN CHOOSE s \in Slots : holders = { s }
      ELSE "shared" ]

Contract == INSTANCE Ownership WITH Things <- Handles, Owners <- Slots

(* The classes keep to Ownership: a handle goes from owner to owner and is *)
(* destroyed by its last one, once; it is forgotten only by an assignment  *)
(* to an object that has a handle already.                                 *)
Implements == Contract!Spec
=============================================================================
