--------------------------- MODULE ContentProofs ---------------------------
(***************************************************************************)
(* Theorems about what the buffers and shaders of Resources hold, on top   *)
(* of ResourcesProofs: since every handle has one owner, no step writes to *)
(* what another object holds.                                              *)
(***************************************************************************)
EXTENDS ResourcesProofs

(* What KeptIsUploaded says of one object.                                 *)
UploadedAt(o, cont, ref) ==
  o.class \in BufferClasses /\ o.handle \notin { NULL } \cup ref => cont[o.handle] = Filled(o.class)

KeptInv == \A s \in Slots \ { building } : UploadedAt(object[s], content, refused)

(* What IdsNameTheirShaders says of one answer and its manager.            *)
Names(a, o, cont) ==
  /\ o.class = "shader_manager"
  /\ a.id \in DOMAIN o.shaders
  /\ o.shaders[a.id] # NULL => cont[o.shaders[a.id]] \in { Compiled(a.file), NoCode }

IdsInv ==
  \A a \in answers :
    /\ a.manager \in Slots /\ Names(a, object[a.manager], content)
    /\ \A b \in answers : b.id = a.id => b = a

(* How far the contents of the buffer being built have come: the staging   *)
(* buffer is filled before anything copies from it, and once the copy is   *)
(* no longer pending the buffer holds what the staging buffer does.        *)
BuildInv ==
  /\ DOMAIN content = Buffers
  /\ pc = "ready" => building = None
  /\ pc \in { "create", "record", "submit", "wait" } =>
       content[STAGING] = Filled(object[building].class)
  /\ pc \in { "wait", "free_staging" } /\ transfer = << >> /\ object[building].handle \notin refused =>
       content[object[building].handle] = Filled(object[building].class)

ContentInv == BuildInv /\ KeptInv /\ IdsInv

-----------------------------------------------------------------------------
(***************************************************************************)
(* An object that is left alone, with what it holds.                       *)
(***************************************************************************)
Same(t) ==
  /\ object'[t] = object[t]
  /\ \A h \in Handles : Has(object[t], h) =>
       content'[h] = content[h] /\ (h \in refused => h \in refused')

LEMMA HandleTypes ==
  ASSUME TypeInv, NEW t \in Slots
  PROVE  /\ object[t].handle # NULL => object[t].handle \in Handles
         /\ \A id \in DOMAIN object[t].shaders :
              object[t].shaders[id] # NULL => object[t].shaders[id] \in Handles
<1>1. object[t] \in ObjectType /\ MaxHandles \in Nat
  BY ResourcesAssumption DEF TypeInv
<1>2. object[t].handle \in 0 .. MaxHandles /\ object[t].shaders \in ShaderMaps
  BY <1>1 DEF ObjectType
<1>3. \A id \in DOMAIN object[t].shaders : object[t].shaders[id] \in 0 .. MaxHandles
  BY <1>2 DEF ShaderMaps
<1> QED
  BY <1>1, <1>2, <1>3 DEF Handles, NULL

(* What an object holds is held by no other, and is not the next handle.   *)
LEMMA Unshared ==
  ASSUME IInv, NEW t \in Slots, NEW h \in Handles, Has(object[t], h)
  PROVE  /\ h # made + 1 /\ h # STAGING /\ h # NULL
         /\ \A s \in Slots \ { t } : ~ Has(object[s], h)
<1>1. h \in alive /\ \A s \in Slots \ { t } : ~ Has(object[s], h)
  BY OneOwnerHas DEF IInv
<1>2. h \in 1 .. MaxHandles /\ MaxHandles \in Nat /\ made \in Nat /\ h \in 1 .. made \cup { STAGING }
  BY <1>1, ResourcesAssumption DEF IInv, TypeInv, Handles
<1> QED
  BY <1>1, <1>2 DEF STAGING, NULL

LEMMA StaysUploaded ==
  ASSUME TypeInv, NEW t \in Slots, Same(t), UploadedAt(object[t], content, refused)
  PROVE  UploadedAt(object'[t], content', refused')
<1>1. object[t].handle # NULL => object[t].handle \in Handles /\ Has(object[t], object[t].handle)
  BY HandleTypes DEF Has
<1> QED
  BY <1>1 DEF Same, UploadedAt

LEMMA StaysNamed ==
  ASSUME TypeInv, NEW t \in Slots, Same(t), NEW a, Names(a, object[t], content)
  PROVE  Names(a, object'[t], content')
<1>1. object[t].shaders[a.id] # NULL =>
        object[t].shaders[a.id] \in Handles /\ Has(object[t], object[t].shaders[a.id])
  BY HandleTypes DEF Names, Has
<1> QED
  BY <1>1 DEF Same, Names

LEMMA Kept ==
  ASSUME IInv, ContentInv,
         \A t \in Slots \ { building' } :
           (t # building /\ Same(t)) \/ UploadedAt(object'[t], content', refused')
  PROVE  KeptInv'
BY StaysUploaded DEF IInv, ContentInv, KeptInv

LEMMA Named ==
  ASSUME IInv, ContentInv, answers' \subseteq answers, \A a \in answers' : Same(a.manager)
  PROVE  IdsInv'
BY StaysNamed DEF IInv, ContentInv, IdsInv

(* Managers are told from the other objects by their class.                *)
LEMMA NoManager ==
  ASSUME ContentInv, NEW s, object[s].class # "shader_manager"
  PROVE  \A a \in answers : a.manager \in Slots \ { s }
BY DEF ContentInv, IdsInv, Names

LEMMA Ready ==
  ASSUME ContentInv, pc = "ready"
  PROVE  building = None /\ None \notin Slots
BY SlotsAssumption DEF ContentInv, BuildInv, None

LEMMA ReadyBuild ==
  ASSUME ContentInv, pc = "ready", pc' \in { "ready", "aborted", "undefined" },
         DOMAIN content' = Buffers, UNCHANGED building
  PROVE  BuildInv'
BY DEF ContentInv, BuildInv

LEMMA ContentDomain ==
  ContentInv => DOMAIN content = Buffers
BY DEF ContentInv, BuildInv

(* A new object, that holds nothing or what the device just gave it.       *)
LEMMA NewObject ==
  ASSUME IInv, ContentInv, NEW s \in Slots, NEW o,
         pc = "ready", pc' = pc, object[s] = Nothing,
         object' = [ object EXCEPT ![s] = o ],
         o.class \in BufferClasses => o.handle = NULL,
         DOMAIN content' = Buffers,
         \A h \in Handles \ { made + 1 } : content'[h] = content[h],
         UNCHANGED << building, refused, answers >>
  PROVE  ContentInv'
<1>1. DOMAIN object = Slots
  BY DEF IInv, TypeInv
<1>2. \A t \in Slots \ { s } : Same(t)
  BY <1>1, Unshared DEF Same
<1>3. UploadedAt(object'[s], content', refused')
  BY <1>1 DEF UploadedAt
<1>4. KeptInv'
  BY <1>2, <1>3, Kept, Ready
<1>5. object[s].class # "shader_manager"
  BY DEF Nothing, Object
<1>6. IdsInv'
  BY <1>2, <1>5, NoManager, Named
<1> QED
  BY <1>4, <1>6, ReadyBuild DEF ContentInv

LEMMA ConstructContent ==
  ASSUME IInv, ContentInv, NEW s \in Slots, NEW c \in Classes, Construct(s, c),
         ~ (c \in BufferClasses /\ create_staging(s, c))
  PROVE  ContentInv'
<1>1. CASE default_construct(s, c)
  <2>1. \E p : object' = [ object EXCEPT ![s] = Object(c, p, NULL) ]
    BY <1>1 DEF default_construct
  <2>2. /\ pc = "ready" /\ pc' = pc /\ object[s] = Nothing
        /\ UNCHANGED << content, building, refused, answers >>
    BY <1>1 DEF default_construct, free, upload, queue
  <2>3. \A p : Object(c, p, NULL).handle = NULL
    BY DEF Object
  <2> QED
    BY <2>1, <2>2, <2>3, NewObject, ContentDomain
<1>2. CASE construct_uniform_buffer(s) \/ construct_descriptor_pool(s) \/ construct_shader_manager(s)
  <2>1. \E d \in { "uniform_buffer", "descriptor_pool", "shader_manager" } : \E n :
          object' = [ object EXCEPT ![s] = Object(d, "device", n) ]
    BY <1>2 DEF construct_uniform_buffer, construct_descriptor_pool, construct_shader_manager
  <2>2. /\ pc = "ready" /\ pc' = pc /\ object[s] = Nothing
        /\ UNCHANGED << content, building, refused, answers >>
    BY <1>2 DEF construct_uniform_buffer, construct_descriptor_pool, construct_shader_manager,
       free, upload, queue, manager
  <2>3. \A d \in { "uniform_buffer", "descriptor_pool", "shader_manager" } : \A n :
          Object(d, "device", n).class \notin BufferClasses
    BY DEF Object, BufferClasses
  <2> QED
    BY <2>1, <2>2, <2>3, NewObject, ContentDomain
<1>3. CASE construct_shader(s)
  <2>1. PICK r \in Results, f \in Files :
          /\ object' = [ object EXCEPT ![s] = Object("shader", "device", given(r)) ]
          /\ content' = IF r = "success" THEN [ content EXCEPT ![given(r)] = Compiled(f) ] ELSE content
    BY <1>3 DEF construct_shader
  <2>2. /\ pc = "ready" /\ pc' = pc /\ object[s] = Nothing
        /\ UNCHANGED << building, refused, answers >>
    BY <1>3 DEF construct_shader, free, upload, queue, manager
  <2>3. Object("shader", "device", given(r)).class \notin BufferClasses
    BY DEF Object, BufferClasses
  <2>4. /\ DOMAIN content' = Buffers
        /\ \A h \in Handles \ { made + 1 } : content'[h] = content[h]
    BY <2>1, ContentDomain DEF given, Buffers
  <2> QED
    BY <2>1, <2>2, <2>3, <2>4, NewObject
<1> QED
  BY <1>1, <1>2, <1>3 DEF Construct

-----------------------------------------------------------------------------
(***************************************************************************)
(* The constructor of an uploaded buffer, and the transfer queue.          *)
(***************************************************************************)
LEMMA CreateStagingContent ==
  ASSUME IInv, ContentInv, NEW s \in Slots, NEW c, create_staging(s, c)
  PROVE  ContentInv'
<1>1. /\ pc = "ready" /\ pc' = "map" /\ building' = s /\ object[s] = Nothing
      /\ object' = [ object EXCEPT ![s] = Object(c, "device", NULL) ]
      /\ UNCHANGED << content, refused, answers >>
  BY DEF create_staging, free, queue, manager
<1>2. DOMAIN object = Slots
  BY DEF IInv, TypeInv
<1>3. \A t \in Slots \ { s } : Same(t)
  BY <1>1, <1>2 DEF Same
<1>4. KeptInv'
  BY <1>1, <1>3, Kept, Ready
<1>5. object[s].class # "shader_manager"
  BY <1>1 DEF Nothing, Object
<1>6. IdsInv'
  BY <1>1, <1>3, <1>5, NoManager, Named
<1>7. BuildInv'
  BY <1>1, ContentDomain DEF BuildInv
<1> QED
  BY <1>4, <1>6, <1>7 DEF ContentInv

(* A step that changes no object, and no contents but the staging buffer's.*)
LEMMA SameAll ==
  ASSUME IInv, ContentInv,
         UNCHANGED << object, answers >>,
         \A h \in Handles : content'[h] = content[h] /\ (h \in refused => h \in refused')
  PROVE  (\A t \in Slots : Same(t)) /\ IdsInv'
<1>1. \A t \in Slots : Same(t)
  BY DEF Same
<1>2. \A a \in answers : a.manager \in Slots
  BY DEF ContentInv, IdsInv
<1> QED
  BY <1>1, <1>2, Named

LEMMA StagingIsNoHandle ==
  STAGING \notin Handles /\ NULL \notin Handles /\ STAGING # NULL /\ STAGING \in Buffers
BY ResourcesAssumption DEF STAGING, Handles, NULL, Buffers

LEMMA MapContent ==
  ASSUME IInv, ContentInv, map_memory
  PROVE  ContentInv'
<1>1. /\ pc = "map" /\ UNCHANGED << building, object, refused, answers, staging, transfer >>
      /\ \/ pc' = "undefined" /\ UNCHANGED content
         \/ /\ pc' = "create" /\ staging # NULL
            /\ content' = [ content EXCEPT ![staging] = Filled(object[building].class) ]
  BY DEF map_memory, upload, queue, manager
<1>2. staging \in { NULL, STAGING }
  BY DEF IInv, UploadInv
<1>3. \A h \in Handles : content'[h] = content[h]
  BY <1>1, <1>2, ContentDomain, StagingIsNoHandle DEF Buffers
<1>4. (\A t \in Slots : Same(t)) /\ IdsInv'
  BY <1>1, <1>3, SameAll
<1>5. KeptInv'
  BY <1>1, <1>4, Kept
<1>6. BuildInv'
  BY <1>1, <1>2, ContentDomain, StagingIsNoHandle DEF BuildInv
<1> QED
  BY <1>4, <1>5, <1>6 DEF ContentInv

LEMMA CreateBufferContent ==
  ASSUME IInv, ContentInv, create_buffer
  PROVE  ContentInv'
<1>1. PICK n : object' = [ object EXCEPT ![building].handle = n ]
  BY DEF create_buffer
<1>2. /\ pc = "create" /\ pc' = "record"
      /\ UNCHANGED << building, content, refused, answers >>
  BY DEF create_buffer, upload, queue, manager
<1>3. /\ building \in Slots /\ object[building].class \in BufferClasses
      /\ object \in [ Slots -> ObjectType ] /\ object[building] \in ObjectType
  BY <1>2 DEF IInv, TypeInv, UploadInv
<1>4. object'[building].class = object[building].class
  BY <1>1, <1>3 DEF ObjectType
<1>5. \A t \in Slots \ { building } : Same(t)
  BY <1>1, <1>2, <1>3 DEF Same
<1>6. KeptInv'
  BY <1>2, <1>5, Kept
<1>7. object[building].class # "shader_manager"
  BY <1>3 DEF BufferClasses
<1>8. IdsInv'
  BY <1>2, <1>5, <1>7, NoManager, Named
<1>9. BuildInv'
  BY <1>2, <1>4 DEF ContentInv, BuildInv
<1> QED
  BY <1>6, <1>8, <1>9 DEF ContentInv

LEMMA RecordContent ==
  ASSUME IInv, ContentInv, record_copy
  PROVE  ContentInv'
<1>1. /\ pc = "record" /\ pc' \in { "aborted", "undefined", "submit" }
      /\ UNCHANGED << building, object, content, transfer, refused, answers >>
  BY DEF record_copy, queue, manager
<1>2. (\A t \in Slots : Same(t)) /\ IdsInv'
  BY <1>1, SameAll
<1>3. KeptInv'
  BY <1>1, <1>2, Kept
<1>4. BuildInv'
  BY <1>1 DEF ContentInv, BuildInv
<1> QED
  BY <1>2, <1>3, <1>4 DEF ContentInv

(* Either the copy is pending from now on, or the buffer is a refused one. *)
LEMMA SubmitContent ==
  ASSUME IInv, ContentInv, submit_queue
  PROVE  ContentInv'
<1>1. /\ pc = "submit" /\ pc' = "wait"
      /\ UNCHANGED << building, object, content, answers >>
      /\ \/ transfer' = Append(transfer, cmd_buffer) /\ UNCHANGED refused
         \/ refused' = refused \cup { cmd_buffer.dst } /\ UNCHANGED transfer
  BY DEF submit_queue, upload, manager
<1>2. (\A t \in Slots : Same(t)) /\ IdsInv'
  BY <1>1, SameAll
<1>3. KeptInv'
  BY <1>1, <1>2, Kept
<1>4. /\ cmd_buffer.dst = object[building].handle
      /\ transfer \in Seq({ cmd_buffer })
  BY <1>1 DEF IInv, UploadInv
<1>5. transfer' # << >> \/ object'[building].handle \in refused'
  <2>1. Append(transfer, cmd_buffer) # << >>
    BY <1>4, AppendProperties
  <2> QED
    BY <1>1, <1>4, <2>1
<1>6. BuildInv'
  BY <1>1, <1>5 DEF ContentInv, BuildInv
<1> QED
  BY <1>2, <1>3, <1>6 DEF ContentInv

LEMMA WaitContent ==
  ASSUME IInv, ContentInv, queue_wait_idle
  PROVE  ContentInv'
<1>1. /\ pc = "wait" /\ pc' = "free_staging"
      /\ UNCHANGED << building, object, content, transfer, refused, answers >>
  BY DEF queue_wait_idle, upload, queue, manager
<1>2. (\A t \in Slots : Same(t)) /\ IdsInv'
  BY <1>1, SameAll
<1>3. KeptInv'
  BY <1>1, <1>2, Kept
<1>4. BuildInv'
  BY <1>1 DEF ContentInv, BuildInv
<1> QED
  BY <1>2, <1>3, <1>4 DEF ContentInv

(* The constructor ends: what is built is from now on one of the others.   *)
LEMMA FreeStagingContent ==
  ASSUME IInv, ContentInv, destroy_staging
  PROVE  ContentInv'
<1>1. /\ pc = "free_staging" /\ pc' = "ready" /\ building' = None
      /\ content' = [ h \in Buffers |-> IF h \in { staging } THEN Unwritten ELSE content[h] ]
      /\ refused' = refused \ { staging }
      /\ UNCHANGED << object, answers, transfer >>
  BY DEF destroy_staging, gone, manager
<1>2. staging \in { NULL, STAGING } /\ transfer = << >>
  BY <1>1 DEF IInv, UploadInv
<1>3. \A h \in Handles : content'[h] = content[h] /\ (h \in refused <=> h \in refused')
  BY <1>1, <1>2, StagingIsNoHandle DEF Buffers
<1>4. (\A t \in Slots : Same(t)) /\ IdsInv'
  BY <1>1, <1>3, SameAll
<1>5. UploadedAt(object'[building], content', refused')
  <2>1. building \in Slots
    BY <1>1 DEF IInv, UploadInv
  <2>2. UploadedAt(object[building], content, refused)
    BY <1>1, <1>2 DEF ContentInv, BuildInv, UploadedAt
  <2> QED
    BY <1>4, <2>1, <2>2, StaysUploaded DEF IInv
<1>6. KeptInv'
  BY <1>1, <1>4, <1>5, Kept
<1>7. BuildInv'
  BY <1>1 DEF BuildInv
<1> QED
  BY <1>4, <1>6, <1>7 DEF ContentInv

(* The copy writes to the buffer being built, which no other object holds. *)
LEMMA CopyContent ==
  ASSUME IInv, ContentInv, Copy
  PROVE  ContentInv'
<1>1. /\ transfer # << >>
      /\ content' = [ content EXCEPT ![Head(transfer).dst] = content[Head(transfer).src] ]
      /\ UNCHANGED << pc, building, object, refused, answers >>
  BY DEF Copy, upload, manager
<1>2. pc = "wait" /\ transfer \in Seq({ cmd_buffer })
  BY <1>1 DEF IInv, UploadInv
<1>3. /\ building \in Slots /\ object[building].class \in BufferClasses
      /\ cmd_buffer = [ src |-> STAGING, dst |-> object[building].handle ]
      /\ object[building].handle # NULL
  BY <1>2 DEF IInv, UploadInv
<1>4. Head(transfer) = cmd_buffer
  BY <1>1, <1>2, HeadTailProperties
<1> DEFINE h == object[building].handle
<1>5. h \in Handles /\ Has(object[building], h) /\ h \in Buffers /\ h # STAGING
  BY <1>3, HandleTypes, StagingIsNoHandle DEF IInv, Has, Buffers
<1>6. content' = [ content EXCEPT ![h] = content[STAGING] ]
  <2>1. Head(transfer).dst = h /\ Head(transfer).src = STAGING
    BY <1>3, <1>4
  <2> QED
    BY <1>1, <2>1
<1>7. content[STAGING] = Filled(object[building].class)
  BY <1>2 DEF ContentInv, BuildInv
<1> HIDE DEF h
<1>8. \A t \in Slots \ { building } : Same(t)
  BY <1>1, <1>3, <1>5, <1>6, Unshared DEF Same
<1>9. KeptInv'
  BY <1>1, <1>8, Kept
<1>10. object[building].class # "shader_manager"
  BY <1>3 DEF BufferClasses
<1>11. IdsInv'
  BY <1>1, <1>8, <1>10, NoManager, Named
<1>12. BuildInv'
  <2>1. DOMAIN content' = Buffers /\ content'[STAGING] = content[STAGING] /\ content'[h] = content[STAGING]
    BY <1>5, <1>6, ContentDomain
  <2> QED
    BY <1>1, <1>2, <1>7, <2>1 DEF BuildInv, h
<1> QED
  BY <1>9, <1>11, <1>12 DEF ContentInv

-----------------------------------------------------------------------------
(***************************************************************************)
(* Shaders, moves, destruction.                                            *)
(***************************************************************************)

(* An id that is given out is new, since no manager has one as large.      *)
LEMMA LoadContent ==
  ASSUME IInv, ContentInv, NEW s \in Slots, NEW f, load_shader(s, f)
  PROVE  ContentInv'
<1>1. /\ pc = "ready" /\ object[s].class = "shader_manager"
      /\ UNCHANGED << building, refused >>
  BY DEF load_shader, upload, queue
<1>2. DOMAIN content = Buffers /\ building \notin Slots
  BY <1>1, ContentDomain, Ready
<1>3. CASE pc' \in { "aborted", "undefined" } /\ UNCHANGED << object, content, answers >>
  <2>1. (\A t \in Slots : Same(t)) /\ IdsInv'
    BY <1>1, <1>3, SameAll
  <2>2. KeptInv'
    BY <1>1, <1>2, <2>1, Kept
  <2>3. BuildInv'
    BY <1>1, <1>2, <1>3, ReadyBuild
  <2> QED
    BY <2>1, <2>2, <2>3 DEF ContentInv
<1> DEFINE id == SHADER_ID_COUNT
           new == [ manager |-> s, id |-> id, file |-> f ]
           maps(h) == emplaced(object[s].shaders, id, h)
<1>4. ASSUME NEW r \in Results, NEW spir_v \in { Compiled(f), NoCode },
             pc' = pc,
             content' = IF r = "success" THEN [ content EXCEPT ![given(r)] = spir_v ] ELSE content,
             object' = [ object EXCEPT ![s].shaders = maps(given(r)) ],
             answers' = answers \cup { new },
             made < MaxHandles
      PROVE  ContentInv'
  <2>1. /\ object \in [ Slots -> ObjectType ] /\ object[s] \in ObjectType
        /\ made \in Nat /\ made + 1 \in Handles /\ MaxHandles \in Nat
    BY <1>4, ResourcesAssumption DEF IInv, TypeInv, Handles
  <2>2. ASSUME NEW t \in Slots
        PROVE  id \notin DOMAIN object[t].shaders
    BY DEF IInv, TypeInv
  <2>3. /\ DOMAIN content' = Buffers
        /\ \A h \in Handles \ { made + 1 } : content'[h] = content[h]
        /\ r = "success" => content'[made + 1] = spir_v
    BY <1>2, <1>4, <2>1 DEF given, Buffers
  <2>4. \A t \in Slots \ { s } : Same(t)
    BY <1>1, <1>4, <2>1, <2>3, Unshared DEF Same
  <2>5. /\ object'[s].class = "shader_manager"
        /\ object'[s].shaders = maps(given(r))
    BY <1>1, <1>4, <2>1 DEF ObjectType
  <2>6. /\ DOMAIN maps(given(r)) = DOMAIN object[s].shaders \cup { id }
        /\ maps(given(r))[id] = given(r)
        /\ \A i \in DOMAIN object[s].shaders : maps(given(r))[i] = object[s].shaders[i]
    BY <2>2 DEF emplaced
  <2> HIDE DEF maps
  <2>7. KeptInv'
    <3>1. UploadedAt(object'[s], content', refused')
      BY <2>5 DEF UploadedAt, BufferClasses
    <3> QED
      BY <1>1, <1>2, <2>4, <3>1, Kept
  <2>8. ASSUME NEW a \in answers
        PROVE  a.manager \in Slots /\ Names(a, object'[a.manager], content') /\ a.id # id
    <3>1. a.manager \in Slots /\ Names(a, object[a.manager], content)
      BY DEF ContentInv, IdsInv
    <3>2. a.id \in DOMAIN object[a.manager].shaders /\ a.id # id
      BY <2>2, <3>1 DEF Names
    <3>3. CASE a.manager # s
      BY <2>4, <3>1, <3>2, <3>3, StaysNamed DEF IInv
    <3>4. CASE a.manager = s
      <4>1. /\ a.id \in DOMAIN object'[s].shaders
            /\ object'[s].shaders[a.id] = object[s].shaders[a.id]
        BY <2>5, <2>6, <3>2, <3>4
      <4>2. object[s].shaders[a.id] # NULL =>
              /\ object[s].shaders[a.id] \in Handles
              /\ Has(object[s], object[s].shaders[a.id])
        BY <3>2, <3>4, HandleTypes DEF IInv, Has
      <4>3. object[s].shaders[a.id] # NULL =>
              content'[object[s].shaders[a.id]] = content[object[s].shaders[a.id]]
        BY <2>3, <4>2, Unshared
      <4> QED
        BY <2>5, <3>1, <3>2, <3>4, <4>1, <4>3 DEF Names
    <3> QED
      BY <3>3, <3>4
  <2>9. new.manager = s /\ new.id = id /\ new.file = f
    OBVIOUS
  <2> HIDE DEF new
  <2>10. Names(new, object'[s], content')
    <3>1. new.id \in DOMAIN object'[s].shaders /\ object'[s].shaders[new.id] = given(r)
      BY <2>5, <2>6, <2>9
    <3>2. given(r) # NULL => content'[given(r)] \in { Compiled(f), NoCode }
      BY <2>1, <2>3 DEF given
    <3> QED
      BY <2>5, <2>9, <3>1, <3>2 DEF Names
  <2>11. IdsInv'
    <3>1. \A a, b \in answers : b.id = a.id => b = a
      BY DEF ContentInv, IdsInv
    <3>2. \A a \in answers' : a.manager \in Slots /\ Names(a, object'[a.manager], content')
      BY <1>4, <2>8, <2>9, <2>10
    <3>3. \A a, b \in answers' : b.id = a.id => b = a
      BY <1>4, <2>8, <2>9, <3>1
    <3> QED
      BY <3>2, <3>3 DEF IdsInv
  <2>12. BuildInv'
    BY <1>1, <1>4, <2>3, ReadyBuild
  <2> QED
    BY <2>7, <2>11, <2>12 DEF ContentInv
<1> HIDE DEF maps
<1>5. \/ pc' \in { "aborted", "undefined" } /\ UNCHANGED << object, content, answers >>
      \/ \E r \in Results, spir_v \in { Compiled(f), NoCode } :
           /\ pc' = pc
           /\ content' = IF r = "success" THEN [ content EXCEPT ![given(r)] = spir_v ] ELSE content
           /\ object' = [ object EXCEPT ![s].shaders = maps(given(r)) ]
           /\ answers' = answers \cup { new }
           /\ made < MaxHandles
  <2>1. CASE \/ pc' = "aborted" /\ UNCHANGED << object, content, answers >>
             \/ pc' = "undefined" /\ UNCHANGED << object, content, answers >>
    BY <2>1
  <2>2. CASE \E r \in Results, spir_v \in { Compiled(f), NoCode } :
               /\ pc' = pc
               /\ content' = IF r = "success" THEN [ content EXCEPT ![given(r)] = spir_v ] ELSE content
               /\ object' = [ object EXCEPT ![s].shaders = maps(given(r)) ]
               /\ answers' = answers \cup { new }
               /\ made < MaxHandles
    BY <2>2
  <2> QED
    BY <2>1, <2>2 DEF load_shader, maps
<1> QED
  BY <1>3, <1>4, <1>5

(* A move: the object that takes is what the other one was.                *)
LEMMA TakenContent ==
  ASSUME IInv, ContentInv, NEW s \in Slots, NEW t \in Slots, s # t,
         pc = "ready", pc' = pc, object' = taken(s, t),
         object[s].class # "shader_manager", object[t].class # "shader_manager",
         UNCHANGED << building, content, refused, answers >>
  PROVE  ContentInv'
<1>1. /\ DOMAIN object = Slots
      /\ object' = [ object EXCEPT ![t] = object[s], ![s] = Object(object[s].class, "none", NULL) ]
  BY DEF IInv, TypeInv, taken
<1>2. /\ object'[t] = object[s] /\ object'[s] = Object(object[s].class, "none", NULL)
      /\ \A x \in Slots \ { s, t } : object'[x] = object[x]
  BY <1>1
<1>3. \A x \in Slots \ { s, t } : Same(x)
  BY <1>2 DEF Same
<1>4. UploadedAt(object'[t], content', refused')
  BY <1>2, Ready DEF ContentInv, KeptInv
<1>5. UploadedAt(object'[s], content', refused')
  BY <1>2 DEF UploadedAt, Object
<1>6. KeptInv'
  BY <1>3, <1>4, <1>5, Kept, Ready
<1>7. \A a \in answers : a.manager \in Slots \ { s, t }
  BY NoManager
<1>8. IdsInv'
  BY <1>3, <1>7, Named
<1> QED
  BY <1>6, <1>8, ReadyBuild, ContentDomain DEF ContentInv

LEMMA MoveContent ==
  ASSUME IInv, ContentInv, NEW s \in Slots, NEW t \in Slots,
         move_construct(s, t) \/ move_assign(s, t)
  PROVE  ContentInv'
<1>1. /\ pc = "ready" /\ pc' = pc
      /\ UNCHANGED << building, content, refused, answers >>
  BY DEF move_construct, move_assign, free, upload, queue, manager
<1>2. CASE move_construct(s, t)
  <2>1. object[t] = Nothing /\ object[t].class # "shader_manager" /\ object[s] # Nothing
    BY <1>2 DEF move_construct, free, Nothing, Object
  <2>2. CASE object[s].class = "shader_manager"
    <3>1. object' = [ object EXCEPT ![t] = Object("shader_manager", "indeterminate", NULL) ]
      BY <1>2, <2>2 DEF move_construct
    <3>2. Object("shader_manager", "indeterminate", NULL).handle = NULL
      BY DEF Object
    <3> QED
      BY <1>1, <2>1, <3>1, <3>2, NewObject, ContentDomain
  <2>3. CASE object[s].class # "shader_manager"
    <3>1. object' = taken(s, t) /\ s # t
      BY <1>2, <2>1, <2>3 DEF move_construct
    <3> QED
      BY <1>1, <2>1, <2>3, <3>1, TakenContent
  <2> QED
    BY <2>2, <2>3
<1>3. CASE move_assign(s, t)
  <2>1. /\ s # t /\ object' = taken(s, t)
        /\ object[s].class # "shader_manager" /\ object[t].class # "shader_manager"
    BY <1>3 DEF move_assign
  <2> QED
    BY <1>1, <2>1, TakenContent
<1> QED
  BY <1>2, <1>3

LEMMA DestroyContent ==
  ASSUME IInv, ContentInv, NEW s \in Slots, destroy(s)
  PROVE  ContentInv'
<1>1. /\ pc = "ready" /\ pc' = pc /\ UNCHANGED building
      /\ object' = [ object EXCEPT ![s] = Nothing ]
      /\ answers' = { a \in answers : a.manager # s }
      /\ content' = [ h \in Buffers |-> IF h \in destroyed(object[s]) THEN Unwritten ELSE content[h] ]
      /\ refused' = refused \ destroyed(object[s])
  BY DEF destroy, gone, upload
<1>2. DOMAIN object = Slots
  BY DEF IInv, TypeInv
<1>3. ASSUME NEW t \in Slots \ { s }
      PROVE  Same(t)
  <2>1. object'[t] = object[t]
    BY <1>1, <1>2
  <2>2. ASSUME NEW h \in Handles, Has(object[t], h)
        PROVE  h \in Buffers /\ h \notin destroyed(object[s])
    BY <2>2, Unshared, DestroysWhatItHas DEF IInv, Buffers
  <2> QED
    BY <1>1, <2>1, <2>2 DEF Same
<1>4. UploadedAt(object'[s], content', refused')
  BY <1>1, <1>2 DEF UploadedAt, Nothing, Object, BufferClasses
<1>5. KeptInv'
  BY <1>1, <1>3, <1>4, Kept, Ready
<1>6. \A a \in answers : a.manager \in Slots
  BY DEF ContentInv, IdsInv
<1>7. IdsInv'
  BY <1>1, <1>3, <1>6, Named
<1>8. BuildInv'
  BY <1>1, ReadyBuild
<1> QED
  BY <1>5, <1>7, <1>8 DEF ContentInv

LEMMA MapDataContent ==
  ASSUME IInv, ContentInv, NEW s \in Slots, map_data(s)
  PROVE  ContentInv'
<1>1. /\ pc = "ready" /\ pc' \in { "ready", "undefined" }
      /\ object[s].class = "uniform_buffer"
      /\ UNCHANGED << building, object, refused, answers >>
      /\ \/ UNCHANGED content
         \/ /\ object[s].handle # NULL
            /\ content' = [ content EXCEPT ![object[s].handle] = Filled("uniform_buffer") ]
  BY DEF map_data, upload, queue, manager
<1>2. object[s].handle # NULL => object[s].handle \in Handles /\ Has(object[s], object[s].handle)
  BY HandleTypes DEF IInv, Has
<1>3. DOMAIN content = Buffers /\ DOMAIN content' = Buffers
  BY <1>1, ContentDomain
<1>4. ASSUME NEW t \in Slots \ { s }
      PROVE  Same(t)
  <2>1. ASSUME NEW h \in Handles, Has(object[t], h)
        PROVE  content'[h] = content[h]
    <3>1. h \in Buffers /\ (object[s].handle # NULL => h # object[s].handle)
      BY <1>2, <2>1, Unshared DEF Buffers
    <3> QED
      BY <1>1, <1>3, <3>1
  <2> QED
    BY <1>1, <2>1 DEF Same
<1>5. UploadedAt(object'[s], content', refused')
  BY <1>1 DEF UploadedAt, BufferClasses
<1>6. KeptInv'
  BY <1>1, <1>4, <1>5, Kept, Ready
<1>7. object[s].class # "shader_manager"
  BY <1>1
<1>8. IdsInv'
  BY <1>1, <1>4, <1>7, NoManager, Named
<1>9. BuildInv'
  BY <1>1, <1>3, ReadyBuild
<1> QED
  BY <1>6, <1>8, <1>9 DEF ContentInv

-----------------------------------------------------------------------------
(***************************************************************************)
(* The theorems.                                                           *)
(***************************************************************************)
LEMMA InitContent ==
  Init => ContentInv
<1> SUFFICES ASSUME Init PROVE ContentInv
  OBVIOUS
<1>1. DOMAIN content = Buffers /\ pc = "ready" /\ building = None /\ answers = {}
  BY DEF Init
<1>2. \A s \in Slots : object[s].handle = NULL
  BY DEF Init, Nothing, Object
<1> QED
  BY <1>1, <1>2 DEF ContentInv, BuildInv, KeptInv, IdsInv, UploadedAt

LEMMA NextContent ==
  ASSUME IInv, ContentInv, [Next]_vars
  PROVE  ContentInv'
<1>1. ASSUME NEW s \in Slots, NEW c \in Classes, Construct(s, c)
      PROVE  ContentInv'
  BY <1>1, ConstructContent, CreateStagingContent
<1>2. CASE Upload
  BY <1>2, MapContent, CreateBufferContent, RecordContent, SubmitContent, WaitContent,
     FreeStagingContent DEF Upload
<1>3. CASE UNCHANGED vars
  BY <1>3 DEF vars, upload, queue, manager, ContentInv, BuildInv, KeptInv, IdsInv
<1> QED
  BY <1>1, <1>2, <1>3, CopyContent, LoadContent, MoveContent, DestroyContent, MapDataContent DEF Next

LEMMA ContentInvariance ==
  Spec => []ContentInv
<1>1. IInv /\ ContentInv /\ [Next]_vars => ContentInv'
  BY NextContent
<1> QED
  BY <1>1, InitContent, ResourcesInvariance, PTL DEF Spec

(* A vertex or index buffer that is not being built holds what was to be   *)
(* uploaded, unless the queue refused its copy: the constructor waits for  *)
(* the copy before it ends the staging buffer, and no construction, move,  *)
(* load or destruction of any other object touches what was uploaded.      *)
THEOREM UploadsAreKept == Spec => []KeptIsUploaded
<1>1. ContentInv => KeptIsUploaded
  BY DEF ContentInv, KeptInv, UploadedAt, KeptIsUploaded
<1> QED
  BY <1>1, ContentInvariance, PTL

(* An id that load_shader answered names the shader it loaded while its    *)
(* manager lives, and no two loads get the same id, however many managers  *)
(* share SHADER_ID_COUNT.                                                  *)
THEOREM IdsStayTrue == Spec => []IdsNameTheirShaders
<1>1. ContentInv => IdsNameTheirShaders
  BY DEF ContentInv, IdsInv, Names, IdsNameTheirShaders
<1> QED
  BY <1>1, ContentInvariance, PTL
=============================================================================
