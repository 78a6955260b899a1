-------------------------- MODULE ResourcesProofs --------------------------
(***************************************************************************)
(* Theorems about Resources, for any variables, classes, files and results *)
(* and any number of handles: who owns what, and what the transfer queue   *)
(* copies.                                                                 *)
(***************************************************************************)
EXTENDS Resources, SequenceTheorems, TLAPS

ShaderMaps == UNION { [ ids -> 0 .. MaxHandles ] : ids \in SUBSET Nat }

ObjectType == [ class : AllClasses \cup { "nothing" }, parent : Parents,
                handle : 0 .. MaxHandles, shaders : ShaderMaps ]

(* Handles come from the device in order; ids from the counter. A manager  *)
(* has no handle of its own.                                               *)
TypeInv ==
  /\ object \in [ Slots -> ObjectType ]
  /\ made \in 0 .. MaxHandles
  /\ alive \subseteq 1 .. made \cup { STAGING }
  /\ SHADER_ID_COUNT \in Nat
  /\ \A s \in Slots :
       /\ DOMAIN object[s].shaders \subseteq 0 .. SHADER_ID_COUNT - 1
       /\ object[s].class \in { "nothing", "shader_manager" } => object[s].handle = NULL

(* Where the constructor of an uploaded buffer has come to. A copy is on   *)
(* the transfer queue only while it is waited for.                         *)
UploadInv ==
  /\ pc \in { "map", "create", "record", "submit", "wait", "free_staging" } =>
       building \in Slots /\ object[building].parent = "device"
                          /\ object[building].class \in BufferClasses
  /\ pc \in { "map", "create" } => object[building].handle = NULL
  /\ staging \in { NULL, STAGING }
  /\ staging = STAGING => STAGING \in alive
  /\ pc \in { "create", "record", "submit", "wait" } => staging = STAGING
  /\ pc \in { "submit", "wait" } =>
       /\ cmd_buffer = [ src |-> STAGING, dst |-> object[building].handle ]
       /\ object[building].handle # NULL
  /\ transfer # << >> => pc = "wait"
  /\ transfer \in Seq({ cmd_buffer })

IInv == TypeInv /\ UploadInv /\ OneOwner

-----------------------------------------------------------------------------
(***************************************************************************)
(* What a step can do to the ownership of handles.                         *)
(***************************************************************************)
Has(o, h) == o.handle = h \/ \E id \in DOMAIN o.shaders : o.shaders[id] = h

LEMMA HoldsHas ==
  \A s, h : (holds(s, h) <=> Has(object[s], h)) /\ (holds(s, h)' <=> Has(object'[s], h))
BY DEF holds, Has

SameBut(S) ==
  \A t \in Slots \ S : /\ object'[t].parent = object[t].parent
                       /\ \A h \in Handles : Has(object'[t], h) <=> Has(object[t], h)

Quiet ==
  /\ made' = made
  /\ alive' \cap Handles = alive \cap Handles
  /\ \A t \in Slots, h \in Handles :
       /\ Has(object'[t], h) <=> Has(object[t], h)
       /\ Has(object[t], h) => object'[t].parent = object[t].parent

Makes(s) ==
  /\ made' = made + 1 /\ made' \in Handles
  /\ alive' = alive \cup { made' }
  /\ object'[s].parent = "device"
  /\ \A h \in Handles : Has(object'[s], h) <=> Has(object[s], h) \/ h = made'
  /\ SameBut({ s })

Hands(s, t) ==
  /\ s # t
  /\ made' = made /\ alive' = alive
  /\ object'[t].parent = object[s].parent
  /\ \A h \in Handles : ~ Has(object'[s], h) /\ (Has(object'[t], h) <=> Has(object[s], h))
  /\ SameBut({ s, t })

Drops(s) ==
  /\ made' = made
  /\ \A h \in Handles : h \in alive' <=> h \in alive /\ ~ Has(object[s], h)
  /\ \A h \in Handles : ~ Has(object'[s], h)
  /\ SameBut({ s })

Effect ==
  \/ Quiet
  \/ \E s \in Slots : Makes(s)
  \/ \E s, t \in Slots : Hands(s, t)
  \/ \E s \in Slots : Drops(s)

(* OneOwner, said of objects.                                              *)
LEMMA OneOwnerHas ==
  /\ OneOwner <=>
       \A h \in Handles, s \in Slots : Has(object[s], h) =>
         h \in alive /\ object[s].parent = "device"
                     /\ \A t \in Slots \ { s } : ~ Has(object[t], h)
  /\ OneOwner' <=>
       \A h \in Handles, s \in Slots : Has(object'[s], h) =>
         h \in alive' /\ object'[s].parent = "device"
                      /\ \A t \in Slots \ { s } : ~ Has(object'[t], h)
BY HoldsHas DEF OneOwner, Handles

(* Whatever the step does to ownership, each handle keeps one owner.       *)
LEMMA EffectKeepsOwner ==
  ASSUME TypeInv, OneOwner, Effect
  PROVE  OneOwner'
<1> SUFFICES ASSUME NEW h \in Handles, NEW x \in Slots, Has(object'[x], h)
             PROVE  /\ h \in alive' /\ object'[x].parent = "device"
                    /\ \A y \in Slots \ { x } : ~ Has(object'[y], h)
  BY OneOwnerHas
<1>1. \A z \in Slots : Has(object[z], h) =>
        /\ h \in alive /\ object[z].parent = "device"
        /\ \A y \in Slots \ { z } : ~ Has(object[y], h)
  BY OneOwnerHas
<1>2. CASE Quiet
  BY <1>1, <1>2 DEF Quiet
<1>3. ASSUME NEW s \in Slots, Makes(s)
      PROVE  /\ h \in alive' /\ object'[x].parent = "device"
             /\ \A y \in Slots \ { x } : ~ Has(object'[y], h)
  <2>1. made \in Nat /\ made' = made + 1 /\ made + 1 \notin alive
    BY <1>3, ResourcesAssumption DEF TypeInv, Makes, STAGING, Handles
  <2>2. h = made' => \A y \in Slots : ~ Has(object[y], h)
    BY <1>1, <2>1
  <2>3. CASE h = made'
    <3>1. x = s
      BY <1>3, <2>2, <2>3 DEF Makes, SameBut
    <3> QED
      BY <1>3, <2>2, <2>3, <3>1 DEF Makes, SameBut
  <2>4. CASE h # made'
    <3>1. \A y \in Slots : Has(object'[y], h) <=> Has(object[y], h)
      BY <1>3, <2>4 DEF Makes, SameBut
    <3> QED
      BY <1>1, <1>3, <3>1 DEF Makes, SameBut
  <2> QED
    BY <2>3, <2>4
<1>4. ASSUME NEW s \in Slots, NEW t \in Slots, Hands(s, t)
      PROVE  /\ h \in alive' /\ object'[x].parent = "device"
             /\ \A y \in Slots \ { x } : ~ Has(object'[y], h)
  <2>1. x # s /\ alive' = alive /\ ~ Has(object'[s], h)
    BY <1>4 DEF Hands
  <2>2. CASE x = t
    <3>1. Has(object[s], h) /\ object'[x].parent = object[s].parent
      BY <1>4, <2>2 DEF Hands
    <3>2. \A y \in Slots \ { s } : ~ Has(object[y], h)
      BY <1>1, <3>1
    <3> QED
      BY <1>1, <1>4, <2>1, <2>2, <3>1, <3>2 DEF Hands, SameBut
  <2>3. CASE x # t
    <3>1. Has(object[x], h) /\ object'[x].parent = object[x].parent
      BY <1>4, <2>1, <2>3 DEF Hands, SameBut
    <3>2. \A y \in Slots \ { x } : ~ Has(object[y], h)
      BY <1>1, <3>1
    <3> QED
      BY <1>1, <1>4, <2>1, <2>3, <3>1, <3>2 DEF Hands, SameBut
  <2> QED
    BY <2>2, <2>3
<1>5. ASSUME NEW s \in Slots, Drops(s)
      PROVE  /\ h \in alive' /\ object'[x].parent = "device"
             /\ \A y \in Slots \ { x } : ~ Has(object'[y], h)
  <2>1. x # s /\ Has(object[x], h) /\ object'[x].parent = object[x].parent
    BY <1>5 DEF Drops, SameBut
  <2> QED
    BY <1>1, <1>5, <2>1 DEF Drops, SameBut
<1> QED
  BY <1>2, <1>3, <1>4, <1>5 DEF Effect

-----------------------------------------------------------------------------
(***************************************************************************)
(* Objects.                                                                *)
(***************************************************************************)
LEMMA NoShaders ==
  /\ << >> \in ShaderMaps
  /\ DOMAIN << >> = {}
<1>1. << >> \in Seq(0 .. MaxHandles) /\ Len(<< >>) = 0
  BY EmptySeq
<1>2. << >> \in [ 1 .. 0 -> 0 .. MaxHandles ] /\ DOMAIN << >> = 1 .. 0
  BY <1>1, LenProperties
<1>3. 1 .. 0 = {} /\ {} \in SUBSET Nat
  OBVIOUS
<1> QED
  BY <1>2, <1>3 DEF ShaderMaps

LEMMA Simple ==
  ASSUME NEW c \in AllClasses \cup { "nothing" }, NEW p \in Parents,
         NEW n \in 0 .. MaxHandles
  PROVE  /\ Object(c, p, n) \in ObjectType
         /\ Object(c, p, n).class = c
         /\ Object(c, p, n).parent = p
         /\ Object(c, p, n).handle = n
         /\ DOMAIN Object(c, p, n).shaders = {}
         /\ \A h : Has(Object(c, p, n), h) <=> h = n
BY NoShaders DEF Object, ObjectType, Has

(* One variable gets another object.                                       *)
LEMMA Replaced ==
  ASSUME TypeInv, NEW s \in Slots, NEW o \in ObjectType,
         object' = [ object EXCEPT ![s] = o ]
  PROVE  /\ object' \in [ Slots -> ObjectType ]
         /\ object'[s] = o
         /\ \A t \in Slots \ { s } : object'[t] = object[t]
         /\ SameBut({ s })
BY DEF TypeInv, SameBut

LEMMA FreeHasNothing ==
  ASSUME NEW s \in Slots, object[s] = Nothing
  PROVE  \A h \in Handles : ~ Has(object[s], h)
BY NoShaders DEF Nothing, Object, Has, Handles, NULL

(* An object without a handle where there was none: nothing changes hands. *)
LEMMA NewEmpty ==
  ASSUME TypeInv, NEW s \in Slots, object[s] = Nothing, NEW o \in ObjectType,
         \A h \in Handles : ~ Has(o, h),
         object' = [ object EXCEPT ![s] = o ], made' = made,
         alive' \cap Handles = alive \cap Handles
  PROVE  Quiet
BY Replaced, FreeHasNothing DEF Quiet, SameBut

(* An object that was just given a handle by the device.                   *)
LEMMA NewMade ==
  ASSUME TypeInv, NEW s \in Slots, object[s] = Nothing, NEW o \in ObjectType,
         NEW r, create(r), o.parent = "device",
         \A h : Has(o, h) <=> h = given(r),
         object' = [ object EXCEPT ![s] = o ]
  PROVE  Effect
<1>1. made \in Nat /\ MaxHandles \in Nat
  BY ResourcesAssumption DEF TypeInv
<1>2. CASE r = "success"
  <2>1. /\ made' = made + 1 /\ made' \in Handles /\ alive' = alive \cup { made' }
        /\ \A h \in Handles : Has(o, h) <=> h = made'
    BY <1>1, <1>2 DEF create, given, Handles, NULL
  <2> QED
    BY <2>1, Replaced, FreeHasNothing DEF Effect, Makes
<1>3. CASE r # "success"
  <2>1. /\ made' = made /\ alive' = alive /\ \A h \in Handles : ~ Has(o, h)
    BY <1>1, <1>3 DEF create, given, Handles, NULL
  <2> QED
    BY <2>1, NewEmpty DEF Effect
<1> QED
  BY <1>2, <1>3

-----------------------------------------------------------------------------
(***************************************************************************)
(* The actions, one by one: types, the place in the constructor, effect.   *)
(***************************************************************************)
Good == TypeInv' /\ UploadInv' /\ Effect

(* A step between constructions, that leaves the transfer queue alone, the *)
(* staging buffer alive and the counters no smaller.                       *)
LEMMA ReadyStep ==
  ASSUME TypeInv, UploadInv, pc = "ready", pc' \in { "ready", "aborted", "undefined" },
         UNCHANGED << staging, cmd_buffer, transfer >>,
         alive' \cap { STAGING } = alive \cap { STAGING }
  PROVE  UploadInv'
BY DEF UploadInv

LEMMA SimpleStep ==
  ASSUME TypeInv, NEW s \in Slots, NEW o \in ObjectType,
         object' = [ object EXCEPT ![s] = o ], DOMAIN o.shaders = {},
         o.class \in { "nothing", "shader_manager" } => o.handle = NULL,
         made' \in 0 .. MaxHandles, alive' \subseteq 1 .. made' \cup { STAGING },
         UNCHANGED SHADER_ID_COUNT
  PROVE  TypeInv'
<1>1. /\ object' \in [ Slots -> ObjectType ] /\ object'[s] = o
      /\ \A t \in Slots \ { s } : object'[t] = object[t]
  BY Replaced
<1> QED
  BY <1>1 DEF TypeInv

LEMMA Given ==
  ASSUME TypeInv, NEW r, create(r)
  PROVE  /\ made' \in 0 .. MaxHandles /\ alive' \subseteq 1 .. made' \cup { STAGING }
         /\ alive' \cap { STAGING } = alive \cap { STAGING }
         /\ given(r) \in 0 .. MaxHandles
BY ResourcesAssumption DEF TypeInv, create, given, NULL, STAGING, Handles

LEMMA DefaultStep ==
  ASSUME IInv, NEW s \in Slots, NEW c \in Classes, default_construct(s, c)
  PROVE  Good
<1> DEFINE p == IF c = "shader_manager" THEN "indeterminate" ELSE "none"
           o == Object(c, p, NULL)
<1>1. /\ pc = "ready" /\ pc' = "ready" /\ object[s] = Nothing
      /\ object' = [ object EXCEPT ![s] = o ]
      /\ UNCHANGED << staging, cmd_buffer, transfer, made, alive, SHADER_ID_COUNT >>
  BY DEF default_construct, free, upload, queue
<1>2. c \in AllClasses /\ p \in Parents /\ NULL \in 0 .. MaxHandles
  BY ResourcesAssumption DEF Parents, NULL
<1>3. /\ o \in ObjectType /\ o.handle = NULL /\ DOMAIN o.shaders = {}
      /\ \A h : Has(o, h) <=> h = NULL
  BY <1>2, Simple
<1>4. \A h \in Handles : ~ Has(o, h)
  BY <1>3 DEF Handles, NULL
<1>5. TypeInv /\ UploadInv /\ OneOwner
  BY DEF IInv
<1> HIDE DEF o
<1>6. TypeInv'
  BY <1>1, <1>3, <1>5, SimpleStep DEF TypeInv
<1>7. UploadInv'
  BY <1>1, <1>5, ReadyStep
<1>8. Quiet
  BY <1>1, <1>3, <1>4, <1>5, NewEmpty
<1> QED
  BY <1>6, <1>7, <1>8 DEF Good, Effect

(* The classes whose constructor asks the device for one handle.           *)
LEMMA HandleStep ==
  ASSUME IInv, NEW s \in Slots, NEW r,
         NEW c \in { "uniform_buffer", "descriptor_pool", "shader" },
         free(s), create(r), pc' = pc,
         object' = [ object EXCEPT ![s] = Object(c, "device", given(r)) ],
         UNCHANGED << staging, cmd_buffer, transfer, SHADER_ID_COUNT >>
  PROVE  Good
<1> DEFINE o == Object(c, "device", given(r))
<1>1. pc = "ready" /\ object[s] = Nothing /\ object' = [ object EXCEPT ![s] = o ]
  BY DEF free
<1>2. TypeInv /\ UploadInv /\ OneOwner
  BY DEF IInv
<1>3. c \in AllClasses /\ "device" \in Parents
  BY DEF AllClasses, Parents
<1>4. /\ made' \in 0 .. MaxHandles /\ alive' \subseteq 1 .. made' \cup { STAGING }
      /\ alive' \cap { STAGING } = alive \cap { STAGING }
      /\ given(r) \in 0 .. MaxHandles
  BY <1>2, Given
<1>5. /\ o \in ObjectType /\ o.class = c /\ o.parent = "device" /\ DOMAIN o.shaders = {}
      /\ \A h : Has(o, h) <=> h = given(r)
  BY <1>3, <1>4, Simple
<1> HIDE DEF o
<1>6. TypeInv'
  BY <1>1, <1>2, <1>4, <1>5, SimpleStep
<1>7. UploadInv'
  BY <1>1, <1>2, <1>4, ReadyStep
<1>8. Effect
  BY <1>1, <1>2, <1>5, NewMade
<1> QED
  BY <1>6, <1>7, <1>8 DEF Good

LEMMA UniformBufferStep ==
  ASSUME IInv, NEW s \in Slots, construct_uniform_buffer(s)
  PROVE  Good
BY HandleStep DEF construct_uniform_buffer, free, upload, queue, manager

LEMMA DescriptorPoolStep ==
  ASSUME IInv, NEW s \in Slots, construct_descriptor_pool(s)
  PROVE  Good
BY HandleStep DEF construct_descriptor_pool, free, upload, queue, manager

LEMMA ShaderStep ==
  ASSUME IInv, NEW s \in Slots, construct_shader(s)
  PROVE  Good
BY HandleStep DEF construct_shader, free, upload, queue, manager

LEMMA ManagerStep ==
  ASSUME IInv, NEW s \in Slots, construct_shader_manager(s)
  PROVE  Good
<1> DEFINE o == Object("shader_manager", "device", NULL)
<1>1. /\ pc = "ready" /\ pc' = "ready" /\ object[s] = Nothing
      /\ object' = [ object EXCEPT ![s] = o ]
      /\ UNCHANGED << staging, cmd_buffer, transfer, made, alive, SHADER_ID_COUNT >>
  BY DEF construct_shader_manager, free, upload, queue
<1>2. "shader_manager" \in AllClasses /\ "device" \in Parents /\ NULL \in 0 .. MaxHandles
  BY ResourcesAssumption DEF AllClasses, Parents, NULL
<1>3. /\ o \in ObjectType /\ o.handle = NULL /\ DOMAIN o.shaders = {}
      /\ \A h : Has(o, h) <=> h = NULL
  BY <1>2, Simple
<1>4. \A h \in Handles : ~ Has(o, h)
  BY <1>3 DEF Handles, NULL
<1>5. TypeInv /\ UploadInv /\ OneOwner
  BY DEF IInv
<1> HIDE DEF o
<1>6. TypeInv'
  BY <1>1, <1>3, <1>5, SimpleStep DEF TypeInv
<1>7. UploadInv'
  BY <1>1, <1>5, ReadyStep
<1>8. Quiet
  BY <1>1, <1>3, <1>4, <1>5, NewEmpty
<1> QED
  BY <1>6, <1>7, <1>8 DEF Good, Effect

(* A step that leaves objects and handles as they are.                     *)
LEMMA SameObjects ==
  ASSUME TypeInv,
         UNCHANGED << object, made, SHADER_ID_COUNT >>,
         alive' \cap Handles = alive \cap Handles, alive' \subseteq alive \cup { STAGING }
  PROVE  TypeInv' /\ Effect
<1>1. TypeInv'
  BY DEF TypeInv
<1>2. Quiet
  BY DEF Quiet
<1> QED
  BY <1>1, <1>2 DEF Effect

LEMMA NoCopyPending ==
  ASSUME UploadInv, pc # "wait"
  PROVE  transfer = << >> /\ \A S : transfer \in Seq(S)
BY EmptySeq DEF UploadInv

LEMMA CreateStagingStep ==
  ASSUME IInv, NEW s \in Slots, NEW c \in BufferClasses, create_staging(s, c)
  PROVE  Good
<1> DEFINE o == Object(c, "device", NULL)
<1>1. TypeInv /\ UploadInv
  BY DEF IInv
<1>2. PICK buffer \in { STAGING, NULL } :
        staging' = buffer /\ alive' = alive \cup ({ buffer } \ { NULL })
  BY DEF create_staging
<1>3. /\ pc = "ready" /\ pc' = "map" /\ building' = s /\ object[s] = Nothing
      /\ object' = [ object EXCEPT ![s] = o ]
      /\ UNCHANGED << cmd_buffer, made, transfer, SHADER_ID_COUNT >>
  BY DEF create_staging, free, queue, manager
<1>4. c \in AllClasses /\ "device" \in Parents /\ NULL \in 0 .. MaxHandles
      /\ c \notin { "nothing", "shader_manager" }
  BY ResourcesAssumption DEF AllClasses, BufferClasses, Parents, NULL
<1>5. /\ o \in ObjectType /\ o.class = c /\ o.parent = "device" /\ o.handle = NULL
      /\ DOMAIN o.shaders = {} /\ \A h : Has(o, h) <=> h = NULL
  BY <1>4, Simple
<1>6. MaxHandles \in Nat
  BY ResourcesAssumption
<1>7. /\ \A h \in Handles : ~ Has(o, h)
      /\ alive' \cap Handles = alive \cap Handles
      /\ alive' \subseteq 1 .. made' \cup { STAGING }
  <2>1. STAGING \notin Handles /\ NULL \notin Handles
    BY <1>6 DEF Handles, NULL, STAGING
  <2>2. \A h \in Handles : ~ Has(o, h)
    BY <1>5, <2>1
  <2>3. buffer \notin Handles /\ alive' \subseteq alive \cup { STAGING }
    BY <1>2, <2>1
  <2>4. alive' \cap Handles = alive \cap Handles
    BY <1>2, <2>3
  <2>5. alive' \subseteq 1 .. made' \cup { STAGING }
    BY <1>1, <1>3, <2>3 DEF TypeInv
  <2> QED
    BY <2>2, <2>4, <2>5
<1> HIDE DEF o
<1>8. TypeInv'
  BY <1>1, <1>3, <1>5, <1>7, SimpleStep DEF TypeInv
<1>9. Quiet
  BY <1>1, <1>3, <1>5, <1>7, NewEmpty
<1>10. object'[s] = o
  BY <1>1, <1>3, <1>5, Replaced
<1>11. transfer = << >> /\ transfer \in Seq({ cmd_buffer' })
  BY <1>1, <1>3, NoCopyPending
<1>12. staging' = STAGING => STAGING \in alive'
  BY <1>2, <1>6 DEF STAGING, NULL
<1>13. UploadInv'
  BY <1>2, <1>3, <1>5, <1>10, <1>11, <1>12 DEF UploadInv
<1> QED
  BY <1>8, <1>9, <1>13 DEF Good, Effect

LEMMA MapStep ==
  ASSUME IInv, map_memory
  PROVE  Good
<1>1. TypeInv /\ UploadInv
  BY DEF IInv
<1>2. /\ pc = "map" /\ pc' = IF staging = NULL THEN "undefined" ELSE "create"
      /\ UNCHANGED << building, staging, cmd_buffer, object, made, alive, transfer, SHADER_ID_COUNT >>
  BY DEF map_memory, upload, queue, manager
<1>3. TypeInv' /\ Effect
  BY <1>1, <1>2, SameObjects
<1>4. UploadInv'
  BY <1>1, <1>2 DEF UploadInv
<1> QED
  BY <1>3, <1>4 DEF Good

LEMMA CreateBufferStep ==
  ASSUME IInv, create_buffer
  PROVE  Good
<1>1. TypeInv /\ UploadInv
  BY DEF IInv
<1>2. PICK r \in Results :
        create(r) /\ object' = [ object EXCEPT ![building].handle = given(r) ]
  BY DEF create_buffer
<1>3. /\ pc = "create" /\ pc' = "record"
      /\ UNCHANGED << building, staging, cmd_buffer, transfer, SHADER_ID_COUNT >>
  BY DEF create_buffer, upload, queue, manager
<1> DEFINE o == [ object[building] EXCEPT !.handle = given(r) ]
<1>4. /\ building \in Slots /\ object[building] \in ObjectType
      /\ object[building].handle = NULL /\ object[building].parent = "device"
      /\ object[building].class \in BufferClasses
  BY <1>1, <1>3 DEF UploadInv, TypeInv
<1>5. /\ made' \in 0 .. MaxHandles /\ alive' \subseteq 1 .. made' \cup { STAGING }
      /\ alive' \cap { STAGING } = alive \cap { STAGING }
      /\ given(r) \in 0 .. MaxHandles
  BY <1>1, <1>2, Given
<1>6. /\ o \in ObjectType /\ o.handle = given(r) /\ o.parent = "device"
      /\ o.class = object[building].class /\ o.shaders = object[building].shaders
  BY <1>4, <1>5 DEF ObjectType
<1>7. \A h \in Handles : Has(o, h) <=> Has(object[building], h) \/ h = given(r)
  BY <1>4, <1>6 DEF Has, Handles, NULL
<1>8. object' = [ object EXCEPT ![building] = o ]
  BY <1>2
<1> HIDE DEF o
<1>9. /\ object' \in [ Slots -> ObjectType ] /\ object'[building] = o
      /\ \A t \in Slots \ { building } : object'[t] = object[t]
      /\ SameBut({ building })
  BY <1>1, <1>4, <1>6, <1>8, Replaced
<1>10. TypeInv'
  <2>1. o.class \notin { "nothing", "shader_manager" }
    BY <1>4, <1>6 DEF BufferClasses
  <2> QED
    BY <1>1, <1>3, <1>5, <1>6, <1>9, <2>1 DEF TypeInv
<1>11. Effect
  <2>1. made \in Nat /\ MaxHandles \in Nat
    BY <1>1, ResourcesAssumption DEF TypeInv
  <2>2. CASE r = "success"
    <3>1. /\ given(r) = made' /\ made' = made + 1 /\ made' \in Handles
          /\ alive' = alive \cup { made' }
      BY <1>2, <2>1, <2>2 DEF create, given, Handles, NULL
    <3> QED
      BY <1>4, <1>6, <1>7, <1>9, <3>1 DEF Effect, Makes
  <2>3. CASE r # "success"
    <3>1. made' = made /\ alive' = alive /\ given(r) \notin Handles
      BY <1>2, <2>1, <2>3 DEF create, given, Handles, NULL
    <3> QED
      BY <1>4, <1>6, <1>7, <1>9, <3>1 DEF Effect, Quiet, SameBut
  <2> QED
    BY <2>2, <2>3
<1>12. UploadInv'
  <2>1. transfer = << >> /\ transfer \in Seq({ cmd_buffer })
    BY <1>1, <1>3, NoCopyPending
  <2>2. staging = STAGING /\ STAGING \in alive'
    BY <1>1, <1>3, <1>5 DEF UploadInv
  <2> QED
    BY <1>3, <1>4, <1>6, <1>9, <2>1, <2>2 DEF UploadInv
<1> QED
  BY <1>10, <1>11, <1>12 DEF Good

LEMMA RecordStep ==
  ASSUME IInv, record_copy
  PROVE  Good
<1>1. TypeInv /\ UploadInv
  BY DEF IInv
<1>2. /\ pc = "record"
      /\ UNCHANGED << building, staging, object, made, alive, transfer, SHADER_ID_COUNT >>
      /\ \/ pc' \in { "aborted", "undefined" } /\ UNCHANGED cmd_buffer
         \/ /\ pc' = "submit" /\ object[building].handle # NULL
            /\ cmd_buffer' = [ src |-> staging, dst |-> object[building].handle ]
  BY DEF record_copy, queue, manager
<1>3. TypeInv' /\ Effect
  BY <1>1, <1>2, SameObjects
<1>4. transfer = << >> /\ transfer \in Seq({ cmd_buffer' })
  BY <1>1, <1>2, NoCopyPending
<1>5. UploadInv'
  BY <1>1, <1>2, <1>4 DEF UploadInv
<1> QED
  BY <1>3, <1>5 DEF Good

LEMMA SubmitStep ==
  ASSUME IInv, submit_queue
  PROVE  Good
<1>1. TypeInv /\ UploadInv
  BY DEF IInv
<1>2. /\ pc = "submit" /\ pc' = "wait"
      /\ UNCHANGED << building, staging, cmd_buffer, object, made, alive, SHADER_ID_COUNT >>
      /\ transfer' = transfer \/ transfer' = Append(transfer, cmd_buffer)
  BY DEF submit_queue, upload, manager
<1>3. TypeInv' /\ Effect
  BY <1>1, <1>2, SameObjects
<1>4. transfer \in Seq({ cmd_buffer })
  BY <1>1 DEF UploadInv
<1>5. transfer' \in Seq({ cmd_buffer' })
  BY <1>2, <1>4, AppendProperties
<1>6. UploadInv'
  BY <1>1, <1>2, <1>5 DEF UploadInv
<1> QED
  BY <1>3, <1>6 DEF Good

LEMMA WaitStep ==
  ASSUME IInv, queue_wait_idle
  PROVE  Good
<1>1. TypeInv /\ UploadInv
  BY DEF IInv
<1>2. /\ pc = "wait" /\ pc' = "free_staging" /\ transfer = << >>
      /\ UNCHANGED << building, staging, cmd_buffer, object, made, alive, transfer, SHADER_ID_COUNT >>
  BY DEF queue_wait_idle, upload, queue, manager
<1>3. TypeInv' /\ Effect
  BY <1>1, <1>2, SameObjects
<1>4. UploadInv'
  BY <1>1, <1>2 DEF UploadInv
<1> QED
  BY <1>3, <1>4 DEF Good

LEMMA FreeStagingStep ==
  ASSUME IInv, destroy_staging
  PROVE  Good
<1>1. TypeInv /\ UploadInv
  BY DEF IInv
<1>2. /\ pc = "free_staging" /\ pc' = "ready" /\ alive' = alive \ { staging }
      /\ staging' = NULL
      /\ UNCHANGED << object, made, transfer, SHADER_ID_COUNT >>
  BY DEF destroy_staging, gone, manager
<1>3. MaxHandles \in Nat
  BY ResourcesAssumption
<1>4. alive' \cap Handles = alive \cap Handles /\ alive' \subseteq alive
  BY <1>1, <1>2, <1>3 DEF UploadInv, NULL, STAGING, Handles
<1>5. TypeInv' /\ Effect
  BY <1>1, <1>2, <1>4, SameObjects
<1>6. transfer = << >> /\ transfer \in Seq({ cmd_buffer' })
  BY <1>1, <1>2, NoCopyPending
<1>7. UploadInv'
  BY <1>2, <1>3, <1>6 DEF UploadInv, NULL, STAGING
<1> QED
  BY <1>5, <1>7 DEF Good

LEMMA CopyStep ==
  ASSUME IInv, Copy
  PROVE  Good
<1>1. TypeInv /\ UploadInv
  BY DEF IInv
<1>2. /\ transfer # << >> /\ transfer' = Tail(transfer)
      /\ UNCHANGED << pc, building, staging, cmd_buffer, object, made, alive, SHADER_ID_COUNT >>
  BY DEF Copy, upload, manager
<1>3. TypeInv' /\ Effect
  BY <1>1, <1>2, SameObjects
<1>4. transfer' \in Seq({ cmd_buffer })
  BY <1>1, <1>2, HeadTailProperties DEF UploadInv
<1>5. UploadInv'
  BY <1>1, <1>2, <1>4 DEF UploadInv
<1> QED
  BY <1>3, <1>5 DEF Good

-----------------------------------------------------------------------------
(***************************************************************************)
(* Shaders, moves, destruction.                                            *)
(***************************************************************************)

(* The id of a load is in no map yet, so that the temporary that owns the  *)
(* shader is always moved into the map.                                    *)
LEMMA LoadStep ==
  ASSUME IInv, NEW s \in Slots, NEW f, load_shader(s, f)
  PROVE  Good
<1>1. TypeInv /\ UploadInv
  BY DEF IInv
<1>2. /\ pc = "ready" /\ object[s].class = "shader_manager"
      /\ UNCHANGED << building, staging, cmd_buffer, transfer >>
  BY DEF load_shader, upload, queue
<1>3. CASE pc' \in { "aborted", "undefined" } /\ UNCHANGED << object, made, alive, SHADER_ID_COUNT >>
  <2>1. TypeInv' /\ Effect
    BY <1>1, <1>3, SameObjects
  <2>2. UploadInv'
    BY <1>1, <1>2, <1>3, ReadyStep
  <2> QED
    BY <2>1, <2>2 DEF Good
<1> DEFINE id == SHADER_ID_COUNT
           maps(r) == emplaced(object[s].shaders, id, given(r))
<1>4. ASSUME NEW r \in Results,
             pc' = pc, object[s].parent = "device", made < MaxHandles,
             made' = IF r = "success" THEN made + 1 ELSE made,
             object' = [ object EXCEPT ![s].shaders = maps(r) ],
             alive' = alive \cup (({ maps(r)[id] } \cap { given(r) }) \ { NULL }),
             SHADER_ID_COUNT' = id + 1
      PROVE  Good
  <2> DEFINE o == [ object[s] EXCEPT !.shaders = maps(r) ]
  <2>1. /\ object[s] \in ObjectType /\ object[s].handle = NULL
        /\ DOMAIN object[s].shaders \subseteq 0 .. id - 1 /\ id \in Nat
        /\ made \in 0 .. MaxHandles /\ MaxHandles \in Nat
    BY <1>1, <1>2, ResourcesAssumption DEF TypeInv
  <2>2. id \notin DOMAIN object[s].shaders
    BY <2>1
  <2>3. /\ DOMAIN maps(r) = DOMAIN object[s].shaders \cup { id }
        /\ maps(r)[id] = given(r)
        /\ \A i \in DOMAIN object[s].shaders : maps(r)[i] = object[s].shaders[i]
    BY <2>2 DEF emplaced
  <2>4. create(r)
    BY <1>4, <2>3 DEF create
  <2>5. /\ made' \in 0 .. MaxHandles /\ alive' \subseteq 1 .. made' \cup { STAGING }
        /\ alive' \cap { STAGING } = alive \cap { STAGING }
        /\ given(r) \in 0 .. MaxHandles
    BY <1>1, <2>4, Given
  <2>6. maps(r) \in ShaderMaps
    <3>1. object[s].shaders \in ShaderMaps
      BY <2>1 DEF ObjectType
    <3>2. PICK ids \in SUBSET Nat : object[s].shaders \in [ ids -> 0 .. MaxHandles ]
      BY <3>1 DEF ShaderMaps
    <3>3. ids \cup { id } \in SUBSET Nat
      BY <2>1
    <3>4. maps(r) \in [ ids \cup { id } -> 0 .. MaxHandles ]
      BY <2>5, <3>2 DEF emplaced
    <3> QED
      BY <3>3, <3>4 DEF ShaderMaps
  <2> HIDE DEF maps
  <2>7. /\ o \in ObjectType /\ o.class = object[s].class /\ o.parent = object[s].parent
        /\ o.handle = NULL /\ o.shaders = maps(r)
    BY <2>1, <2>6 DEF ObjectType
  <2>8. \A h \in Handles : Has(o, h) <=> Has(object[s], h) \/ h = given(r)
    BY <2>1, <2>3, <2>7 DEF Has, Handles, NULL
  <2>9. object' = [ object EXCEPT ![s] = o ]
    BY <1>4
  <2> HIDE DEF o
  <2>10. /\ object' \in [ Slots -> ObjectType ] /\ object'[s] = o
         /\ \A t \in Slots \ { s } : object'[t] = object[t]
         /\ SameBut({ s })
    BY <1>1, <2>7, <2>9, Replaced
  <2>11. TypeInv'
    <3>1. SHADER_ID_COUNT' \in Nat
      BY <1>4, <2>1
    <3>2. 0 .. id - 1 \subseteq 0 .. SHADER_ID_COUNT' - 1 /\ id \in 0 .. SHADER_ID_COUNT' - 1
      BY <1>4, <2>1
    <3>3. ASSUME NEW t \in Slots
          PROVE  /\ DOMAIN object'[t].shaders \subseteq 0 .. SHADER_ID_COUNT' - 1
                 /\ object'[t].class \in { "nothing", "shader_manager" } => object'[t].handle = NULL
      <4>1. CASE t = s
        BY <2>1, <2>3, <2>7, <2>10, <3>2, <4>1
      <4>2. CASE t # s
        BY <1>1, <2>10, <3>2, <4>2 DEF TypeInv
      <4> QED
        BY <4>1, <4>2
    <3> QED
      BY <2>5, <2>10, <3>1, <3>3 DEF TypeInv
  <2>12. UploadInv'
    BY <1>1, <1>2, <1>4, <2>5, ReadyStep
  <2>13. Effect
    <3>1. CASE r = "success"
      <4>1. /\ given(r) = made' /\ made' = made + 1 /\ made' \in Handles
            /\ alive' = alive \cup { made' }
        BY <2>1, <2>4, <3>1 DEF create, given, Handles, NULL
      <4> QED
        BY <1>4, <2>7, <2>8, <2>10, <4>1 DEF Effect, Makes
    <3>2. CASE r # "success"
      <4>1. made' = made /\ alive' = alive /\ given(r) \notin Handles
        BY <2>1, <2>4, <3>2 DEF create, given, Handles, NULL
      <4> QED
        BY <2>7, <2>8, <2>10, <4>1 DEF Effect, Quiet, SameBut
    <3> QED
      BY <3>1, <3>2
  <2> QED
    BY <2>11, <2>12, <2>13 DEF Good
<1> HIDE DEF maps
<1>5. \/ pc' \in { "aborted", "undefined" } /\ UNCHANGED << object, made, alive, SHADER_ID_COUNT >>
      \/ \E r \in Results :
           /\ pc' = pc /\ object[s].parent = "device" /\ made < MaxHandles
           /\ made' = IF r = "success" THEN made + 1 ELSE made
           /\ object' = [ object EXCEPT ![s].shaders = maps(r) ]
           /\ alive' = alive \cup (({ maps(r)[id] } \cap { given(r) }) \ { NULL })
           /\ SHADER_ID_COUNT' = id + 1
  BY DEF load_shader, maps
<1> QED
  BY <1>3, <1>4, <1>5

(* What one object has goes to another, and the first is left with nothing.*)
LEMMA TakenStep ==
  ASSUME TypeInv, NEW s \in Slots, NEW t \in Slots, s # t,
         object' = taken(s, t), UNCHANGED << made, alive, SHADER_ID_COUNT >>
  PROVE  TypeInv' /\ Hands(s, t)
<1> DEFINE o == Object(object[s].class, "none", NULL)
<1>1. object[s] \in ObjectType /\ object[s].class \in AllClasses \cup { "nothing" }
  BY DEF TypeInv, ObjectType
<1>2. "none" \in Parents /\ NULL \in 0 .. MaxHandles
  BY ResourcesAssumption DEF Parents, NULL
<1>3. /\ o \in ObjectType /\ o.handle = NULL /\ DOMAIN o.shaders = {}
      /\ \A h : Has(o, h) <=> h = NULL
  BY <1>1, <1>2, Simple
<1>4. object' = [ object EXCEPT ![t] = object[s], ![s] = o ]
  BY DEF taken
<1> HIDE DEF o
<1>5. /\ object' \in [ Slots -> ObjectType ] /\ object'[s] = o /\ object'[t] = object[s]
      /\ \A x \in Slots \ { s, t } : object'[x] = object[x]
  BY <1>1, <1>3, <1>4 DEF TypeInv
<1>6. TypeInv'
  <2>1. ASSUME NEW x \in Slots
        PROVE  /\ DOMAIN object'[x].shaders \subseteq 0 .. SHADER_ID_COUNT - 1
               /\ object'[x].class \in { "nothing", "shader_manager" } => object'[x].handle = NULL
    BY <1>3, <1>5 DEF TypeInv
  <2> QED
    BY <1>5, <2>1 DEF TypeInv
<1>7. Hands(s, t)
  BY <1>3, <1>5 DEF Hands, SameBut, Handles, NULL
<1> QED
  BY <1>6, <1>7

LEMMA MoveConstructStep ==
  ASSUME IInv, NEW s \in Slots, NEW t \in Slots, move_construct(s, t)
  PROVE  Good
<1>1. TypeInv /\ UploadInv
  BY DEF IInv
<1>2. /\ pc = "ready" /\ pc' = pc /\ object[t] = Nothing /\ object[s] # Nothing
      /\ UNCHANGED << staging, cmd_buffer, transfer, made, alive, SHADER_ID_COUNT >>
  BY DEF move_construct, free, upload, queue, manager
<1>3. UploadInv'
  BY <1>1, <1>2, ReadyStep
<1>4. CASE object[s].class = "shader_manager"
  <2> DEFINE o == Object("shader_manager", "indeterminate", NULL)
  <2>1. object' = [ object EXCEPT ![t] = o ]
    BY <1>4 DEF move_construct
  <2>2. /\ "shader_manager" \in AllClasses /\ "indeterminate" \in Parents
        /\ NULL \in 0 .. MaxHandles
    BY ResourcesAssumption DEF AllClasses, Parents, NULL
  <2>3. /\ o \in ObjectType /\ o.handle = NULL /\ DOMAIN o.shaders = {}
        /\ \A h : Has(o, h) <=> h = NULL
    BY <2>2, Simple
  <2>4. \A h \in Handles : ~ Has(o, h)
    BY <2>3 DEF Handles, NULL
  <2> HIDE DEF o
  <2>5. TypeInv'
    BY <1>1, <1>2, <2>1, <2>3, SimpleStep DEF TypeInv
  <2>6. Quiet
    BY <1>1, <1>2, <2>1, <2>3, <2>4, NewEmpty
  <2> QED
    BY <1>3, <2>5, <2>6 DEF Good, Effect
<1>5. CASE object[s].class # "shader_manager"
  <2>1. s # t /\ object' = taken(s, t)
    BY <1>2, <1>5 DEF move_construct
  <2> QED
    BY <1>1, <1>2, <1>3, <2>1, TakenStep DEF Good, Effect
<1> QED
  BY <1>4, <1>5

LEMMA MoveAssignStep ==
  ASSUME IInv, NEW s \in Slots, NEW t \in Slots, move_assign(s, t)
  PROVE  Good
<1>1. TypeInv /\ UploadInv
  BY DEF IInv
<1>2. /\ pc = "ready" /\ pc' = pc /\ s # t /\ object' = taken(s, t)
      /\ UNCHANGED << staging, cmd_buffer, transfer, made, alive, SHADER_ID_COUNT >>
  BY DEF move_assign, upload, queue, manager
<1>3. UploadInv'
  BY <1>1, <1>2, ReadyStep
<1> QED
  BY <1>1, <1>2, <1>3, TakenStep DEF Good, Effect

(* Whatever its class, an object destroys the handles it has, and no other:*)
(* with a handle goes the parent the condition asks for.                   *)
LEMMA DestroysWhatItHas ==
  ASSUME TypeInv, OneOwner, NEW s \in Slots, NEW h \in Handles
  PROVE  h \in destroyed(object[s]) <=> Has(object[s], h)
<1> DEFINE o == object[s]
<1>1. /\ o.class \in AllClasses \cup { "nothing" }
      /\ o.class \in { "nothing", "shader_manager" } => o.handle = NULL
  BY DEF TypeInv, ObjectType
<1>2. h # NULL
  BY DEF Handles, NULL
<1>3. o.handle = h => o.parent = "device"
  BY OneOwnerHas DEF Has
<1>4. h \in { o.shaders[id] : id \in DOMAIN o.shaders } <=>
        \E id \in DOMAIN o.shaders : o.shaders[id] = h
  OBVIOUS
<1> DEFINE destroys ==
        CASE o.class = "vertex_buffer"   -> destroys_vertex_buffer(o)
          [] o.class = "index_buffer"    -> destroys_index_buffer(o)
          [] o.class = "uniform_buffer"  -> destroys_uniform_buffer(o)
          [] o.class = "descriptor_pool" -> destroys_descriptor_pool(o)
          [] o.class = "shader"          -> destroys_shader(o)
          [] OTHER                       -> FALSE
<1>5. o.handle = h => destroys
  BY <1>1, <1>2, <1>3 DEF AllClasses, BufferClasses, destroys_vertex_buffer, destroys_index_buffer,
     destroys_uniform_buffer, destroys_descriptor_pool, destroys_shader
<1>6. destroyed(o) = (IF destroys THEN { o.handle } ELSE {}) \cup { o.shaders[id] : id \in DOMAIN o.shaders }
  BY DEF destroyed
<1> HIDE DEF destroys
<1> QED
  BY <1>4, <1>5, <1>6 DEF Has

LEMMA DestroyStep ==
  ASSUME IInv, NEW s \in Slots, destroy(s)
  PROVE  Good
<1>1. TypeInv /\ UploadInv /\ OneOwner
  BY DEF IInv
<1>2. /\ pc = "ready" /\ pc' = pc /\ alive' = alive \ destroyed(object[s])
      /\ object' = [ object EXCEPT ![s] = Nothing ]
      /\ UNCHANGED << staging, cmd_buffer, transfer, made, SHADER_ID_COUNT >>
  BY DEF destroy, gone, upload
<1>3. /\ Nothing \in ObjectType /\ Nothing.handle = NULL /\ DOMAIN Nothing.shaders = {}
      /\ \A h : Has(Nothing, h) <=> h = NULL
  BY Simple, ResourcesAssumption DEF Nothing, Parents, NULL
<1>4. \A h \in Handles : ~ Has(Nothing, h)
  BY <1>3 DEF Handles, NULL
<1>5. TypeInv'
  <2>1. made' \in 0 .. MaxHandles /\ alive' \subseteq 1 .. made' \cup { STAGING }
    BY <1>1, <1>2 DEF TypeInv
  <2> QED
    BY <1>1, <1>2, <1>3, <2>1, SimpleStep
<1>6. STAGING \notin destroyed(object[s])
  <2>1. STAGING \notin 0 .. MaxHandles
    BY ResourcesAssumption DEF STAGING
  <2>2. object[s] \in ObjectType
    BY <1>1 DEF TypeInv
  <2>3. object[s].handle \in 0 .. MaxHandles /\ object[s].shaders \in ShaderMaps
    BY <2>2 DEF ObjectType
  <2>4. \A id \in DOMAIN object[s].shaders : object[s].shaders[id] \in 0 .. MaxHandles
    BY <2>3 DEF ShaderMaps
  <2> QED
    BY <2>1, <2>3, <2>4 DEF destroyed
<1>7. UploadInv'
  BY <1>1, <1>2, <1>6, ReadyStep
<1>8. Drops(s)
  <2>1. \A h \in Handles : h \in alive' <=> h \in alive /\ ~ Has(object[s], h)
    BY <1>1, <1>2, DestroysWhatItHas
  <2>2. object'[s] = Nothing /\ SameBut({ s })
    BY <1>1, <1>2, <1>3, Replaced
  <2> QED
    BY <1>2, <1>4, <2>1, <2>2 DEF Drops
<1> QED
  BY <1>5, <1>7, <1>8 DEF Good, Effect

LEMMA MapDataStep ==
  ASSUME IInv, NEW s \in Slots, map_data(s)
  PROVE  Good
<1>1. TypeInv /\ UploadInv
  BY DEF IInv
<1>2. /\ pc = "ready" /\ pc' \in { "ready", "undefined" }
      /\ UNCHANGED << staging, cmd_buffer, transfer, object, made, alive, SHADER_ID_COUNT >>
  BY DEF map_data, upload, queue, manager
<1> QED
  BY <1>1, <1>2, SameObjects, ReadyStep DEF Good

LEMMA StutterStep ==
  ASSUME IInv, UNCHANGED vars
  PROVE  Good
<1>1. TypeInv /\ UploadInv
  BY DEF IInv
<1>2. /\ UNCHANGED << pc, building, staging, cmd_buffer, transfer >>
      /\ UNCHANGED << object, made, alive, SHADER_ID_COUNT >>
  BY DEF vars, upload, queue, manager
<1>3. UploadInv'
  BY <1>1, <1>2 DEF UploadInv
<1> QED
  BY <1>1, <1>2, <1>3, SameObjects DEF Good

LEMMA GoodStep ==
  ASSUME IInv, [Next]_vars
  PROVE  Good
<1>1. ASSUME NEW s \in Slots, NEW c \in Classes, Construct(s, c)
      PROVE  Good
  BY <1>1, DefaultStep, UniformBufferStep, DescriptorPoolStep, ShaderStep, ManagerStep,
     CreateStagingStep DEF Construct
<1>2. CASE Upload
  BY <1>2, MapStep, CreateBufferStep, RecordStep, SubmitStep, WaitStep, FreeStagingStep DEF Upload
<1> QED
  BY <1>1, <1>2, CopyStep, LoadStep, MoveConstructStep, MoveAssignStep, DestroyStep, MapDataStep,
     StutterStep DEF Next

-----------------------------------------------------------------------------
(***************************************************************************)
(* The theorems.                                                           *)
(***************************************************************************)
LEMMA InitIInv ==
  Init => IInv
<1> SUFFICES ASSUME Init PROVE IInv
  OBVIOUS
<1>1. /\ Nothing \in ObjectType /\ Nothing.handle = NULL /\ DOMAIN Nothing.shaders = {}
      /\ \A h : Has(Nothing, h) <=> h = NULL
  BY Simple, ResourcesAssumption DEF Nothing, Parents, NULL
<1>2. \A s \in Slots : object[s] = Nothing
  BY DEF Init
<1>3. TypeInv
  BY <1>1, <1>2, ResourcesAssumption DEF Init, TypeInv
<1>4. UploadInv
  BY EmptySeq, ResourcesAssumption DEF Init, UploadInv, NULL, STAGING
<1>5. \A h \in Handles, s \in Slots : ~ Has(object[s], h)
  BY <1>1, <1>2 DEF Handles, NULL
<1> QED
  BY <1>3, <1>4, <1>5, OneOwnerHas DEF IInv

LEMMA NextIInv ==
  IInv /\ [Next]_vars => IInv'
BY GoodStep, EffectKeepsOwner DEF IInv, Good

(* The inductive invariant of the classes that own handles.                *)
THEOREM ResourcesInvariance == Spec => []IInv
<1> QED
  BY InitIInv, NextIInv, PTL DEF Spec

(* Every handle that some object holds is held by that object alone, and   *)
(* exists, and the object has the parent its destructor asks for: through  *)
(* constructors, moves, assignments, loads and destructors in any order,   *)
(* of any number of objects of the six classes of vk/.                     *)
THEOREM HandlesHaveOneOwner == Spec => []OneOwner
<1>1. IInv => OneOwner
  BY DEF IInv
<1> QED
  BY <1>1, ResourcesInvariance, PTL

(* What the transfer queue has still to copy is between the staging buffer *)
(* and the buffer of the constructor that waits, and both exist: neither   *)
(* the constructor nor any destructor takes them away (buffer upload of    *)
(* vertex_buffer and index_buffer).                                        *)
THEOREM CopiesUseLiveBuffers == Spec => []CopyUsesLiveBuffers
<1>1. ASSUME IInv
      PROVE  CopyUsesLiveBuffers
  <2> SUFFICES ASSUME NEW j \in DOMAIN transfer
               PROVE  { transfer[j].src, transfer[j].dst } \subseteq alive
    BY DEF CopyUsesLiveBuffers
  <2>1. TypeInv /\ UploadInv /\ OneOwner
    BY <1>1 DEF IInv
  <2>2. transfer[j] = cmd_buffer /\ transfer # << >>
    <3>1. transfer \in Seq({ cmd_buffer })
      BY <2>1 DEF UploadInv
    <3>2. transfer \in [ 1 .. Len(transfer) -> { cmd_buffer } ]
      BY <3>1, LenProperties
    <3>3. DOMAIN << >> = {}
      BY NoShaders
    <3> QED
      BY <3>2, <3>3
  <2>3. pc = "wait"
    BY <2>1, <2>2 DEF UploadInv
  <2>4. /\ building \in Slots /\ object[building].handle # NULL
        /\ cmd_buffer = [ src |-> STAGING, dst |-> object[building].handle ]
        /\ STAGING \in alive
    BY <2>1, <2>3 DEF UploadInv
  <2>5. object[building].handle \in Handles
    <3>1. object[building] \in ObjectType /\ MaxHandles \in Nat
      BY <2>1, <2>4, ResourcesAssumption DEF TypeInv
    <3>2. object[building].handle \in 0 .. MaxHandles
      BY <3>1 DEF ObjectType
    <3> QED
      BY <2>4, <3>1, <3>2 DEF Handles, NULL
  <2>6. object[building].handle \in alive
    BY <2>1, <2>4, <2>5, OneOwnerHas DEF Has
  <2> QED
    BY <2>2, <2>4, <2>6
<1> QED
  BY <1>1, ResourcesInvariance, PTL

-----------------------------------------------------------------------------
(***************************************************************************)
(* The types: what is beyond the invariant is where the constructors are,  *)
(* and what the queue was given and refused.                               *)
(***************************************************************************)
Copies == [ src : Buffers, dst : Buffers ]

UploadTypes ==
  /\ pc \in { "ready", "map", "create", "record", "submit", "wait", "free_staging", "aborted", "undefined" }
  /\ building \in Slots \cup { None }
  /\ cmd_buffer \in { NoCopy } \cup Copies
  /\ refused \subseteq Handles

(* Where a constructor records or submits a copy, its buffer has a handle. *)
LEMMA DestinationIsBuffer ==
  ASSUME IInv, pc \in { "record", "submit", "wait" }, object[building].handle # NULL
  PROVE  /\ object[building].handle \in Handles
         /\ [ src |-> STAGING, dst |-> object[building].handle ] \in Copies
<1>1. TypeInv /\ building \in Slots /\ MaxHandles \in Nat
  BY ResourcesAssumption DEF IInv, UploadInv
<1>2. object[building] \in ObjectType
  BY <1>1 DEF TypeInv
<1>3. object[building].handle \in Handles
  BY <1>1, <1>2 DEF ObjectType, Handles, NULL
<1> QED
  BY <1>3 DEF Copies, Buffers

LEMMA UploadTypesStep ==
  ASSUME IInv, UploadTypes, Upload
  PROVE  UploadTypes'
<1>1. CASE map_memory
  BY <1>1 DEF map_memory, UploadTypes, upload, queue
<1>2. CASE create_buffer
  BY <1>2 DEF create_buffer, UploadTypes, upload, queue
<1>3. CASE record_copy
  <2>1. /\ pc = "record" /\ UNCHANGED << building, refused >>
        /\ \/ pc' \in { "aborted", "undefined" } /\ UNCHANGED cmd_buffer
           \/ /\ pc' = "submit" /\ object[building].handle # NULL
              /\ cmd_buffer' = [ src |-> staging, dst |-> object[building].handle ]
    BY <1>3 DEF record_copy, queue
  <2>2. staging = STAGING
    BY <2>1 DEF IInv, UploadInv
  <2> QED
    BY <2>1, <2>2, DestinationIsBuffer DEF UploadTypes
<1>4. CASE submit_queue
  <2>1. /\ pc = "submit" /\ pc' = "wait" /\ UNCHANGED << building, cmd_buffer >>
        /\ refused' \in { refused, refused \cup { cmd_buffer.dst } }
    BY <1>4 DEF submit_queue, upload
  <2>2. cmd_buffer.dst \in Handles
    BY <2>1, DestinationIsBuffer DEF IInv, UploadInv
  <2> QED
    BY <2>1, <2>2 DEF UploadTypes
<1>5. CASE queue_wait_idle
  BY <1>5 DEF queue_wait_idle, UploadTypes, upload, queue
<1>6. CASE destroy_staging
  BY <1>6 DEF destroy_staging, gone, UploadTypes
<1> QED
  BY <1>1, <1>2, <1>3, <1>4, <1>5, <1>6 DEF Upload

LEMMA OtherTypesStep ==
  ASSUME UploadTypes, [Next]_vars, ~ Upload
  PROVE  UploadTypes'
<1>1. ASSUME NEW s \in Slots, NEW c \in Classes, Construct(s, c)
      PROVE  UploadTypes'
  <2>1. CASE create_staging(s, c)
    BY <2>1 DEF create_staging, UploadTypes, queue
  <2>2. CASE /\ pc' = pc
             /\ UNCHANGED << upload, queue >>
    BY <2>2 DEF UploadTypes, upload, queue
  <2> QED
    BY <1>1, <2>1, <2>2 DEF Construct, default_construct, construct_uniform_buffer,
       construct_descriptor_pool, construct_shader, construct_shader_manager
<1>2. CASE Copy
  BY <1>2 DEF Copy, UploadTypes, upload
<1>3. ASSUME NEW s \in Slots, NEW f \in Files, load_shader(s, f)
      PROVE  UploadTypes'
  BY <1>3 DEF load_shader, UploadTypes, upload, queue
<1>4. ASSUME NEW s \in Slots, NEW t \in Slots, move_construct(s, t) \/ move_assign(s, t)
      PROVE  UploadTypes'
  BY <1>4 DEF move_construct, move_assign, UploadTypes, upload, queue
<1>5. ASSUME NEW s \in Slots, destroy(s) \/ map_data(s)
      PROVE  UploadTypes'
  BY <1>5 DEF destroy, gone, map_data, UploadTypes, upload, queue
<1>6. CASE UNCHANGED vars
  BY <1>6 DEF vars, UploadTypes, upload, queue
<1> QED
  BY <1>1, <1>2, <1>3, <1>4, <1>5, <1>6 DEF Next

LEMMA TypesFollow ==
  ASSUME IInv, UploadTypes
  PROVE  TypeOK
<1>1. TypeInv /\ UploadInv /\ MaxHandles \in Nat /\ made \in 0 .. MaxHandles
  BY ResourcesAssumption DEF IInv, TypeInv
<1>2. ASSUME NEW s \in Slots
      PROVE  /\ object[s].class \in AllClasses \cup { "nothing" }
             /\ object[s].parent \in Parents
             /\ object[s].handle \in 0 .. made
  <2>1. object[s] \in ObjectType
    BY <1>1 DEF TypeInv
  <2>2. CASE object[s].handle = 0
    BY <1>1, <2>1, <2>2 DEF ObjectType
  <2>3. CASE object[s].handle # 0
    <3>1. object[s].handle \in Handles
      BY <1>1, <2>1, <2>3 DEF ObjectType, Handles
    <3>2. object[s].handle \in alive
      BY <3>1, OneOwnerHas DEF IInv, Has
    <3>3. object[s].handle \in 1 .. made
      BY <1>1, <3>1, <3>2 DEF TypeInv, Handles, STAGING
    <3> QED
      BY <1>1, <2>1, <3>3 DEF ObjectType
  <2> QED
    BY <2>2, <2>3
<1>3. alive \subseteq Buffers
  BY <1>1 DEF TypeInv, Buffers, Handles
<1>4. transfer \in Seq(Copies)
  <2>1. CASE transfer = << >>
    BY <2>1, EmptySeq
  <2>2. CASE transfer # << >>
    <3>1. pc = "wait" /\ transfer \in Seq({ cmd_buffer })
      BY <1>1, <2>2 DEF UploadInv
    <3>2. cmd_buffer \in Copies
      BY <1>1, <3>1, DestinationIsBuffer DEF UploadInv
    <3>3. /\ Len(transfer) \in Nat /\ transfer \in [ 1 .. Len(transfer) -> { cmd_buffer } ]
      BY <3>1, LenProperties
    <3>4. transfer \in [ 1 .. Len(transfer) -> Copies ]
      BY <3>2, <3>3
    <3> QED
      BY <3>3, <3>4, SeqDef
  <2> QED
    BY <2>1, <2>2
<1>5. \A s \in Slots : DOMAIN object[s].shaders \subseteq 0 .. SHADER_ID_COUNT - 1
  BY <1>1 DEF TypeInv
<1> QED
  BY <1>1, <1>2, <1>3, <1>4, <1>5 DEF UploadTypes, UploadInv, TypeOK, Copies

(* Types: an object holds only handles the device gave out, and a shader   *)
(* manager only ids that were counted; a copy that is recorded, submitted  *)
(* or refused is one between buffers.                                      *)
THEOREM TypeCorrect == Spec => []TypeOK
<1>1. Init => UploadTypes
  BY DEF Init, UploadTypes
<1>2. IInv /\ UploadTypes /\ [Next]_vars => UploadTypes'
  BY UploadTypesStep, OtherTypesStep
<1>3. IInv /\ UploadTypes => TypeOK
  BY TypesFollow
<1> QED
  BY <1>1, <1>2, <1>3, ResourcesInvariance, PTL DEF Spec

-----------------------------------------------------------------------------
(***************************************************************************)
(* The classes implement Ownership.                                        *)
(***************************************************************************)
Who(obj, m, live, h) ==
  LET holders == { s \in Slots : Has(obj[s], h) } IN
  IF h > m THEN "unborn"
  ELSE IF h \notin live THEN "destroyed"
  ELSE IF holders = {} THEN "lost"
  ELSE IF \E s \in Slots : holders = { s } THEN CHOOSE s \in Slots : holders = { s }
  ELSE "shared"

LEMMA OwnerIsWho ==
  /\ owner = [ h \in Handles |-> Who(object, made, alive, h) ]
  /\ owner' = [ h \in Handles |-> Who(object', made', alive', h) ]
BY DEF owner, Who, holds, Has

(* With one owner at most, Who tells the four cases apart.                 *)
LEMMA WhoCases ==
  ASSUME NEW obj, NEW m \in Nat, NEW live, NEW h \in Handles,
         \A s \in Slots : Has(obj[s], h) =>
           h \in live /\ h <= m /\ \A t \in Slots \ { s } : ~ Has(obj[t], h)
  PROVE  /\ h > m => Who(obj, m, live, h) = "unborn"
         /\ h <= m /\ h \notin live => Who(obj, m, live, h) = "destroyed"
         /\ h <= m /\ h \in live /\ (\A s \in Slots : ~ Has(obj[s], h)) => Who(obj, m, live, h) = "lost"
         /\ \A s \in Slots : Has(obj[s], h) => Who(obj, m, live, h) = s
         /\ \A s \in Slots : Who(obj, m, live, h) = s => Has(obj[s], h)
<1> DEFINE holders == { s \in Slots : Has(obj[s], h) }
<1>1. h \in Nat
  BY DEF Handles
<1>2. /\ h > m => Who(obj, m, live, h) = "unborn"
      /\ h <= m /\ h \notin live => Who(obj, m, live, h) = "destroyed"
      /\ h <= m /\ h \in live /\ holders = {} => Who(obj, m, live, h) = "lost"
  BY <1>1 DEF Who
<1>3. ASSUME NEW s \in Slots, Has(obj[s], h)
      PROVE  Who(obj, m, live, h) = s
  <2>1. holders = { s } /\ ~ h > m /\ h \in live
    BY <1>1, <1>3
  <2>2. (CHOOSE x \in Slots : holders = { x }) = s
    BY <2>1
  <2>3. \E x \in Slots : holders = { x }
    BY <2>1
  <2>4. holders # {}
    BY <2>1
  <2> HIDE DEF holders
  <2>5. Who(obj, m, live, h) = CHOOSE x \in Slots : holders = { x }
    BY <2>1, <2>3, <2>4 DEF Who, holders
  <2> QED
    BY <2>2, <2>5
<1>4. ASSUME NEW s \in Slots, Who(obj, m, live, h) = s
      PROVE  Has(obj[s], h)
  <2>1. \E x \in Slots : Has(obj[x], h)
    <3> SUFFICES ASSUME \A x \in Slots : ~ Has(obj[x], h)
                 PROVE  FALSE
      OBVIOUS
    <3>1. holders = {}
      OBVIOUS
    <3>2. s \in { "unborn", "destroyed", "lost" }
      BY <1>1, <1>2, <1>4, <3>1
    <3> QED
      BY <3>2, SlotsAssumption
  <2> QED
    BY <1>3, <1>4, <2>1
<1>5. (\A s \in Slots : ~ Has(obj[s], h)) => holders = {}
  OBVIOUS
<1> QED
  BY <1>2, <1>3, <1>4, <1>5

(* Each effect is a step of Ownership, or none.                            *)
LEMMA EffectIsStep ==
  ASSUME IInv, IInv', Effect
  PROVE  [Contract!Next]_owner
<1> DEFINE W(h)  == Who(object, made, alive, h)
           W1(h) == Who(object', made', alive', h)
<1>1. /\ TypeInv /\ OneOwner /\ TypeInv' /\ OneOwner'
      /\ made \in Nat /\ made' \in Nat /\ MaxHandles \in Nat
  BY ResourcesAssumption DEF IInv, TypeInv
<1>2. ASSUME NEW h \in Handles
      PROVE  /\ h > made => W(h) = "unborn"
             /\ h <= made /\ h \notin alive => W(h) = "destroyed"
             /\ h <= made /\ h \in alive /\ (\A s \in Slots : ~ Has(object[s], h)) => W(h) = "lost"
             /\ \A s \in Slots : W(h) = s <=> Has(object[s], h)
             /\ \A s \in Slots : Has(object[s], h) =>
                  h \in alive /\ h <= made /\ \A t \in Slots \ { s } : ~ Has(object[t], h)
  <2>1. h \in alive => h <= made
    BY <1>1 DEF TypeInv, Handles, STAGING
  <2>2. \A s \in Slots : Has(object[s], h) =>
          h \in alive /\ h <= made /\ \A t \in Slots \ { s } : ~ Has(object[t], h)
    BY <1>1, <2>1, OneOwnerHas
  <2> QED
    BY <1>1, <2>2, WhoCases
<1>3. ASSUME NEW h \in Handles
      PROVE  /\ h > made' => W1(h) = "unborn"
             /\ h <= made' /\ h \notin alive' => W1(h) = "destroyed"
             /\ h <= made' /\ h \in alive' /\ (\A s \in Slots : ~ Has(object'[s], h)) => W1(h) = "lost"
             /\ \A s \in Slots : Has(object'[s], h) => W1(h) = s
             /\ h \in alive' => h <= made'
  <2>1. h \in alive' => h <= made'
    BY <1>1 DEF TypeInv, Handles, STAGING
  <2>2. \A s \in Slots : Has(object'[s], h) =>
          h \in alive' /\ h <= made' /\ \A t \in Slots \ { s } : ~ Has(object'[t], h)
    BY <1>1, <2>1, OneOwnerHas
  <2> QED
    BY <1>1, <2>1, <2>2, WhoCases
<1>4. owner = [ h \in Handles |-> W(h) ] /\ owner' = [ h \in Handles |-> W1(h) ]
  BY OwnerIsWho
<1>5. \A h \in Handles : h \in Nat /\ h \in 1 .. MaxHandles
  BY <1>1 DEF Handles
<1> HIDE DEF W, W1
(* A handle that changes nothing of what Who looks at has the same owner.  *)
<1>6. ASSUME NEW h \in Handles, h > made' <=> h > made, h \in alive' <=> h \in alive,
             \A s \in Slots : Has(object'[s], h) <=> Has(object[s], h)
      PROVE  W1(h) = W(h)
  <2>1. CASE \E s \in Slots : Has(object[s], h)
    BY <1>2, <1>3, <1>6, <2>1
  <2>2. CASE \A s \in Slots : ~ Has(object[s], h)
    BY <1>1, <1>2, <1>3, <1>5, <1>6, <2>2
  <2> QED
    BY <2>1, <2>2
<1>7. CASE Quiet
  <2>1. \A h \in Handles : W1(h) = W(h)
    BY <1>6, <1>7 DEF Quiet
  <2> QED
    BY <1>4, <2>1
<1>8. ASSUME NEW s \in Slots, Makes(s)
      PROVE  Contract!Make(made + 1, s) /\ made + 1 \in Handles
  <2>1. /\ made + 1 \in Handles /\ made' = made + 1 /\ alive' = alive \cup { made + 1 }
    BY <1>8 DEF Makes
  <2>2. W(made + 1) = "unborn"
    BY <1>1, <1>2, <2>1
  <2>3. W1(made + 1) = s
    BY <1>3, <1>8, <2>1 DEF Makes
  <2>4. ASSUME NEW h \in Handles, h # made + 1
        PROVE  W1(h) = W(h)
    <3>1. (h > made' <=> h > made) /\ (h \in alive' <=> h \in alive)
      BY <1>1, <1>5, <2>1, <2>4
    <3>2. \A x \in Slots : Has(object'[x], h) <=> Has(object[x], h)
      BY <1>8, <2>1, <2>4 DEF Makes, SameBut
    <3> QED
      BY <1>6, <3>1, <3>2
  <2>5. owner' = [ owner EXCEPT ![made + 1] = s ]
    BY <1>4, <2>1, <2>3, <2>4
  <2> QED
    BY <1>4, <2>1, <2>2, <2>5 DEF Contract!Make
<1>9. ASSUME NEW s \in Slots, NEW t \in Slots, Hands(s, t)
      PROVE  s # t /\ Contract!HandOver(s, t)
  <2>1. s # t /\ made' = made /\ alive' = alive
    BY <1>9 DEF Hands
  <2>2. ASSUME NEW h \in Handles
        PROVE  W1(h) = CASE W(h) = s -> t [] W(h) = t -> "lost" [] OTHER -> W(h)
    <3>1. CASE W(h) = s
      <4>1. Has(object'[t], h)
        BY <1>2, <1>9, <3>1 DEF Hands
      <4> QED
        BY <1>3, <2>1, <3>1, <4>1
    <3>2. CASE W(h) = t
      <4>1. /\ Has(object[t], h) /\ h \in alive /\ h <= made
            /\ \A x \in Slots \ { t } : ~ Has(object[x], h)
        BY <1>2, <3>2
      <4>2. \A x \in Slots : ~ Has(object'[x], h)
        BY <1>9, <2>1, <4>1 DEF Hands, SameBut
      <4> QED
        BY <1>3, <2>1, <3>2, <4>1, <4>2
    <3>3. CASE W(h) # s /\ W(h) # t
      <4>1. ~ Has(object[s], h) /\ ~ Has(object[t], h)
        BY <1>2, <3>3
      <4>2. \A x \in Slots : Has(object'[x], h) <=> Has(object[x], h)
        BY <1>9, <4>1 DEF Hands, SameBut
      <4> QED
        BY <1>6, <2>1, <3>3, <4>2
    <3> QED
      BY <3>1, <3>2, <3>3
  <2>3. owner' = [ h \in Handles |-> CASE owner[h] = s -> t [] owner[h] = t -> "lost" [] OTHER -> owner[h] ]
    BY <1>4, <2>2
  <2> QED
    BY <2>1, <2>3 DEF Contract!HandOver
<1>10. ASSUME NEW s \in Slots, Drops(s)
       PROVE  Contract!Destroy(s)
  <2>1. ASSUME NEW h \in Handles
        PROVE  W1(h) = IF W(h) = s THEN "destroyed" ELSE W(h)
    <3>1. CASE W(h) = s
      <4>1. h \notin alive' /\ h <= made'
        BY <1>2, <1>10, <3>1 DEF Drops
      <4> QED
        BY <1>3, <3>1, <4>1
    <3>2. CASE W(h) # s
      <4>1. ~ Has(object[s], h)
        BY <1>2, <3>2
      <4>2. /\ \A x \in Slots : Has(object'[x], h) <=> Has(object[x], h)
            /\ h \in alive' <=> h \in alive
            /\ made' = made
        BY <1>10, <4>1 DEF Drops, SameBut
      <4> QED
        BY <1>6, <3>2, <4>2
    <3> QED
      BY <3>1, <3>2
  <2>2. owner' = [ h \in Handles |-> IF owner[h] = s THEN "destroyed" ELSE owner[h] ]
    BY <1>4, <2>1
  <2> QED
    BY <2>2 DEF Contract!Destroy
<1> QED
  BY <1>7, <1>8, <1>9, <1>10 DEF Effect, Contract!Next

LEMMA InitIsInit ==
  ASSUME Init
  PROVE  Contract!Init
<1>1. owner = [ h \in Handles |-> Who(object, made, alive, h) ]
  BY OwnerIsWho
<1>2. \A h \in Handles : h > made
  BY DEF Init, Handles
<1>3. \A h \in Handles : Who(object, made, alive, h) = "unborn"
  BY <1>2 DEF Who
<1> QED
  BY <1>1, <1>3 DEF Contract!Init

(* The six classes implement Ownership: a handle is made for one object,   *)
(* goes from object to object with moves, is destroyed once, by the        *)
(* destructor of the object that has it, and is lost only by an assignment *)
(* to the object that had it.                                              *)
THEOREM ImplementsOwnership == Spec => Implements
<1>1. Init => Contract!Init
  BY InitIsInit
<1>2. IInv /\ IInv' /\ [Next]_vars => [Contract!Next]_owner
  BY GoodStep, EffectIsStep DEF Good
<1> QED
  BY <1>1, <1>2, ResourcesInvariance, PTL DEF Spec, Implements, Contract!Spec
=============================================================================
