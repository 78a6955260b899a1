--------------------------- MODULE ContextProofs ---------------------------
(***************************************************************************)
(* Theorems about Context, for any machines, results, builds and number of *)
(* contexts: who holds what, that children go before their parents, which  *)
(* gpu and extensions are asked for, and when a null handle may be used.   *)
(***************************************************************************)
EXTENDS Context, SequenceTheorems, WellFoundedInduction, TLAPS

Constructing ==
  { "check_layers", "check_instance_extensions", "create_instance", "create_debug_messenger",
    "create_surface", "pick_gpu", "check_device_extensions", "create_device",
    "create_command_pools", "create_memory_allocator" }

Destructing ==
  { "destroy_command_pools", "destroy_memory_allocator", "destroy_device", "destroy_surface",
    "destroy_debug_messenger", "forget_instance" }

(* The kinds of handles and pools; what a pool's family is does not matter.*)
WellShaped(o) ==
  /\ DOMAIN o = { "handle", "gpu", "pools" }
  /\ DOMAIN o.handle = Fields
  /\ \A field \in Fields : o.handle[field] \in { NULL, Handle(field) }
  /\ \A pool \in o.pools : pool[1] = "command_pool"

Shape ==
  /\ self \in Slots
  /\ DOMAIN ctx = Slots
  /\ \A c \in Slots : WellShaped(ctx[c])

(* What an assignment has written over is held by no one, with its parent. *)
OverwrittenInv ==
  /\ overwritten \subseteq alive \ { NULL }
  /\ \A o \in overwritten : Parent(o) \in overwritten
  /\ \A c \in Slots : overwritten \cap Held(c) = {}

(* While the first context is constructed there is nothing else; later,    *)
(* what is not constructed holds nothing.                                  *)
LiveInv ==
  /\ pc \in Constructing =>
       /\ overwritten = {} /\ alive = Held(self)
       /\ live = {} /\ \A c \in Slots \ { self } : Held(c) = {}
  /\ pc \in Destructing \cup { "running" } =>
       \A c \in Slots \ live : Held(c) = {}
  /\ pc \in Destructing => self \in live

(* Which handles are null at each point of constructor and destructor.     *)
NullInv ==
  LET null(field) == ctx[self].handle[field] = NULL IN
  /\ pc \in { "check_layers", "check_instance_extensions", "create_instance" } => null("instance")
  /\ pc \in { "check_layers", "check_instance_extensions", "create_instance",
              "create_debug_messenger", "forget_instance" } => null("debug_messenger")
  /\ pc \in { "check_layers", "check_instance_extensions", "create_instance",
              "create_debug_messenger", "create_surface",
              "destroy_debug_messenger", "forget_instance" } => null("surface")
  /\ pc \in Constructing \ { "create_command_pools", "create_memory_allocator" } => null("device")
  /\ pc = "create_memory_allocator" => ~ null("device")
  /\ pc \in { "destroy_surface", "destroy_debug_messenger", "forget_instance" } => null("device")
  /\ pc \in Constructing => null("memory_allocator")
  /\ pc \in Destructing \ { "destroy_command_pools", "destroy_memory_allocator" } => null("memory_allocator")
  /\ pc \in Constructing \ { "create_memory_allocator" } => ctx[self].pools = {}
  /\ pc \in Destructing \ { "destroy_command_pools" } => ctx[self].pools = {}

(* A build without debug layers has no messengers.                         *)
MessengerInv ==
  /\ pc = "create_debug_messenger" => enable_debug_layers
  /\ ~ enable_debug_layers => \A c \in Slots : ctx[c].handle["debug_messenger"] = NULL

OwnInv ==
  OneOwner /\ HeldWithParent /\ OverwrittenInv /\ ParentsOutliveChildren /\ NothingLost

IInv == Shape /\ OwnInv /\ LiveInv /\ NullInv /\ MessengerInv

-----------------------------------------------------------------------------
(***************************************************************************)
(* Objects and contexts.                                                   *)
(***************************************************************************)
LEMMA HandleFacts ==
  \A f \in Fields : /\ Handle(f) # NULL /\ Handle(f)[1] = f
                    /\ \A g \in Fields : Handle(f) = Handle(g) => f = g
<1>1. \A f : Handle(f)[1] = f
  BY DEF Handle
<1>2. NULL[1] = "null" /\ "null" \notin Fields
  BY DEF NULL, Fields
<1>3. \A f \in Fields : Handle(f) # NULL
  BY <1>1, <1>2
<1> QED
  BY <1>1, <1>3

LEMMA PoolFacts ==
  ASSUME NEW x, x[1] = "command_pool"
  PROVE  /\ x # NULL /\ \A f \in Fields : x # Handle(f)
         /\ Parent(x) = Handle("device")
<1>1. NULL[1] = "null"
  BY DEF NULL
<1>2. "command_pool" \notin Fields
  BY DEF Fields
<1> QED
  BY <1>1, <1>2, HandleFacts DEF Parent

LEMMA ParentFacts ==
  /\ \A x : Parent(x) \in { Handle("instance"), Handle("device"), x }
  /\ Parent(Handle("instance")) = Handle("instance")
  /\ \A f \in { "debug_messenger", "surface", "device" } : Parent(Handle(f)) = Handle("instance")
  /\ Parent(Handle("memory_allocator")) = Handle("device")
  /\ { "instance", "debug_messenger", "surface", "device", "memory_allocator" } = Fields
<1>1. { "instance", "debug_messenger", "surface", "device", "memory_allocator" } = Fields
  BY DEF Fields
<1>2. \A f \in Fields : Handle(f)[1] = f
  BY HandleFacts
<1> QED
  BY <1>1, <1>2 DEF Parent

HeldBy(o) == ({ o.handle[field] : field \in Fields } \cup o.pools) \ { NULL }

LEMMA HeldIs ==
  \A c : Held(c) = HeldBy(ctx[c]) /\ Held(c)' = HeldBy(ctx'[c])
BY DEF Held, HeldBy

LEMMA HeldByIs ==
  ASSUME NEW o, WellShaped(o)
  PROVE  \A x : x \in HeldBy(o) <=>
            \/ x \in o.pools
            \/ \E f \in Fields : x = Handle(f) /\ o.handle[f] # NULL
BY HandleFacts, PoolFacts DEF WellShaped, HeldBy

(* An assignment to a handle of the context that is constructed or         *)
(* destroyed.                                                              *)
LEMMA SetHandle ==
  ASSUME Shape, self' = self, NEW k \in Fields, NEW h \in { NULL, Handle(k) },
         ctx' = [ ctx EXCEPT ![self].handle[k] = h ]
  PROVE  /\ Shape'
         /\ \A f \in Fields : ctx'[self].handle[f] = IF f = k THEN h ELSE ctx[self].handle[f]
         /\ ctx'[self].pools = ctx[self].pools
         /\ \A c \in Slots \ { self } : ctx'[c] = ctx[c] /\ Held(c)' = Held(c)
         /\ Held(self)' = (Held(self) \ { Handle(k) }) \cup ({ h } \ { NULL })
<1>1. /\ self \in Slots /\ DOMAIN ctx = Slots /\ WellShaped(ctx[self])
      /\ DOMAIN ctx' = Slots
      /\ \A c \in Slots \ { self } : ctx'[c] = ctx[c]
  BY DEF Shape
<1>2. /\ DOMAIN ctx'[self] = { "handle", "gpu", "pools" }
      /\ ctx'[self].pools = ctx[self].pools
      /\ ctx'[self].handle = [ ctx[self].handle EXCEPT ![k] = h ]
  BY <1>1 DEF WellShaped
<1>3. /\ DOMAIN ctx'[self].handle = Fields
      /\ \A f \in Fields : ctx'[self].handle[f] = IF f = k THEN h ELSE ctx[self].handle[f]
  BY <1>1, <1>2 DEF WellShaped
<1>4. WellShaped(ctx'[self])
  BY <1>1, <1>2, <1>3 DEF WellShaped
<1>5. Shape'
  BY <1>1, <1>4 DEF Shape
<1>6. \A c \in Slots \ { self } : Held(c)' = Held(c)
  BY <1>1, HeldIs
<1>7. HeldBy(ctx'[self]) = (HeldBy(ctx[self]) \ { Handle(k) }) \cup ({ h } \ { NULL })
  <2>1. \A x : x \in HeldBy(ctx[self]) <=>
           \/ x \in ctx[self].pools
           \/ \E f \in Fields : x = Handle(f) /\ ctx[self].handle[f] # NULL
    BY <1>1, HeldByIs
  <2>2. \A x : x \in HeldBy(ctx'[self]) <=>
           \/ x \in ctx[self].pools
           \/ \E f \in Fields : x = Handle(f) /\ ctx'[self].handle[f] # NULL
    BY <1>2, <1>4, HeldByIs
  <2>3. Handle(k) \notin ctx[self].pools /\ Handle(k) # NULL
    BY <1>1, HandleFacts, PoolFacts DEF WellShaped
  <2> QED
    BY <1>3, <2>1, <2>2, <2>3, HandleFacts
<1> QED
  BY <1>1, <1>2, <1>3, <1>5, <1>6, <1>7, HeldIs

LEMMA SetPools ==
  ASSUME Shape, self' = self, NEW P, \A p \in P : p[1] = "command_pool",
         ctx' = [ ctx EXCEPT ![self].pools = P ]
  PROVE  /\ Shape'
         /\ ctx'[self].handle = ctx[self].handle /\ ctx'[self].pools = P
         /\ \A c \in Slots \ { self } : ctx'[c] = ctx[c] /\ Held(c)' = Held(c)
         /\ Held(self)' = (Held(self) \ ctx[self].pools) \cup P
<1>1. /\ self \in Slots /\ DOMAIN ctx = Slots /\ WellShaped(ctx[self])
      /\ DOMAIN ctx' = Slots
      /\ \A c \in Slots \ { self } : ctx'[c] = ctx[c]
  BY DEF Shape
<1>2. /\ DOMAIN ctx'[self] = { "handle", "gpu", "pools" }
      /\ ctx'[self].handle = ctx[self].handle
      /\ ctx'[self].pools = P
  BY <1>1 DEF WellShaped
<1>3. WellShaped(ctx'[self])
  BY <1>1, <1>2 DEF WellShaped
<1>4. Shape'
  BY <1>1, <1>3 DEF Shape
<1>5. \A c \in Slots \ { self } : Held(c)' = Held(c)
  BY <1>1, HeldIs
<1>6. HeldBy(ctx'[self]) = (HeldBy(ctx[self]) \ ctx[self].pools) \cup P
  <2>1. \A x : x \in HeldBy(ctx[self]) <=>
           \/ x \in ctx[self].pools
           \/ \E f \in Fields : x = Handle(f) /\ ctx[self].handle[f] # NULL
    BY <1>1, HeldByIs
  <2>2. \A x : x \in HeldBy(ctx'[self]) <=>
           \/ x \in P
           \/ \E f \in Fields : x = Handle(f) /\ ctx[self].handle[f] # NULL
    BY <1>2, <1>3, HeldByIs
  <2>3. \A f \in Fields : Handle(f) \notin ctx[self].pools
    BY <1>1, PoolFacts DEF WellShaped
  <2> QED
    BY <2>1, <2>2, <2>3
<1> QED
  BY <1>1, <1>2, <1>4, <1>5, <1>6, HeldIs

-----------------------------------------------------------------------------
(***************************************************************************)
(* What a step can do to what the contexts hold.                           *)
(***************************************************************************)
Stopped == { "aborted", "undefined" }
Others(S) == \A c \in Slots \ S : Held(c)' = Held(c)

LEMMA QuietKeeps ==
  ASSUME OwnInv, UNCHANGED << alive, overwritten >>, Others({}),
         pc \notin Stopped \/ pc' \in Stopped
  PROVE  OwnInv'
<1>1. \A c \in Slots : Held(c)' = Held(c)
  BY DEF Others
<1>2. OneOwner' /\ HeldWithParent' /\ OverwrittenInv' /\ ParentsOutliveChildren'
  BY <1>1 DEF OwnInv, OneOwner, HeldWithParent, OverwrittenInv, ParentsOutliveChildren
<1>3. UNION { Held(c)' : c \in Slots } = UNION { Held(c) : c \in Slots }
  BY <1>1
<1>4. NothingLost'
  BY <1>3 DEF OwnInv, NothingLost, Stopped
<1> QED
  BY <1>2, <1>4 DEF OwnInv

(* While it is constructed a context is given new objects.                 *)
LEMMA MakesKeeps ==
  ASSUME Shape, OwnInv, self' = self, overwritten = {}, overwritten' = {},
         alive = Held(self), \A c \in Slots \ { self } : Held(c) = {},
         Others({ self }),
         NEW S, Held(self)' = Held(self) \cup S, alive' = alive \cup S,
         \A x \in S : Parent(x) \in alive \cup { x }
  PROVE  OwnInv'
<1>1. self \in Slots /\ \A c \in Slots \ { self } : Held(c)' = {}
  BY DEF Shape, Others
<1>2. OneOwner'
  BY <1>1 DEF OneOwner
<1>3. \A x \in alive : Parent(x) \in alive
  BY DEF OwnInv, ParentsOutliveChildren
<1>4. \A x \in alive' : Parent(x) \in alive'
  BY <1>3
<1>5. HeldWithParent' /\ ParentsOutliveChildren'
  BY <1>1, <1>4 DEF HeldWithParent, ParentsOutliveChildren
<1>6. OverwrittenInv'
  BY DEF OverwrittenInv
<1>7. NothingLost'
  BY <1>1 DEF NothingLost
<1> QED
  BY <1>2, <1>5, <1>6, <1>7 DEF OwnInv

(* What one context holds goes to another, but for the pools that come     *)
(* back; what the other one held is written over.                          *)
LEMMA HandsKeeps ==
  ASSUME Shape, OwnInv, NEW to \in Slots, NEW from \in Slots, to # from,
         Others({ to, from }), alive' = alive, pc \notin Stopped,
         Held(to)' = Held(from), Held(from)' = ctx[to].pools, ctx[to].pools \subseteq Held(to),
         overwritten' = overwritten \cup (Held(to) \ ctx[to].pools)
  PROVE  OwnInv'
<1>1. \A p \in ctx[to].pools : Parent(p) = Handle("device")
  BY PoolFacts DEF Shape, WellShaped
<1>2. \A p \in ctx[to].pools : \A x : Parent(x) # p \/ Parent(x) = x
  BY ParentFacts, HandleFacts, PoolFacts DEF Shape, WellShaped
<1>3. /\ \A c \in Slots : Held(c) \subseteq alive /\ \A d \in Slots \ { c } : Held(c) \cap Held(d) = {}
      /\ \A c \in Slots : \A x \in Held(c) : Parent(x) \in Held(c) \cup overwritten
      /\ \A c \in Slots : overwritten \cap Held(c) = {}
  BY DEF OwnInv, OneOwner, HeldWithParent, OverwrittenInv
<1>4. \A c \in Slots \ { to, from } : Held(c)' = Held(c)
  BY DEF Others
<1>5. OneOwner'
  BY <1>3, <1>4 DEF OneOwner
<1>6. Handle("device") \notin ctx[to].pools
  BY PoolFacts, ParentFacts DEF Shape, WellShaped
<1>7. HeldWithParent'
  <2>1. \A p \in ctx[to].pools : Parent(p) \in overwritten'
    BY <1>1, <1>3, <1>6
  <2> QED
    BY <1>3, <1>4, <2>1 DEF HeldWithParent
<1>8. OverwrittenInv'
  <2>1. \A c \in Slots : overwritten' \cap Held(c)' = {}
    BY <1>3, <1>4
  <2>2. ASSUME NEW x \in Held(to) \ ctx[to].pools
        PROVE  Parent(x) \in overwritten'
    BY <1>2, <1>3
  <2>3. \A x \in overwritten : Parent(x) \in overwritten
    BY DEF OwnInv, OverwrittenInv
  <2>4. overwritten' \subseteq alive' \ { NULL }
    BY <1>3 DEF OwnInv, OverwrittenInv, Held
  <2> QED
    BY <2>1, <2>2, <2>3, <2>4 DEF OverwrittenInv
<1>9. ParentsOutliveChildren'
  BY DEF OwnInv, ParentsOutliveChildren
<1>10. NothingLost'
  <2>1. alive \ ({ Handle("instance") } \cup overwritten) \subseteq UNION { Held(c) : c \in Slots }
    BY DEF OwnInv, NothingLost, Stopped
  <2>2. ASSUME NEW x \in alive' \ ({ Handle("instance") } \cup overwritten')
        PROVE  \E c \in Slots : x \in Held(c)'
    <3>1. PICK c \in Slots : x \in Held(c)
      BY <2>1, <2>2
    <3>2. CASE c = to
      BY <2>2, <3>1, <3>2
    <3>3. CASE c = from
      BY <3>1, <3>3
    <3>4. CASE c \notin { to, from }
      BY <1>4, <3>1, <3>4
    <3> QED
      BY <3>2, <3>3, <3>4
  <2> QED
    BY <2>2 DEF NothingLost
<1> QED
  BY <1>5, <1>7, <1>8, <1>9, <1>10 DEF OwnInv

(* A destructor destroys some of what its context holds, and nothing that  *)
(* its context still holds was made from it. It is that every object is    *)
(* held or written over together with its parent which makes this enough.  *)
LEMMA DropsKeeps ==
  ASSUME Shape, OwnInv, self' = self, NEW S, S \subseteq Held(self),
         Held(self)' = Held(self) \ S, alive' = alive \ S,
         Others({ self }), UNCHANGED overwritten, pc \notin Stopped,
         \A x \in Held(self) \ S : Parent(x) \notin S,
         Handle("instance") \notin S
  PROVE  OwnInv'
<1>1. /\ self \in Slots /\ \A c \in Slots \ { self } : Held(c)' = Held(c)
  BY DEF Shape, Others
<1>2. /\ \A c \in Slots : Held(c) \subseteq alive /\ \A d \in Slots \ { c } : Held(c) \cap Held(d) = {}
      /\ \A c \in Slots : \A x \in Held(c) : Parent(x) \in Held(c) \cup overwritten
      /\ \A c \in Slots : overwritten \cap Held(c) = {}
      /\ \A x \in overwritten : Parent(x) \in overwritten
      /\ overwritten \subseteq alive \ { NULL }
  BY DEF OwnInv, OneOwner, HeldWithParent, OverwrittenInv
<1>3. OneOwner'
  BY <1>1, <1>2 DEF OneOwner
<1>4. HeldWithParent'
  BY <1>1, <1>2 DEF HeldWithParent
<1>5. OverwrittenInv'
  <2>1. \A c \in Slots : overwritten' \cap Held(c)' = {}
    BY <1>1, <1>2
  <2>2. overwritten' \subseteq alive' \ { NULL }
    BY <1>1, <1>2
  <2> QED
    BY <1>2, <2>1, <2>2 DEF OverwrittenInv
<1>6. alive \ ({ Handle("instance") } \cup overwritten) \subseteq UNION { Held(c) : c \in Slots }
  BY DEF OwnInv, NothingLost, Stopped
<1>7. ParentsOutliveChildren'
  <2> SUFFICES ASSUME NEW x \in alive \ S
               PROVE  Parent(x) \in alive \ S
    BY DEF ParentsOutliveChildren
  <2>1. Parent(x) \in alive
    BY DEF OwnInv, ParentsOutliveChildren
  <2>2. CASE x = Handle("instance")
    BY <2>1, <2>2, ParentFacts
  <2>3. CASE x \in overwritten
    BY <1>1, <1>2, <2>1, <2>3
  <2>4. CASE \E c \in Slots : x \in Held(c)
    <3>1. PICK c \in Slots : x \in Held(c)
      BY <2>4
    <3>2. CASE c = self
      BY <2>1, <3>1, <3>2
    <3>3. CASE c # self
      <4>1. Parent(x) \in Held(c) \cup overwritten
        BY <1>2, <3>1
      <4>2. Parent(x) \notin Held(self)
        BY <1>1, <1>2, <3>3, <4>1
      <4> QED
        BY <2>1, <4>2
    <3> QED
      BY <3>2, <3>3
  <2> QED
    BY <1>6, <2>2, <2>3, <2>4
<1>8. NothingLost'
  <2>1. ASSUME NEW x \in alive' \ ({ Handle("instance") } \cup overwritten')
        PROVE  \E c \in Slots : x \in Held(c)'
    <3>1. PICK c \in Slots : x \in Held(c)
      BY <1>6, <2>1
    <3> QED
      BY <1>1, <2>1, <3>1
  <2> QED
    BY <2>1 DEF NothingLost
<1> QED
  BY <1>3, <1>4, <1>5, <1>7, <1>8 DEF OwnInv

(* The instance, and nothing else, is forgotten while it exists.           *)
LEMMA ForgetsKeeps ==
  ASSUME Shape, OwnInv, self' = self, UNCHANGED << alive, overwritten >>,
         Held(self)' = {}, Held(self) \subseteq { Handle("instance") },
         Others({ self }), pc \notin Stopped
  PROVE  OwnInv'
<1>1. /\ self \in Slots /\ \A c \in Slots \ { self } : Held(c)' = Held(c)
  BY DEF Shape, Others
<1>2. OneOwner' /\ HeldWithParent' /\ OverwrittenInv' /\ ParentsOutliveChildren'
  BY <1>1 DEF OwnInv, OneOwner, HeldWithParent, OverwrittenInv, ParentsOutliveChildren
<1>3. NothingLost'
  <2>1. ASSUME NEW x \in alive' \ ({ Handle("instance") } \cup overwritten')
        PROVE  \E c \in Slots : x \in Held(c)'
    <3>1. PICK c \in Slots : x \in Held(c)
      BY <2>1 DEF OwnInv, NothingLost, Stopped
    <3> QED
      BY <1>1, <2>1, <3>1
  <2> QED
    BY <2>1 DEF NothingLost
<1> QED
  BY <1>2, <1>3 DEF OwnInv

-----------------------------------------------------------------------------
(***************************************************************************)
(* The constructor.                                                        *)
(***************************************************************************)

(* A step that changes no handle and no pool.                              *)
SameHandles ==
  /\ DOMAIN ctx' = Slots
  /\ \A c \in Slots : /\ WellShaped(ctx'[c])
                      /\ ctx'[c].handle = ctx[c].handle
                      /\ ctx'[c].pools = ctx[c].pools

LEMMA SameStep ==
  ASSUME IInv, SameHandles, self' \in Slots, UNCHANGED << alive, overwritten >>,
         pc \notin Stopped \/ pc' \in Stopped
  PROVE  Shape' /\ OwnInv' /\ \A c \in Slots : Held(c)' = Held(c)
<1>1. \A c \in Slots : HeldBy(ctx'[c]) = HeldBy(ctx[c])
  BY DEF SameHandles, HeldBy
<1>2. \A c \in Slots : Held(c)' = Held(c)
  BY <1>1, HeldIs
<1>3. OwnInv'
  BY <1>2, QuietKeeps DEF IInv, Others
<1> QED
  BY <1>2, <1>3 DEF SameHandles, Shape

LEMMA SameCtx ==
  ASSUME IInv, ctx' = ctx
  PROVE  SameHandles
BY DEF IInv, Shape, SameHandles

(* Such a step of the constructor, to a point with no more to say of nulls.*)
LEMMA ConstructSame ==
  ASSUME IInv, SameHandles, pc \in Constructing,
         UNCHANGED << self, enable_debug_layers, live, alive, overwritten >>,
         \/ pc' \in Stopped
         \/ pc = "check_layers" /\ pc' = "check_instance_extensions"
         \/ pc = "check_instance_extensions" /\ pc' = "create_instance"
         \/ pc = "pick_gpu" /\ pc' = "check_device_extensions"
         \/ pc = "check_device_extensions" /\ pc' = "create_device"
  PROVE  IInv'
<1>1. self \in Slots /\ pc \notin Stopped
  BY DEF IInv, Shape, Constructing, Stopped
<1>2. Shape' /\ OwnInv' /\ \A c \in Slots : Held(c)' = Held(c)
  BY <1>1, SameStep
<1>3. LiveInv'
  BY <1>1, <1>2 DEF IInv, LiveInv, Constructing, Destructing, Stopped
<1>4. NullInv'
  BY <1>1 DEF IInv, NullInv, SameHandles, Constructing, Destructing, Stopped
<1>5. MessengerInv'
  BY DEF IInv, MessengerInv, SameHandles, Stopped
<1> QED
  BY <1>2, <1>3, <1>4, <1>5 DEF IInv

LEMMA CheckSteps ==
  ASSUME IInv, check_layers \/ check_instance_extensions \/ check_device_extensions
  PROVE  IInv'
<1>1. /\ pc \in Constructing
      /\ UNCHANGED << ctx, self, enable_debug_layers, live, alive, overwritten >>
      /\ \/ pc' = "aborted"
         \/ pc = "check_layers" /\ pc' = "check_instance_extensions"
         \/ pc = "check_instance_extensions" /\ pc' = "create_instance"
         \/ pc = "check_device_extensions" /\ pc' = "create_device"
  BY DEF check_layers, check_instance_extensions, check_device_extensions, given, Constructing
<1> QED
  BY <1>1, SameCtx, ConstructSame DEF Stopped

LEMMA PickGpuStep ==
  ASSUME IInv, pick_gpu
  PROVE  IInv'
<1>1. /\ pc = "pick_gpu" /\ UNCHANGED << self, enable_debug_layers, live, alive, overwritten >>
      /\ \/ pc' = "aborted" /\ ctx' = ctx
         \/ pc' = "check_device_extensions" /\ \E n : ctx' = [ ctx EXCEPT ![self].gpu = n ]
  BY DEF pick_gpu, given
<1>2. SameHandles
  <2>1. ASSUME NEW n, ctx' = [ ctx EXCEPT ![self].gpu = n ]
        PROVE  SameHandles
    BY <2>1 DEF IInv, Shape, WellShaped, SameHandles
  <2> QED
    BY <1>1, <2>1, SameCtx
<1> QED
  BY <1>1, <1>2, ConstructSame DEF Stopped, Constructing

LEMMA UseNullStep ==
  ASSUME IInv, use_null_handle
  PROVE  IInv'
<1>1. /\ pc \notin Stopped /\ pc' = "undefined"
      /\ UNCHANGED << self, enable_debug_layers, ctx, live, alive, overwritten >>
  BY DEF use_null_handle, given, Stopped
<1>2. Shape' /\ OwnInv'
  BY <1>1, SameCtx, SameStep DEF IInv, Shape
<1>3. LiveInv' /\ NullInv' /\ MessengerInv'
  BY <1>1 DEF IInv, LiveInv, NullInv, MessengerInv, Constructing, Destructing
<1> QED
  BY <1>2, <1>3 DEF IInv

LEMMA HeldHandle ==
  ASSUME Shape, NEW c \in Slots, NEW f \in Fields
  PROVE  Handle(f) \in Held(c) <=> ctx[c].handle[f] # NULL
<1>1. WellShaped(ctx[c])
  BY DEF Shape
<1>2. Handle(f) \notin ctx[c].pools
  BY <1>1, PoolFacts DEF WellShaped
<1>3. Handle(f) \in HeldBy(ctx[c]) <=> ctx[c].handle[f] # NULL
  BY <1>1, <1>2, HeldByIs, HandleFacts
<1> QED
  BY <1>3, HeldIs

(* A call that creates an object for a handle that is still null.          *)
LEMMA CreateStep ==
  ASSUME IInv, NEW point \in Constructing, NEW kind \in Fields \ { "memory_allocator" },
         NEW answers, NEW next, Create(point, kind, answers, next),
         next \in Constructing, ctx[self].handle[kind] = NULL
  PROVE  /\ Shape' /\ OwnInv' /\ LiveInv' /\ UNCHANGED << self, enable_debug_layers >>
         /\ \A c \in Slots \ { self } : ctx'[c] = ctx[c]
         /\ \A f \in Fields \ { kind } : ctx'[self].handle[f] = ctx[self].handle[f]
         /\ ctx'[self].pools = ctx[self].pools
         /\ pc' \in { "aborted", next }
<1>1. /\ pc = point /\ UNCHANGED << self, enable_debug_layers, live, overwritten >>
      /\ pc \notin Stopped
  BY DEF Create, given, Constructing, Stopped
<1>2. Shape /\ OwnInv /\ self \in Slots
  BY DEF IInv, Shape
<1>3. /\ overwritten = {} /\ alive = Held(self) /\ live = {}
      /\ \A c \in Slots \ { self } : Held(c) = {}
  BY <1>1 DEF IInv, LiveInv
<1>4. CASE pc' = "aborted" /\ UNCHANGED << ctx, alive >>
  <2>1. Shape' /\ OwnInv'
    BY <1>1, <1>2, <1>4, SameCtx, SameStep DEF Stopped
  <2>2. LiveInv'
    BY <1>4 DEF LiveInv, Constructing, Destructing
  <2> QED
    BY <1>1, <1>4, <2>1, <2>2
<1>5. ASSUME NEW h \in { NULL, Handle(kind) }, pc' = next,
             ctx' = [ ctx EXCEPT ![self].handle[kind] = h ],
             alive' = alive \cup ({ h } \ { NULL })
      PROVE  /\ Shape' /\ OwnInv' /\ LiveInv'
             /\ \A c \in Slots \ { self } : ctx'[c] = ctx[c]
             /\ \A f \in Fields \ { kind } : ctx'[self].handle[f] = ctx[self].handle[f]
             /\ ctx'[self].pools = ctx[self].pools
  <2>1. /\ Shape'
        /\ \A f \in Fields : ctx'[self].handle[f] = IF f = kind THEN h ELSE ctx[self].handle[f]
        /\ ctx'[self].pools = ctx[self].pools
        /\ \A c \in Slots \ { self } : ctx'[c] = ctx[c] /\ Held(c)' = Held(c)
        /\ Held(self)' = (Held(self) \ { Handle(kind) }) \cup ({ h } \ { NULL })
    BY <1>1, <1>2, <1>5, SetHandle
  <2>2. Handle(kind) \notin Held(self)
    BY <1>2, HeldHandle
  <2>3. Held(self)' = Held(self) \cup ({ h } \ { NULL })
    BY <2>1, <2>2
  <2>4. \A x \in { h } \ { NULL } : Parent(x) \in alive \cup { x }
    <3>1. CASE kind = "instance"
      BY <3>1, ParentFacts
    <3>2. CASE kind # "instance"
      <4>1. Parent(Handle(kind)) = Handle("instance") /\ Handle("instance")[1] = "instance"
            /\ "instance" \in Fields
        BY <3>2, ParentFacts, HandleFacts
      <4>2. ctx[self].handle["instance"] # NULL
        BY <3>2, <4>1 DEF Create
      <4>3. Handle("instance") \in alive
        BY <1>2, <1>3, <4>1, <4>2, HeldHandle
      <4> QED
        BY <4>1, <4>3
    <3> QED
      BY <3>1, <3>2
  <2>5. OwnInv'
    BY <1>1, <1>2, <1>3, <1>5, <2>1, <2>3, <2>4, MakesKeeps DEF Others
  <2>6. LiveInv'
    BY <1>1, <1>3, <1>5, <2>1, <2>3 DEF LiveInv, Constructing, Destructing
  <2> QED
    BY <2>1, <2>5, <2>6
<1>6. \/ pc' = "aborted" /\ UNCHANGED << ctx, alive >>
      \/ \E h \in { NULL, Handle(kind) } :
           /\ pc' = next /\ ctx' = [ ctx EXCEPT ![self].handle[kind] = h ]
           /\ alive' = alive \cup ({ h } \ { NULL })
  BY DEF Create
<1> QED
  BY <1>1, <1>4, <1>5, <1>6

LEMMA CreateInstanceStep ==
  ASSUME IInv, create_instance
  PROVE  IInv'
<1>1. pc = "create_instance" /\ "instance" \in Fields /\ ctx[self].handle["instance"] = NULL
  BY DEF create_instance, Create, Fields, IInv, NullInv
<1> DEFINE next == IF enable_debug_layers THEN "create_debug_messenger" ELSE "create_surface"
<1>2. /\ Shape' /\ OwnInv' /\ LiveInv' /\ UNCHANGED << self, enable_debug_layers >>
      /\ \A c \in Slots \ { self } : ctx'[c] = ctx[c]
      /\ \A f \in Fields \ { "instance" } : ctx'[self].handle[f] = ctx[self].handle[f]
      /\ ctx'[self].pools = ctx[self].pools
      /\ pc' \in { "aborted", next }
  BY <1>1, CreateStep DEF create_instance, Constructing
<1>3. /\ { "debug_messenger", "surface", "device", "memory_allocator" } \subseteq Fields \ { "instance" }
      /\ self \in Slots
  BY DEF Fields, IInv, Shape
<1>4. NullInv'
  BY <1>1, <1>2, <1>3 DEF IInv, NullInv, Constructing, Destructing
<1>5. MessengerInv'
  BY <1>2, <1>3 DEF IInv, MessengerInv
<1> QED
  BY <1>2, <1>4, <1>5 DEF IInv

LEMMA CreateMessengerStep ==
  ASSUME IInv, create_debug_messenger
  PROVE  IInv'
<1>1. /\ pc = "create_debug_messenger" /\ "debug_messenger" \in Fields
      /\ ctx[self].handle["debug_messenger"] = NULL /\ enable_debug_layers
  BY DEF create_debug_messenger, Create, Fields, IInv, NullInv, MessengerInv
<1>2. /\ Shape' /\ OwnInv' /\ LiveInv' /\ UNCHANGED << self, enable_debug_layers >>
      /\ \A c \in Slots \ { self } : ctx'[c] = ctx[c]
      /\ \A f \in Fields \ { "debug_messenger" } : ctx'[self].handle[f] = ctx[self].handle[f]
      /\ ctx'[self].pools = ctx[self].pools
      /\ pc' \in { "aborted", "create_surface" }
  BY <1>1, CreateStep DEF create_debug_messenger, Constructing
<1>3. /\ { "surface", "device", "memory_allocator" } \subseteq Fields \ { "debug_messenger" }
  BY DEF Fields
<1>4. NullInv'
  BY <1>1, <1>2, <1>3 DEF IInv, NullInv, Constructing, Destructing
<1>5. MessengerInv'
  BY <1>1, <1>2 DEF MessengerInv
<1> QED
  BY <1>2, <1>4, <1>5 DEF IInv

LEMMA CreateSurfaceStep ==
  ASSUME IInv, create_surface
  PROVE  IInv'
<1>1. pc = "create_surface" /\ "surface" \in Fields /\ ctx[self].handle["surface"] = NULL
  BY DEF create_surface, Create, Fields, IInv, NullInv
<1>2. /\ Shape' /\ OwnInv' /\ LiveInv' /\ UNCHANGED << self, enable_debug_layers >>
      /\ \A c \in Slots \ { self } : ctx'[c] = ctx[c]
      /\ \A f \in Fields \ { "surface" } : ctx'[self].handle[f] = ctx[self].handle[f]
      /\ ctx'[self].pools = ctx[self].pools
      /\ pc' \in { "aborted", "pick_gpu" }
  BY <1>1, CreateStep DEF create_surface, Constructing
<1>3. { "debug_messenger", "device", "memory_allocator" } \subseteq Fields \ { "surface" } /\ self \in Slots
  BY DEF Fields, IInv, Shape
<1>4. NullInv'
  BY <1>1, <1>2, <1>3 DEF IInv, NullInv, Constructing, Destructing
<1>5. MessengerInv'
  BY <1>2, <1>3 DEF IInv, MessengerInv
<1> QED
  BY <1>2, <1>4, <1>5 DEF IInv

LEMMA CreateDeviceStep ==
  ASSUME IInv, create_device
  PROVE  IInv'
<1>1. pc = "create_device" /\ "device" \in Fields /\ ctx[self].handle["device"] = NULL
  BY DEF create_device, Create, Fields, IInv, NullInv, Constructing
<1>2. /\ Shape' /\ OwnInv' /\ LiveInv' /\ UNCHANGED << self, enable_debug_layers >>
      /\ \A c \in Slots \ { self } : ctx'[c] = ctx[c]
      /\ \A f \in Fields \ { "device" } : ctx'[self].handle[f] = ctx[self].handle[f]
      /\ ctx'[self].pools = ctx[self].pools
      /\ pc' \in { "aborted", "create_command_pools" }
  BY <1>1, CreateStep DEF create_device, Constructing
<1>3. { "debug_messenger", "memory_allocator" } \subseteq Fields \ { "device" } /\ self \in Slots
  BY DEF Fields, IInv, Shape
<1>4. NullInv'
  BY <1>1, <1>2, <1>3 DEF IInv, NullInv, Constructing, Destructing
<1>5. MessengerInv'
  BY <1>2, <1>3 DEF IInv, MessengerInv
<1> QED
  BY <1>2, <1>4, <1>5 DEF IInv

(* Of the pools some are made before a call fails; then no one holds them. *)
LEMMA CreatePoolsStep ==
  ASSUME IInv, create_command_pools
  PROVE  IInv'
<1>1. /\ pc = "create_command_pools" /\ pc \notin Stopped
      /\ UNCHANGED << self, enable_debug_layers, live, overwritten >>
      /\ ctx[self].handle["device"] # NULL
  BY DEF create_command_pools, given, Stopped
<1>2. /\ Shape /\ OwnInv /\ self \in Slots
      /\ overwritten = {} /\ alive = Held(self) /\ live = {}
      /\ \A c \in Slots \ { self } : Held(c) = {}
      /\ ctx[self].handle["memory_allocator"] = NULL /\ ctx[self].pools = {}
  BY <1>1 DEF IInv, Shape, LiveInv, NullInv, Constructing
<1>3. PICK made :
        /\ \A p \in made : p[1] = "command_pool"
        /\ alive' = alive \cup made
        /\ \/ pc' = "create_memory_allocator" /\ ctx' = [ ctx EXCEPT ![self].pools = made ]
           \/ pc' = "aborted" /\ ctx' = ctx
  BY DEF create_command_pools, Pool
<1>4. Handle("device") \in alive /\ \A p \in made : Parent(p) = Handle("device") /\ p # NULL
  <2>1. "device" \in Fields
    BY DEF Fields
  <2> QED
    BY <1>1, <1>2, <1>3, <2>1, HeldHandle, PoolFacts
<1>5. CASE pc' = "create_memory_allocator" /\ ctx' = [ ctx EXCEPT ![self].pools = made ]
  <2>1. /\ Shape' /\ ctx'[self].handle = ctx[self].handle /\ ctx'[self].pools = made
        /\ \A c \in Slots \ { self } : ctx'[c] = ctx[c] /\ Held(c)' = Held(c)
        /\ Held(self)' = (Held(self) \ ctx[self].pools) \cup made
    BY <1>1, <1>2, <1>3, <1>5, SetPools
  <2>2. Held(self)' = Held(self) \cup made
    BY <1>2, <2>1
  <2>3. OwnInv'
    BY <1>1, <1>2, <1>3, <1>4, <2>1, <2>2, MakesKeeps DEF Others
  <2>4. LiveInv'
    BY <1>1, <1>2, <1>3, <1>5, <2>1, <2>2 DEF LiveInv, Constructing, Destructing
  <2>5. NullInv'
    BY <1>1, <1>2, <1>5, <2>1 DEF NullInv, Constructing, Destructing
  <2>6. MessengerInv'
    BY <1>1, <1>2, <1>5, <2>1 DEF IInv, MessengerInv
  <2> QED
    BY <2>1, <2>3, <2>4, <2>5, <2>6 DEF IInv
<1>6. CASE pc' = "aborted" /\ ctx' = ctx
  <2>1. Shape' /\ \A c \in Slots : Held(c)' = Held(c)
    BY <1>1, <1>2, <1>6, HeldIs DEF Shape
  <2>2. OneOwner' /\ HeldWithParent'
    BY <1>1, <1>2, <1>3, <2>1 DEF OwnInv, OneOwner, HeldWithParent
  <2>3. OverwrittenInv' /\ NothingLost'
    BY <1>1, <1>2, <1>6 DEF OverwrittenInv, NothingLost
  <2>4. ParentsOutliveChildren'
    BY <1>2, <1>3, <1>4 DEF OwnInv, ParentsOutliveChildren
  <2>5. LiveInv' /\ NullInv' /\ MessengerInv'
    BY <1>1, <1>6 DEF IInv, LiveInv, NullInv, MessengerInv, Constructing, Destructing
  <2> QED
    BY <2>1, <2>2, <2>3, <2>4, <2>5 DEF IInv, OwnInv
<1> QED
  BY <1>3, <1>5, <1>6

LEMMA CreateAllocatorStep ==
  ASSUME IInv, create_memory_allocator
  PROVE  IInv'
<1> DEFINE k == "memory_allocator"
<1>1. /\ pc = "create_memory_allocator" /\ pc \notin Stopped /\ pc' = "running"
      /\ live' = live \cup { self } /\ UNCHANGED << self, enable_debug_layers, overwritten >>
      /\ \/ /\ ctx' = [ ctx EXCEPT ![self].handle[k] = Handle(k) ]
            /\ alive' = alive \cup { Handle(k) }
         \/ UNCHANGED << ctx, alive >>
  BY DEF create_memory_allocator, given, Stopped
<1>2. /\ Shape /\ OwnInv /\ self \in Slots /\ k \in Fields /\ "device" \in Fields
      /\ overwritten = {} /\ alive = Held(self) /\ live = {}
      /\ \A c \in Slots \ { self } : Held(c) = {}
      /\ ctx[self].handle[k] = NULL /\ ctx[self].handle["device"] # NULL
  BY <1>1 DEF IInv, Shape, LiveInv, NullInv, Constructing, Fields
<1>3. NullInv'
  BY <1>1 DEF NullInv, Constructing, Destructing
<1>4. CASE UNCHANGED << ctx, alive >>
  <2>1. Shape' /\ OwnInv' /\ \A c \in Slots : Held(c)' = Held(c)
    BY <1>1, <1>2, <1>4, SameCtx, SameStep
  <2>2. LiveInv'
    BY <1>1, <1>2, <2>1 DEF LiveInv, Constructing, Destructing
  <2>3. MessengerInv'
    BY <1>1, <1>4 DEF IInv, MessengerInv
  <2> QED
    BY <1>3, <2>1, <2>2, <2>3 DEF IInv
<1>5. CASE /\ ctx' = [ ctx EXCEPT ![self].handle[k] = Handle(k) ]
           /\ alive' = alive \cup { Handle(k) }
  <2>1. /\ Shape'
        /\ \A f \in Fields : ctx'[self].handle[f] = IF f = k THEN Handle(k) ELSE ctx[self].handle[f]
        /\ \A c \in Slots \ { self } : ctx'[c] = ctx[c] /\ Held(c)' = Held(c)
        /\ Held(self)' = (Held(self) \ { Handle(k) }) \cup ({ Handle(k) } \ { NULL })
    BY <1>1, <1>2, <1>5, SetHandle
  <2>2. Handle(k) # NULL /\ Parent(Handle(k)) = Handle("device") /\ Handle("device") \in alive
    BY <1>2, HandleFacts, ParentFacts, HeldHandle
  <2>3. Held(self)' = Held(self) \cup { Handle(k) }
    BY <2>1, <2>2
  <2>4. OwnInv'
    <3>1. \A x \in { Handle(k) } : Parent(x) \in alive \cup { x }
      BY <2>2
    <3>2. Others({ self }) /\ overwritten' = {}
      BY <1>1, <1>2, <2>1 DEF Others
    <3> HIDE DEF k
    <3> QED
      BY <1>1, <1>2, <1>5, <2>3, <3>1, <3>2, MakesKeeps
  <2>5. LiveInv'
    BY <1>1, <1>2, <2>1 DEF LiveInv, Constructing, Destructing
  <2>6. MessengerInv'
    <3>1. "debug_messenger" \in Fields /\ "debug_messenger" # k
      BY DEF Fields
    <3> QED
      BY <1>1, <1>2, <2>1, <3>1 DEF IInv, MessengerInv
  <2> QED
    BY <1>3, <2>1, <2>4, <2>5, <2>6 DEF IInv
<1> QED
  BY <1>1, <1>4, <1>5

-----------------------------------------------------------------------------
(***************************************************************************)
(* Moves.                                                                  *)
(***************************************************************************)
LEMMA EmptyFacts ==
  ASSUME NEW o, DOMAIN o = { "handle", "gpu", "pools" },
         \A p \in o.pools : p[1] = "command_pool",
         o.handle = [ field \in Fields |-> NULL ]
  PROVE  /\ WellShaped(o) /\ HeldBy(o) = o.pools
         /\ \A f \in Fields : o.handle[f] = NULL
<1>1. /\ DOMAIN o = { "handle", "gpu", "pools" }
      /\ o.handle = [ field \in Fields |-> NULL ]
  OBVIOUS
<1>2. DOMAIN o.handle = Fields /\ \A f \in Fields : o.handle[f] = NULL
  BY <1>1
<1>3. WellShaped(o)
  BY <1>1, <1>2 DEF WellShaped
<1>4. HeldBy(o) = o.pools
  BY <1>1, <1>2, PoolFacts DEF HeldBy
<1> QED
  BY <1>1, <1>2, <1>3, <1>4

LEMMA EmptyIsEmpty ==
  /\ WellShaped(Empty) /\ Empty.pools = {} /\ HeldBy(Empty) = {}
  /\ \A f \in Fields : Empty.handle[f] = NULL
<1>1. /\ DOMAIN Empty = { "handle", "gpu", "pools" } /\ Empty.pools = {}
      /\ Empty.handle = [ field \in Fields |-> NULL ]
  BY DEF Empty
<1>2. \A p \in Empty.pools : p[1] = "command_pool"
  BY <1>1
<1> QED
  BY <1>1, <1>2, EmptyFacts

LEMMA DefaultStep ==
  ASSUME IInv, NEW c \in Slots, default_construct(c)
  PROVE  IInv'
<1>1. /\ pc = "running" /\ pc' = pc /\ c \notin live /\ live' = live \cup { c }
      /\ ctx' = [ ctx EXCEPT ![c] = Empty ]
      /\ UNCHANGED << self, enable_debug_layers, alive, overwritten >>
  BY DEF default_construct, given
<1>3. /\ WellShaped(Empty) /\ HeldBy(Empty) = {}
      /\ \A f \in Fields : Empty.handle[f] = NULL
  BY EmptyIsEmpty
<1>4. /\ Shape /\ OwnInv /\ \A d \in Slots \ live : Held(d) = {}
  BY <1>1 DEF IInv, LiveInv
<1>5. /\ Shape' /\ ctx'[c] = Empty /\ \A d \in Slots \ { c } : ctx'[d] = ctx[d]
  BY <1>1, <1>3, <1>4 DEF Shape
<1>6. \A d \in Slots : Held(d)' = Held(d)
  BY <1>1, <1>3, <1>4, <1>5, HeldIs
<1>7. OwnInv'
  BY <1>1, <1>4, <1>6, QuietKeeps DEF Others, Stopped
<1>8. LiveInv' /\ NullInv'
  BY <1>1, <1>4, <1>6 DEF LiveInv, NullInv, Constructing, Destructing
<1>9. MessengerInv'
  <2>1. "debug_messenger" \in Fields
    BY DEF Fields
  <2> QED
    BY <1>1, <1>3, <1>5, <2>1 DEF IInv, MessengerInv
<1> QED
  BY <1>5, <1>7, <1>8, <1>9 DEF IInv

LEMMA MovedStep ==
  ASSUME IInv, NEW to \in Slots, NEW from \in Slots, to # from,
         pc = "running", pc' = pc, ctx' = Moved(to, from),
         UNCHANGED << self, enable_debug_layers, alive >>,
         overwritten' = overwritten \cup (Held(to) \ ctx[to].pools),
         live' = live \cup { to }, from \in live
  PROVE  IInv'
<1> DEFINE rest == [ Empty EXCEPT !.pools = ctx[to].pools ]
<1>1. /\ Shape /\ OwnInv /\ \A d \in Slots \ live : Held(d) = {}
      /\ WellShaped(ctx[to]) /\ WellShaped(ctx[from])
  BY DEF IInv, LiveInv, Shape
<1>2. \A p \in ctx[to].pools : p[1] = "command_pool"
  BY <1>1 DEF WellShaped
<1>3. /\ WellShaped(rest) /\ HeldBy(rest) = ctx[to].pools
      /\ \A f \in Fields : rest.handle[f] = NULL
  <2>1. /\ DOMAIN rest = { "handle", "gpu", "pools" } /\ rest.pools = ctx[to].pools
        /\ rest.handle = [ field \in Fields |-> NULL ]
    BY DEF Empty
  <2>2. \A p \in rest.pools : p[1] = "command_pool"
    BY <1>2, <2>1
  <2> HIDE DEF rest
  <2> QED
    BY <2>1, <2>2, EmptyFacts
<1>4. ctx' = [ ctx EXCEPT ![to] = ctx[from], ![from] = rest ]
  BY DEF Moved
<1> HIDE DEF rest
<1>5. /\ DOMAIN ctx' = Slots /\ ctx'[to] = ctx[from] /\ ctx'[from] = rest
      /\ \A d \in Slots \ { to, from } : ctx'[d] = ctx[d]
  BY <1>1, <1>4 DEF Shape
<1>6. Shape'
  BY <1>1, <1>3, <1>5 DEF Shape
<1>7. /\ Held(to)' = Held(from) /\ Held(from)' = ctx[to].pools
      /\ \A d \in Slots \ { to, from } : Held(d)' = Held(d)
  BY <1>3, <1>5, HeldIs
<1>8. ctx[to].pools \subseteq Held(to)
  BY <1>1, HeldIs, HeldByIs
<1>9. OwnInv'
  BY <1>1, <1>7, <1>8, HandsKeeps DEF Others, Stopped
<1>10. LiveInv' /\ NullInv'
  BY <1>1, <1>7 DEF LiveInv, NullInv, Constructing, Destructing
<1>11. MessengerInv'
  <2>1. "debug_messenger" \in Fields
    BY DEF Fields
  <2>2. ~ enable_debug_layers => \A c \in Slots : ctx'[c].handle["debug_messenger"] = NULL
    BY <1>3, <1>5, <2>1 DEF IInv, MessengerInv
  <2> QED
    BY <2>2 DEF MessengerInv
<1> QED
  BY <1>6, <1>9, <1>10, <1>11 DEF IInv

LEMMA MoveConstructStep ==
  ASSUME IInv, NEW to \in Slots, NEW from \in Slots, move_construct(to, from)
  PROVE  IInv'
<1>1. /\ pc = "running" /\ pc' = pc /\ to \notin live /\ from \in live
      /\ ctx' = Moved(to, from) /\ live' = live \cup { to }
      /\ UNCHANGED << self, enable_debug_layers, alive, overwritten >>
  BY DEF move_construct, given
<1>2. Held(to) = {}
  BY <1>1 DEF IInv, LiveInv
<1> QED
  BY <1>1, <1>2, MovedStep

LEMMA MoveAssignStep ==
  ASSUME IInv, NEW to \in Slots, NEW from \in Slots, move_assign(to, from)
  PROVE  IInv'
<1> DEFINE handles == { ctx[to].handle[field] : field \in Fields } \ { NULL }
<1>1. /\ pc = "running" /\ pc' = pc /\ to \in live /\ from \in live /\ to # from
      /\ ctx' = Moved(to, from) /\ live' = live
      /\ overwritten' = overwritten \cup handles
      /\ UNCHANGED << self, enable_debug_layers, alive >>
  BY DEF move_assign, given
<1>2. WellShaped(ctx[to])
  BY DEF IInv, Shape
<1>3. handles \cap ctx[to].pools = {}
  BY <1>2, PoolFacts DEF WellShaped
<1>4. Held(to) = handles \cup (ctx[to].pools \ { NULL })
  BY DEF Held
<1>5. handles = Held(to) \ ctx[to].pools
  BY <1>3, <1>4
<1> QED
  BY <1>1, <1>5, MovedStep

-----------------------------------------------------------------------------
(***************************************************************************)
(* The destructor.                                                         *)
(***************************************************************************)
LEMMA DestructStep ==
  ASSUME IInv, NEW c \in Slots, destruct(c)
  PROVE  IInv'
<1>1. /\ pc = "running" /\ pc' = "destroy_command_pools" /\ c \in live /\ self' = c
      /\ UNCHANGED << ctx, enable_debug_layers, live, alive, overwritten >>
  BY DEF destruct, given
<1>2. Shape' /\ OwnInv' /\ \A d \in Slots : Held(d)' = Held(d)
  BY <1>1, SameCtx, SameStep DEF Stopped
<1>3. LiveInv' /\ NullInv' /\ MessengerInv'
  BY <1>1, <1>2 DEF IInv, LiveInv, NullInv, MessengerInv, Constructing, Destructing
<1> QED
  BY <1>2, <1>3 DEF IInv

LEMMA DestroyPoolsStep ==
  ASSUME IInv, destroy_command_pools
  PROVE  IInv'
<1>1. /\ pc = "destroy_command_pools" /\ pc' = "destroy_memory_allocator" /\ pc \notin Stopped
      /\ alive' = alive \ ctx[self].pools
      /\ ctx' = [ ctx EXCEPT ![self].pools = {} ]
      /\ UNCHANGED << self, enable_debug_layers, live, overwritten >>
  BY DEF destroy_command_pools, given, Stopped
<1>2. /\ Shape /\ OwnInv /\ self \in Slots /\ WellShaped(ctx[self]) /\ self \in live
      /\ \A d \in Slots \ live : Held(d) = {}
  BY <1>1 DEF IInv, LiveInv, Shape, Destructing
<1>3. /\ Shape' /\ ctx'[self].handle = ctx[self].handle /\ ctx'[self].pools = {}
      /\ \A c \in Slots \ { self } : ctx'[c] = ctx[c] /\ Held(c)' = Held(c)
      /\ Held(self)' = Held(self) \ ctx[self].pools
  <2>1. \A p \in {} : p[1] = "command_pool"
    OBVIOUS
  <2>2. /\ Shape' /\ ctx'[self].handle = ctx[self].handle /\ ctx'[self].pools = {}
        /\ \A c \in Slots \ { self } : ctx'[c] = ctx[c] /\ Held(c)' = Held(c)
        /\ Held(self)' = (Held(self) \ ctx[self].pools) \cup {}
    BY <1>1, <1>2, <2>1, SetPools
  <2> QED
    BY <2>2
<1>4. ctx[self].pools \subseteq Held(self)
  BY <1>2, HeldIs, HeldByIs
<1>5. /\ \A x \in Held(self) \ ctx[self].pools : Parent(x) \notin ctx[self].pools
      /\ Handle("instance") \notin ctx[self].pools
  BY <1>2, ParentFacts, PoolFacts DEF WellShaped
<1>6. OwnInv'
  BY <1>1, <1>2, <1>3, <1>4, <1>5, DropsKeeps DEF Others
<1>7. LiveInv' /\ NullInv'
  BY <1>1, <1>2, <1>3 DEF LiveInv, NullInv, Constructing, Destructing
<1>8. MessengerInv'
  BY <1>1, <1>2, <1>3 DEF IInv, MessengerInv
<1> QED
  BY <1>3, <1>6, <1>7, <1>8 DEF IInv

(* A handle is destroyed that nothing its context holds was made from.     *)
LEMMA DestroyStep ==
  ASSUME IInv, NEW point \in Destructing, NEW kind \in Fields \ { "instance" }, NEW next \in Destructing,
         Destroy(point, kind, next),
         \A x \in Held(self) \ { Handle(kind) } : Parent(x) # Handle(kind)
  PROVE  /\ Shape' /\ OwnInv' /\ LiveInv' /\ UNCHANGED << self, enable_debug_layers >>
         /\ \A c \in Slots \ { self } : ctx'[c] = ctx[c]
         /\ \A f \in Fields : ctx'[self].handle[f] = IF f = kind THEN NULL ELSE ctx[self].handle[f]
         /\ ctx'[self].pools = ctx[self].pools
         /\ pc = point /\ pc' = next
<1>1. /\ pc = point /\ pc' = next /\ pc \notin Stopped
      /\ alive' = alive \ { ctx[self].handle[kind] }
      /\ ctx' = [ ctx EXCEPT ![self].handle[kind] = NULL ]
      /\ UNCHANGED << self, enable_debug_layers, live, overwritten >>
  BY DEF Destroy, given, Stopped, Destructing
<1>2. /\ Shape /\ OwnInv /\ self \in Slots /\ self \in live
      /\ \A d \in Slots \ live : Held(d) = {}
  BY <1>1 DEF IInv, LiveInv, Shape
<1>3. /\ Shape'
      /\ \A f \in Fields : ctx'[self].handle[f] = IF f = kind THEN NULL ELSE ctx[self].handle[f]
      /\ ctx'[self].pools = ctx[self].pools
      /\ \A c \in Slots \ { self } : ctx'[c] = ctx[c] /\ Held(c)' = Held(c)
      /\ Held(self)' = Held(self) \ { Handle(kind) }
  BY <1>1, <1>2, SetHandle
<1>4. OwnInv'
  <2>1. CASE ctx[self].handle[kind] = NULL
    <3>1. NULL \notin alive
      <4>1. \A c \in Slots : NULL \notin Held(c)
        BY DEF Held
      <4>2. NULL # Handle("instance") /\ NULL \notin overwritten
        BY <1>2, HandleFacts, ParentFacts DEF OwnInv, OverwrittenInv
      <4>3. NULL \in alive => NULL \in UNION { Held(c) : c \in Slots }
        BY <1>1, <1>2, <4>2 DEF OwnInv, NothingLost, Stopped
      <4> QED
        BY <4>1, <4>3
    <3>2. Handle(kind) \notin Held(self)
      BY <1>2, <2>1, HeldHandle
    <3>3. alive' = alive /\ Others({})
      BY <1>1, <1>3, <2>1, <3>1, <3>2 DEF Others
    <3> QED
      BY <1>1, <1>2, <3>3, QuietKeeps
  <2>2. CASE ctx[self].handle[kind] # NULL
    <3>1. ctx[self].handle[kind] = Handle(kind) /\ Handle(kind) \in Held(self)
      BY <1>2, <2>2, HeldHandle DEF Shape, WellShaped
    <3>2. Handle("instance") # Handle(kind)
      BY HandleFacts, ParentFacts
    <3> QED
      BY <1>1, <1>2, <1>3, <3>1, <3>2, DropsKeeps DEF Others
  <2> QED
    BY <2>1, <2>2
<1>5. LiveInv'
  BY <1>1, <1>2, <1>3 DEF LiveInv, Constructing, Destructing
<1> QED
  BY <1>1, <1>3, <1>4, <1>5

(* Only instance and device have children.                                 *)
LEMMA Childless ==
  ASSUME NEW kind \in Fields \ { "instance", "device" }
  PROVE  \A x : x # Handle(kind) => Parent(x) # Handle(kind)
BY ParentFacts, HandleFacts

LEMMA DestroyMessengerInv ==
  ASSUME IInv, NEW kind,
         \A c \in Slots \ { self } : ctx'[c] = ctx[c],
         \A f \in Fields : ctx'[self].handle[f] = IF f = kind THEN NULL ELSE ctx[self].handle[f],
         UNCHANGED enable_debug_layers, pc' # "create_debug_messenger"
  PROVE  MessengerInv'
<1>1. "debug_messenger" \in Fields
  BY DEF Fields
<1> QED
  BY <1>1 DEF IInv, MessengerInv

LEMMA DestroyAllocatorStep ==
  ASSUME IInv, destroy_memory_allocator
  PROVE  IInv'
<1>1. "memory_allocator" \in Fields \ { "instance", "device" }
  BY DEF Fields
<1>2. /\ Shape' /\ OwnInv' /\ LiveInv' /\ UNCHANGED << self, enable_debug_layers >>
      /\ \A c \in Slots \ { self } : ctx'[c] = ctx[c]
      /\ \A f \in Fields : ctx'[self].handle[f] = IF f = "memory_allocator" THEN NULL ELSE ctx[self].handle[f]
      /\ ctx'[self].pools = ctx[self].pools
      /\ pc = "destroy_memory_allocator" /\ pc' = "destroy_device"
  BY <1>1, Childless, DestroyStep DEF destroy_memory_allocator, Destructing
<1>3. NullInv'
  BY <1>1, <1>2 DEF IInv, NullInv, Constructing, Destructing
<1> QED
  BY <1>2, <1>3, DestroyMessengerInv DEF IInv

(* By now the pools and the allocator are gone.                            *)
LEMMA DestroyDeviceStep ==
  ASSUME IInv, destroy_device
  PROVE  IInv'
<1>1. /\ pc = "destroy_device" /\ "device" \in Fields \ { "instance" }
      /\ ctx[self].pools = {} /\ ctx[self].handle["memory_allocator"] = NULL
      /\ self \in Slots /\ WellShaped(ctx[self])
  BY DEF destroy_device, Destroy, Fields, IInv, NullInv, Destructing, Shape
<1>2. \A x \in Held(self) \ { Handle("device") } : Parent(x) # Handle("device")
  <2> SUFFICES ASSUME NEW x \in Held(self), x # Handle("device")
               PROVE  Parent(x) # Handle("device")
    OBVIOUS
  <2>1. PICK f \in Fields : x = Handle(f) /\ ctx[self].handle[f] # NULL
    BY <1>1, HeldIs, HeldByIs
  <2>2. f \in { "instance", "debug_messenger", "surface" }
    BY <1>1, <2>1, ParentFacts
  <2>3. Parent(x) = Handle("instance")
    BY <2>1, <2>2, ParentFacts
  <2> QED
    BY <2>3, HandleFacts, ParentFacts
<1>3. /\ Shape' /\ OwnInv' /\ LiveInv' /\ UNCHANGED << self, enable_debug_layers >>
      /\ \A c \in Slots \ { self } : ctx'[c] = ctx[c]
      /\ \A f \in Fields : ctx'[self].handle[f] = IF f = "device" THEN NULL ELSE ctx[self].handle[f]
      /\ ctx'[self].pools = ctx[self].pools
      /\ pc' = "destroy_surface"
  BY <1>1, <1>2, DestroyStep DEF destroy_device, Destructing
<1>4. "memory_allocator" \in Fields
  BY DEF Fields
<1>5. NullInv'
  BY <1>1, <1>3, <1>4 DEF NullInv, Constructing, Destructing
<1> QED
  BY <1>3, <1>5, DestroyMessengerInv DEF IInv

LEMMA DestroySurfaceStep ==
  ASSUME IInv, destroy_surface
  PROVE  IInv'
<1> DEFINE next == IF enable_debug_layers THEN "destroy_debug_messenger" ELSE "forget_instance"
<1>1. /\ "surface" \in Fields \ { "instance", "device" } /\ self \in Slots
      /\ { "device", "memory_allocator", "debug_messenger" } \subseteq Fields
  BY DEF Fields, IInv, Shape
<1>2. /\ Shape' /\ OwnInv' /\ LiveInv' /\ UNCHANGED << self, enable_debug_layers >>
      /\ \A c \in Slots \ { self } : ctx'[c] = ctx[c]
      /\ \A f \in Fields : ctx'[self].handle[f] = IF f = "surface" THEN NULL ELSE ctx[self].handle[f]
      /\ ctx'[self].pools = ctx[self].pools
      /\ pc = "destroy_surface" /\ pc' = next
  BY <1>1, Childless, DestroyStep DEF destroy_surface, Destructing
<1>3. ~ enable_debug_layers => ctx[self].handle["debug_messenger"] = NULL
  BY <1>1 DEF IInv, MessengerInv
<1>4. NullInv'
  BY <1>1, <1>2, <1>3 DEF IInv, NullInv, Constructing, Destructing
<1> QED
  BY <1>2, <1>4, DestroyMessengerInv DEF IInv

LEMMA DestroyMessengerStep ==
  ASSUME IInv, destroy_debug_messenger
  PROVE  IInv'
<1>1. /\ "debug_messenger" \in Fields \ { "instance", "device" }
      /\ { "device", "memory_allocator", "surface" } \subseteq Fields
  BY DEF Fields
<1>2. /\ Shape' /\ OwnInv' /\ LiveInv' /\ UNCHANGED << self, enable_debug_layers >>
      /\ \A c \in Slots \ { self } : ctx'[c] = ctx[c]
      /\ \A f \in Fields : ctx'[self].handle[f] = IF f = "debug_messenger" THEN NULL ELSE ctx[self].handle[f]
      /\ ctx'[self].pools = ctx[self].pools
      /\ pc = "destroy_debug_messenger" /\ pc' = "forget_instance"
  BY <1>1, Childless, DestroyStep DEF destroy_debug_messenger, Destructing
<1>3. NullInv'
  BY <1>1, <1>2 DEF IInv, NullInv, Constructing, Destructing
<1> QED
  BY <1>2, <1>3, DestroyMessengerInv DEF IInv

LEMMA ForgetStep ==
  ASSUME IInv, forget_instance
  PROVE  IInv'
<1>1. /\ pc = "forget_instance" /\ pc' = "running" /\ pc \notin Stopped
      /\ ctx' = [ ctx EXCEPT ![self].handle["instance"] = NULL ]
      /\ live' = live \ { self }
      /\ UNCHANGED << self, enable_debug_layers, alive, overwritten >>
  BY DEF forget_instance, given, Stopped
<1>2. /\ Shape /\ OwnInv /\ self \in Slots /\ WellShaped(ctx[self])
      /\ \A d \in Slots \ live : Held(d) = {}
      /\ ctx[self].pools = {}
      /\ \A f \in { "debug_messenger", "surface", "device", "memory_allocator" } : ctx[self].handle[f] = NULL
  BY <1>1 DEF IInv, LiveInv, NullInv, Shape, Destructing
<1>3. "instance" \in Fields
  BY DEF Fields
<1>4. /\ Shape'
      /\ \A f \in Fields : ctx'[self].handle[f] = IF f = "instance" THEN NULL ELSE ctx[self].handle[f]
      /\ \A c \in Slots \ { self } : ctx'[c] = ctx[c] /\ Held(c)' = Held(c)
      /\ Held(self)' = Held(self) \ { Handle("instance") }
  BY <1>1, <1>2, <1>3, SetHandle
<1>5. Held(self) \subseteq { Handle("instance") }
  BY <1>2, HeldIs, HeldByIs, ParentFacts
<1>6. Held(self)' = {}
  BY <1>4, <1>5
<1>7. OwnInv'
  BY <1>1, <1>2, <1>4, <1>5, <1>6, ForgetsKeeps DEF Others
<1>8. LiveInv' /\ NullInv'
  BY <1>1, <1>2, <1>4, <1>6 DEF LiveInv, NullInv, Constructing, Destructing
<1> QED
  BY <1>1, <1>4, <1>7, <1>8, DestroyMessengerInv DEF IInv

-----------------------------------------------------------------------------
(***************************************************************************)
(* The theorems.                                                           *)
(***************************************************************************)
LEMMA InitIInv ==
  Init => IInv
<1> SUFFICES ASSUME Init PROVE IInv
  OBVIOUS
<1>1. /\ pc = "check_layers" /\ self \in Slots /\ live = {} /\ alive = {} /\ overwritten = {}
      /\ DOMAIN ctx = Slots /\ \A c \in Slots : ctx[c] = Empty
  BY SlotsAssumption DEF Init
<1>3. /\ WellShaped(Empty) /\ HeldBy(Empty) = {} /\ Empty.pools = {}
      /\ \A f \in Fields : Empty.handle[f] = NULL
  BY EmptyIsEmpty
<1>4. \A c \in Slots : Held(c) = {}
  BY <1>1, <1>3, HeldIs
<1>5. Shape
  BY <1>1, <1>3 DEF Shape
<1>6. OwnInv
  BY <1>1, <1>4 DEF OwnInv, OneOwner, HeldWithParent, OverwrittenInv, ParentsOutliveChildren, NothingLost
<1>7. LiveInv
  BY <1>1, <1>4 DEF LiveInv, Constructing, Destructing
<1>8. \A c \in Slots : ctx[c].pools = {} /\ \A f \in Fields : ctx[c].handle[f] = NULL
  BY <1>1, <1>3
<1>9. NullInv
  BY <1>1, <1>8, ParentFacts DEF NullInv, Constructing, Destructing
<1>10. MessengerInv
  BY <1>1, <1>8, ParentFacts DEF MessengerInv
<1> QED
  BY <1>5, <1>6, <1>7, <1>9, <1>10 DEF IInv

LEMMA NextIInv ==
  ASSUME IInv, [Next]_vars
  PROVE  IInv'
<1>1. CASE Construct
  BY <1>1, CheckSteps, PickGpuStep, UseNullStep, CreateInstanceStep, CreateMessengerStep,
     CreateSurfaceStep, CreateDeviceStep, CreatePoolsStep, CreateAllocatorStep DEF Construct
<1>2. CASE Move
  BY <1>2, DefaultStep, MoveConstructStep, MoveAssignStep DEF Move
<1>3. CASE Destruct
  BY <1>3, DestructStep, DestroyPoolsStep, DestroyAllocatorStep, DestroyDeviceStep,
     DestroySurfaceStep, DestroyMessengerStep, ForgetStep DEF Destruct
<1>4. CASE UNCHANGED vars
  <2>1. UNCHANGED << pc, self, enable_debug_layers, ctx, live, alive, overwritten >>
    BY <1>4 DEF vars, given
  <2>2. Shape' /\ OwnInv' /\ \A c \in Slots : Held(c)' = Held(c)
    BY <2>1, SameCtx, SameStep DEF IInv, Shape
  <2>3. LiveInv'
    BY <2>1, <2>2 DEF IInv, LiveInv, Shape
  <2>4. NullInv'
    BY <2>1 DEF IInv, NullInv
  <2>5. MessengerInv'
    BY <2>1 DEF IInv, MessengerInv
  <2> QED
    BY <2>2, <2>3, <2>4, <2>5 DEF IInv
<1> QED
  BY <1>1, <1>2, <1>3, <1>4 DEF Next

(* The inductive invariant of contexts.                                    *)
THEOREM ContextInvariance == Spec => []IInv
<1>1. IInv /\ [Next]_vars => IInv'
  BY NextIInv
<1> QED
  BY <1>1, InitIInv, PTL DEF Spec

(* What a context holds exists and is held by no other context, so that    *)
(* ~context() never destroys an object twice, however contexts are default *)
(* constructed, moved and assigned to before.                              *)
THEOREM ObjectsHaveOneContext == Spec => []OneOwner
<1>1. IInv => OneOwner
  BY DEF IInv, OwnInv
<1> QED
  BY <1>1, ContextInvariance, PTL

(* No step of constructor or destructor leaves an object without the       *)
(* instance or device it was created from.                                 *)
THEOREM ChildrenDieFirst == Spec => []ParentsOutliveChildren
<1>1. IInv => ParentsOutliveChildren
  BY DEF IInv, OwnInv
<1> QED
  BY <1>1, ContextInvariance, PTL

(* operator=(context&&) keeps what belongs together in one context: where  *)
(* an object is held its parent is, unless an assignment wrote it over.    *)
THEOREM FamiliesStayTogether == Spec => []HeldWithParent
<1>1. IInv => HeldWithParent
  BY DEF IInv, OwnInv
<1> QED
  BY <1>1, ContextInvariance, PTL

(* Only an assignment to a context that holds something loses objects; the *)
(* instance aside, which ~context() does not destroy.                      *)
THEOREM OnlyAssignmentsLose == Spec => []NothingLost
<1>1. IInv => NothingLost
  BY DEF IInv, OwnInv
<1> QED
  BY <1>1, ContextInvariance, PTL

-----------------------------------------------------------------------------
(***************************************************************************)
(* The extensions.                                                         *)
(***************************************************************************)
ExtensionInv ==
  DOMAIN enabled = { "layers", "instance", "device" } /\ InstanceExtensionsSupported

(* load_instance_extensions compares with strcmp(..) == 0: it finds what   *)
(* is required or wanted and supported.                                    *)
LEMMA FoundIsSupported ==
  ASSUME NEW supported,
         NEW names, names = check_support(required_instance_extensions,
                                          optional_instance_extensions,
                                          load_instance_extensions(supported))
  PROVE  names # {} => required_instance_extensions \subseteq names /\ names \subseteq supported
<1> DEFINE found == load_instance_extensions(supported)
<1>1. found \subseteq supported
  BY DEF load_instance_extensions
<1> HIDE DEF found
<1>2. names = IF required_instance_extensions \subseteq found
              THEN (required_instance_extensions \cup optional_instance_extensions) \cap found
              ELSE {}
  BY DEF check_support, found
<1> QED
  BY <1>1, <1>2

LEMMA ExtensionStep ==
  ASSUME ExtensionInv, [Next]_vars
  PROVE  ExtensionInv'
<1>1. \/ UNCHANGED << machine, enabled >>
      \/ check_layers \/ check_instance_extensions \/ check_device_extensions
  BY DEF Next, vars, given, Construct, Move, Destruct, Create, create_instance,
         create_debug_messenger, create_surface, pick_gpu, create_device,
         create_command_pools, create_memory_allocator, use_null_handle,
         default_construct, move_construct, move_assign, destruct,
         destroy_command_pools, Destroy, destroy_memory_allocator, destroy_device,
         destroy_surface, destroy_debug_messenger, forget_instance
<1>2. CASE UNCHANGED << machine, enabled >>
  BY <1>2 DEF ExtensionInv, InstanceExtensionsSupported
<1>3. CASE check_layers
  <2>1. UNCHANGED machine /\ DOMAIN enabled' = DOMAIN enabled
        /\ enabled'.instance = enabled.instance
    BY <1>3 DEF check_layers, given, ExtensionInv
  <2> QED
    BY <2>1 DEF ExtensionInv, InstanceExtensionsSupported
<1>4. CASE check_instance_extensions
  <2> DEFINE names == check_support(required_instance_extensions, optional_instance_extensions,
                                    load_instance_extensions(machine.extensions))
  <2>1. names # {} => /\ required_instance_extensions \subseteq names
                      /\ names \subseteq machine.extensions
    BY FoundIsSupported
  <2>2. UNCHANGED machine /\ (enabled' = enabled \/ enabled' = [ enabled EXCEPT !.instance = names ])
    BY <1>4 DEF check_instance_extensions, given
  <2> HIDE DEF names
  <2> QED
    BY <2>1, <2>2 DEF ExtensionInv, InstanceExtensionsSupported
<1>5. CASE check_device_extensions
  <2>1. UNCHANGED machine /\ DOMAIN enabled' = DOMAIN enabled
        /\ enabled'.instance = enabled.instance
    BY <1>5 DEF check_device_extensions, given, ExtensionInv
  <2> QED
    BY <2>1 DEF ExtensionInv, InstanceExtensionsSupported
<1> QED
  BY <1>1, <1>2, <1>3, <1>4, <1>5

LEMMA InitExtensions ==
  Init => ExtensionInv
BY DEF Init, ExtensionInv, InstanceExtensionsSupported

(* The instance is created with every required extension and with none the *)
(* driver lacks, whatever the driver supports.                             *)
THEOREM ExtensionsAreSupported == Spec => []InstanceExtensionsSupported
<1>1. ExtensionInv /\ [Next]_vars => ExtensionInv'
  BY ExtensionStep
<1>2. ExtensionInv => InstanceExtensionsSupported
  BY DEF ExtensionInv
<1> QED
  BY <1>1, <1>2, InitExtensions, PTL DEF Spec

-----------------------------------------------------------------------------
(***************************************************************************)
(* The types. What is beyond the shape of contexts needs that pick_gpu     *)
(* finds a first candidate.                                                *)
(***************************************************************************)
(* Where the gpu that was picked is asked for something.                   *)
GpuPoints == { "check_device_extensions", "create_device", "create_command_pools" }

TypeInv ==
  /\ machine \in Machines
  /\ live \subseteq Slots
  /\ \A x \in alive : x[1] \in Fields \cup { "command_pool" }
  /\ \A c \in Slots : /\ ctx[c].gpu \in 0 .. Len(machine.gpus)
                      /\ \A pool \in ctx[c].pools : pool[2] \in Nat
  /\ pc \in GpuPoints => ctx[self].gpu # 0

(* A set of numbers that is not empty has a least one.                     *)
LEMMA LeastExists ==
  ASSUME NEW T \in SUBSET Nat, T # {}
  PROVE  \E n \in T : \A m \in T : n <= m
<1> DEFINE R == OpToRel(<, Nat)
<1>1. IsWellFoundedOn(R, Nat)
  BY NatLessThanWellFounded
<1>2. \A x, y \in Nat : << y, x >> \in R <=> y < x
  BY DEF OpToRel
<1> HIDE DEF R
<1>3. PICK n \in T : \A m \in T : ~ (<< m, n >> \in R)
  BY <1>1, WFMin
<1>4. ASSUME NEW m \in T PROVE n <= m
  <2>1. m \in Nat /\ n \in Nat /\ ~ (m < n)
    BY <1>2, <1>3
  <2> QED
    BY <2>1
<1> QED
  BY <1>4

(* pick_gpu's multimap: among the gpus there is one with the lowest rating,*)
(* and of those a first.                                                   *)
LEMMA CandidatesBegin ==
  ASSUME NEW gpus \in Seq(Gpus), gpus # << >>
  PROVE  candidates_begin(gpus) \in DOMAIN gpus
<1> DEFINE D == DOMAIN gpus
           rating(g) == rate_gpu(gpus[g])
           ratings == { rating(g) : g \in D }
<1>1. D \subseteq Nat /\ D # {}
  <2>1. D = 1 .. Len(gpus) /\ Len(gpus) \in Nat /\ Len(gpus) # 0
    BY LenProperties, EmptySeq
  <2>2. 1 \in 1 .. Len(gpus)
    BY <2>1
  <2> QED
    BY <2>1, <2>2
<1>2. \A gpu : rate_gpu(gpu) \in Nat
  BY DEF rate_gpu
<1> HIDE DEF D, rating
<1>3. \A g \in D : rating(g) \in Nat
  BY <1>2 DEF rating
<1>4. PICK r \in ratings : \A q \in ratings : r <= q
  <2>1. ratings \in SUBSET Nat /\ ratings # {}
    BY <1>1, <1>3
  <2> HIDE DEF ratings
  <2> QED
    BY <2>1, LeastExists
<1> DEFINE lowest == { g \in D : rating(g) = r }
<1>5. PICK g \in lowest : \A h \in lowest : g <= h
  <2>1. lowest \in SUBSET Nat /\ lowest # {}
    BY <1>1, <1>4
  <2> HIDE DEF lowest
  <2> QED
    BY <2>1, LeastExists
<1>6. g \in D /\ \A h \in D : rating(g) < rating(h) \/ (rating(g) = rating(h) /\ g <= h)
  <2>1. g \in D /\ rating(g) = r
    BY <1>5
  <2>2. ASSUME NEW h \in D
        PROVE  rating(g) < rating(h) \/ (rating(g) = rating(h) /\ g <= h)
    <3>1. r <= rating(h) /\ rating(h) \in Nat /\ r \in Nat
      BY <1>3, <1>4, <2>1
    <3>2. rating(h) = r => g <= h
      BY <1>5
    <3> QED
      BY <2>1, <3>1, <3>2
  <2> QED
    BY <2>1, <2>2
<1> QED
  BY <1>6 DEF candidates_begin, D, rating

(* A step that changes no gpu and no pools and makes nothing of a new kind.*)
LEMMA TypesKept ==
  ASSUME TypeInv, UNCHANGED machine, live' \subseteq Slots,
         \A x \in alive' \ alive : x[1] \in Fields \cup { "command_pool" },
         \A c \in Slots : ctx'[c].gpu = ctx[c].gpu /\ ctx'[c].pools \subseteq ctx[c].pools,
         \/ pc' \notin GpuPoints
         \/ pc \in GpuPoints /\ self' = self /\ self \in Slots
  PROVE  TypeInv'
BY DEF TypeInv, GpuPoints

LEMMA HandleKept ==
  ASSUME Shape, NEW k \in Fields, NEW h, ctx' = [ ctx EXCEPT ![self].handle[k] = h ]
  PROVE  \A c \in Slots : ctx'[c].gpu = ctx[c].gpu /\ ctx'[c].pools = ctx[c].pools
<1>1. /\ self \in Slots /\ DOMAIN ctx = Slots /\ DOMAIN ctx[self] = { "handle", "gpu", "pools" }
  BY DEF Shape, WellShaped
<1>2. \A c \in Slots \ { self } : ctx'[c] = ctx[c]
  BY <1>1
<1>3. ctx'[self].gpu = ctx[self].gpu /\ ctx'[self].pools = ctx[self].pools
  BY <1>1
<1> QED
  BY <1>2, <1>3

LEMMA QuietTypes ==
  ASSUME IInv, TypeInv,
         \/ check_layers \/ check_instance_extensions \/ check_device_extensions
         \/ use_null_handle \/ UNCHANGED vars
         \/ \E c \in Slots : destruct(c)
  PROVE  TypeInv'
<1>1. UNCHANGED << machine, ctx, live, alive >>
  BY DEF check_layers, check_instance_extensions, check_device_extensions, use_null_handle,
         destruct, vars, given
<1>2. \/ pc' \notin GpuPoints
      \/ pc \in GpuPoints /\ self' = self
  BY DEF check_layers, check_instance_extensions, check_device_extensions, use_null_handle,
         destruct, vars, GpuPoints
<1>3. live \subseteq Slots /\ self \in Slots
  BY DEF TypeInv, IInv, Shape
<1> QED
  BY <1>1, <1>2, <1>3, TypesKept DEF GpuPoints

LEMMA CreateTypes ==
  ASSUME IInv, TypeInv, NEW kind \in Fields, NEW point, NEW answers, NEW next,
         Create(point, kind, answers, next), next \in GpuPoints => point \in GpuPoints
  PROVE  TypeInv'
<1>1. /\ pc = point /\ pc' \in { next, "aborted" }
      /\ UNCHANGED << self, machine, live >>
      /\ \/ UNCHANGED << ctx, alive >>
         \/ \E h \in { NULL, Handle(kind) } :
              /\ ctx' = [ ctx EXCEPT ![self].handle[kind] = h ]
              /\ alive' = alive \cup ({ h } \ { NULL })
  BY DEF Create, given
<1>2. /\ \A x \in alive' \ alive : x[1] \in Fields \cup { "command_pool" }
      /\ \A c \in Slots : ctx'[c].gpu = ctx[c].gpu /\ ctx'[c].pools \subseteq ctx[c].pools
  BY <1>1, HandleFacts, HandleKept DEF IInv
<1>3. live \subseteq Slots /\ self \in Slots
  BY DEF TypeInv, IInv, Shape
<1> QED
  BY <1>1, <1>2, <1>3, TypesKept DEF GpuPoints

LEMMA CreatingTypes ==
  ASSUME IInv, TypeInv,
         \/ create_instance \/ create_debug_messenger \/ create_surface \/ create_device
         \/ create_memory_allocator
  PROVE  TypeInv'
<1>1. { "instance", "debug_messenger", "surface", "device", "memory_allocator" } \subseteq Fields
  BY DEF Fields
<1>2. CASE create_instance
  <2>1. (IF enable_debug_layers THEN "create_debug_messenger" ELSE "create_surface") \notin GpuPoints
    BY DEF GpuPoints
  <2> QED
    BY <1>1, <1>2, <2>1, CreateTypes DEF create_instance
<1>3. CASE create_debug_messenger
  BY <1>1, <1>3, CreateTypes DEF create_debug_messenger, GpuPoints
<1>4. CASE create_surface
  BY <1>1, <1>4, CreateTypes DEF create_surface, GpuPoints
<1>5. CASE create_device
  BY <1>1, <1>5, CreateTypes DEF create_device, GpuPoints
<1>6. CASE create_memory_allocator
  <2>1. /\ pc' = "running" /\ live' = live \cup { self } /\ UNCHANGED machine
        /\ \/ UNCHANGED << ctx, alive >>
           \/ /\ ctx' = [ ctx EXCEPT ![self].handle["memory_allocator"] = Handle("memory_allocator") ]
              /\ alive' = alive \cup { Handle("memory_allocator") }
    BY <1>6 DEF create_memory_allocator, given
  <2>2. /\ \A x \in alive' \ alive : x[1] \in Fields \cup { "command_pool" }
        /\ \A c \in Slots : ctx'[c].gpu = ctx[c].gpu /\ ctx'[c].pools \subseteq ctx[c].pools
    BY <1>1, <2>1, HandleFacts, HandleKept DEF IInv
  <2>3. live' \subseteq Slots
    BY <2>1 DEF TypeInv, IInv, Shape
  <2> QED
    BY <2>1, <2>2, <2>3, TypesKept DEF GpuPoints
<1> QED
  BY <1>2, <1>3, <1>4, <1>5, <1>6

LEMMA PickGpuTypes ==
  ASSUME IInv, TypeInv, pick_gpu
  PROVE  TypeInv'
<1> DEFINE g == candidates_begin(machine.gpus)
<1>1. /\ pc = "pick_gpu" /\ UNCHANGED << self, machine, live, alive >>
      /\ \/ /\ DOMAIN machine.gpus # {}
            /\ ctx' = [ ctx EXCEPT ![self].gpu = g ]
         \/ pc' = "aborted" /\ ctx' = ctx
  BY DEF pick_gpu, given
<1>2. /\ self \in Slots /\ DOMAIN ctx = Slots /\ DOMAIN ctx[self] = { "handle", "gpu", "pools" }
      /\ live \subseteq Slots /\ machine.gpus \in Seq(Gpus)
  BY MachinesAssumption DEF IInv, Shape, WellShaped, TypeInv
<1>3. CASE pc' = "aborted" /\ ctx' = ctx
  BY <1>1, <1>2, <1>3, TypesKept DEF GpuPoints
<1>4. CASE DOMAIN machine.gpus # {} /\ ctx' = [ ctx EXCEPT ![self].gpu = g ]
  <2>1. machine.gpus # << >>
    <3>1. \A q \in Seq(Gpus) : q = << >> => DOMAIN q = {}
      <4>1. \A q \in Seq(Gpus) : q = << >> => Len(q) = 0 /\ DOMAIN q = 1 .. Len(q)
        BY EmptySeq, LenProperties
      <4> QED
        BY <4>1
    <3> QED
      BY <1>2, <1>4, <3>1
  <2>2. g \in 1 .. Len(machine.gpus) /\ Len(machine.gpus) \in Nat
    BY <1>2, <2>1, CandidatesBegin, LenProperties
  <2> HIDE DEF g
  <2>3. ctx'[self].gpu = g /\ ctx'[self].pools = ctx[self].pools
    BY <1>2, <1>4
  <2>4. \A c \in Slots \ { self } : ctx'[c] = ctx[c]
    BY <1>2, <1>4
  <2>5. \A c \in Slots : /\ ctx'[c].gpu \in 0 .. Len(machine.gpus)
                        /\ \A pool \in ctx'[c].pools : pool[2] \in Nat
    BY <2>2, <2>3, <2>4 DEF TypeInv
  <2> QED
    BY <1>1, <2>2, <2>3, <2>5 DEF TypeInv
<1> QED
  BY <1>1, <1>3, <1>4

LEMMA PoolTypes ==
  ASSUME IInv, TypeInv, create_command_pools
  PROVE  TypeInv'
<1>1. /\ self \in Slots /\ DOMAIN ctx = Slots /\ DOMAIN ctx[self] = { "handle", "gpu", "pools" }
      /\ machine.gpus \in Seq(Gpus) /\ pc = "create_command_pools"
      /\ UNCHANGED << self, machine, live >>
  BY MachinesAssumption DEF IInv, Shape, WellShaped, TypeInv, create_command_pools, given
<1>2. /\ ctx[self].gpu \in 1 .. Len(machine.gpus)
      /\ gpu_of(self).queue_families \subseteq Nat
  <2>1. Len(machine.gpus) \in Nat /\ machine.gpus \in [ 1 .. Len(machine.gpus) -> Gpus ]
    BY <1>1, LenProperties
  <2>2. ctx[self].gpu \in 1 .. Len(machine.gpus)
    BY <1>1, <2>1 DEF TypeInv, GpuPoints
  <2>3. gpu_of(self) \in Gpus
    BY <2>1, <2>2 DEF gpu_of
  <2> QED
    BY <2>2, <2>3 DEF Gpus
<1>3. PICK made \in SUBSET { Pool(f) : f \in gpu_of(self).queue_families } :
        /\ alive' = alive \cup made
        /\ \/ pc' = "create_memory_allocator" /\ ctx' = [ ctx EXCEPT ![self].pools = made ]
           \/ pc' = "aborted" /\ ctx' = ctx
  BY DEF create_command_pools
<1>4. \A p \in made : p[1] = "command_pool" /\ p[2] \in Nat
  BY <1>2, <1>3 DEF Pool
<1>5. CASE ctx' = ctx /\ pc' = "aborted"
  BY <1>1, <1>3, <1>4, <1>5, TypesKept DEF GpuPoints, TypeInv
<1>6. CASE ctx' = [ ctx EXCEPT ![self].pools = made ] /\ pc' = "create_memory_allocator"
  <2>1. ctx'[self].gpu = ctx[self].gpu /\ ctx'[self].pools = made
    BY <1>1, <1>6
  <2>2. \A c \in Slots \ { self } : ctx'[c] = ctx[c]
    BY <1>1, <1>6
  <2>3. \A c \in Slots : /\ ctx'[c].gpu \in 0 .. Len(machine.gpus)
                        /\ \A pool \in ctx'[c].pools : pool[2] \in Nat
    BY <1>1, <1>4, <2>1, <2>2 DEF TypeInv
  <2>4. \A x \in alive' : x[1] \in Fields \cup { "command_pool" }
    BY <1>3, <1>4 DEF TypeInv
  <2> QED
    BY <1>1, <1>6, <2>3, <2>4 DEF TypeInv, GpuPoints
<1> QED
  BY <1>3, <1>5, <1>6

LEMMA DestroyTypes ==
  ASSUME IInv, TypeInv, NEW kind \in Fields, NEW point, NEW next,
         Destroy(point, kind, next), next \notin GpuPoints
  PROVE  TypeInv'
<1>1. /\ pc' = next /\ UNCHANGED << machine, live >> /\ alive' \subseteq alive
      /\ ctx' = [ ctx EXCEPT ![self].handle[kind] = NULL ]
  BY DEF Destroy, given
<1>2. \A c \in Slots : ctx'[c].gpu = ctx[c].gpu /\ ctx'[c].pools \subseteq ctx[c].pools
  BY <1>1, HandleKept DEF IInv
<1>3. live \subseteq Slots
  BY DEF TypeInv
<1> QED
  BY <1>1, <1>2, <1>3, TypesKept

LEMMA DestroyingTypes ==
  ASSUME IInv, TypeInv,
         \/ destroy_command_pools \/ destroy_memory_allocator \/ destroy_device
         \/ destroy_surface \/ destroy_debug_messenger \/ forget_instance
  PROVE  TypeInv'
<1>1. { "instance", "debug_messenger", "surface", "device", "memory_allocator" } \subseteq Fields
  BY DEF Fields
<1>2. CASE destroy_command_pools
  <2>1. /\ pc' = "destroy_memory_allocator" /\ UNCHANGED << machine, live >> /\ alive' \subseteq alive
        /\ ctx' = [ ctx EXCEPT ![self].pools = {} ]
    BY <1>2 DEF destroy_command_pools, given
  <2>2. /\ self \in Slots /\ DOMAIN ctx = Slots /\ DOMAIN ctx[self] = { "handle", "gpu", "pools" }
        /\ live \subseteq Slots
    BY DEF IInv, Shape, WellShaped, TypeInv
  <2>3. ctx'[self].gpu = ctx[self].gpu /\ ctx'[self].pools = {}
    BY <2>1, <2>2
  <2>4. \A c \in Slots \ { self } : ctx'[c] = ctx[c]
    BY <2>1, <2>2
  <2> QED
    BY <2>1, <2>2, <2>3, <2>4, TypesKept DEF GpuPoints
<1>3. CASE destroy_memory_allocator
  BY <1>1, <1>3, DestroyTypes DEF destroy_memory_allocator, GpuPoints
<1>4. CASE destroy_device
  BY <1>1, <1>4, DestroyTypes DEF destroy_device, GpuPoints
<1>5. CASE destroy_surface
  <2>1. (IF enable_debug_layers THEN "destroy_debug_messenger" ELSE "forget_instance") \notin GpuPoints
    BY DEF GpuPoints
  <2> QED
    BY <1>1, <1>5, <2>1, DestroyTypes DEF destroy_surface
<1>6. CASE destroy_debug_messenger
  BY <1>1, <1>6, DestroyTypes DEF destroy_debug_messenger, GpuPoints
<1>7. CASE forget_instance
  <2>1. /\ pc' = "running" /\ live' = live \ { self } /\ UNCHANGED << machine, alive >>
        /\ ctx' = [ ctx EXCEPT ![self].handle["instance"] = NULL ]
    BY <1>7 DEF forget_instance, given
  <2>2. \A c \in Slots : ctx'[c].gpu = ctx[c].gpu /\ ctx'[c].pools \subseteq ctx[c].pools
    BY <1>1, <2>1, HandleKept DEF IInv
  <2>3. live' \subseteq Slots
    BY <2>1 DEF TypeInv
  <2> QED
    BY <2>1, <2>2, <2>3, TypesKept DEF GpuPoints
<1> QED
  BY <1>2, <1>3, <1>4, <1>5, <1>6, <1>7

(* A moved context takes gpu and pools along, and its own pools come back. *)
LEMMA MovingTypes ==
  ASSUME IInv, TypeInv, Move
  PROVE  TypeInv'
<1>1. /\ DOMAIN ctx = Slots /\ Empty.gpu = 0 /\ Empty.pools = {}
      /\ DOMAIN Empty = { "handle", "gpu", "pools" }
      /\ machine.gpus \in Seq(Gpus) /\ Len(machine.gpus) \in Nat
  BY MachinesAssumption, LenProperties DEF IInv, Shape, TypeInv, Empty
<1>2. /\ pc' = "running" /\ UNCHANGED << machine, alive >>
      /\ \/ live' = live \/ \E c \in Slots : live' = live \cup { c }
      /\ \/ \E c \in Slots : ctx' = [ ctx EXCEPT ![c] = Empty ]
         \/ \E to, from \in Slots : ctx' = Moved(to, from)
  BY DEF Move, default_construct, move_construct, move_assign, given
<1>3. \A c \in Slots : /\ ctx'[c].gpu \in 0 .. Len(machine.gpus)
                      /\ \A pool \in ctx'[c].pools : pool[2] \in Nat
  <2>1. ASSUME NEW d \in Slots, ctx' = [ ctx EXCEPT ![d] = Empty ], NEW c \in Slots
        PROVE  ctx'[c] \in { ctx[c], Empty }
    BY <1>1, <2>1
  <2>2. ASSUME NEW to \in Slots, NEW from \in Slots, ctx' = Moved(to, from), NEW c \in Slots
        PROVE  \E d, e \in Slots : /\ ctx'[c].gpu \in { 0, ctx[d].gpu }
                                   /\ ctx'[c].pools = ctx[e].pools
    <3> DEFINE rest == [ Empty EXCEPT !.pools = ctx[to].pools ]
    <3>1. rest.gpu = 0 /\ rest.pools = ctx[to].pools
      BY <1>1
    <3>2. ctx' = [ ctx EXCEPT ![to] = ctx[from], ![from] = rest ]
      BY <2>2 DEF Moved
    <3> HIDE DEF rest
    <3>3. ctx'[c] \in { ctx[c], ctx[from], rest }
      BY <1>1, <3>2
    <3> QED
      BY <3>1, <3>3
  <2>3. ASSUME NEW c \in Slots
        PROVE  /\ ctx'[c].gpu = 0 \/ \E d \in Slots : ctx'[c].gpu = ctx[d].gpu
               /\ ctx'[c].pools = {} \/ \E d \in Slots : ctx'[c].pools = ctx[d].pools
    BY <1>1, <1>2, <2>1, <2>2
  <2> QED
    BY <1>1, <2>3 DEF TypeInv
<1> QED
  BY <1>2, <1>3 DEF TypeInv, GpuPoints

LEMMA InitTypes ==
  Init => TypeInv
<1> SUFFICES ASSUME Init PROVE TypeInv
  OBVIOUS
<1>1. machine.gpus \in Seq(Gpus) /\ Len(machine.gpus) \in Nat
  BY MachinesAssumption, LenProperties DEF Init
<1>2. \A c \in Slots : ctx[c] = Empty
  BY DEF Init
<1>3. Empty.gpu = 0 /\ Empty.pools = {}
  BY DEF Empty
<1> QED
  BY <1>1, <1>2, <1>3 DEF Init, TypeInv, GpuPoints

LEMMA TypesStep ==
  IInv /\ TypeInv /\ [Next]_vars => TypeInv'
BY QuietTypes, CreatingTypes, PickGpuTypes, PoolTypes, DestroyingTypes, MovingTypes
   DEF Next, Construct, Destruct

(* Types; and a gpu whose queues, extensions and device are asked for is   *)
(* one that the driver enumerated.                                         *)
THEOREM TypeCorrect == Spec => []TypeOK
<1>1. IInv /\ TypeInv => TypeOK
  BY DEF IInv, Shape, WellShaped, OwnInv, OverwrittenInv, TypeInv, TypeOK
<1> QED
  BY <1>1, InitTypes, TypesStep, ContextInvariance, PTL DEF Spec

-----------------------------------------------------------------------------
(***************************************************************************)
(* Null handles. The constructor and destructor do not look whether a      *)
(* handle is null before they use it. Three things make one null: a result *)
(* to_type does not know, a gpu without the swapchain extension, which     *)
(* load_device_extensions takes for supported, and an assignment to a      *)
(* context that holds something.                                           *)
(***************************************************************************)
ResultsAreKnown == \A r \in Results : r = "success" \/ is_error(to_type(r))

SwapchainsEverywhere ==
  \A m \in Machines : \A g \in DOMAIN m.gpus : required_device_extensions \subseteq m.gpus[g].extensions

HandlesInv ==
  LET null(field) == ctx[self].handle[field] = NULL IN
  /\ pc \in { "check_layers", "check_instance_extensions", "create_instance" } =>
       enabled.layers \subseteq machine.layers
  /\ pc \in { "create_debug_messenger", "create_surface", "pick_gpu", "check_device_extensions",
              "create_device", "create_command_pools" } => ~ null("instance")
  /\ pc = "pick_gpu" => ~ null("surface")
  /\ pc = "create_device" => enabled.device \subseteq required_device_extensions
  /\ pc = "create_command_pools" => ~ null("device")
  /\ pc = "undefined" => overwritten # {}

LEMMA SupportIsBounded ==
  \A required, optional, found :
    LET names == check_support(required, optional, found) IN
    names \subseteq found /\ names \subseteq required \cup optional
BY DEF check_support

(* A call that answers with a success or an error to_type knows leaves a   *)
(* handle or ends the constructor.                                         *)
LEMMA CreateMakes ==
  ASSUME ResultsAreKnown, Shape, NEW kind \in Fields, NEW point, NEW answers, NEW next,
         Create(point, kind, answers, next)
  PROVE  /\ self' = self
         /\ \/ pc' = "aborted"
            \/ /\ pc' = next
               /\ \A f \in Fields \ { kind } : ctx'[self].handle[f] = ctx[self].handle[f]
               /\ answers \subseteq Results => ctx'[self].handle[kind] # NULL
<1>1. PICK result \in answers :
        \/ pc' = "aborted"
        \/ /\ ~ is_error(to_type(result)) /\ pc' = next
           /\ ctx' = [ ctx EXCEPT ![self].handle[kind] =
                         IF result = "success" THEN Handle(kind) ELSE NULL ]
  BY DEF Create
<1>2. self' = self
  BY DEF Create
<1>3. CASE pc' # "aborted"
  <2> DEFINE h == IF result = "success" THEN Handle(kind) ELSE NULL
  <2>1. ctx' = [ ctx EXCEPT ![self].handle[kind] = h ] /\ h \in { NULL, Handle(kind) }
    BY <1>1, <1>3
  <2>2. answers \subseteq Results => h = Handle(kind)
    BY <1>1, <1>3 DEF ResultsAreKnown
  <2> HIDE DEF h
  <2>3. \A f \in Fields : ctx'[self].handle[f] = IF f = kind THEN h ELSE ctx[self].handle[f]
    BY <1>2, <2>1, SetHandle
  <2> QED
    BY <1>1, <1>2, <1>3, <2>2, <2>3, HandleFacts
<1> QED
  BY <1>2, <1>3

LEMMA CreatesHandles ==
  ASSUME ResultsAreKnown, SwapchainsEverywhere, IInv, TypeInv, ExtensionInv, HandlesInv,
         \/ create_instance \/ create_debug_messenger \/ create_surface \/ create_device
  PROVE  HandlesInv'
<1>1. { "instance", "debug_messenger", "surface", "device", "memory_allocator" } \subseteq Fields /\ Shape
  BY DEF Fields, IInv
<1>2. CASE create_instance
  <2>1. /\ enabled.layers \subseteq machine.layers
        /\ enabled.instance \subseteq machine.extensions
    BY <1>2 DEF HandlesInv, ExtensionInv, InstanceExtensionsSupported, create_instance, Create
  <2>2. Create("create_instance", "instance", Results,
               IF enable_debug_layers THEN "create_debug_messenger" ELSE "create_surface")
    BY <1>2, <2>1 DEF create_instance
  <2>3. /\ self' = self
        /\ \/ pc' = "aborted"
           \/ pc' \in { "create_debug_messenger", "create_surface" } /\ ctx'[self].handle["instance"] # NULL
    BY <1>1, <2>2, CreateMakes
  <2> QED
    BY <2>3 DEF HandlesInv
<1>3. CASE create_debug_messenger
  <2>1. /\ self' = self
        /\ \/ pc' = "aborted"
           \/ pc' = "create_surface" /\ ctx'[self].handle["instance"] = ctx[self].handle["instance"]
    BY <1>1, <1>3, CreateMakes DEF create_debug_messenger
  <2> QED
    BY <1>3, <2>1 DEF HandlesInv, create_debug_messenger, Create
<1>4. CASE create_surface
  <2>1. /\ self' = self
        /\ \/ pc' = "aborted"
           \/ /\ pc' = "pick_gpu" /\ ctx'[self].handle["instance"] = ctx[self].handle["instance"]
              /\ ctx'[self].handle["surface"] # NULL
    BY <1>1, <1>4, CreateMakes DEF create_surface
  <2> QED
    BY <1>4, <2>1 DEF HandlesInv, create_surface, Create
<1>5. CASE create_device
  <2>1. pc = "create_device" /\ enabled.device \subseteq required_device_extensions
    BY <1>5 DEF create_device, Create, HandlesInv
  <2>2. enabled.device \subseteq gpu_of(self).extensions
    <3>1. machine \in Machines /\ machine.gpus \in Seq(Gpus)
      BY MachinesAssumption DEF TypeInv
    <3>2. /\ Len(machine.gpus) \in Nat /\ DOMAIN machine.gpus = 1 .. Len(machine.gpus)
      BY <3>1, LenProperties
    <3>3. ctx[self].gpu \in DOMAIN machine.gpus
      BY <1>1, <2>1, <3>2 DEF TypeInv, GpuPoints, Shape
    <3> QED
      BY <2>1, <3>1, <3>3 DEF SwapchainsEverywhere, gpu_of
  <2>3. Create("create_device", "device", Results, "create_command_pools")
    BY <1>5, <2>2 DEF create_device
  <2>4. /\ self' = self
        /\ \/ pc' = "aborted"
           \/ /\ pc' = "create_command_pools" /\ ctx'[self].handle["device"] # NULL
              /\ ctx'[self].handle["instance"] = ctx[self].handle["instance"]
    BY <1>1, <2>3, CreateMakes
  <2> QED
    BY <2>1, <2>4 DEF HandlesInv
<1> QED
  BY <1>2, <1>3, <1>4, <1>5

LEMMA ChecksHandles ==
  ASSUME IInv, ExtensionInv, HandlesInv,
         check_layers \/ check_instance_extensions \/ check_device_extensions \/ pick_gpu
  PROVE  HandlesInv'
<1>1. DOMAIN enabled = { "layers", "instance", "device" }
  BY DEF ExtensionInv
<1>2. CASE check_layers
  <2> DEFINE names == check_support(required_layers, optional_layers, machine.layers)
  <2>1. names \subseteq machine.layers
    BY SupportIsBounded
  <2> HIDE DEF names
  <2>2. /\ pc = "check_layers" /\ pc' \in { "check_instance_extensions", "aborted" } /\ UNCHANGED machine
        /\ enabled' = enabled \/ enabled' = [ enabled EXCEPT !.layers = names ]
    BY <1>2 DEF check_layers, given, names
  <2>3. enabled'.layers \subseteq machine'.layers
    BY <1>1, <2>1, <2>2 DEF HandlesInv
  <2> QED
    BY <2>2, <2>3 DEF HandlesInv
<1>3. CASE check_instance_extensions
  <2>1. /\ pc = "check_instance_extensions" /\ pc' \in { "create_instance", "aborted" }
        /\ UNCHANGED machine /\ enabled'.layers = enabled.layers
    BY <1>1, <1>3 DEF check_instance_extensions, given
  <2> QED
    BY <2>1 DEF HandlesInv
<1>4. CASE check_device_extensions
  <2> DEFINE names == check_support(required_device_extensions, {},
                                    load_device_extensions(gpu_of(self).extensions))
  <2>1. names \subseteq required_device_extensions
    BY SupportIsBounded
  <2> HIDE DEF names
  <2>2. /\ pc = "check_device_extensions" /\ UNCHANGED << self, ctx >>
        /\ \/ pc' = "aborted"
           \/ pc' = "create_device" /\ enabled' = [ enabled EXCEPT !.device = names ]
    BY <1>4 DEF check_device_extensions, names
  <2>3. pc' = "create_device" => enabled'.device \subseteq required_device_extensions
    BY <1>1, <2>1, <2>2
  <2> QED
    BY <2>2, <2>3 DEF HandlesInv
<1>5. CASE pick_gpu
  <2>1. /\ pc = "pick_gpu" /\ self' = self /\ pc' \in { "check_device_extensions", "aborted" }
        /\ \/ ctx' = ctx
           \/ ctx' = [ ctx EXCEPT ![self].gpu = candidates_begin(machine.gpus) ]
    BY <1>5 DEF pick_gpu
  <2>2. self \in Slots /\ DOMAIN ctx = Slots /\ DOMAIN ctx[self] = { "handle", "gpu", "pools" }
    BY DEF IInv, Shape, WellShaped
  <2>3. ctx'[self].handle = ctx[self].handle
    BY <2>1, <2>2
  <2> QED
    BY <2>1, <2>3 DEF HandlesInv
<1> QED
  BY <1>2, <1>3, <1>4, <1>5

(* Pools without their device are in a context only after an assignment.   *)
LEMMA UsesHandles ==
  ASSUME IInv, TypeInv, HandlesInv, use_null_handle
  PROVE  HandlesInv'
<1>1. pc' = "undefined" /\ UNCHANGED << ctx, self, overwritten >> /\ "device" \in Fields /\ self \in Slots
  BY DEF use_null_handle, Fields, IInv, Shape
<1>2. pc = "destroy_command_pools" /\ ctx[self].pools # {} /\ ctx[self].handle["device"] = NULL
  BY DEF use_null_handle, HandlesInv
<1>3. PICK p : p \in ctx[self].pools
  BY <1>2
<1>4. Parent(p) = Handle("device") /\ p \in Held(self)
  BY <1>1, <1>3, PoolFacts DEF IInv, Shape, WellShaped, Held
<1>5. Handle("device") \in Held(self) \cup overwritten
  BY <1>1, <1>4 DEF IInv, OwnInv, HeldWithParent
<1>6. Handle("device") \notin Held(self)
  BY <1>1, <1>2, HeldHandle DEF IInv
<1>7. overwritten # {}
  BY <1>5, <1>6
<1> QED
  BY <1>1, <1>7 DEF HandlesInv

LEMMA HandlesStep ==
  ASSUME ResultsAreKnown, SwapchainsEverywhere, IInv, TypeInv, ExtensionInv, HandlesInv, [Next]_vars
  PROVE  HandlesInv'
<1>1. CASE pc' \in { "create_memory_allocator", "running", "aborted" } \cup Destructing
  BY <1>1 DEF HandlesInv, Destructing
<1>2. CASE UNCHANGED vars
  BY <1>2 DEF HandlesInv, vars, given
<1>3. CASE Construct
  <2>1. create_command_pools \/ create_memory_allocator =>
          pc' \in { "create_memory_allocator", "running", "aborted" }
    BY DEF create_command_pools, create_memory_allocator
  <2> QED
    BY <1>1, <1>3, <2>1, CreatesHandles, ChecksHandles, UsesHandles DEF Construct
<1>4. CASE Move
  BY <1>1, <1>4 DEF Move, default_construct, move_construct, move_assign
<1>5. CASE Destruct
  <2>1. pc' \in { "running" } \cup Destructing
    BY <1>5 DEF Destruct, destruct, destroy_command_pools, Destroy, destroy_memory_allocator,
       destroy_device, destroy_surface, destroy_debug_messenger, forget_instance, Destructing
  <2> QED
    BY <1>1, <2>1
<1> QED
  BY <1>2, <1>3, <1>4, <1>5 DEF Next

(* Undefined uses of a null handle have no further cause: with a driver    *)
(* that answers only what to_type knows, and gpus that have the swapchain  *)
(* extension, the constructor never uses one, and the destructor only      *)
(* after an assignment has written over objects. (TLC finds an undefined   *)
(* use without either hypothesis.)                                         *)
THEOREM NullUsedOnlyAfterAssignment ==
  ASSUME ResultsAreKnown, SwapchainsEverywhere
  PROVE  Spec => [](pc = "undefined" => overwritten # {})
<1> DEFINE Inv == IInv /\ TypeInv /\ ExtensionInv /\ HandlesInv
<1>1. Init => Inv
  <2>1. Init => HandlesInv
    BY DEF Init, HandlesInv
  <2> QED
    BY <2>1, InitIInv, InitTypes, InitExtensions
<1>2. Inv /\ [Next]_vars => Inv'
  BY NextIInv, TypesStep, ExtensionStep, HandlesStep
<1>3. Inv => (pc = "undefined" => overwritten # {})
  BY DEF HandlesInv
<1> HIDE DEF Inv
<1> QED
  BY <1>1, <1>2, <1>3, PTL DEF Spec
=============================================================================
