SPECIFICATION Spec
CONSTANTS
  Slots = { s1, s2 }
  Classes = { "vertex_buffer", "index_buffer", "uniform_buffer", "descriptor_pool", "shader", "shader_manager" }
  Files <- MCFiles
  Results = { "success", "out_of_device_memory", "too_many_objects" }
  MaxLoads = 2
  MaxHandles = 3
INVARIANTS
  TypeOK
  CopyUsesLiveBuffers
  KeptIsUploaded
  OneOwner
  IdsNameTheirShaders
PROPERTIES
  Implements
CHECK_DEADLOCK FALSE
