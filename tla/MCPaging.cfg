SPECIFICATION Spec
CONSTANTS
  N = 5
  Heap <- HeapFrames
  Holdings <- HeldByOthers
  Virts = {4, 24}
  Physs = {7}
  PhysEnds = {6, 9}
  ChunkFlags <- TaskFlags
  MapFlags <- ProcessFlags
INVARIANTS
  MapToMapsAll
  FramesAccountedFor
PROPERTIES
  ImplementsAddressSpace
  CallsReturn
