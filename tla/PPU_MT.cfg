CONSTANTS
  Height = 2
  MinHeight = 1
  Values = {0, 1}
  WQ_Size = 3
  FrameSkip = {FALSE}
SPECIFICATION Spec
INVARIANTS TypeOK RendererRests SameRegisters
PROPERTIES ImplementsST CallsReturn
