\* Packing is switched on and off again between two blocks.
SPECIFICATION Spec
CONSTANTS
  s1 = s1
  s2 = s2
  handle = handle
  Stream = {s1}
  Handle = handle
  Mode = "RawAdc"
  Decimations = {1}
  MayFail = TRUE
PROPERTIES NextBlockAdoptsPacking
