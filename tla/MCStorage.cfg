SPECIFICATION Spec
CONSTANTS
  k1 = k1
  Types <- MCTypes
  Values <- MCValues
  MapKeys = {k1}
  Slices <- MCSlices
  MaxLen = 4
INVARIANTS StoredAsPromised ReturnsAsPromised
