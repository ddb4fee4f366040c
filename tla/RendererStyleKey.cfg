\* Every kind of renderer in one worker, two jobs against one store.
CONSTANTS
    m1 = m1  m2 = m2  ter = ter  aer = aer
    sat = sat  ovl = ovl  hyb = hyb  map = map
    a = a  b = b
    Empty = Empty
    PrimKind <- MCPrimKind
    Layers <- MCLayers
    Vendors <- MCVendors
    Saved <- MCSavedSubStyles
    ReadOnly <- MCReadOnly
    JsonStyles = {}
    SubTiles <- MCSubTiles
    Names <- MCNames
    MaxJobs = 2
SPECIFICATION Spec
INVARIANT Faithful
CHECK_DEADLOCK FALSE
