\* Two datasets listed by up to two priority entries (repeats, a region
\* without a dataset and a name that is not a region included), every
\* scale range boundary, MERCATOR ranges from the xml and from shapefiles,
\* every way their polygons meet two sub-tiles.
CONSTANTS
    r1 = r1  r2 = r2  r3 = r3  r4 = r4  d1 = d1  d2 = d2  d3 = d3
    i1 = i1  i2 = i2  a = a  b = b
    PriorityEntries <- MCPriorityEntries
    RegionSet <- MCRegionSet
    DataSetNames = {d1, d2}
    XmlConfs <- MCXmlConfs
    ShpConfs <- MCShpConfs
    Ids = {i1, i2}
    SubTiles = {a, b}
    Scales = {1, 2}
    NoName = NoName
SPECIFICATION Spec
INVARIANT CheckMatchesSpec
