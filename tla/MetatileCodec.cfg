\* Containers packed by the storage decorator for every zoom 0..4 (one to
\* eight tiles a side), one or two formats with and without features, read
\* whole and cut at every struct boundary.
CONSTANTS
    FormatLists <- MCFormatLists
    Zooms = {0, 1, 2, 3, 4}
    TILE_SIZE = 4
    Bad = Bad
    TileBytes = 2
SPECIFICATION Spec
INVARIANTS RoundTrip TruncatedRead FeaturesCutExactly RenderedFeaturesKept MapwareDrawsItsTile
