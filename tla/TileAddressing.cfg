\* Morton interleave, ZLevels offsets and the service's file size over
\* every metatile of zooms 0..7 and every valid max_z; cache file names of
\* tiles at zooms 1, 20 and 29.
CONSTANTS
    MAX_Z <- MC_MAX_Z
    Width = 22
    MaxZConfigs <- MCMaxZValid
    CacheTiles <- MCCacheTiles
    Root = root
SPECIFICATION Spec
INVARIANTS
    InterleaveSpreads
    UninterleaveInverse
    IndexInZoom
    IndexInFile
    CachePathAsSpec
    TileListing
    CopyThenCheck
