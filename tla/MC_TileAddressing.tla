------------------------- MODULE MC_TileAddressing -------------------------
EXTENDS TileAddressing, StorageTools

(* Zooms 0..7: metatile coordinates of up to 5 bits, and zooms below 3    *)
(* where one metatile is larger than the whole grid.                       *)
MC_MAX_Z == 8

(* Every max_z the service can be started with for which size_of exists. *)
MCMaxZValid == 0..(MC_MAX_Z - 1)

(* The file size spec 4.7 asks for: bits_for(MAX_Z).                      *)
MCMaxZSpec == {MC_MAX_Z}
(* Tiles of two styles at zooms 1, 20 and 29 (the deepest whose x / 10^6 *)
(* still has three digits), with coordinates at the ends of the grid and  *)
(* on both sides of 1000 and 10^6.                                         *)
CacheCoords(zz) == {0, 2^zz - 1} \cup ({999, 1000, 999999, 1000000} \cap 0..(2^zz - 1))
MCCacheTiles ==
    UNION {[replica : {"0"}, type : {"map", "sat"}, zoom : {zz}, x : CacheCoords(zz),
            y : CacheCoords(zz), extension : {"png"}] : zz \in {1, 20, 29}}

(* copyTiles then ltsTileCheck, at the state's zoom.  On the destination  *)
(* the checker reports a tile of a line before the one the copy stopped   *)
(* on, in a style and format both configurations store, exactly when      *)
(* neither store held it before: copyTiles requests x & ~7, y & ~7 and    *)
(* the store finds a tile in its metatile.  The copy never writes what    *)
(* the source lacks nor drops what the destination had, so after a failed *)
(* put_meta (the raise at copyTiles.py:115) the list can be resumed at the *)
(* line the tool stopped on.                                              *)
CopyThenCheck == CopyTable[z]
====
