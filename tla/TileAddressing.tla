--------------------------- MODULE TileAddressing ---------------------------
(***************************************************************************)
(* Where the expiry bit of a metatile lives.  The storage node's expiry   *)
(* client (lib/mqExpiry.py, ZLevels and mqExpiryInfo.get_tile/set_tile)   *)
(* turns a tile (x, y, z) into a bit index offset[z] + morton(x/8, y/8),   *)
(* and the expiry service (expiry_info/server.py, ZLevels and Info)       *)
(* sizes each style's bit file with size_of(max_z).                        *)
(*                                                                         *)
(* The code computes with 64-bit masks.  Every value the functions below  *)
(* handle stays below 2^Width, and on such values n & M equals            *)
(* n & (M % 2^Width), so each mask is kept to its low Width bits.  MAX_Z  *)
(* is the code's MAX_Z (35), scaled down so that the offsets fit TLC's    *)
(* integers; the definitions do not depend on its value.                  *)
(***************************************************************************)
EXTENDS Integers, Sequences, FiniteSetsExt, Bitwise

CONSTANTS
    MAX_Z,      \* mqExpiry.MAX_Z / server.MAX_Z
    Width,      \* bits kept of the code's 64-bit masks
    MaxZConfigs, \* expiry_info.max_z values the service may be started with
    CacheTiles,  \* mqTile ids (replica, type, zoom, x, y, extension) of the cache
    Root         \* the cache root of a version

METATILE == 8

ASSUME MAX_Z \in 4..12 /\ Width \in Nat /\ MaxZConfigs \subseteq Nat
\* The largest intermediate value: a metatile coordinate below
\* 2^(MAX_Z-3) shifted left by 16 in the first interleave step.
ASSUME MAX_Z - 3 + 17 <= Width

NoValue == -1  \* stands for the IndexError a read past the list raises

MaxOf(a, b) == IF a >= b THEN a ELSE b
MinOf(a, b) == IF a <= b THEN a ELSE b

-----------------------------------------------------------------------------
(* The 64-bit mask that keeps the low `ones` bits of every `period`-bit   *)
(* group (0x5555... is Mask64(2, 1), 0x0000FFFF0000FFFF is Mask64(32, 16)),*)
(* reduced to its low Width bits.                                          *)
Mask64(period, ones) ==
    SumSet({2^i : i \in {b \in 0..(Width - 1) : b % period < ones}})

(* n &= 0xffffffff                                                         *)
Keep(n) == n & Mask64(64, 32)

(* Mutant of interleave: the third step keeps the 0x3333 mask.            *)
interleaveMaskSwap(n) ==
    LET n0 == Keep(n)
        n1 == (n0 | (n0 * 2^16)) & Mask64(32, 16)
        n2 == (n1 | (n1 * 2^8)) & Mask64(16, 8)
        n3 == (n2 | (n2 * 2^4)) & Mask64(4, 2)
        n4 == (n3 | (n3 * 2^2)) & Mask64(4, 2)
    IN  (n4 | (n4 * 2)) & Mask64(2, 1)

(* ZLevels._interleave: spread the bits of n to the even positions.       *)
interleave(n) ==
    LET n0 == Keep(n)
        n1 == (n0 | (n0 * 2^16)) & Mask64(32, 16)
        n2 == (n1 | (n1 * 2^8)) & Mask64(16, 8)
        n3 == (n2 | (n2 * 2^4)) & Mask64(8, 4)
        n4 == (n3 | (n3 * 2^2)) & Mask64(4, 2)
    IN  (n4 | (n4 * 2)) & Mask64(2, 1)

(* Mutant of uninterleave: the odd bits are not masked off first.         *)
uninterleaveNoMask(n) ==
    LET n1 == (n ^^ (n \div 2)) & Mask64(4, 2)
        n2 == (n1 ^^ (n1 \div 2^2)) & Mask64(8, 4)
        n3 == (n2 ^^ (n2 \div 2^4)) & Mask64(16, 8)
        n4 == (n3 ^^ (n3 \div 2^8)) & Mask64(32, 16)
    IN  Keep(n4 ^^ (n4 \div 2^16))

(* ZLevels._uninterleave: gather the even-position bits of n.             *)
uninterleave(n) ==
    LET n0 == n & Mask64(2, 1)
        n1 == (n0 ^^ (n0 \div 2)) & Mask64(4, 2)
        n2 == (n1 ^^ (n1 \div 2^2)) & Mask64(8, 4)
        n3 == (n2 ^^ (n2 \div 2^4)) & Mask64(16, 8)
        n4 == (n3 ^^ (n3 \div 2^8)) & Mask64(32, 16)
    IN  Keep(n4 ^^ (n4 \div 2^16))

(* ZLevels.__init__: z_sizes = [4**max(0, z-3) for z in range(0, MAX_Z)] *)
(* and offsets their running sum from [0], so offsets has MAX_Z + 1       *)
(* entries, offsets[0] .. offsets[MAX_Z].                                  *)
(* Mutant of z_size: zoom levels counted from the wrong metatile size.     *)
z_sizeOffByOne(z) == 4^MaxOf(0, z - 4)

z_size(z) == 4^MaxOf(0, z - 3)

offsets[i \in 0..MAX_Z] == IF i = 0 THEN 0 ELSE offsets[i - 1] + z_size(i - 1)

(* A Python list read: IndexError outside 0..MAX_Z.                        *)
OffsetAt(i) == IF i \in 0..MAX_Z THEN offsets[i] ELSE NoValue

(* Mutant of size_of: the partial last byte is not counted.               *)
size_ofNoRoundUp(max_z) ==
    LET bit_size == OffsetAt(max_z + 1)
    IN  IF bit_size = NoValue THEN NoValue ELSE bit_size \div 8

(* ZLevels.size_of (server): bytes of a file holding offsets[max_z+1]     *)
(* bits, rounded up.                                                       *)
size_of(max_z) ==
    LET bit_size == OffsetAt(max_z + 1)
    IN  IF bit_size = NoValue THEN NoValue
        ELSE bit_size \div 8 + (IF bit_size % 8 > 0 THEN 1 ELSE 0)

(* ZLevels.tile_to_meta_idx, called as tile_to_meta_idx(x/8, y/8, z).      *)
tile_to_meta_idx(mx, my, z) ==
    offsets[z] + ((interleave(mx) * 2) | interleave(my))

MetaIdx(x, y, z) == tile_to_meta_idx(x \div METATILE, y \div METATILE, z)

-----------------------------------------------------------------------------
(* Where the storage node keeps a tile: mqCache.construct_name.  A path   *)
(* is a sequence of characters; a style, replica, extension or root is    *)
(* one opaque token, as none of them contains a '/'.                      *)
DigitChar == <<"0", "1", "2", "3", "4", "5", "6", "7", "8", "9">>

(* str(v) of an int v >= 0.                                                *)
RECURSIVE Decimal(_)
Decimal(v) == IF v < 10 THEN <<DigitChar[v + 1]>>
              ELSE Decimal(v \div 10) \o <<DigitChar[(v % 10) + 1]>>

(* "%03d" % v: at least three digits, zero-padded.                         *)
Pad03(v) == [i \in 1..(3 - MinOf(3, Len(Decimal(v)))) |-> "0"] \o Decimal(v)

(* os.path.join of components none of which contains or ends in '/'.     *)
RECURSIVE Join(_)
Join(ps) == IF Len(ps) = 1 THEN ps[1] ELSE ps[1] \o <<"/">> \o Join(Tail(ps))

(* mqCache.path_split: three groups of x / 10^6, (x / 1000) % 1000, x % 1000. *)
path_split(i) == <<Pad03(i \div 1000000), Pad03((i \div 1000) % 1000), Pad03(i % 1000)>>

(* Mutant of construct_path: the zoom directory left out.                  *)
construct_pathNoZoom(id) ==
    Join(<<<<Root>>, <<id.replica>>, <<id.type>>>>
         \o path_split(id.x) \o SubSeq(path_split(id.y), 1, 2))

(* mqCache.construct_path: root/replica/type/zoom/x groups/y groups but   *)
(* the last.                                                               *)
construct_path(id) ==
    Join(<<<<Root>>, <<id.replica>>, <<id.type>>, Decimal(id.zoom)>>
         \o path_split(id.x) \o SubSeq(path_split(id.y), 1, 2))

(* mqCache.construct_name: the path, then "<last y group>.<extension>".    *)
construct_name(id) ==
    Join(<<construct_path(id), path_split(id.y)[3] \o <<".", id.extension>>>>)

-----------------------------------------------------------------------------
(* Reference definitions.                                                  *)

Bit(n, i) == (n \div 2^i) % 2

(* n with bit i moved to bit 2i.                                           *)
RefSpread(n) == SumSet({Bit(n, i) * 4^i : i \in 0..(MAX_Z - 3)})

(* Metatiles at zoom z: a 2^z by 2^z grid of tiles in 8 by 8 blocks, one  *)
(* block when the grid is smaller than a block.                            *)
MetatilesAt(z) == MaxOf(1, 2^z \div METATILE)^2

RECURSIVE RefZoomStart(_)
RefZoomStart(z) == IF z = 0 THEN 0 ELSE RefZoomStart(z - 1) + MetatilesAt(z - 1)

-----------------------------------------------------------------------------
(* The state is one lookup: the expiry service started with max_z, and a  *)
(* tile (x, y, z) the storage node asks about.  Tile coordinates are the  *)
(* two ends of every metatile column and row of the zoom.                 *)

VARIABLES max_z, z, x, y

vars == <<max_z, z, x, y>>

Ends(zz) ==
    UNION {{c, MinOf(c + METATILE - 1, 2^zz - 1)} :
              c \in {m * METATILE : m \in 0..((2^zz - 1) \div METATILE)}}

Init ==
    /\ max_z \in MaxZConfigs
    /\ z \in 0..(MAX_Z - 1)
    /\ x \in Ends(z)
    /\ y \in Ends(z)

(* Each lookup is a pure function of the state.                           *)
Next == UNCHANGED vars

Spec == Init /\ [][Next]_vars

-----------------------------------------------------------------------------
(* _interleave spreads each bit i of a metatile coordinate to bit 2i,     *)
(* so that the Morton codes of distinct metatiles differ.                 *)
InterleaveSpreads ==
    /\ interleave(x \div METATILE) = RefSpread(x \div METATILE)
    /\ interleave(y \div METATILE) = RefSpread(y \div METATILE)

(* Spec law 2: _uninterleave recovers the coordinate in the even bits of  *)
(* a Morton code, whatever the odd bits hold.                             *)
UninterleaveInverse ==
    LET mx == x \div METATILE
        my == y \div METATILE
    IN  uninterleave((interleave(mx) * 2) | interleave(my)) = my

(* Spec law 3: tile_to_meta_idx of a tile of zoom z lands in the block of *)
(* bits that belongs to zoom z, so indices of different zooms never meet. *)
IndexInZoom ==
    LET idx == MetaIdx(x, y, z)
    IN  RefZoomStart(z) <= idx /\ idx < RefZoomStart(z + 1)

(* A set or get of a tile whose zoom is at most the service's max_z      *)
(* addresses a bit inside the file Info sized with size_of(max_z), so the *)
(* service neither raises nor silently ignores it (set_bit, get_bit).     *)
IndexInFile ==
    z <= max_z =>
        /\ size_of(max_z) # NoValue
        /\ MetaIdx(x, y, z) < size_of(max_z) * 8
(* The cache names of CacheTiles, and the state's tile as a cache id.     *)
CacheNames == {construct_name(id) : id \in CacheTiles}
StateTile == [replica |-> "0", type |-> "map", zoom |-> z, x |-> x, y |-> y, extension |-> "png"]

ThreeDigitGroups(id) ==
    \A g \in 1..3 : Len(path_split(id.x)[g]) = 3 /\ Len(path_split(id.y)[g]) = 3
CacheTilesAsSpec ==
    /\ \A id \in CacheTiles : ThreeDigitGroups(id)
    /\ Cardinality(CacheNames) = Cardinality(CacheTiles)

(* Spec 4.6: a tile is stored at root/replica/style/z/ followed by three *)
(* zero-padded three-digit groups of x and of y, and so tiles that differ *)
(* in style, zoom, x or y never share a file (mqCache.construct_name):    *)
(* the deep tiles of CacheTiles among themselves, and the state's tile    *)
(* against each of them.                                                   *)
CachePathAsSpec ==
    /\ CacheTilesAsSpec
    /\ ThreeDigitGroups(StateTile)
    /\ construct_name(StateTile) \in CacheNames => StateTile \in CacheTiles

-----------------------------------------------------------------------------
(* tileURL.py: the tiles of a lat/lng box.  A corner is the tile          *)
(* xyFromLatLng gives for it, 0 .. 2^z a side (longitude 180 gives 2^z).  *)

(* c &= ~(METATILE - 1) on a two's-complement int.                         *)
SnapToMeta(c) == c - (c % METATILE)

(* A mutant: the exclusive end of the range without its + 1.              *)
BoundingBoxToXYRangeNoPlusOne(ul, lr, zz, snapToMeta) ==
    LET x1 == MaxOf(ul[1], 0)
        y1 == MaxOf(ul[2], 0)
        Snap(c) == IF snapToMeta THEN SnapToMeta(c) ELSE c
        last == IF zz = 0 THEN 1 ELSE 2^zz
    IN  <<Snap(x1), Snap(y1), MinOf(Snap(lr[1]), last), MinOf(Snap(lr[2]), last)>>

(* BoundingBoxToXYRange: x1, y1 clamped at 0, all four snapped to their  *)
(* metatile when asked, the far ends made exclusive and cut at the grid.  *)
BoundingBoxToXYRange(ul, lr, zz, snapToMeta) ==
    LET x1 == MaxOf(ul[1], 0)
        y1 == MaxOf(ul[2], 0)
        Snap(c) == IF snapToMeta THEN SnapToMeta(c) ELSE c
        last == IF zz = 0 THEN 1 ELSE 2^zz
    IN  <<Snap(x1), Snap(y1), MinOf(Snap(lr[1]) + 1, last), MinOf(Snap(lr[2]) + 1, last)>>

(* Python's range(a, b, s).                                                *)
PyRange(a, b, s) == [i \in 1..(IF b > a THEN (b - a + s - 1) \div s ELSE 0) |-> a + (i - 1) * s]

(* The tiles of one zoom of GenerateZXY (and of GenerateURLs, which       *)
(* formats the same loop): x outer, y inner, stride min(8, 2^z) with -m.  *)
ZoomTiles(zz, ul, lr, meta) ==
    LET r == BoundingBoxToXYRange(ul, lr, zz, meta)
        stride == IF meta THEN MinOf(METATILE, 2^zz) ELSE 1
        xs == PyRange(r[1], r[3], stride)
        ys == PyRange(r[2], r[4], stride)
    IN  [i \in 1..(Len(xs) * Len(ys)) |-> <<zz, xs[(i - 1) \div Len(ys) + 1], ys[((i - 1) % Len(ys)) + 1]>>]

RECURSIVE GenerateZXY(_, _, _, _)
GenerateZXY(zooms, ul, lr, meta) ==
    IF zooms = <<>> THEN <<>>
    ELSE ZoomTiles(Head(zooms), ul, lr, meta) \o GenerateZXY(Tail(zooms), ul, lr, meta)

(* Corner tiles at the ends of the grid and on both sides of a metatile   *)
(* border, ul left of and above lr, boxes up to 18 tiles a side; a y     *)
(* one past either end of the grid where Mercator's clamp of sin(lat) at *)
(* 0.9999 reaches it (about -0.288 * 2^z .. 1.288 * 2^z).                 *)
CornerCoords(zz) == {0, 1, 7, 8, 9, 16, 2^zz - 9, 2^zz - 8, 2^zz - 1, 2^zz} \cap 0..(2^zz)
YReach(zz) == -((2^zz * 288) \div 1000)..((2^zz * 1288) \div 1000)
Spans(cs) == {p \in cs \X cs : p[1] <= p[2] /\ p[2] - p[1] <= 17}

(* The tiles a listing names.                                               *)
Listed(s) == {s[i] : i \in DOMAIN s}

ListingAt(zz) ==
    \A px \in Spans(CornerCoords(zz)), py \in Spans(CornerCoords(zz) \cup ({-1, 2^zz + 1} \cap YReach(zz))) :
        LET ul == <<px[1], py[1]>>
            lr == <<px[2], py[2]>>
            full == GenerateZXY(<<zz>>, ul, lr, FALSE)
            meta == GenerateZXY(<<zz>>, ul, lr, TRUE)
            Anchor(c) == c - (c % METATILE)
            InGrid(a, b) == MaxOf(a, 0)..MinOf(b, 2^zz - 1)
        IN  /\ Listed(full) = {zz} \X InGrid(px[1], px[2]) \X InGrid(py[1], py[2])
            /\ Cardinality(Listed(meta)) = Len(meta)
            /\ full # <<>> => Listed(meta) = {<<t[1], Anchor(t[2]), Anchor(t[3])>> : t \in Listed(full)}
            /\ full = <<>> => Listed(meta) \subseteq IF zz < 3 THEN {<<zz, 0, 0>>} ELSE {}
ListingTable == [zz \in 0..(MAX_Z - 1) |-> ListingAt(zz)]

(* tileURL lists every tile of a box once, inside the grid's rows and    *)
(* columns, and with -m the anchor of every metatile holding one of those *)
(* tiles, once each and nothing more: the box's far edge snapped and made *)
(* exclusive, the stride min(8, 2^z) below zoom 3 (BoundingBoxToXYRange,  *)
(* GenerateZXY), for the state's zoom.  A box with no tile of the grid    *)
(* may still get the one metatile of a zoom below 3 with -m.              *)
TileListing == ListingTable[z]

====
