---------------------------- MODULE MetatileCodec ----------------------------
(***************************************************************************)
(* The metatile container of py/metatile.py: make_meta with its           *)
(* metatile_builder, and metatile_reader with image() and metadata().     *)
(*                                                                         *)
(* A container is modelled by the byte offset and size of each struct it  *)
(* holds: a 24-byte "4s5i" header and 64 8-byte "2i" offset entries per   *)
(* format, then the tile payloads.  A payload is named by the format and  *)
(* sub-tile it was cut for and is TileBytes long.  A truncated container  *)
(* keeps the structs that end inside it; the reader sees the rest as      *)
(* missing bytes.                                                          *)
(***************************************************************************)
EXTENDS Naturals, Sequences, SequencesExt, MapwareRenderer

CONSTANTS
    FormatLists,  \* the image format lists a style may be configured with
    Zooms,        \* zoom levels of the jobs
    TileBytes     \* length of one encoded tile

METATILE == 8
HeaderSize == 24                 \* struct "4s5i"
EntrySize == 8                   \* struct "2i"
TableSize == EntrySize * METATILE * METATILE

(* FORMAT_LOOKUP and FORMAT_REVERSE: png256 and png share one code.      *)
Code(f) == CASE f \in {"png", "png256"} -> 1 [] f = "jpeg" -> 2 [] f = "gif" -> 4 [] f = "json" -> 8
FormatName(c) == CASE c = 1 -> "png" [] c = 2 -> "jpeg" [] c = 4 -> "gif" [] c = 8 -> "json"

(* Tile(): the anchor of the metatile holding a tile, and its width.    *)
Anchor(c) == c - (c % METATILE)
SizeAt(zz) == IF 2^zz < METATILE THEN 2^zz ELSE METATILE

(* A mutant: the offset table indexed column-major.                       *)
xyz_to_meta_offset_transposed(tx, ty, tz) == (tx % METATILE) * METATILE + (ty % METATILE)

(* xyz_to_meta_offset                                                     *)
xyz_to_meta_offset(tx, ty, tz) == (ty % METATILE) * METATILE + (tx % METATILE)

Positions(size) == (0..(size - 1)) \X (0..(size - 1))   \* (row, column)

-----------------------------------------------------------------------------
(* make_meta(job, tiles, metaData, formats, size) with the job's x, y, z.  *)
(* The header offsets are reserved first; then, per format, the header    *)
(* and the offset table (write_offsets: in row order, each sub-tile's     *)
(* entry is set at xyz_to_meta_offset(x + col, y + row), the others stay  *)
(* (0, 0)); then, per format, the payloads in row order.                   *)
RowMajor(size) == [i \in 1..(size * size) |-> <<(i - 1) \div size, (i - 1) % size>>]

make_meta(mx, my, mz, fs, size) ==
    LET n == Len(fs)
        base == n * (HeaderSize + TableSize)
        PayloadAt(k, p) == base + ((k - 1) * size * size + p[1] * size + p[2]) * TileBytes
        Cells == RowMajor(size)
        (* the entry of mt is written by the last sub-tile sent there *)
        WriteOffsets(k) ==
            [mt \in 0..(METATILE * METATILE - 1) |->
                LET w == {i \in DOMAIN Cells : xyz_to_meta_offset(mx + Cells[i][2], my + Cells[i][1], mz) = mt}
                IN  IF w = {} THEN [off |-> 0, sz |-> 0]
                    ELSE [off |-> PayloadAt(k, Cells[Max(w)]), sz |-> TileBytes]]
        Tables == [k \in 1..n |-> WriteOffsets(k)]
        Stride == HeaderSize + TableSize
        Header(k) == [kind |-> "header", size |-> HeaderSize,
                      val |-> [magic |-> "META", n |-> METATILE * METATILE,
                               x |-> mx, y |-> my, z |-> mz, fmt |-> Code(fs[k])]]
        Table(k, r) == [kind |-> "entry", size |-> EntrySize, val |-> Tables[k][(r - HeaderSize) \div EntrySize]]
        Payload(q) == LET k == q \div (size * size) + 1
                          cell == q % (size * size)
                      IN  [kind |-> "data", size |-> TileBytes, val |-> <<fs[k], cell \div size, cell % size>>]
        Offsets == {(k - 1) * Stride + r : k \in 1..n, r \in {0} \cup {HeaderSize + e * EntrySize : e \in 0..(METATILE * METATILE - 1)}}
                   \cup {base + q * TileBytes : q \in 0..(n * size * size - 1)}
    IN  [at |-> [o \in Offsets |->
                   IF o >= base THEN Payload((o - base) \div TileBytes)
                   ELSE IF o % Stride = 0 THEN Header(o \div Stride + 1)
                   ELSE Table(o \div Stride + 1, o % Stride)],
         len |-> base + n * size * size * TileBytes]

(* The first len bytes of a container.                                    *)
Prefix(d, len) ==
    [at |-> [o \in {o \in DOMAIN d.at : o + d.at[o].size <= len} |-> d.at[o]], len |-> len]

-----------------------------------------------------------------------------
(* buffer(data, off, sz): the payload, an empty slice past the end, or    *)
(* the bytes up to the end of a truncated container.                      *)
Slice(d, e) ==
    IF e.sz = 0 \/ e.off >= d.len THEN [kind |-> "empty"]
    ELSE IF e.off + e.sz > d.len THEN [kind |-> "cut"]
    ELSE [kind |-> "tile", v |-> d.at[e.off].val]

(* A mutant: the reader without the check that the offset table ends    *)
(* inside the buffer.                                                      *)
RECURSIVE ReadFromUnguarded(_, _, _)
ReadFromUnguarded(d, offset, acc) ==
    IF ~(offset + HeaderSize < d.len) THEN [ok |-> TRUE, sets |-> acc]
    ELSE IF offset \notin DOMAIN d.at \/ d.at[offset].kind # "header"
         THEN [ok |-> TRUE, sets |-> acc]
    ELSE LET h == d.at[offset].val
             o1 == offset + HeaderSize
             EntryAt(i) == o1 + (i - 1) * EntrySize
         IN  IF \E i \in 1..h.n : EntryAt(i) \notin DOMAIN d.at
             THEN [ok |-> FALSE, sets |-> acc]
             ELSE ReadFromUnguarded(d, o1 + h.n * EntrySize,
                      Append(acc, [x |-> h.x, y |-> h.y, z |-> h.z, fmt |-> FormatName(h.fmt),
                                   tiles |-> [i \in 1..h.n |-> Slice(d, d.at[EntryAt(i)].val)]]))

(* metatile_reader.__init__: read headers while a whole one precedes the *)
(* end, stop at a bad magic, and stop when the offset table reaches the   *)
(* end of the buffer.  unpack_from past the end raises struct.error.     *)
RECURSIVE ReadFrom(_, _, _)
ReadFrom(d, offset, acc) ==
    IF ~(offset + HeaderSize < d.len) THEN [ok |-> TRUE, sets |-> acc]
    ELSE IF offset \notin DOMAIN d.at \/ d.at[offset].kind # "header"
         THEN [ok |-> TRUE, sets |-> acc]
    ELSE LET h == d.at[offset].val
             o1 == offset + HeaderSize
             EntryAt(i) == o1 + (i - 1) * EntrySize
         IN  IF o1 + h.n * EntrySize >= d.len THEN [ok |-> TRUE, sets |-> acc]
             ELSE IF \E i \in 1..h.n : EntryAt(i) \notin DOMAIN d.at
                  THEN [ok |-> FALSE, sets |-> acc]
             ELSE ReadFrom(d, o1 + h.n * EntrySize,
                           Append(acc, [x |-> h.x, y |-> h.y, z |-> h.z, fmt |-> FormatName(h.fmt),
                                        tiles |-> [i \in 1..h.n |-> Slice(d, d.at[EntryAt(i)].val)]]))

metatile_reader(d) == ReadFrom(d, 0, <<>>)

(* tileset.unImage / unJSON: 64 entries expected, entry i is (i / 8,     *)
(* i % 8), empty entries are skipped, a cut payload fails to decode.      *)
Decode(t) ==
    LET present == {i \in 1..Len(t.tiles) : t.tiles[i].kind # "empty"}
    IN  IF Len(t.tiles) # METATILE * METATILE \/ \E i \in present : t.tiles[i].kind = "cut"
        THEN [ok |-> FALSE, none |-> FALSE, img |-> <<>>]
        ELSE [ok |-> TRUE, none |-> FALSE,
              img |-> [p \in {<<(i - 1) \div METATILE, (i - 1) % METATILE>> : i \in present} |->
                          t.tiles[p[1] * METATILE + p[2] + 1].v]]

(* image() decodes the first tileset that is not json, metadata() the     *)
(* first json one; both answer None when there is none.                   *)
NoneDecoded == [ok |-> TRUE, none |-> TRUE, img |-> <<>>]
image(r) ==
    LET k == {i \in DOMAIN r.sets : r.sets[i].fmt # "json"}
    IN  IF k = {} THEN NoneDecoded ELSE Decode(r.sets[CHOOSE i \in k : \A j \in k : i <= j])
metadata(r) ==
    LET k == {i \in DOMAIN r.sets : r.sets[i].fmt = "json"}
    IN  IF k = {} THEN NoneDecoded ELSE Decode(r.sets[CHOOSE i \in k : \A j \in k : i <= j])

-----------------------------------------------------------------------------
(* The state is one packing: a job's tile (jx, jy, jz), the formats of   *)
(* its style, whether features were rendered, and how many bytes of the  *)
(* container a reader is handed.                                           *)
VARIABLES jx, jy, jz, fmts, json, cut

vars == <<jx, jy, jz, fmts, json, cut>>

Formats == IF json THEN fmts \o <<"json">> ELSE fmts
Size == SizeAt(jz)

(* The storage decorator packs with the Tile, whose x and y are the      *)
(* metatile's anchor (storage.py save_meta); the worker packs with the   *)
(* job, whose x and y are those of the tile requested (worker.py).        *)
Saved == make_meta(Anchor(jx), Anchor(jy), jz, Formats, Size)
Returned == make_meta(jx, jy, jz, Formats, Size)

(* The tiles of a job: the first and the last of the zoom and those on   *)
(* either side of the first metatile border, off their anchor or on it.  *)
JobCoords(zz) == {0, 2^zz - 1} \cup ({METATILE - 1, METATILE} \cap 0..(2^zz - 1))

(* Where a reader may be handed a shorter buffer: around every header,  *)
(* at and around the end of every offset table, inside the payloads.      *)
CutPoints(d) ==
    LET n == Len(Formats) IN
    ({d.len} \cup
     {(k - 1) * (HeaderSize + TableSize) + e :
         k \in 1..n, e \in {0, 1, HeaderSize, HeaderSize + 1, HeaderSize + TableSize - 1,
                            HeaderSize + TableSize, HeaderSize + TableSize + 1}} \cup
     {n * (HeaderSize + TableSize) + e : e \in {TileBytes - 1, TileBytes, TileBytes + 1}})
    \cap 0..d.len

Init ==
    /\ jz \in Zooms
    /\ jx \in JobCoords(jz)
    /\ jy \in JobCoords(jz)
    /\ fmts \in FormatLists
    /\ json \in BOOLEAN
    /\ cut \in CutPoints(Saved)

Next == UNCHANGED vars

Spec == Init /\ [][Next]_vars

-----------------------------------------------------------------------------
Expected(f) == [ok |-> TRUE, none |-> FALSE, img |-> [p \in Positions(Size) |-> <<f, p[1], p[2]>>]]

(* Spec law 1 and 4.3 for the container d: the reader finds one tileset  *)
(* per format, each headed by the metatile's anchor, and image() and      *)
(* metadata() give back every sub-tile of the first format and of the     *)
(* features at its (row, column).                                          *)
ReadsBack(d) ==
    LET r == metatile_reader(d) IN
    /\ r.ok
    /\ Len(r.sets) = Len(Formats)
    /\ \A i \in DOMAIN r.sets :
          /\ <<r.sets[i].x, r.sets[i].y, r.sets[i].z>> = <<Anchor(jx), Anchor(jy), jz>>
          /\ r.sets[i].fmt = FormatName(Code(Formats[i]))
    /\ image(r) = Expected(fmts[1])
    /\ metadata(r) = IF json THEN Expected("json") ELSE NoneDecoded

(* What the storage decorator saves reads back through metatile_reader   *)
(* as it was rendered.                                                     *)
RoundTrip == cut = Saved.len => ReadsBack(Saved)

(* What the worker returns with the job reads back as it was rendered.   *)
WorkerRoundTrip == cut = Returned.len => ReadsBack(Returned)

(* Spec law 1: a reader handed the first cut bytes of a container never  *)
(* raises and returns only tilesets whose header and offset table lie     *)
(* inside those bytes, the same as the whole container's, with each       *)
(* payload either whole or cut off.                                        *)
TruncatedRead ==
    LET full == metatile_reader(Saved)
        r == metatile_reader(Prefix(Saved, cut))
    IN  /\ r.ok
        /\ Len(r.sets) <= Len(full.sets)
        /\ \A i \in DOMAIN r.sets :
              /\ i * (HeaderSize + TableSize) <= cut
              /\ [r.sets[i] EXCEPT !.tiles = <<>>] = [full.sets[i] EXCEPT !.tiles = <<>>]
              /\ \A j \in DOMAIN r.sets[i].tiles :
                    r.sets[i].tiles[j] \in {full.sets[i].tiles[j], [kind |-> "cut"], [kind |-> "empty"]}

-----------------------------------------------------------------------------
(* The feature metadata of the job's metatile (module FeatureCutter).     *)

(* Tile(): size * TILE_SIZE pixels a side, cut into size x size tiles.   *)
TileOf(zz) == [size |-> <<SizeAt(zz) * TILE_SIZE, SizeAt(zz) * TILE_SIZE>>,
               dimensions |-> <<SizeAt(zz), SizeAt(zz)>>]

(* Rectangles with each edge just off the metatile, on its border, inside *)
(* the first sub-tile or on its far edge; and lists of one or two         *)
(* features of up to two polygons, among them a point and a line.         *)
Edges(n) == {-1, 0, 2, TILE_SIZE - 1, TILE_SIZE, n - 1, n}
Rects(n) == {r \in Edges(n) \X Edges(n) \X Edges(n) \X Edges(n) : r[1] <= r[3] /\ r[2] <= r[4]}
ShapeSets(n) == {<<1, 1, TILE_SIZE, TILE_SIZE>>, <<0, 0, 0, 0>>, <<TILE_SIZE - 1, 0, TILE_SIZE - 1, n - 1>>}
FeatureInputs(n) ==
    LET polys == {<<a>> : a \in ShapeSets(n)} \cup (ShapeSets(n) \X ShapeSets(n))
        fs == [id : {1, 2}, polys : polys]
    IN  {<<[id |-> 1, polys |-> <<r>>]>> : r \in Rects(n)} \cup {<<f, g>> : f, g \in fs}

(* Inclusive pixel box of a sub-tile of tile t.                           *)
SubTileBox(t, cell) ==
    LET w == t.size[1] \div t.dimensions[2]
        h == t.size[2] \div t.dimensions[1]
    IN  <<cell[2] * w, cell[1] * h, cell[2] * w + w - 1, cell[1] * h + h - 1>>

(* Reference cut: a polygon that is more than one pixel reaches a         *)
(* sub-tile where the boxes overlap, as the overlap in the sub-tile's     *)
(* pixels; a sub-tile lists, in order, the features with some piece there.*)
RefPieces(polys, b) ==
    LET lo(r) == <<Max({r[1], b[1]}), Max({r[2], b[2]})>>
        hi(r) == <<Min({r[3], b[3]}), Min({r[4], b[4]})>>
        kept == SelectSeq(polys, LAMBDA r : /\ <<r[1], r[2]>> # <<r[3], r[4]>>
                                            /\ lo(r)[1] <= hi(r)[1] /\ lo(r)[2] <= hi(r)[2])
    IN  [i \in DOMAIN kept |-> <<lo(kept[i])[1] - b[1], lo(kept[i])[2] - b[2],
                                 hi(kept[i])[1] - b[1], hi(kept[i])[2] - b[2]>>]
RefCut(t, fs) ==
    [cell \in Positions(t.dimensions[1]) |->
        LET meets == SelectSeq(fs, LAMBDA f : RefPieces(f.polys, SubTileBox(t, cell)) # <<>>)
        IN  [k \in DOMAIN meets |-> [id |-> meets[k].id, polys |-> RefPieces(meets[k].polys, SubTileBox(t, cell))]]]

CutExactlyAt(zz) ==
    LET t == TileOf(zz) IN
    \A fs \in FeatureInputs(t.size[1]) :
        LET res == from_image(t, Got(fs)) IN
        /\ res.meta = Got(RefCut(t, fs))
        /\ DOMAIN res.data = DOMAIN res.meta.fc
        /\ \A cell \in DOMAIN res.data :
              LET b == SubTileBox(t, cell) IN res.data[cell] = <<b[1], b[2], b[3] + 1, b[4] + 1>>
CutTable == [zz \in Zooms |-> CutExactlyAt(zz)]

(* from_image cuts the image and the features of the job's metatile the  *)
(* same way: every sub-tile make_meta reads gets an image cropped to its  *)
(* own pixels and exactly the parts of the features' rectangles that lie  *)
(* in those pixels, relative to its corner, feature order kept            *)
(* (clipGeometry, cutFeatures, cutImage).                                 *)
FeaturesCutExactly == CutTable[jz]

(* mapnik inmem entries: half-pixel boxes, one reaching left of the      *)
(* metatile, ids 1 and 2 or one int() rejects, with or without a name;    *)
(* metawriters holding up to two of them (the region map's up to one),   *)
(* or none; the three outcomes of _check_region; and mapware metaData:   *)
(* null, without 'pois', or up to two pois.                                *)
HalfBoxes == {<<-3, 1, 4, 2>>, <<5, 6, 8, 9>>}
NoWriter == [has |-> FALSE, es |-> <<>>]
Entries == [box : HalfBoxes, id : {1, 2, Bad}, named : BOOLEAN]
Writers(k) == {NoWriter} \cup [has : {TRUE}, es : BoundedSeq(Entries, k)]
Scenarios == [region : {"none"}, dflt : Writers(2), reg : {NoWriter}]
             \cup [region : {"contains"}, dflt : {NoWriter}, reg : Writers(2)]
             \cup [region : {"intersects"}, dflt : Writers(2), reg : Writers(1)]
Pois == [id : {1, Bad}, label : {<<0, 0, 3, 1>>}, icon : {<<1, 2, 2, 3>>}]
MetaDatas == [kind : {"none", "nopois"}, pois : {<<>>}] \cup [kind : {"pois"}, pois : BoundedSeq(Pois, 2)]

(* Reference extraction: one feature per run of entries of one id, with  *)
(* the boxes of the run; a poi's label then its icon.                     *)
RunStarts(es) == SelectSeq([i \in DOMAIN es |-> i], LAMBDA i : i = 1 \/ es[i - 1].id # es[i].id)
RefMNK(es) ==
    LET s == RunStarts(es)
        last(k) == IF k = Len(s) THEN Len(es) ELSE s[k + 1] - 1
    IN  [k \in DOMAIN s |-> [id |-> es[s[k]].id,
                             polys |-> [j \in 1..(last(k) - s[k] + 1) |-> BoxOf(es[s[k] + j - 1])]]]
RefWriter(w) == IF w.has THEN Got(RefMNK(w.es)) ELSE NoFeatures
RefMapnik(sc) ==
    CASE sc.region = "none" -> RefWriter(sc.dflt)
      [] sc.region = "contains" -> RefWriter(sc.reg)
      [] OTHER -> IF ~sc.dflt.has THEN RefWriter(sc.reg)
                  ELSE Got(RefMNK(sc.dflt.es) \o RefMNK(sc.reg.es))
RefMW(md) == Got(IF md.kind = "none" THEN <<>>
                 ELSE [i \in DOMAIN md.pois |-> [id |-> md.pois[i].id, polys |-> <<md.pois[i].label, md.pois[i].icon>>]])

(* A render that returns hands from_image the reference features, and    *)
(* the metadata it keeps covers the sub-tiles make_meta reads, or is None.*)
KeptBy(t, f, ref) ==
    f.ok => /\ f = ref
            /\ LET meta == Process(t, f).res.meta IN
               \/ meta.none
               \/ DOMAIN meta.fc = Positions(t.dimensions[1])
KeptAt(zz) ==
    LET t == TileOf(zz) IN
    /\ \A sc \in Scenarios : KeptBy(t, MapnikFeatures(sc), RefMapnik(sc))
    /\ \A md \in MetaDatas : KeptBy(t, extractFeaturesMW(md), RefMW(md))
KeptTable == [zz \in Zooms |-> KeptAt(zz)]

(* Every POI box the mapnik renderer draws reaches the metadata of the   *)
(* job's metatile under its id: entries of one id drawn one after another *)
(* form one feature (the previous-feature check of extractFeaturesMNK),  *)
(* the default map's features come before the region's in a composite,   *)
(* and a render that returns loses none of them (Renderer.process,        *)
(* save_rendered_metadata, mapware's extractFeaturesMW).                  *)
RenderedFeaturesKept == KeptTable[jz]

-----------------------------------------------------------------------------
(* Map-composition renderer inputs: server lists that load, lack a search *)
(* server, skip a map entry missing a key, or name another server; up to  *)
(* two styles (the second possibly missing a key) of dt d1 or d2, drawn   *)
(* at zooms 0..2 or 2..4, with or without their own search; search        *)
(* responses that fail, have no permutations, mix P1, non-P1 and          *)
(* incomplete POIs, or break off at a malformed permutation; GetTile      *)
(* answers with or without failure messages.                              *)
Srv(n, c) == [name |-> n, complete |-> c]
ServerLists == {<<Srv("map", TRUE), Srv("search", TRUE)>>,
                <<Srv("search", TRUE), Srv("map", FALSE), Srv("map", TRUE)>>,
                <<Srv("map", TRUE), Srv("search", TRUE), Srv("tiles", TRUE)>>,
                <<Srv("map", FALSE), Srv("search", TRUE)>>}
StyleAt(i, cs) == [dt : {"d1", "d2"}, style : {<<"s1", "s2">>[i]}, zooms : {0..2, 2..4},
                   search : {"none", <<"q1", "q2">>[i]}, complete : cs]
StyleLists == {<<a>> : a \in StyleAt(1, {TRUE})}
              \cup {p \in StyleAt(1, {TRUE}) \X StyleAt(2, BOOLEAN) :
                      p[1].dt # p[2].dt \/ p[1].search = "none" \/ p[2].search = "none"}
MWConfigs == [name : {"mq"}, servers : ServerLists, styles : StyleLists]
P(p1, c, id) == [p1 |-> p1, complete |-> c, id |-> id]
Answers == {[fetched |-> FALSE, perms |-> <<>>], [fetched |-> TRUE, perms |-> <<>>],
            [fetched |-> TRUE, perms |-> <<[ok |-> TRUE, results |-> <<P(TRUE, TRUE, "a"), P(FALSE, TRUE, "b"), P(TRUE, FALSE, "c")>>]>>],
            [fetched |-> TRUE, perms |-> <<[ok |-> TRUE, results |-> <<P(TRUE, TRUE, "d")>>], [ok |-> FALSE, results |-> <<>>],
                                           [ok |-> TRUE, results |-> <<P(TRUE, TRUE, "e")>>]>>]}
Responses == [{"q1", "q2"} -> Answers]
Gots == [failed : BOOLEAN, meta : {[kind |-> "none", pois |-> <<>>]}]

(* What an earlier process call of the same renderer leaves in the tiler, *)
(* whole or cut short by a failed search.                                 *)
Leftovers(c) == {EmptyTiler} \cup
    {stylize(c, [EmptyTiler EXCEPT !.state = z1, !.name = c.name], z1, r).tiler : z1 \in Zooms, r \in Responses}

(* Reference: the style strings of the styles drawn at the zoom, in       *)
(* order, and the complete P1 POIs of each such style's own search, up to *)
(* its first malformed permutation.                                        *)
Drawn(c, zz) == SelectSeq(c.styles, LAMBDA s : zz \in s.zooms)
Addressed(dt, perms) ==
    LET bad == {i \in DOMAIN perms : ~perms[i].ok}
        n == IF bad = {} THEN Len(perms) ELSE Min(bad) - 1
        all == FlattenSeq([i \in 1..n |-> perms[i].results])
        kept == SelectSeq(all, LAMBDA p : p.p1 /\ p.complete)
    IN  [i \in DOMAIN kept |-> <<dt, kept[i].id>>]
RefTiler(c, zz, resp) ==
    LET d == Drawn(c, zz)
        s == SelectSeq(d, LAMBDA st : st.search # "none")
    IN  [state |-> zz, name |-> c.name, styles |-> [i \in DOMAIN d |-> <<d[i].dt, d[i].style>>],
         pois |-> FlattenSeq([i \in DOMAIN s |-> Addressed(s[i].dt, resp[s[i].search].perms)])]
DrawsAt(zz) ==
    \A conf \in MWConfigs :
        LET c == MapWareConfig(conf) IN
        c.ok => \A prior \in Leftovers(c), resp \in Responses, got \in Gots :
                  LET p == process(c, TileOf(zz), zz, prior, resp, got)
                      searched == {i \in DOMAIN Drawn(c, zz) : Drawn(c, zz)[i].search # "none"}
                  IN  /\ p.drawn <=> \A i \in searched : resp[Drawn(c, zz)[i].search].fetched
                      /\ p.drawn => p.tiler = RefTiler(c, zz, resp)
                      /\ p.ok <=> p.drawn /\ ~got.failed
DrawsTable == [zz \in Zooms |-> DrawsAt(zz)]

(* Whatever an earlier tile of the same renderer left in the native tiler *)
(* (a finished render at another zoom, or one a failed search cut short),*)
(* GetTile renders the job's tile from exactly the style strings of the   *)
(* configured styles drawn at its zoom and the complete P1 POIs of their *)
(* own searches, and a render returns only when every search was fetched *)
(* and GetTile reported no failure (mapware stylize and process).         *)
MapwareDrawsItsTile == DrawsTable[jz]

====
