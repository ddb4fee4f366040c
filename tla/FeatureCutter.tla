---------------------------- MODULE FeatureCutter ----------------------------
(***************************************************************************)
(* The interactive feature metadata of a metatile: py/metacutter.py       *)
(* (extractFeaturesMNK, extractFeaturesMW, clipGeometry, cutFeatures),    *)
(* py/renderer/renderResult.py (cutImage, RenderResult.from_image) and    *)
(* the feature assembly of mapnik.Renderer.process and                    *)
(* mapware.Renderer.process.                                               *)
(*                                                                         *)
(* A polygon is built by the code as the ring of four corners of a        *)
(* rectangle and read back by clipGeometry from its corners 0 and 2, so   *)
(* it is kept as the rectangle <<x0, y0, x2, y2>> in metatile pixels.      *)
(* A feature is its id and its polygons; its name and type properties     *)
(* are left out.  A collection that may be None or may have raised is a   *)
(* record [ok, none, fc].  TILE_SIZE stands for tile.TILE_SIZE (256), and *)
(* for the literal 256 cutImage crops with.                                *)
(***************************************************************************)
EXTENDS Integers, Sequences, SequencesExt

CONSTANTS TILE_SIZE, Bad   \* Bad: an id int() rejects, or no 'id' at all

Failed == [ok |-> FALSE, none |-> FALSE, fc |-> <<>>]
Got(fc) == [ok |-> TRUE, none |-> FALSE, fc |-> fc]
NoFeatures == [ok |-> TRUE, none |-> TRUE, fc |-> <<>>]

(* int() of a coordinate given in half pixels: truncation toward zero.  *)
Trunc(h) == IF h >= 0 THEN h \div 2 ELSE -((-h) \div 2)

(* The box of a mapnik inmem entry, widened by one pixel at its far edges.*)
BoxOf(e) == <<Trunc(e.box[1]), Trunc(e.box[2]), Trunc(e.box[3]) + 1, Trunc(e.box[4]) + 1>>

(* A mutant: the previous feature looked up only from the second on.      *)
MNKStepFromSecond(acc, e) ==
    IF ~acc.ok THEN acc
    ELSE IF e.id = Bad THEN Failed
    ELSE LET previous == Len(acc.fc) IN
         IF previous > 1 /\ acc.fc[previous].id = e.id
         THEN [acc EXCEPT !.fc[previous].polys = Append(@, BoxOf(e))]
         ELSE IF e.named THEN Got(Append(acc.fc, [id |-> e.id, polys |-> <<BoxOf(e)>>]))
         ELSE Failed

(* One entry of extractFeaturesMNK.  An entry of the same id as the       *)
(* feature before it adds its box to that feature; any other starts a new *)
(* feature.  A bad id (int()) or a missing name raises inside the inner   *)
(* try, and its handler, which calls a string, raises TypeError through   *)
(* the outer handler too: one bad entry fails the whole extraction.      *)
MNKStep(acc, e) ==
    IF ~acc.ok THEN acc
    ELSE IF e.id = Bad THEN Failed
    ELSE LET previous == Len(acc.fc) IN
         IF previous > 0 /\ acc.fc[previous].id = e.id
         THEN [acc EXCEPT !.fc[previous].polys = Append(@, BoxOf(e))]
         ELSE IF e.named THEN Got(Append(acc.fc, [id |-> e.id, polys |-> <<BoxOf(e)>>]))
         ELSE Failed

RECURSIVE MNKFold(_, _)
MNKFold(acc, es) == IF es = <<>> THEN acc ELSE MNKFold(MNKStep(acc, Head(es)), Tail(es))

extractFeaturesMNK(inmem) == MNKFold(Got(<<>>), inmem)

(* extractFeaturesMW over json.loads(result.metaData): None gives no      *)
(* features; a feature per poi with its label and icon rectangles; no     *)
(* 'pois' key, or a poi missing a field, raises (the handlers again call  *)
(* a string).                                                              *)
extractFeaturesMW(md) ==
    CASE md.kind = "none" -> Got(<<>>)
      [] md.kind = "nopois" \/ \E i \in DOMAIN md.pois : md.pois[i].id = Bad -> Failed
      [] OTHER -> Got([i \in DOMAIN md.pois |->
                         [id |-> md.pois[i].id, polys |-> <<md.pois[i].label, md.pois[i].icon>>]])

-----------------------------------------------------------------------------
(* Sub-tiles (row, column) of a grid of dims = (rows, columns).           *)
SubTileCells(dims) == (0..(dims[1] - 1)) \X (0..(dims[2] - 1))

IsPoint(r) == r[4] - r[2] = 0 /\ r[3] - r[1] = 0

(* A mutant: the far edge of a cut-off piece is the sub-tile's width.    *)
PieceToEdge(r, row, col, w, h) ==
    LET t == <<w * col, h * row, w * (col + 1), h * (row + 1)>> IN
    <<IF r[1] > t[1] THEN r[1] - t[1] ELSE 0, IF r[2] > t[2] THEN r[2] - t[2] ELSE 0,
      IF r[3] < t[3] THEN r[3] - t[1] ELSE w, IF r[4] < t[4] THEN r[4] - t[2] ELSE h>>

(* The part of rectangle r in sub-tile (row, col), in the sub-tile's own *)
(* pixels: an edge inside the sub-tile is kept, one beyond it is cut to   *)
(* 0 or to width - 1.                                                      *)
Piece(r, row, col, w, h) ==
    LET t == <<w * col, h * row, w * (col + 1), h * (row + 1)>> IN
    <<IF r[1] > t[1] THEN r[1] - t[1] ELSE 0, IF r[2] > t[2] THEN r[2] - t[2] ELSE 0,
      IF r[3] < t[3] THEN r[3] - t[1] ELSE w - 1, IF r[4] < t[4] THEN r[4] - t[2] ELSE h - 1>>

(* clipGeometry((width, height), dims, geometry): each polygon that is   *)
(* not a point adds a piece to every sub-tile of the rows floor(y0 / h)   *)
(* .. floor(y2 / h) and columns floor(x0 / w) .. floor(x2 / w) inside the *)
(* grid, in polygon order; <<>> is a sub-tile the geometry misses.        *)
clipGeometry(wh, dims, polys) ==
    [cell \in SubTileCells(dims) |->
        LET Meets(r) == /\ ~IsPoint(r)
                        /\ cell[1] \in (r[2] \div wh[2])..(r[4] \div wh[2])
                        /\ cell[2] \in (r[1] \div wh[1])..(r[3] \div wh[1])
            hits == SelectSeq(polys, Meets)
        IN  [i \in DOMAIN hits |-> Piece(hits[i], cell[1], cell[2], wh[1], wh[2])]]

(* The guards of cutFeatures and cutImage on the sizes.                   *)
Degenerate(pixels, dims) ==
    \/ pixels[1] < 1 \/ pixels[2] < 1 \/ dims[1] < 1 \/ dims[2] < 1
    \/ pixels[1] \div dims[2] < 1 \/ pixels[2] \div dims[1] < 1

(* cutFeatures(features, pixels, dims): every sub-tile gets a collection; *)
(* each feature, in order, is added to the sub-tiles its clipped geometry *)
(* reaches, with its id.                                                   *)
cutFeatures(fs, pixels, dims) ==
    IF Degenerate(pixels, dims) THEN [cell \in {} |-> <<>>]
    ELSE LET wh == <<pixels[1] \div dims[2], pixels[2] \div dims[1]>>
             clipped == [i \in DOMAIN fs |-> clipGeometry(wh, dims, fs[i].polys)]
         IN  [cell \in SubTileCells(dims) |->
                LET has == SelectSeq([i \in DOMAIN fs |-> i], LAMBDA i : clipped[i][cell] # <<>>)
                IN  [k \in DOMAIN has |-> [id |-> fs[has[k]].id, polys |-> clipped[has[k]][cell]]]]

(* cutImage: the crop box of every sub-tile, 256 pixels a side.           *)
cutImage(pixels, dims) ==
    IF Degenerate(pixels, dims) THEN [cell \in {} |-> <<>>]
    ELSE [cell \in SubTileCells(dims) |->
            <<cell[2] * TILE_SIZE, cell[1] * TILE_SIZE,
              cell[2] * TILE_SIZE + TILE_SIZE, cell[1] * TILE_SIZE + TILE_SIZE>>]

(* RenderResult.from_image(tile, data, meta)                               *)
from_image(tile, meta) ==
    [data |-> cutImage(tile.size, tile.dimensions),
     meta |-> IF meta.none THEN meta ELSE Got(cutFeatures(meta.fc, tile.size, tile.dimensions))]

-----------------------------------------------------------------------------
(* mapnik save_rendered_metadata: a map without the poi-meta-data inmem   *)
(* metawriter gives None.                                                  *)
save_rendered_metadata(writer) == IF writer.has THEN extractFeaturesMNK(writer.es) ELSE NoFeatures

(* The features of mapnik.Renderer.process: the default map's when no    *)
(* region's mask meets the bbox, the region's when its mask contains it,  *)
(* and when it only intersects, the default's extended by the region's,   *)
(* which raises AttributeError when the region map has no metawriter.    *)
MapnikFeatures(sc) ==
    CASE sc.region = "none" -> save_rendered_metadata(sc.dflt)
      [] sc.region = "contains" -> save_rendered_metadata(sc.reg)
      [] OTHER ->
           LET d == save_rendered_metadata(sc.dflt) IN
           IF ~d.ok THEN d
           ELSE IF d.none THEN save_rendered_metadata(sc.reg)
           ELSE LET r == save_rendered_metadata(sc.reg) IN
                IF ~r.ok \/ r.none THEN Failed ELSE Got(d.fc \o r.fc)

(* mapnik / mapware process: features that raised fail the render,       *)
(* others are cut with the image by from_image.                            *)
Process(tile, f) == IF f.ok THEN [ok |-> TRUE, res |-> from_image(tile, f)] ELSE [ok |-> FALSE]

====
