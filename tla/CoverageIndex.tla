---------------------------- MODULE CoverageIndex ----------------------------
(***************************************************************************)
(* The coverage index of py/coverage: Coverage.process_coverage_data      *)
(* building the priority-ordered list of datasets from coverage.xml (and  *)
(* the datasets ingested from shapefiles), MQDataSet.isCandidate, and the *)
(* query CoverageChecker.check makes for every sub-tile of a metatile:    *)
(* getDataSetsForScale, getIntersectingDataSets with all matches and the *)
(* sub-tile's bounding polygon, then getDataSetsByID and getCoverageName. *)
(*                                                                         *)
(* Geometry is abstracted: a dataset's polygons are the set of sub-tiles  *)
(* they intersect or lie within.  The coverage files are read once, when  *)
(* the worker builds its renderers, so the state is one configuration     *)
(* and one metatile and nothing changes after Init.                       *)
(***************************************************************************)
EXTENDS Naturals, Sequences, SequencesExt, Functions

CONSTANTS
    PriorityEntries, \* the sequences of validRegionName a coverage.xml may list
    RegionSet,       \* validRegions: region name -> dataSetName
    DataSetNames,    \* names of the dataSets elements of coverage.xml
    XmlConfs,        \* what a dataSets element may hold, see XmlConf
    ShpConfs,        \* what a shapefile record may say of a dataset, see ShpConf
    Ids,             \* DatasetID values
    SubTiles,        \* sub-tiles of the metatile
    Scales,          \* the metatile's scale (tile.scale)
    NoName           \* what a lookup that finds nothing gives

(* A dataSets element: whether its latLongBoundingRectangle is non-zero, *)
(* its scaleRange lo and hi, and the proj attribute of that scaleRange.   *)
XmlConf == [box : BOOLEAN, lo : Nat, hi : Nat, proj : {"MERCATOR", "none"}]
(* A shapefile record: its MERCATOR scale range, or no shapefile.         *)
ShpConf == [shp : BOOLEAN, lo : Nat, hi : Nat]

ASSUME XmlConfs \subseteq XmlConf /\ ShpConfs \subseteq ShpConf

-----------------------------------------------------------------------------
(* setScales: the last scaleRange becomes scale_lo/hi whatever its proj; *)
(* one with a proj is merged into dictScale over the shapefile's ranges.  *)
DictScale(x, s) ==
    IF x.proj = "MERCATOR" THEN [p \in {"MERCATOR"} |-> [lo |-> x.lo, hi |-> x.hi]]
    ELSE IF s.shp THEN [p \in {"MERCATOR"} |-> [lo |-> s.lo, hi |-> s.hi]]
    ELSE [p \in {} |-> 0]

(* process_coverage_data: per priority entry, the first validRegion of   *)
(* that name gives the dataSetName, the first dataSet of that name gives  *)
(* the bounding rectangle and scales; an entry whose rectangle is zero    *)
(* (no region, no dataset, or a zero rectangle) is skipped.  A dataset    *)
(* ingested from a shapefile is reused, others are built from the .vp     *)
(* file; both keep the DatasetID and coverage name of their data.         *)
process_coverage_data(prio, xml, shp, id, hits) ==
    LET Named(r) == IF r \in DOMAIN RegionSet THEN RegionSet[r] ELSE NoName
        Listed(r) == Named(r) \in DataSetNames /\ xml[Named(r)].box
        Build(n) == [name |-> n, id |-> id[n], cname |-> n,
                     scale_lo |-> xml[n].lo, scale_hi |-> xml[n].hi,
                     dictScale |-> DictScale(xml[n], shp[n]),
                     polygons |-> hits[n]]
    IN  [i \in 1..Len(SelectSeq(prio, Listed)) |-> Build(Named(SelectSeq(prio, Listed)[i]))]

(* A mutant: the projection-agnostic range tested with its ends excluded. *)
isCandidateOpen(d, scale, projectionName) ==
    IF projectionName \notin DOMAIN d.dictScale
    THEN ~(scale >= d.scale_hi \/ scale <= d.scale_lo)
    ELSE ~(scale > d.dictScale[projectionName].hi \/ scale < d.dictScale[projectionName].lo)

(* MQDataSet.isCandidate                                                   *)
isCandidate(d, scale, projectionName) ==
    IF projectionName \notin DOMAIN d.dictScale
    THEN ~(scale > d.scale_hi \/ scale < d.scale_lo)
    ELSE ~(scale > d.dictScale[projectionName].hi \/ scale < d.dictScale[projectionName].lo)

getDataSetsForScale(coverage, scale, projectionName) ==
    SelectSeq(coverage, LAMBDA d : isCandidate(d, scale, projectionName))

getDataSetsByID(coverage, dsID) == SelectSeq(coverage, LAMBDA d : d.id = dsID)

(* getIntersectingDataSets with bUsePolygon: the ids of the candidates    *)
(* one of whose polygons meets the sub-tile, without repeats, in order;  *)
(* without bGetAllDataSets, only the first.                                *)
getIntersectingDataSets(cands, st, bGetAllDataSets) ==
    LET Hit(d) == st \in d.polygons
        ids == FoldLeft(LAMBDA acc, d : IF Hit(d) /\ ~Contains(acc, d.id) THEN Append(acc, d.id) ELSE acc,
                        <<>>, cands)
    IN  IF bGetAllDataSets \/ ids = <<>> THEN ids ELSE <<ids[1]>>

(* CoverageChecker.check(subTile, True): the coverage names of every      *)
(* dataset carrying one of the intersecting ids.                           *)
check(coverage, scale, st) ==
    LET ids == getIntersectingDataSets(getDataSetsForScale(coverage, scale, "MERCATOR"), st, TRUE)
    IN  FlattenSeq([i \in DOMAIN ids |->
                      [j \in DOMAIN getDataSetsByID(coverage, ids[i]) |->
                          getDataSetsByID(coverage, ids[i])[j].cname]])

-----------------------------------------------------------------------------
VARIABLES prio, xml, shp, id, hits, tileScale

vars == <<prio, xml, shp, id, hits, tileScale>>

(* Coverage.coverage once load_coverage_xml has run                     *)
Loaded == process_coverage_data(prio, xml, shp, id, hits)

(* Coverage data whose DatasetIDs tell datasets apart.                    *)
Init ==
    /\ prio \in PriorityEntries
    /\ xml \in [DataSetNames -> XmlConfs]
    /\ shp \in [DataSetNames -> ShpConfs]
    /\ id \in {f \in [DataSetNames -> Ids] : IsInjective(f)}
    /\ hits \in [DataSetNames -> SUBSET SubTiles]
    /\ tileScale \in Scales

Next == UNCHANGED vars

Spec == Init /\ [][Next]_vars

-----------------------------------------------------------------------------
(* Spec 4.5 and 2: a dataset is a candidate iff the scale lies in its    *)
(* range for the projection, or in its default range if it has none for  *)
(* the projection; the sub-tile's names are those of the candidates that *)
(* cover it, in declaration order.                                         *)
InRange(r) == r.lo <= tileScale /\ tileScale <= r.hi
SpecCandidate(d) ==
    IF "MERCATOR" \in DOMAIN d.dictScale THEN InRange(d.dictScale["MERCATOR"])
    ELSE InRange([lo |-> d.scale_lo, hi |-> d.scale_hi])
SpecCovers(st) == SelectSeq(Loaded, LAMBDA d : SpecCandidate(d) /\ st \in d.polygons)

(* What checkSubTiles gives the coverage renderer for every sub-tile is  *)
(* what spec 4.5 says: no name iff no candidate dataset covers it, else  *)
(* first the coverage name of the first covering candidate in priority   *)
(* order, and among all names exactly those of the covering candidates.  *)
CheckMatchesSpec ==
    \A st \in SubTiles :
        LET names == check(Loaded, tileScale, st)
            spec == SpecCovers(st)
        IN  /\ (names = <<>>) = (spec = <<>>)
            /\ names # <<>> => names[1] = spec[1].cname
            /\ Range(names) = {spec[i].cname : i \in DOMAIN spec}

====
