---------------------------- MODULE RendererTree ----------------------------
(***************************************************************************)
(* The renderer tree a worker's RendererFactory builds from its           *)
(* configuration (py/renderer/factory.py) and one job's call of           *)
(* renderer.process(tile) on it (worker.py): the storage decorator        *)
(* (renderer/storage.py), the composite (renderer/composite.py), the      *)
(* coverage dispatcher (renderer/coverages.py with                         *)
(* coverage/CoverageChecker.py) and the primitive renderers (mapnik,      *)
(* mapware, terrain, aerial).                                              *)
(*                                                                         *)
(* process is a sequential recursive call, so it is modelled by recursive *)
(* operators that thread the state the calls share: tile.style, which the *)
(* composite overwrites and the decorator reads, and the metatile store,  *)
(* which decorators read and write.  A rendered metatile is abstracted to *)
(* which primitive styles drew each sub-tile, in layer order, and whether *)
(* it carries feature metadata.  Each step of the specification is one    *)
(* job; the store persists between jobs.                                   *)
(***************************************************************************)
EXTENDS Naturals, Sequences, SequencesExt, FiniteSets

CONSTANTS
    PrimKind,     \* primitive style -> its rendering system
    Layers,       \* composite style -> its layer style names, in order
    Vendors,      \* coverage style -> (vendor name -> style name) section
    Saved,        \* [worker] saved_styles
    ReadOnly,     \* [worker] read_only_styles
    JsonStyles,   \* styles whose [formats] entry includes json
    SubTiles,     \* sub-tile positions of the metatile
    Names,        \* vendor names the coverage index may answer, lowercased
    Empty,        \* a sub-tile the coverage index has no name for
    MaxJobs       \* bound on jobs rendered

Configured == DOMAIN PrimKind \cup DOMAIN Layers \cup DOMAIN Vendors \cup ReadOnly

(* The coverage renderer's constructor raises unless both keys exist.     *)
ASSUME \A s \in DOMAIN Vendors : {"default", "missing"} \subseteq DOMAIN Vendors[s]
ASSUME ReadOnly \cap Saved = {}
ASSUME \A s \in DOMAIN PrimKind :
          PrimKind[s] \in {"mapnik", "mapware", "terrain", "aerial"}

-----------------------------------------------------------------------------
(* What a process call returns: a RenderResult, None, the tuple           *)
(* (None, None), or an exception.                                          *)
NoData == [t \in SubTiles |-> <<>>]
Res(d, m) == [kind |-> "result", data |-> d, meta |-> m]
Ret(k) == [kind |-> k, data |-> NoData, meta |-> FALSE]
Out(r, st) == [res |-> r, st |-> st]
Raise(st) == Out(Ret("raise"), st)

(* RenderResult.from_image: every sub-tile cut from the style's image;    *)
(* meta is None unless features were passed.                               *)
Draw(s, m) == Res([t \in SubTiles |-> <<s>>], m)

(* mapnik.Renderer.process: the region or default style's image with   *)
(* the extracted features, or None when there are none; a render error    *)
(* propagates.                                                             *)
MapnikOutcomes(s) == {Draw(s, TRUE), Draw(s, FALSE), Ret("raise")}

(* mapware.Renderer.process: image and features, or it raises.          *)
MapwareOutcomes(s) == {Draw(s, TRUE), Ret("raise")}

(* terrain getTile swallows every error and process then answers         *)
(* (None, None); the image never carries features.                        *)
TerrainOutcomes(s) == {Draw(s, FALSE), Ret("pair")}

(* aerial.Renderer.process: a failed sub-tile fetch re-raises; its       *)
(* short-result branch is unreachable since map() keeps the list length.  *)
AerialOutcomes(s) == {Draw(s, FALSE), Ret("raise")}

Outcomes(s) ==
    CASE PrimKind[s] = "mapnik"  -> MapnikOutcomes(s)
      [] PrimKind[s] = "mapware" -> MapwareOutcomes(s)
      [] PrimKind[s] = "terrain" -> TerrainOutcomes(s)
      [] PrimKind[s] = "aerial"  -> AerialOutcomes(s)

(* factory.__init__ and renderer_for: a read-only style is a bare storage *)
(* decorator, a saved one wraps its system's renderer, any other name     *)
(* that is not configured yields None.                                     *)
RendererFor(name) ==
    [style |-> name, ok |-> name \in Configured, deco |-> name \in Saved \cup ReadOnly]

(* The metatile store, one key per style; Absent is a miss of get_meta.  *)
Absent == NoData

(* coveragemanager.get_coverage raises for a type it has not loaded;    *)
(* CoverageChecker.checkSubTiles answers the first name of each sub-tile  *)
(* or none.                                                                *)
CoverageLoaded(env, ts) == ts \in DOMAIN env.cov
CoverageNames(env, ts) == env.cov[ts]

(* Sequence of the distinct elements of s, in order of first appearance. *)
Distinct(s) == FoldLeft(LAMBDA acc, x : IF Contains(acc, x) THEN acc ELSE Append(acc, x),
                        <<>>, s)

IndexOf(s, x) == CHOOSE i \in DOMAIN s : s[i] = x

IsResult(r) == r.kind = "result"

-----------------------------------------------------------------------------
(* env holds one job's inputs: each primitive's outcome, whether put_meta *)
(* succeeds, the coverage index's answer per coverage type and sub-tile,  *)
(* and the iteration order of the sub-tile dictionary.                    *)

RECURSIVE Run(_, _, _), Inner(_, _, _), LayerLoop(_, _, _, _, _),
          RenderAll(_, _, _, _, _)

(* Mutant: saves the RenderResult itself instead of its packed images.  *)
DecoratedSavesResult(r, st, env) ==
    LET key == st.ts IN
    IF st.store[key] # Absent THEN Out(Res(st.store[key], FALSE), st)
    ELSE IF r.style \in ReadOnly THEN Out(Ret("none"), st)
    ELSE LET o == Inner(r.style, st, env) IN
         IF ~IsResult(o.res) THEN Raise(o.st)
         ELSE IF r.style \in JsonStyles /\ o.res.meta THEN Raise(o.st)
         ELSE Out(o.res, [o.st EXCEPT !.store = IF env.putOk
                                                THEN [@ EXCEPT ![key] = o.res] ELSE @])

(* storage.Renderer.process.  The key is job.style = tile.style, read    *)
(* when the decorator is entered.                                          *)
Decorated(r, st, env) ==
    LET key == st.ts IN
    IF st.store[key] # Absent
    THEN \* metatile_reader: images and no metadata, as none is ever saved
         Out(Res(st.store[key], FALSE), st)
    ELSE IF r.style \in ReadOnly THEN Out(Ret("none"), st)
    ELSE LET o == Inner(r.style, st, env) IN
         \* Transcode(result, ...) raises on None and on (None, None)
         IF ~IsResult(o.res) THEN Raise(o.st)
         \* dumps is not imported in storage.py: NameError
         ELSE IF r.style \in JsonStyles /\ o.res.meta THEN Raise(o.st)
         ELSE Out(o.res,
                  [o.st EXCEPT !.store = IF env.putOk
                                         THEN [@ EXCEPT ![key] = o.res.data]
                                         ELSE @])

Run(r, st, env) == IF r.deco THEN Decorated(r, st, env) ELSE Inner(r.style, st, env)

(* composite.Renderer.process, the layer loop: tile.style = layer, then  *)
(* renderer_for(layer).process(tile); None is skipped, an exception       *)
(* propagates.                                                             *)
LayerLoop(ls, i, acc, st, env) ==
    IF i > Len(ls) THEN [status |-> "done", acc |-> acc, st |-> st]
    ELSE LET st1 == [st EXCEPT !.ts = ls[i]]
             r == RendererFor(ls[i])
         IN  IF ~r.ok THEN [status |-> "raise", acc |-> acc, st |-> st1]
             ELSE LET o == Run(r, st1, env) IN
                  IF o.res.kind = "raise" THEN [status |-> "raise", acc |-> acc, st |-> o.st]
                  ELSE LayerLoop(ls, i + 1,
                                 IF o.res.kind = "none" THEN acc ELSE Append(acc, o.res),
                                 o.st, env)

(* composite.Renderer.process: no result raises, a (None, None) has no   *)
(* .data, and each sub-tile stacks the layers' images in order; meta is   *)
(* a dict even when every layer's meta was None.                          *)
Composite(s, st, env) ==
    LET o == LayerLoop(Layers[s], 1, <<>>, st, env) IN
    IF o.status = "raise" \/ o.acc = <<>> \/ \E i \in DOMAIN o.acc : o.acc[i].kind = "pair"
    THEN Raise(o.st)
    ELSE Out(Res([t \in SubTiles |-> FlattenSeq([i \in DOMAIN o.acc |-> o.acc[i].data[t]])],
                 TRUE), o.st)

(* The mixed-coverage loop of coverages.Renderer.process: a None result  *)
(* empties the results and stops.                                         *)
RenderAll(rs, i, acc, st, env) ==
    IF i > Len(rs) THEN [status |-> "done", acc |-> acc, st |-> st]
    ELSE LET o == Run(RendererFor(rs[i]), st, env) IN
         CASE o.res.kind = "raise" -> [status |-> "raise", acc |-> acc, st |-> o.st]
           [] o.res.kind = "none"  -> [status |-> "done", acc |-> <<>>, st |-> o.st]
           [] OTHER                -> RenderAll(rs, i + 1, Append(acc, o.res), o.st, env)

(* Mutant: sub-tiles without a coverage name are left out of the count.  *)
MixedIgnoresEmpty(V, names) ==
    Cardinality({V[names[t]] : t \in {u \in SubTiles : names[u] # Empty /\ names[u] \in DOMAIN V}}) > 1

(* The coverage names checkSubTiles answers, looked up by tile.style.    *)
(* The sanitised names decide mixedness: None or an unknown name counts   *)
(* as 'default'.                                                          *)
Mixed(V, names) ==
    LET Sanitised(n) == IF n # Empty /\ n \in DOMAIN V THEN n ELSE "default"
    IN  Cardinality({V[Sanitised(names[t])] : t \in SubTiles}) > 1

(* _update_coverages: an empty list is 'missing', a name that is not      *)
(* configured takes the 'default' style.                                   *)
DispatchStyle(V, names, t) ==
    LET vend == IF names[t] = Empty THEN "missing" ELSE names[t]
    IN  IF vend \in DOMAIN V THEN V[vend] ELSE V["default"]

(* _update_coverages visits the sub-tiles in dict order, one renderer per *)
(* distinct style in order of first use, and stops after the first        *)
(* sub-tile when the coverage is not mixed.                                *)
Dispatch(V, names, mixed, ord) ==
    LET visited == IF mixed THEN ord ELSE <<ord[1]>>
    IN  Distinct([i \in DOMAIN visited |-> DispatchStyle(V, names, visited[i])])

(* _combine: each sub-tile is taken from the result of its style.         *)
Combine(V, names, rends, results) ==
    Res([t \in SubTiles |->
            results[IndexOf(rends, DispatchStyle(V, names, t))].data[t]], TRUE)

Coverage(s, st, env) ==
    IF ~CoverageLoaded(env, st.ts) THEN Raise(st)
    ELSE
    LET V == Vendors[s]
        names == CoverageNames(env, st.ts)
        mixed == Mixed(V, names)
        rends == Dispatch(V, names, mixed, env.ord)
    IN  IF \E i \in DOMAIN rends : ~RendererFor(rends[i]).ok THEN Raise(st)
        ELSE IF mixed
        THEN LET o == RenderAll(rends, 1, <<>>, st, env) IN
             IF o.status = "raise" \/ o.acc = <<>>
                \/ \E i \in DOMAIN o.acc : o.acc[i].kind = "pair"
             THEN Raise(o.st)
             ELSE Out(Combine(V, names, rends, o.acc), o.st)
        ELSE LET o == Run(RendererFor(rends[1]), st, env) IN
             IF o.res.kind = "none" THEN Raise(o.st) ELSE o

(* RendererFactory._create: the renderer of the style's system.          *)
Inner(s, st, env) ==
    CASE s \in DOMAIN PrimKind -> Out(env.prim[s], st)
      [] s \in DOMAIN Layers   -> Composite(s, st, env)
      [] s \in DOMAIN Vendors  -> Coverage(s, st, env)

-----------------------------------------------------------------------------
(* The renderer tree as spec 4.2 and 7 describe it.  A storage decorator *)
(* is keyed by its own style; a miss of a read-only style returns         *)
(* nothing; a composite skips the layers that failed or returned nothing  *)
(* and aborts only if all did; a coverage maps an empty list to           *)
(* 'default' and an unknown name to 'missing' and fails when a sub-tile's *)
(* renderer fails.  Every lookup sees the store as the job found it.      *)
SOk(d) == [ok |-> TRUE, data |-> d]
SFail == [ok |-> FALSE, data |-> NoData]

RECURSIVE SpecRun(_, _, _)
SpecRun(n, store, env) ==
    IF n \notin Configured THEN SFail
    ELSE IF n \in Saved \cup ReadOnly /\ store[n] # Absent THEN SOk(store[n])
    ELSE IF n \in ReadOnly THEN SFail
    ELSE IF n \in DOMAIN PrimKind
         THEN IF IsResult(env.prim[n]) THEN SOk(env.prim[n].data) ELSE SFail
    ELSE IF n \in DOMAIN Layers
    THEN LET ls == Layers[n]
             good == SelectSeq([i \in DOMAIN ls |-> SpecRun(ls[i], store, env)],
                               LAMBDA r : r.ok)
         IN  IF good = <<>> THEN SFail
             ELSE SOk([t \in SubTiles |-> FlattenSeq([i \in DOMAIN good |-> good[i].data[t]])])
    ELSE LET V == Vendors[n]
             Vendor(t) == IF env.cov[n][t] = Empty THEN "default"
                          ELSE IF env.cov[n][t] \in DOMAIN V THEN env.cov[n][t]
                          ELSE "missing"
             sub == [t \in SubTiles |-> SpecRun(V[Vendor(t)], store, env)]
         IN  IF \E t \in SubTiles : ~sub[t].ok THEN SFail
             ELSE SOk([t \in SubTiles |-> sub[t].data[t]])

-----------------------------------------------------------------------------
VARIABLES
    store,   \* style -> stored metatile, Absent when get_meta misses
    cov,     \* coverage type -> sub-tile -> the first name check answers
    ord,     \* iteration order of checkSubTiles' dictionary
    agree,   \* whether the last job's answer was the one spec 4.2 gives
    jobs     \* jobs rendered so far

vars == <<store, cov, ord, agree, jobs>>

Keys == Saved \cup ReadOnly
Roots == Configured

(* A read-only style's metatile, rendered elsewhere, is drawn by that   *)
(* style itself.                                                          *)
Painted(k) == [t \in SubTiles |-> <<k>>]

Init ==
    \* a read-only style may be stored already, a saved one is not yet
    /\ store \in {f \in [Keys -> {Absent} \cup {Painted(k) : k \in Keys}] :
                   \A k \in Keys : f[k] \in {Absent, Painted(k)} /\ (k \in Saved => f[k] = Absent)}
    \* checkSubTiles is deterministic for a metatile (spec 8.4)
    /\ cov \in [DOMAIN Vendors -> [SubTiles -> Names \cup {Empty}]]
    /\ ord \in {f \in [1..Cardinality(SubTiles) -> SubTiles] : Range(f) = SubTiles}
    /\ agree = TRUE
    /\ jobs = 0

(* The worker treats None, (None, None) and an exception alike: the job  *)
(* is ignored (worker.py).                                                 *)
Answer(o) == IF IsResult(o.res) THEN SOk(o.res.data) ELSE SFail

PrimChoices == [DOMAIN PrimKind -> UNION {Outcomes(s) : s \in DOMAIN PrimKind}]

(* One job: worker.py resolves the style, builds the Tile (tile.style =  *)
(* job.style) and calls renderer.process(tile).                            *)
Render(root) ==
    /\ jobs < MaxJobs
    /\ \E prim \in {p \in PrimChoices : \A s \in DOMAIN PrimKind : p[s] \in Outcomes(s)},
          putOk \in BOOLEAN :
         LET env == [prim |-> prim, putOk |-> putOk, cov |-> cov, ord |-> ord]
             o == Run(RendererFor(root), [ts |-> root, store |-> store], env)
         IN  /\ store' = o.st.store
             /\ agree' = (Answer(o) = SpecRun(root, store, env))
    /\ jobs' = jobs + 1
    /\ UNCHANGED <<cov, ord>>

Next == \E root \in Roots : Render(root)

Spec == Init /\ [][Next]_vars

-----------------------------------------------------------------------------
TypeOK ==
    /\ store \in [Keys -> [SubTiles -> Seq(DOMAIN PrimKind \cup ReadOnly)]]
    /\ agree \in BOOLEAN
    /\ jobs \in 0..MaxJobs

(* Whatever its primitives return and whatever the store holds, a job    *)
(* answers with data exactly when the spec's renderer tree produces data, *)
(* and with the same sub-tile images: the storage decorator's key, the    *)
(* composite's layer loop and the coverage dispatch and combine agree     *)
(* with spec 4.2.                                                          *)
Faithful == agree

====
