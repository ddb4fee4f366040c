--------------------------- MODULE MapwareRenderer ---------------------------
(***************************************************************************)
(* The external map-composition renderer, py/renderer/mapware.py:         *)
(* MapWareConfig, Renderer.__init__, stylize and process.                  *)
(*                                                                         *)
(* The native tiler is the state the renderer keeps between calls: the    *)
(* map state, the style name, the style strings and the POIs injected for *)
(* the next GetTile.  A style is [dt, style, zooms, search, complete]:    *)
(* search is the search path or "none", complete says it has every key    *)
(* the constructor asks for.  A search response is fetched or not (a      *)
(* network or JSON error), with its permutations, each well formed or not,*)
(* holding POIs [p1, complete, id]: p1 says the geocode is an address     *)
(* point, complete that it has every field AddPOI reads.  URLs are the    *)
(* search path they are formed from; the bbox part is the tile's.         *)
(***************************************************************************)
EXTENDS FeatureCutter

EmptyTiler == [state |-> "unset", name |-> "unset", styles |-> <<>>, pois |-> <<>>]

(* One server entry of MapWareConfig: an entry missing a key is skipped;  *)
(* 'map' and 'search' are kept; any other name reaches                    *)
(* print >> stderr, and stderr is not imported: the NameError aborts the  *)
(* configuration.                                                          *)
ServerStep(acc, sv) ==
    IF ~acc.ok \/ ~sv.complete THEN acc
    ELSE CASE sv.name = "map" -> [acc EXCEPT !.map = TRUE]
           [] sv.name = "search" -> [acc EXCEPT !.search = TRUE]
           [] OTHER -> [acc EXCEPT !.ok = FALSE]

RECURSIVE ServerFold(_, _)
ServerFold(acc, svs) == IF svs = <<>> THEN acc ELSE ServerFold(ServerStep(acc, Head(svs)), Tail(svs))

(* MapWareConfig(configFile): both servers or an exception; the styles    *)
(* that have every key, in order.                                          *)
MapWareConfig(cfg) ==
    LET s == ServerFold([ok |-> TRUE, map |-> FALSE, search |-> FALSE], cfg.servers)
    IN  [ok |-> s.ok /\ s.map /\ s.search, name |-> cfg.name,
         styles |-> SelectSeq(cfg.styles, LAMBDA st : st.complete)]

(* Renderer.__init__: searches[dt] is the search of the last style of    *)
(* that dt that has one.                                                   *)
Searches(styles) ==
    LET withSearch == {i \in DOMAIN styles : styles[i].search # "none"}
        dts == {styles[i].dt : i \in withSearch}
    IN  [d \in dts |-> styles[CHOOSE i \in withSearch :
                                 styles[i].dt = d /\ \A k \in withSearch : styles[k].dt = d => k <= i].search]

(* The POIs stylize injects from one response: the results of each        *)
(* permutation in order, skipping one that is not a P1 address point or  *)
(* misses a field (inner bare except); a permutation without 'search' or *)
(* 'results' ends the response (outer except, continue to the next style).*)
RECURSIVE Injected(_, _)
Injected(dt, perms) ==
    IF perms = <<>> \/ ~Head(perms).ok THEN <<>>
    ELSE LET rs == SelectSeq(Head(perms).results, LAMBDA p : p.p1 /\ p.complete)
         IN  [i \in DOMAIN rs |-> <<dt, rs[i].id>>] \o Injected(dt, Tail(perms))

(* A mutant: only the POIs are cleared before a tile is styled.          *)
ClearOnlyPOIs(t) == [t EXCEPT !.pois = <<>>]

(* tiler.ClearPOIs(); tiler.ClearStyleStrings()                             *)
Clear(t) == [t EXCEPT !.pois = <<>>, !.styles = <<>>]

(* One style of stylize: a style not drawn at the tile's zoom is skipped; *)
(* otherwise its style string is added, and when it has a search the      *)
(* response fetched from searches[dt] (urlopen and json.load are outside  *)
(* any try, so a failure leaves stylize) adds its POIs.                    *)
StyleStep(acc, st, searches, z, resp) ==
    IF ~acc.ok \/ z \notin st.zooms THEN acc
    ELSE LET t == [acc.tiler EXCEPT !.styles = Append(@, <<st.dt, st.style>>)] IN
         IF st.search = "none" THEN [acc EXCEPT !.tiler = t]
         ELSE LET r == resp[searches[st.dt]] IN
              IF ~r.fetched THEN [ok |-> FALSE, tiler |-> t]
              ELSE [ok |-> TRUE, tiler |-> [t EXCEPT !.pois = @ \o Injected(st.dt, r.perms)]]

RECURSIVE StyleFold(_, _, _, _, _)
StyleFold(acc, sts, searches, z, resp) ==
    IF sts = <<>> THEN acc
    ELSE StyleFold(StyleStep(acc, Head(sts), searches, z, resp), Tail(sts), searches, z, resp)

stylize(conf, tiler, z, resp) ==
    StyleFold([ok |-> TRUE, tiler |-> Clear(tiler)], conf.styles, Searches(conf.styles), z, resp)

(* process(tile): SetMapState and SetStyleName, stylize, then GetTile.    *)
(* A failure message, or metaData extractFeaturesMW rejects, raises; the *)
(* result is cut by from_image.  got is what GetTile returns:             *)
(* [failed, meta].  The tiler is the one GetTile renders from.            *)
process(conf, tile, z, tiler, resp, got) ==
    LET t0 == [tiler EXCEPT !.state = z, !.name = conf.name]
        s == stylize(conf, t0, z, resp)
        f == extractFeaturesMW(got.meta)
    IN  [ok |-> s.ok /\ ~got.failed /\ f.ok,
         tiler |-> s.tiler,
         drawn |-> s.ok,
         res |-> IF s.ok /\ ~got.failed /\ f.ok THEN Process(tile, f).res ELSE <<>>]

====
