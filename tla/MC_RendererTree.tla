--------------------------- MODULE MC_RendererTree ---------------------------
(* A worker configuration with every kind of renderer: a mapnik style, a *)
(* terrain and a saved aerial style, a saved composite of two read-only  *)
(* layers, and a saved coverage style dispatching to a mapnik and a      *)
(* mapware style.                                                         *)
EXTENDS RendererTree

CONSTANTS m1, m2, ter, aer, sat, ovl, hyb, map, a, b

MCSubTiles == {a, b}
MCNames == {"nt", "osm", "xx"}

MCPrimKind == (m1 :> "mapnik") @@ (m2 :> "mapware") @@ (ter :> "terrain") @@ (aer :> "aerial")
MCLayers == hyb :> <<sat, ovl>>
(* 'default' and 'missing' name the same style here *)
MCVendors == map :> [n \in {"nt", "osm", "default", "missing"} |->
                        IF n = "osm" THEN m2 ELSE m1]
MCVendorsSplit == map :> [n \in {"nt", "osm", "default", "missing"} |->
                        IF n \in {"osm", "missing"} THEN m2 ELSE m1]
MCSaved == {aer, hyb, map}
(* the coverage's sub-styles saved as well *)
MCSavedSubStyles == {aer, hyb, map, m1, m2}
(* a composite whose upper layer is rendered *)
MCLayersRendered == hyb :> <<sat, m1>>
MCReadOnly == {sat, ovl}
====
