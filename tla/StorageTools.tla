---------------------------- MODULE StorageTools ----------------------------
(***************************************************************************)
(* The two batch tools over the tile store: py/copyTiles.py copies the     *)
(* metatiles of a list of tiles from the store of one worker configuration *)
(* to the store of another, and py/ltsTileCheck.py prints the lines of a   *)
(* list whose tile is not in a store.                                      *)
(*                                                                         *)
(* A worker configuration is [headers, type, formats, fmtopts]: the style  *)
(* headers of [worker] styles, each header's 'type' ("none" when the       *)
(* section or key is missing), the [formats] lists by style name, and per  *)
(* format name its 'pil_name', "none" when the section has none, or        *)
(* "nosection".  A store is the set of <<style, z, mx, my, code>> it holds.*)
(* tile_storage is not under src/; following spec 4.2 and 4.6 a metatile   *)
(* is read and written per format with a format mask, and a single tile is *)
(* found in the metatile that contains it.  A format mask, an OR of        *)
(* ProtoFormat bits, is the set of its bits.                               *)
(***************************************************************************)
EXTENDS Integers, Sequences

PROTO_FORMATS == [f \in {"png", "jpg", "jpeg", "json", "gif"} |->
                    CASE f = "png" -> "PNG" [] f = "json" -> "JSON"
                      [] f = "gif" -> "GIF" [] OTHER -> "JPEG"]

FORMAT_LOOKUP == [f \in {"png256", "png", "jpeg", "jpg", "gif", "json"} |->
                    CASE f \in {"png256", "png"} -> "PNG" [] f = "json" -> "JSON"
                      [] f = "gif" -> "GIF" [] OTHER -> "JPEG"]

(* loadConfig: sys.exit when a style header has no 'type', when [formats]  *)
(* has no list for it, or when one of its formats has no section; else    *)
(* each style's formats, pil_name replacing the format name where given.  *)
loadConfig(cfg) ==
    LET Elems(q) == {q[i] : i \in DOMAIN q}
        names == {cfg.type[cfg.headers[i]] : i \in DOMAIN cfg.headers}
        used == UNION {Elems(cfg.formats[s]) : s \in names \cap DOMAIN cfg.formats}
        Rename(f) == IF cfg.fmtopts[f] = "none" THEN f ELSE cfg.fmtopts[f]
    IN  IF "none" \in names \/ ~(names \subseteq DOMAIN cfg.formats)
           \/ \E f \in used : cfg.fmtopts[f] = "nosection"
        THEN [ok |-> FALSE]
        ELSE [ok |-> TRUE, styles |-> [s \in names |-> {Rename(f) : f \in Elems(cfg.formats[s])}]]

(* The styles of both configurations that share a format, with the        *)
(* formats they share.                                                     *)
copy_styles(src, dst) ==
    LET both == {s \in DOMAIN src \cap DOMAIN dst : src[s] \cap dst[s] # {}}
    IN  [s \in both |-> src[s] \cap dst[s]]

(* reduce(or, [PROTO_FORMATS[f] ...]): a name PROTO_FORMATS lacks raises   *)
(* KeyError (ok false).                                                    *)
FormatMask(fs) ==
    [ok |-> fs \subseteq DOMAIN PROTO_FORMATS, bits |-> {PROTO_FORMATS[f] : f \in fs \cap DOMAIN PROTO_FORMATS}]

(* A mutant: the line's own tile is requested.                             *)
AnchorNone(c) == c

(* tile.x = (x & ~7), tile.y = (y & ~7)                                    *)
Anchor(c) == c - (c % 8)

(* storage.get_meta(tile): the metatile of the mask's formats the store   *)
(* holds.                                                                  *)
get_meta(store, s, tz, mx, my, mask) == {c \in mask : <<s, tz, mx, my, c>> \in store}

(* storage.get(job).exists(): the tile is in a stored metatile of that    *)
(* format.                                                                 *)
exists(store, s, tz, tx, ty, c) == <<s, tz, tx - (tx % 8), ty - (ty % 8), c>> \in store

(* One (line, style) step of the copy loop.  A missing format raises      *)
(* KeyError; a put_meta that fails raises the string.  A raise ends the   *)
(* tool at line k.                                                         *)
CopyStep(acc, st) ==
    LET k == st[1]  l == st[2]  s == st[3] IN
    IF ~acc.ok THEN acc
    ELSE IF ~FormatMask(acc.cs[s]).ok THEN [acc EXCEPT !.ok = FALSE, !.at = k]
    ELSE LET mx == Anchor(l.x)  my == Anchor(l.y)
             meta == get_meta(acc.src, s, l.z, mx, my, FormatMask(acc.cs[s]).bits)
         IN  IF meta = {} THEN acc
             ELSE IF <<k, s>> \in acc.fails THEN [acc EXCEPT !.ok = FALSE, !.at = k]
             ELSE [acc EXCEPT !.dst = @ \cup {<<s, l.z, mx, my, c>> : c \in meta}]

RECURSIVE StyleFold(_, _, _, _)
StyleFold(acc, k, l, sts) ==
    IF sts = <<>> THEN acc ELSE StyleFold(CopyStep(acc, <<k, l, Head(sts)>>), k, l, Tail(sts))

(* The line loop: z, x, y = [int(x) ...] runs before the style loop, so a *)
(* line that is not three integers (l.ok false) ends the tool even when   *)
(* no style is copied.                                                     *)
RECURSIVE LineFold(_, _, _, _)
LineFold(acc, lines, k, sts) ==
    IF k > Len(lines) \/ ~acc.ok THEN acc
    ELSE IF ~lines[k].ok THEN [acc EXCEPT !.ok = FALSE, !.at = k]
    ELSE LineFold(StyleFold(acc, k, lines[k], sts), lines, k + 1, sts)

(* copyTiles main: both configurations loaded, then every line with every *)
(* copied style, in the dict's order ord.  fails holds the (line, style)  *)
(* steps whose put_meta fails; at is the line the tool stopped on.        *)
copyTiles(srcCfg, dstCfg, lines, ord, src, dst, fails) ==
    LET a == loadConfig(srcCfg)  b == loadConfig(dstCfg) IN
    IF ~a.ok \/ ~b.ok THEN [ok |-> FALSE, at |-> 0, dst |-> dst]
    ELSE LET cs == copy_styles(a.styles, b.styles)
             sts == SelectSeq(ord, LAMBDA s : s \in DOMAIN cs)
         IN  LineFold([ok |-> TRUE, at |-> Len(lines) + 1, dst |-> dst,
                       src |-> src, cs |-> cs, fails |-> fails], lines, 1, sts)

(* ltsTileCheck, one line split into [ok, style, z, x, y, ext], ok false  *)
(* when not five parts or not integers: such a line and an unknown        *)
(* extension are skipped; otherwise the line is printed when the store    *)
(* lacks the tile.                                                         *)
Reported(store, l) ==
    /\ l.ok
    /\ l.ext \in DOMAIN FORMAT_LOOKUP
    /\ ~exists(store, l.style, l.z, l.x, l.y, FORMAT_LOOKUP[l.ext])

(***************************************************************************)
(* Inputs.  Worker configurations: A renames png256 to png and has a      *)
(* second style; B stores map as png, jpg (pil_name jpeg) and json; C has *)
(* a style header without 'type'; D keeps png256 unrenamed.  At zoom zz,  *)
(* two lines in different metatiles where the grid has two, not at their *)
(* anchors, with and without a malformed line between them; source stores*)
(* over their metatiles.                                                   *)
(***************************************************************************)
TwoStyles == [h1 |-> "map", h2 |-> "sat"]
CfgA == [headers |-> <<"h1", "h2">>, type |-> TwoStyles,
         formats |-> [map |-> <<"png256", "json">>, sat |-> <<"jpeg">>],
         fmtopts |-> [png256 |-> "png", json |-> "none", jpeg |-> "none"]]
CfgB == [headers |-> <<"h1">>, type |-> [h1 |-> "map"],
         formats |-> [map |-> <<"png", "jpg", "json">>],
         fmtopts |-> [png |-> "none", jpg |-> "jpeg", json |-> "none"]]
CfgC == [CfgA EXCEPT !.type = [h1 |-> "map", h2 |-> "none"]]
CfgD == [headers |-> <<"h1", "h2">>, type |-> TwoStyles,
         formats |-> [map |-> <<"png256">>, sat |-> <<"gif">>],
         fmtopts |-> [png256 |-> "none", gif |-> "none"]]
ToolCfgs == {CfgA, CfgB, CfgC, CfgD}
Line(zz, tx, ty) == [ok |-> TRUE, z |-> zz, x |-> tx % 2^zz, y |-> ty % 2^zz]
BadLine == [ok |-> FALSE, z |-> 0, x |-> 0, y |-> 0]
CopyLists(zz) == {<<Line(zz, 9, 2), Line(zz, 1, 12)>>, <<Line(zz, 9, 2), BadLine, Line(zz, 1, 12)>>}
MetaOf(l) == <<l.z, l.x - (l.x % 8), l.y - (l.y % 8)>>
SrcPool(zz) ==
    LET m1 == MetaOf(Line(zz, 9, 2))  m2 == MetaOf(Line(zz, 1, 12)) IN
    {<<"map">> \o m1 \o <<"PNG">>, <<"map">> \o m1 \o <<"JSON">>, <<"map">> \o m2 \o <<"PNG">>,
     <<"sat">> \o m1 \o <<"JPEG">>, <<"sat">> \o m2 \o <<"GIF">>}
DstStores(zz) == {{}, {<<"map">> \o MetaOf(Line(zz, 1, 12)) \o <<"PNG">>}}
FailSets == {{}, {<<1, "map">>}, {<<2, "sat">>}}

(* The tile of a line and the far corner of its metatile in the grid.     *)
SubTiles(l) == {<<l.x, l.y>>, <<(l.x - (l.x % 8) + 7) % 2^l.z, (l.y - (l.y % 8) + 7) % 2^l.z>>}

CopyAt(zz) ==
    \A sc, dc \in ToolCfgs, lines \in CopyLists(zz), ord \in {<<"map", "sat">>, <<"sat", "map">>},
       src \in SUBSET SrcPool(zz), dst \in DstStores(zz), fails \in FailSets :
        LET r == copyTiles(sc, dc, lines, ord, src, dst, fails)
            cs == copy_styles(loadConfig(sc).styles, loadConfig(dc).styles)
        IN  /\ dst \subseteq r.dst /\ r.dst \subseteq dst \cup src
            /\ \A k \in 1..(r.at - 1) : \A s \in DOMAIN cs, e \in DOMAIN FORMAT_LOOKUP :
                 LET l == lines[k] IN
                 (l.ok /\ FORMAT_LOOKUP[e] \in FormatMask(cs[s]).bits) =>
                    \A t \in SubTiles(l) :
                       Reported(r.dst, [ok |-> TRUE, style |-> s, z |-> l.z, x |-> t[1], y |-> t[2], ext |-> e])
                       <=> ~exists(src \cup dst, s, l.z, t[1], t[2], FORMAT_LOOKUP[e])

(* The zooms the tile-addressing run visits.                               *)
CopyTable == [zz \in 0..7 |-> CopyAt(zz)]

====
