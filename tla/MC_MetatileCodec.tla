--------------------------- MODULE MC_MetatileCodec ---------------------------
EXTENDS MetatileCodec

(* One and two image formats, png256 sharing png's code.                  *)
MCFormatLists == {<<"png">>, <<"png256", "jpeg">>}
====
