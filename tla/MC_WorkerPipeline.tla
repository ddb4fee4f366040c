------------------------- MODULE MC_WorkerPipeline -------------------------
(* Instantiation of WorkerPipeline for TLC: two workers, one metatile, one *)
(* style of each kind the factory builds plus one unknown style.          *)
EXTENDS WorkerPipeline, TLC

MCPlainStyles == {"plain"}
MCSavedStyles == {"saved"}
MCReadOnlyStyles == {"ro"}
MCUnknownStyles == {"unknown"}

(* Coordinates the worker accepts and ones check_xyz rejects.              *)
MCCoordsShallow == {"ok", "bad"}
(* The same plus 21 <= z <= 30.                                            *)
MCCoordsAll == {"ok", "deep", "bad"}

MCNoStyles == {}
(* Coordinates the worker accepts.                                         *)
MCCoordsOk == {"ok"}

WorkerSymmetry == Permutations(Workers) \cup Permutations(JobIds)
=============================================================================
