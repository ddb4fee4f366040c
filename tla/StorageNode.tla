----------------------------- MODULE StorageNode -----------------------------
(***************************************************************************)
(* The storage node's tile controller, MercatorTilesController.           *)
(* process_tile_request (controllers/mercator_tiles.py), over the files   *)
(* of one metatile in several styles (lib/mqCache.py) and the metatile's  *)
(* expiry bit per style (lib/mqExpiry.py client, expiry_info/server.py).  *)
(*                                                                         *)
(* Request threads of the Pylons process run concurrently; each step      *)
(* below is one file-system or expiry-service call of the handler.  A     *)
(* file's content is abstracted to whether it is expired: `expired` is    *)
(* the meaning the requests give the stored content (a POST with an      *)
(* epoch Last-Modified stores expired content; a GET with a Last-Modified  *)
(* header expires or refreshes the whole metatile of the styles it       *)
(* names), and the properties ask whether what the node reports agrees.  *)
(***************************************************************************)
EXTENDS Naturals, Sequences, FiniteSets

CONSTANTS
    Threads,          \* request threads of the node
    Styles,           \* tile types (styles) with files under the cache root
    Tiles,            \* tiles of one metatile
    MaxRequests,      \* bound on requests served
    StatsMayFail,     \* mqStats.stat_inc may raise (socket or struct error)
    DiskMayFail,      \* mqCache.put may fail writing or renaming its temp file
    AlsoExpireAdds    \* the meaning of X-Also-Expire: added to (spec 4.6)
                      \* or replacing (code) the requested style

NoFile == "absent"

(* Last-Modified header of a request: absent, the epoch, or a real time.  *)
LMs == {"none", "epoch", "fresh"}

(* mtime a file can have: the epoch or a real time.                        *)
MTimes == {"epoch", "fresh"}

(* Sequences of distinct elements of S, in any order.                      *)
Orders(S) == {f \in [1..Cardinality(S) -> S] : \A i, j \in DOMAIN f :
                  i # j => f[i] # f[j]}
(* The file parts of a POST, in the order request.params yields them.    *)
(* The render workers store whole metatiles, one part per tile; a POST of *)
(* fewer tiles would set the metatile's bit for tiles it does not carry.  *)
Parts == Orders(Tiles)

PostReqs == [kind: {"POST"}, style: Styles, parts: Parts, lm: LMs]
GetReqs  == [kind: {"GET"}, style: Styles, tile: Tiles, lm: LMs,
             also: {<<>>} \cup {<<s>> : s \in Styles}]

VARIABLES
    file,       \* (style, tile) -> NoFile or the file's mtime
    bit,        \* style -> the metatile's expiry bit in the service
    expired,    \* (style, tile) -> the stored content is expired
    pc,         \* thread -> step of its request
    req,        \* thread -> request being served
    k,          \* thread -> index of the current part / expire style
    served,     \* number of requests accepted
    status      \* thread -> HTTP status of its last response, 0 before any

vars == <<file, bit, expired, pc, req, k, served, status>>

(* The exceptions a step of process_tile_request can end the request      *)
(* with: stat_inc re-raises socket.error (an IOError) or struct.error;    *)
(* a failed write of put's temp file raises IOError, a failed rename      *)
(* OSError; a missing tile raises URLError.                                *)
StatsErrors == {"socket.error", "struct.error"}
DiskErrors == {"IOError", "OSError"}

-----------------------------------------------------------------------------
(* serve_tile: the response status for the exception, "none" if the       *)
(* request returned.  `except IOError, OSError:` catches IOError only     *)
(* (it binds the exception to the name OSError), so an OSError reaches    *)
(* the bare except.  A URLError here never says 'timed out'.              *)
serve_tile(e) ==
    CASE e = "none"         -> 200
      [] e = "URLError"     -> 404
      [] e = "IOError"      -> 502
      [] e = "socket.error" -> 502
      [] OTHER              -> 503

(* mqCache.is_available, and get, which reads the file if it exists.       *)
is_available(s, t) == file[s, t] # NoFile
get(s, t) == IF is_available(s, t) THEN "bytes" ELSE "None"

(* mqCache.get_modified_time: the mtime, None (NoFile) for no file.       *)
get_modified_time(s, t) == IF is_available(s, t) THEN file[s, t] ELSE NoFile

(* set_modified_time: os.utime if the file exists, else nothing.           *)
SetModifiedTime(s, t, m) ==
    file' = IF ~is_available(s, t) THEN file
            ELSE [file EXCEPT ![s, t] = m]

(* Mutant of Stamp: the header's value is used even when there is none.   *)
StampNoDefault(lm) == lm

(* secondsFromEpoch: the header's time, or utcnow when it is absent.       *)
Stamp(lm) == IF lm = "epoch" THEN "epoch" ELSE "fresh"

(* mqExpiryInfo.set_tile(..., secondsFromEpoch == EPOCH), answered by the  *)
(* service.  (A lost datagram makes it return False, which the handler    *)
(* only logs; the ExpiryUDP module models that exchange.)                  *)
SetTile(s, lm) == bit' = [bit EXCEPT ![s] = (Stamp(lm) = "epoch")]

(* lastModifiedTime: EPOCH when get_tile says expired, else the file      *)
(* mtime (also when get_tile returns None).                                *)
Reported(s, t) == IF bit[s] THEN "epoch" ELSE get_modified_time(s, t)

(* The styles a GET with a Last-Modified header names.                     *)
ExpireStyles(r) == IF r.also = <<>> THEN <<r.style>> ELSE r.also

(* The styles it is meant to expire.                                       *)
MeantStyles(r) ==
    IF AlsoExpireAdds THEN {r.style} \cup {r.also[i] : i \in DOMAIN r.also}
    ELSE {ExpireStyles(r)[i] : i \in DOMAIN ExpireStyles(r)}

Goto(th, l) == pc' = [pc EXCEPT ![th] = l]

(* The request ends: serve_tile answers for exception e.                   *)
Finish(th, e) == Goto(th, "idle") /\ status' = [status EXCEPT ![th] = serve_tile(e)]

(* What a stat_inc call ends with.                                         *)
StatsOutcomes == {"none"} \cup (IF StatsMayFail THEN StatsErrors ELSE {})

Init ==
    /\ file \in [Styles \X Tiles -> {NoFile} \cup MTimes]
    /\ bit \in [Styles -> BOOLEAN]
    /\ expired = [p \in Styles \X Tiles |->
                    file[p] # NoFile /\ (bit[p[1]] \/ file[p] = "epoch")]
    /\ pc = [th \in Threads |-> "idle"]
    /\ req = [th \in Threads |-> NoFile]
    /\ k = [th \in Threads |-> 1]
    /\ served = 0
    /\ status = [th \in Threads |-> 0]

-----------------------------------------------------------------------------
(* A request reaches an idle thread.                                       *)
Accept(th) ==
    /\ pc[th] = "idle"
    /\ served < MaxRequests
    /\ \E r \in PostReqs \cup GetReqs :
          /\ req' = [req EXCEPT ![th] = r]
          /\ Goto(th, IF r.kind = "POST" THEN "put" ELSE "read")
    /\ k' = [k EXCEPT ![th] = 1]
    /\ served' = served + 1
    /\ UNCHANGED <<file, bit, expired, status>>

(* POST, one file part: objCache.put writes a temp file named after the   *)
(* process and thread and renames it over the tile, so the file is       *)
(* replaced whole, with the time of the write as its mtime.  A failed     *)
(* write or rename leaves the tile as it was and ends the request.        *)
Put(th) ==
    /\ pc[th] = "put"
    /\ \/ /\ LET r == req[th]
                 t == r.parts[k[th]]
             IN  /\ file' = [file EXCEPT ![r.style, t] = "fresh"]
                 /\ expired' = [expired EXCEPT ![r.style, t] = (r.lm = "epoch")]
          /\ Goto(th, "pstats")
          /\ UNCHANGED status
       \/ /\ DiskMayFail
          /\ \E e \in DiskErrors : Finish(th, e)
          /\ UNCHANGED <<file, expired>>
    /\ UNCHANGED <<bit, req, k, served>>

(* getStats().update_post: stat_inc re-raises any error, which ends the  *)
(* handler before the part's mtime and expiry are recorded and before    *)
(* the remaining parts are stored.                                         *)
PostStats(th) ==
    /\ pc[th] = "pstats"
    /\ \E e \in StatsOutcomes :
          IF e = "none" THEN Goto(th, "putime") /\ UNCHANGED status
          ELSE Finish(th, e)
    /\ UNCHANGED <<file, bit, expired, req, k, served>>

(* objCache.set_modified_time(tile, secondsFromEpoch).                      *)
PostUtime(th) ==
    /\ pc[th] = "putime"
    /\ LET r == req[th] IN SetModifiedTime(r.style, r.parts[k[th]], Stamp(r.lm))
    /\ Goto(th, "pexpiry")
    /\ UNCHANGED <<bit, expired, req, k, served, status>>

(* getExpiry().set_tile(..., secondsFromEpoch == EPOCH), then the next     *)
(* part of the multipart body; after the last, the POST answers 200.      *)
PostExpiry(th) ==
    /\ pc[th] = "pexpiry"
    /\ SetTile(req[th].style, req[th].lm)
    /\ IF k[th] < Len(req[th].parts)
       THEN /\ k' = [k EXCEPT ![th] = @ + 1]
            /\ Goto(th, "put")
            /\ UNCHANGED status
       ELSE /\ Finish(th, "none")
            /\ UNCHANGED k
    /\ UNCHANGED <<file, expired, req, served>>

(* GET: objCache.get; for a missing file update_get, then URLError.       *)
(* Without a Last-Modified header, strptime raises and the expiry block   *)
(* is skipped.                                                             *)
Read(th) ==
    /\ pc[th] = "read"
    /\ LET r == req[th] IN
       IF get(r.style, r.tile) = "None"
       THEN \E e \in StatsOutcomes : Finish(th, IF e = "none" THEN "URLError" ELSE e)
       ELSE /\ Goto(th, IF r.lm = "none" THEN "respond" ELSE "gutime")
            /\ UNCHANGED status
    /\ UNCHANGED <<file, bit, expired, req, k, served>>

(* Mutant of GetSetTile: the bit of the requested tile's style is set     *)
(* instead of that of the style being expired.                             *)
GetSetTileOwnStyle(th) ==
    /\ pc[th] = "gsettile"
    /\ LET r == req[th] IN
       /\ SetTile(r.style, r.lm)
       /\ IF k[th] < Len(ExpireStyles(r))
          THEN /\ k' = [k EXCEPT ![th] = @ + 1]
               /\ Goto(th, "gutime")
               /\ UNCHANGED expired
          ELSE /\ expired' = [p \in Styles \X Tiles |->
                                IF p[1] \in MeantStyles(r) /\ file[p] # NoFile
                                THEN r.lm = "epoch" ELSE expired[p]]
               /\ Goto(th, "respond")
               /\ UNCHANGED k
    /\ UNCHANGED <<file, req, served, status>>

(* For each style of expire_styles: set_modified_time of that style's     *)
(* copy of the tile ...                                                     *)
GetUtime(th) ==
    /\ pc[th] = "gutime"
    /\ LET r == req[th]
       IN  SetModifiedTime(ExpireStyles(r)[k[th]], r.tile, Stamp(r.lm))
    /\ Goto(th, "gsettile")
    /\ UNCHANGED <<bit, expired, req, k, served, status>>

(* ... and set_tile of that style's metatile.  When the last style is     *)
(* done the request has expired (or refreshed) what it names.              *)
GetSetTile(th) ==
    /\ pc[th] = "gsettile"
    /\ LET r == req[th] IN
       /\ SetTile(ExpireStyles(r)[k[th]], r.lm)
       /\ IF k[th] < Len(ExpireStyles(r))
          THEN /\ k' = [k EXCEPT ![th] = @ + 1]
               /\ Goto(th, "gutime")
               /\ UNCHANGED expired
          ELSE /\ expired' = [p \in Styles \X Tiles |->
                                IF p[1] \in MeantStyles(r) /\ file[p] # NoFile
                                THEN r.lm = "epoch" ELSE expired[p]]
               /\ Goto(th, "respond")
               /\ UNCHANGED k
    /\ UNCHANGED <<file, req, served, status>>

(* update_get (which may raise) and lastModifiedTime for the reply.       *)
Respond(th) ==
    /\ pc[th] = "respond"
    /\ \E e \in StatsOutcomes : Finish(th, e)
    /\ UNCHANGED <<file, bit, expired, req, k, served>>

-----------------------------------------------------------------------------
Next ==
    \E th \in Threads :
        \/ Accept(th) \/ Put(th) \/ PostStats(th) \/ PostUtime(th)
        \/ PostExpiry(th) \/ Read(th) \/ GetUtime(th) \/ GetSetTile(th)
        \/ Respond(th)

Spec == Init /\ [][Next]_vars

-----------------------------------------------------------------------------
TypeOK ==
    /\ file \in [Styles \X Tiles -> {NoFile} \cup MTimes]
    /\ bit \in [Styles -> BOOLEAN]
    /\ expired \in [Styles \X Tiles -> BOOLEAN]
    /\ pc \in [Threads -> {"idle", "put", "pstats", "putime", "pexpiry",
                           "read", "gutime", "gsettile", "respond"}]
    /\ served \in 0..MaxRequests
    /\ status \in [Threads -> {0, 200, 404, 502, 503}]

(* Spec 4.6, expiry: once no request is in flight, every tile whose      *)
(* stored content is expired is reported with Last-Modified 1970 by       *)
(* lastModifiedTime, so upstream caches and workers re-render it.          *)
ExpiryConsistent ==
    (\A th \in Threads : pc[th] = "idle") =>
        \A p \in Styles \X Tiles :
            expired[p] => Reported(p[1], p[2]) = "epoch"
====
