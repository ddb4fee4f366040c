--------------------------- MODULE WorkerPipeline ---------------------------
(***************************************************************************)
(* The render worker loop of src/py/worker.py, run by several worker      *)
(* processes that share one broker and one metatile store.                *)
(*                                                                         *)
(* A worker fetches a job, resolves its style and tile, checks the store  *)
(* (unless the job is Dirty), renders through the style's renderer and    *)
(* acks the job back to the broker.  The renderer of a style is the one   *)
(* RendererFactory builds (src/py/renderer/factory.py): a primitive       *)
(* renderer, the same wrapped in the storage decorator                    *)
(* (src/py/renderer/storage.py) when the style is in saved_styles, or the *)
(* bare decorator with no backend when the style is in read_only_styles.  *)
(*                                                                         *)
(* The store is the tile_storage client, whose code is not under src/: it *)
(* is modelled from the spec (4.1 step 4, 4.2 storage decorator) as a     *)
(* metatile per (style, key) that is present or absent and expired or     *)
(* not.  Image data is abstracted to where it came from: "none", "cached" *)
(* (read from the store) or "rendered" (made by a primitive renderer).    *)
(***************************************************************************)
EXTENDS Naturals, Sequences, FiniteSets

CONSTANTS
    Workers,          \* worker processes (model values)
    JobIds,           \* identities of the jobs the broker hands out
    Keys,             \* metatile anchors (model values)
    PlainStyles,      \* configured, not saved: bare primitive renderer
    SavedStyles,      \* in saved_styles: storage decorator over a primitive
    ReadOnlyStyles,   \* in read_only_styles: storage decorator, no backend
    UnknownStyles,    \* styles a client may ask for that are not configured
    Coords,           \* coordinate classes a job can carry, see below
    GetMetaHonoursExpiry, \* does tile_storage.get_meta refuse expired blobs?
    MaxExpiries,      \* bound on metatiles expired by the storage node
    MemoryLimited,    \* is memory_limit_bytes configured?
    MaxCrashes,       \* bound on worker processes killed by a storage error
    NoJob

(* Coordinate classes.  "ok": 0 <= z <= 20 and x, y inside 2^z.  "deep":  *)
(* 21 <= z <= 30 and x, y inside 2^z, which check_xyz accepts but for      *)
(* which Tile() indexes past the 21-entry scales table.  "bad": outside    *)
(* the range check_xyz accepts.                                            *)
AllCoords == {"ok", "deep", "bad"}

ASSUME Coords \subseteq AllCoords
ASSUME GetMetaHonoursExpiry \in BOOLEAN
ASSUME MaxExpiries \in Nat
ASSUME MemoryLimited \in BOOLEAN /\ MaxCrashes \in Nat
ASSUME PlainStyles \cap SavedStyles = {} /\ PlainStyles \cap ReadOnlyStyles = {}
       /\ SavedStyles \cap ReadOnlyStyles = {}

Configured == PlainStyles \cup SavedStyles \cup ReadOnlyStyles
Styles     == Configured \cup UnknownStyles

(* dqueue.ProtoCommand values a job can carry. *)
Render == "Render"
RenderBulk == "RenderBulk"
Dirty == "Dirty"
Done == "Done"
Ignore == "Ignore"
Requests == {Render, RenderBulk, Dirty}
Statuses == Requests \cup {Done, Ignore}

(* Where the metatile a job carries, or would carry, came from: a live   *)
(* blob of the store, an expired one, or a primitive renderer.             *)
Sources == {"none", "cached", "stale", "rendered"}

(* A job: the request (req is the command the client sent, kept for the   *)
(* properties) and the fields the worker mutates, status and data.         *)
JobRec == [style: Styles, key: Keys, coord: Coords, req: Requests,
           status: Statuses, data: Sources]

VARIABLES
    pending,    \* jobs submitted to the broker and not yet fetched
    job,        \* job records, mutated by the worker that owns the job
    pc,         \* where each worker is in its loop
    wjob,       \* the job each worker holds
    src,        \* source of the worker's render result ("rendered" as soon
                \* as a primitive renderer is invoked)
    renderOk,   \* FALSE once renderer.process or its transcoding raised
    store,      \* tile_storage: (style, key) -> [present, expired]
    expiries,   \* number of expiries applied by the storage node
    acks,       \* history: the set of acks the broker received
    wrote,      \* history: the worker's job wrote its metatile to the store
    cachedAtFetch, \* history: the store held a live metatile for the job when
                  \* it was fetched, and it has not been expired since
    lost,       \* history: jobs held by a worker process that died
    crashes

vars == <<pending, job, pc, wjob, src, renderOk, store, expiries, acks,
          wrote, cachedAtFetch, lost, crashes>>

PCs == {"idle", "resolve", "check", "getmeta", "render", "primitive",
        "save", "finish", "notify", "ignored", "limit", "exited"}

AckRec == [id: JobIds, job: JobRec, src: Sources, wrote: BOOLEAN]

Live(s, k) == store[s, k].present /\ ~store[s, k].expired

-----------------------------------------------------------------------------
(* tile_storage (not under src/), modelled from the spec.                  *)

(* handle = storage.get(job); handle.exists() and not handle.expired()     *)
HandleLive(s, k) == Live(s, k)

(* storage.get_meta(job) returns a blob rather than None.                  *)
GetMeta(s, k) ==
    store[s, k].present /\ (GetMetaHonoursExpiry => ~store[s, k].expired)

(* What the blob get_meta returns is.                                      *)
MetaSource(s, k) == IF store[s, k].expired THEN "stale" ELSE "cached"

(* storage.put_meta(job, meta) succeeded: the blob is stored, and the     *)
(* storage node clears its expiry bit since Last-Modified is not the epoch.*)
PutMeta(s, k) ==
    store' = [store EXCEPT ![s, k] = [present |-> TRUE, expired |-> FALSE]]

-----------------------------------------------------------------------------
Init ==
    /\ pending = {}
    /\ job = [j \in JobIds |-> NoJob]
    /\ pc = [w \in Workers |-> "idle"]
    /\ wjob = [w \in Workers |-> NoJob]
    /\ src = [w \in Workers |-> "none"]
    /\ renderOk = [w \in Workers |-> TRUE]
    /\ store \in [Styles \X Keys -> [present: BOOLEAN, expired: BOOLEAN]]
    /\ \A s \in Styles, k \in Keys : store[s, k].expired => store[s, k].present
    /\ expiries = 0
    /\ acks = {}
    /\ wrote = [w \in Workers |-> FALSE]
    /\ cachedAtFetch = [w \in Workers |-> FALSE]
    /\ lost = {}
    /\ crashes = 0

(* A client submits a job request to the broker.                           *)
Submit(j) ==
    /\ job[j] = NoJob
    /\ \E s \in Styles, k \in Keys, c \in Coords, r \in Requests :
          job' = [job EXCEPT ![j] = [style |-> s, key |-> k, coord |-> c,
                                     req |-> r, status |-> r, data |-> "none"]]
    /\ pending' = pending \cup {j}
    /\ UNCHANGED <<pc, wjob, src, renderOk, store, expiries, acks, wrote,
                   cachedAtFetch, lost, crashes>>

(* The storage node dirties a stored metatile: a GET carrying a           *)
(* Last-Modified of the epoch sets its expiry bit.                         *)
Expire(s, k) ==
    /\ expiries < MaxExpiries
    /\ store[s, k].present
    /\ store' = [store EXCEPT ![s, k].expired = TRUE]
    /\ expiries' = expiries + 1
    /\ cachedAtFetch' = [w \in Workers |->
                           cachedAtFetch[w] /\
                           ~(wjob[w] # NoJob /\ job[wjob[w]].style = s
                                             /\ job[wjob[w]].key = k)]
    /\ UNCHANGED <<pending, job, pc, wjob, src, renderOk, acks, wrote, lost, crashes>>

-----------------------------------------------------------------------------
(* Worker steps.                                                           *)
J(w) == job[wjob[w]]

Goto(w, l) == pc' = [pc EXCEPT ![w] = l]

SetStatus(w, st) == job' = [job EXCEPT ![wjob[w]].status = st]

(* queue.get_job(); a "deadlock" error is retried and changes nothing.     *)
GetJob(w) ==
    /\ pc[w] = "idle"
    /\ \E j \in pending :
          /\ pending' = pending \ {j}
          /\ wjob' = [wjob EXCEPT ![w] = j]
          /\ cachedAtFetch' = [cachedAtFetch EXCEPT
                                 ![w] = Live(job[j].style, job[j].key)]
    /\ Goto(w, "resolve")
    /\ src' = [src EXCEPT ![w] = "none"]
    /\ renderOk' = [renderOk EXCEPT ![w] = TRUE]
    /\ wrote' = [wrote EXCEPT ![w] = FALSE]
    /\ UNCHANGED <<job, store, expiries, acks, lost, crashes>>

(* formats[job.style], Tile(job) and renderer_for(job.style) raise for an  *)
(* unconfigured style and, through scales[job.z] or 1 << job.z, for z < 0 *)
(* or z > 20; check_xyz then rejects the remaining bad coordinates.  Each *)
(* of these sends Ignore.  After an exception the loop continues straight *)
(* to the next job ("ignored"); after check_xyz it falls through to the   *)
(* end of the loop body.  A bad coordinate of a configured style may be   *)
(* either: Tile() raises for z outside 0..20, check_xyz catches x or y.   *)
ResolveIgnore(w) ==
    /\ pc[w] = "resolve"
    /\ J(w).style \notin Configured \/ J(w).coord \in {"deep", "bad"}
    /\ SetStatus(w, Ignore)
    /\ \E via \in {"ignored", "notify"} :
          /\ via = "notify" => J(w).style \in Configured /\ J(w).coord = "bad"
          /\ Goto(w, via)
    /\ UNCHANGED <<pending, wjob, src, renderOk, store, expiries, acks, wrote,
                   cachedAtFetch, lost, crashes>>

ResolveOk(w) ==
    /\ pc[w] = "resolve"
    /\ J(w).style \in Configured /\ J(w).coord = "ok"
    /\ Goto(w, "check")
    /\ UNCHANGED <<pending, job, wjob, src, renderOk, store, expiries, acks,
                   wrote, cachedAtFetch, lost, crashes>>

(* Mutant of Check: the cache-hit branch falls through to rendering.      *)
CheckNoCacheHit(w) ==
    /\ pc[w] = "check"
    /\ LET jb == J(w)
           exists == jb.status # Dirty /\ HandleLive(jb.style, jb.key)
       IN  \/ /\ exists /\ jb.status = RenderBulk
              /\ SetStatus(w, Ignore)
              /\ Goto(w, "notify")
           \/ /\ ~(exists /\ jb.status = RenderBulk)
              /\ Goto(w, "render")
              /\ UNCHANGED job
    /\ UNCHANGED <<pending, wjob, src, renderOk, store, expiries, acks, wrote,
                   cachedAtFetch, lost, crashes>>

Check(w) ==
    /\ pc[w] = "check"
    /\ LET jb == J(w)
           exists == jb.status # Dirty /\ HandleLive(jb.style, jb.key)
       IN  \/ /\ exists /\ jb.status # RenderBulk
              /\ Goto(w, "getmeta")
              /\ UNCHANGED job
           \/ /\ exists /\ jb.status = RenderBulk
              /\ SetStatus(w, Ignore)
              /\ Goto(w, "notify")
           \/ /\ ~exists
              /\ Goto(w, "render")
              /\ UNCHANGED job
    /\ UNCHANGED <<pending, wjob, src, renderOk, store, expiries, acks, wrote,
                   cachedAtFetch, lost, crashes>>

(* data = storage.get_meta(job): with a blob the job is ignored carrying  *)
(* it; without one tile_exists becomes False and the metatile is rendered.*)
GetMetaStep(w) ==
    /\ pc[w] = "getmeta"
    /\ LET s == J(w).style
           k == J(w).key
       IN  IF GetMeta(s, k)
           THEN /\ job' = [job EXCEPT ![wjob[w]].data = MetaSource(s, k),
                                      ![wjob[w]].status = Ignore]
                /\ Goto(w, "notify")
           ELSE /\ Goto(w, "render")
                /\ UNCHANGED job
    /\ UNCHANGED <<pending, wjob, src, renderOk, store, expiries, acks, wrote,
                   cachedAtFetch, lost, crashes>>

(* result = renderer.process(tile).  A plain style calls its primitive    *)
(* renderer.  The storage decorator first calls storage.get_meta and on a *)
(* hit returns the unpacked blob; on a miss with no backend it returns    *)
(* None, which the worker turns into an exception.                         *)
RenderStart(w) ==
    /\ pc[w] = "render"
    /\ LET s == J(w).style
           k == J(w).key
       IN  \/ /\ s \in PlainStyles
              /\ src' = [src EXCEPT ![w] = "rendered"]
              /\ \E ok \in BOOLEAN : renderOk' = [renderOk EXCEPT ![w] = ok]
              /\ Goto(w, "finish")
           \/ /\ s \in SavedStyles \cup ReadOnlyStyles
              /\ GetMeta(s, k)
              /\ src' = [src EXCEPT ![w] = MetaSource(s, k)]
              /\ Goto(w, "finish")
              /\ UNCHANGED renderOk
           \/ /\ s \in ReadOnlyStyles
              /\ ~GetMeta(s, k)
              /\ renderOk' = [renderOk EXCEPT ![w] = FALSE]
              /\ Goto(w, "finish")
              /\ UNCHANGED src
           \/ /\ s \in SavedStyles
              /\ ~GetMeta(s, k)
              /\ Goto(w, "primitive")
              /\ UNCHANGED <<src, renderOk>>
    /\ UNCHANGED <<pending, job, wjob, store, expiries, acks, wrote,
                   cachedAtFetch, lost, crashes>>

(* The decorator's backend renders and the result is transcoded; either  *)
(* may raise, which propagates to the worker.                              *)
Primitive(w) ==
    /\ pc[w] = "primitive"
    /\ src' = [src EXCEPT ![w] = "rendered"]
    /\ \/ Goto(w, "save") /\ UNCHANGED renderOk
       \/ Goto(w, "finish") /\ renderOk' = [renderOk EXCEPT ![w] = FALSE]
    /\ UNCHANGED <<pending, job, wjob, store, expiries, acks, wrote,
                   cachedAtFetch, lost, crashes>>

(* save_meta: storage.put_meta is best-effort; a failure is only logged.  *)
Save(w) ==
    /\ pc[w] = "save"
    /\ \/ /\ PutMeta(J(w).style, J(w).key)
          /\ wrote' = [wrote EXCEPT ![w] = TRUE]
       \/ UNCHANGED <<store, wrote>>
    /\ Goto(w, "finish")
    /\ UNCHANGED <<pending, job, wjob, src, renderOk, expiries, acks,
                   cachedAtFetch, lost, crashes>>

(* Mutant of Finish: notify only on success, as if the ack were inside   *)
(* the try block; a failed render leaves the worker stuck.                *)
FinishOnlyOk(w) ==
    /\ pc[w] = "finish"
    /\ renderOk[w]
    /\ job' = [job EXCEPT
                 ![wjob[w]].data = IF J(w).status \in {Dirty, RenderBulk}
                                   THEN @ ELSE src[w],
                 ![wjob[w]].status = Done]
    /\ Goto(w, "notify")
    /\ UNCHANGED <<pending, wjob, src, renderOk, store, expiries, acks, wrote,
                   cachedAtFetch, lost, crashes>>

(* Mutant of Finish: a successful render stores its result under the     *)
(* misspelt field satus, adding a field the job record does not have.     *)
FinishSatus(w) ==
    /\ pc[w] = "finish"
    /\ IF renderOk[w]
       THEN job' = [job EXCEPT ![wjob[w]] =
                      [f \in DOMAIN @ \cup {"satus"} |->
                         IF f = "satus" THEN Done ELSE @[f]]]
       ELSE UNCHANGED job
    /\ Goto(w, "notify")
    /\ UNCHANGED <<pending, wjob, src, renderOk, store, expiries, acks, wrote,
                   cachedAtFetch, lost, crashes>>

(* After a render: the packed metatile is attached unless the job is     *)
(* Dirty or RenderBulk, and the status becomes Done.  After an exception  *)
(* the code assigns job.satus, so the status the job came with is kept.   *)
Finish(w) ==
    /\ pc[w] = "finish"
    /\ IF renderOk[w]
       THEN job' = [job EXCEPT
                      ![wjob[w]].data = IF J(w).status \in {Dirty, RenderBulk}
                                        THEN @ ELSE src[w],
                      ![wjob[w]].status = Done]
       ELSE UNCHANGED job
    /\ Goto(w, "notify")
    /\ UNCHANGED <<pending, wjob, src, renderOk, store, expiries, acks, wrote,
                   cachedAtFetch, lost, crashes>>

(* notify(job, queue): retried while the broker reports a deadlock.  The  *)
(* ignore sent from the except branch is followed by continue; every     *)
(* other ack reaches the end of the loop body.                            *)
Notify(w) ==
    /\ pc[w] \in {"notify", "ignored"}
    /\ acks' = acks \cup {[id |-> wjob[w], job |-> J(w), src |-> src[w],
                            wrote |-> wrote[w]]}
    /\ wjob' = [wjob EXCEPT ![w] = NoJob]
    /\ Goto(w, IF pc[w] = "ignored" THEN "idle" ELSE "limit")
    /\ UNCHANGED <<pending, job, src, renderOk, store, expiries, wrote,
                   cachedAtFetch, lost, crashes>>

(* A mutant: the memory limit checked before the ack is sent.            *)
MemoryCheckBeforeNotify(w) ==
    /\ pc[w] \in {"limit", "notify"}
    /\ \/ /\ pc[w] = "limit"
          /\ Goto(w, "idle")
       \/ /\ MemoryLimited
          /\ Goto(w, "exited")
    /\ UNCHANGED <<pending, job, wjob, src, renderOk, store, expiries, acks,
                   wrote, cachedAtFetch, lost, crashes>>

(* The end of the loop body: gc.collect() every 10th job changes nothing *)
(* the model keeps; with memory_limit_bytes set, a virtual size over the *)
(* limit breaks out of the loop and the process exits, between jobs.     *)
MemoryCheck(w) ==
    /\ pc[w] = "limit"
    /\ \/ Goto(w, "idle")
       \/ /\ MemoryLimited
          /\ Goto(w, "exited")
    /\ UNCHANGED <<pending, job, wjob, src, renderOk, store, expiries, acks,
                   wrote, cachedAtFetch, lost, crashes>>

(* storage.get, handle.exists, handle.expired and storage.get_meta are   *)
(* called outside any try: an exception from the store ends the process  *)
(* with the job in hand, which is never acked.                            *)
StorageRaise(w) ==
    /\ pc[w] \in {"check", "getmeta"}
    /\ crashes < MaxCrashes
    /\ lost' = lost \cup {wjob[w]}
    /\ crashes' = crashes + 1
    /\ wjob' = [wjob EXCEPT ![w] = NoJob]
    /\ Goto(w, "exited")
    /\ UNCHANGED <<pending, job, src, renderOk, store, expiries, acks, wrote,
                   cachedAtFetch>>

(* The supervisor (spec 4.1 step 11: monit) starts an exited worker      *)
(* again; it comes back with an empty loop.                                *)
Restart(w) ==
    /\ pc[w] = "exited"
    /\ Goto(w, "idle")
    /\ UNCHANGED <<pending, job, wjob, src, renderOk, store, expiries, acks,
                   wrote, cachedAtFetch, lost, crashes>>

-----------------------------------------------------------------------------
WorkerStep(w) ==
    \/ GetJob(w) \/ ResolveIgnore(w) \/ ResolveOk(w) \/ Check(w)
    \/ GetMetaStep(w) \/ RenderStart(w) \/ Primitive(w) \/ Save(w)
    \/ Finish(w) \/ Notify(w) \/ MemoryCheck(w)

Next ==
    \/ \E j \in JobIds : Submit(j)
    \/ \E s \in Styles, k \in Keys : Expire(s, k)
    \/ \E w \in Workers : WorkerStep(w) \/ StorageRaise(w) \/ Restart(w)

(* Each worker is a process that keeps running its loop, and the         *)
(* supervisor keeps restarting it; clients and the storage node are not   *)
(* obliged to do anything, and neither is a raising store.               *)
Fairness == \A w \in Workers : WF_vars(WorkerStep(w)) /\ WF_vars(Restart(w))

Spec == Init /\ [][Next]_vars /\ Fairness

-----------------------------------------------------------------------------
(* Properties.                                                             *)

TypeOK ==
    /\ pending \subseteq JobIds
    /\ job \in [JobIds -> JobRec \cup {NoJob}]
    /\ pc \in [Workers -> PCs]
    /\ wjob \in [Workers -> JobIds \cup {NoJob}]
    /\ src \in [Workers -> Sources]
    /\ renderOk \in [Workers -> BOOLEAN]
    /\ store \in [Styles \X Keys -> [present: BOOLEAN, expired: BOOLEAN]]
    /\ expiries \in 0..MaxExpiries
    /\ acks \subseteq AckRec
    /\ wrote \in [Workers -> BOOLEAN]
    /\ cachedAtFetch \in [Workers -> BOOLEAN]
    /\ lost \subseteq JobIds
    /\ crashes \in 0..MaxCrashes

Acked(j) == \E a \in acks : a.id = j

(* Spec 8.8, idempotence: a Render job whose metatile was live in the     *)
(* store when a worker fetched it, and was not expired while the worker   *)
(* held it, never reaches a renderer, whatever the other workers write in *)
(* between (worker.py existence check, get_meta, storage decorator).      *)
NoRedundantRender ==
    \A w \in Workers :
        (wjob[w] # NoJob /\ J(w).req = Render /\ cachedAtFetch[w])
            => src[w] # "rendered"

EveryJobAcked ==
    \A j \in JobIds : (job[j] # NoJob) ~> (Acked(j) \/ j \in lost)

(* Spec 4.1, failure semantics: every ack tells the broker Done or Ignore. *)
AckStatusFinal ==
    \A a \in acks : a.job.status \in {Done, Ignore}

(* Spec 8.9: a Dirty job (client forced regeneration) that is acked Done  *)
(* was produced by a renderer, not read back from the store.               *)
DirtyRegenerates ==
    \A a \in acks :
        (a.job.req = Dirty /\ a.job.status = Done)
            => a.src = "rendered"

(* Spec 4.1 step 8: the metatile of a job acked Done reaches the client,  *)
(* inline in the ack or through the store.                                 *)
ResultDelivered ==
    \A a \in acks :
        a.job.status = Done
            => a.job.data # "none" \/ a.wrote
                \/ a.src \in {"cached", "stale"}
=============================================================================
