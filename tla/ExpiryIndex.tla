----------------------------- MODULE ExpiryIndex -----------------------------
(***************************************************************************)
(* What the expiry service promises its clients (spec 4.7, 5 and 8.10),   *)
(* one style's bit set seen through blocking calls.  A set_tile or        *)
(* get_tile call takes effect at most once, atomically, at some moment    *)
(* while the caller waits, and an answered call reports that effect.  A   *)
(* call may also fail (None or False); a failed set may still take effect *)
(* later, at most once.  The bits reach the disk copy only by a flush,    *)
(* and a crash of the service's host falls back to that copy.             *)
(***************************************************************************)
EXTENDS Naturals

CONSTANTS Clients, Idx

VARIABLES
    bits,      \* the bit of each metatile index, as the service sees it
    durable,   \* the bits as last flushed to disk
    pc,        \* "idle" or "wait" per client
    op,        \* the call a client makes: [cmd, idx, val]
    ret,       \* what the client's last call returned
    applied,   \* whether the waiting call took effect
    res,       \* the answer the call's effect produced, a failure before
    orphans    \* failed set calls that may still take effect

avars == <<bits, durable, pc, op, ret, applied, res, orphans>>

Ops == [cmd : {"S"}, idx : Idx, val : {0, 1}] \cup [cmd : {"G"}, idx : Idx, val : {0}]
Returns == {"ok", "failed", "expired", "fresh", "none"}

(* The answer of a call applied to the bits b.                            *)
Effect(o, b) == IF o.cmd = "S" THEN "ok" ELSE IF b[o.idx] = 1 THEN "expired" ELSE "fresh"
(* The answer of a failed call.                                           *)
Failure(o) == IF o.cmd = "S" THEN "failed" ELSE "none"

AInit ==
    /\ bits = [i \in Idx |-> 0]
    /\ durable = bits
    /\ pc = [c \in Clients |-> "idle"]
    /\ op = [c \in Clients |-> [cmd |-> "G", idx |-> CHOOSE i \in Idx : TRUE, val |-> 0]]
    /\ ret = [c \in Clients |-> "none"]
    /\ applied = [c \in Clients |-> FALSE]
    /\ res = [c \in Clients |-> "none"]
    /\ orphans = {}

ACall(c, o) ==
    /\ pc[c] = "idle"
    /\ pc' = [pc EXCEPT ![c] = "wait"]
    /\ op' = [op EXCEPT ![c] = o]
    /\ applied' = [applied EXCEPT ![c] = FALSE]
    /\ res' = [res EXCEPT ![c] = Failure(o)]
    /\ UNCHANGED <<bits, durable, ret, orphans>>

AApply(c) ==
    /\ pc[c] = "wait" /\ ~applied[c]
    /\ bits' = IF op[c].cmd = "S" THEN [bits EXCEPT ![op[c].idx] = op[c].val] ELSE bits
    /\ applied' = [applied EXCEPT ![c] = TRUE]
    /\ res' = [res EXCEPT ![c] = Effect(op[c], bits)]
    /\ UNCHANGED <<durable, pc, op, ret, orphans>>

AReturn(c) ==
    /\ pc[c] = "wait" /\ applied[c]
    /\ ret' = [ret EXCEPT ![c] = res[c]]
    /\ pc' = [pc EXCEPT ![c] = "idle"]
    /\ UNCHANGED <<bits, durable, op, applied, res, orphans>>

(* A failed call; a set that has not taken effect may still do so, or   *)
(* may be lost.                                                            *)
AFail(c) ==
    /\ pc[c] = "wait"
    /\ ret' = [ret EXCEPT ![c] = Failure(op[c])]
    /\ pc' = [pc EXCEPT ![c] = "idle"]
    /\ orphans' \in IF op[c].cmd = "S" /\ ~applied[c]
                    THEN {orphans, orphans \cup {op[c]}} ELSE {orphans}
    /\ UNCHANGED <<bits, durable, op, applied, res>>

AOrphan(o) ==
    /\ o \in orphans
    /\ bits' = [bits EXCEPT ![o.idx] = o.val]
    /\ orphans' \in {orphans, orphans \ {o}}
    /\ UNCHANGED <<durable, pc, op, ret, applied, res>>

AForget(o) ==
    /\ o \in orphans
    /\ orphans' = orphans \ {o}
    /\ UNCHANGED <<bits, durable, pc, op, ret, applied, res>>

AFlush ==
    /\ durable' = bits
    /\ UNCHANGED <<bits, pc, op, ret, applied, res, orphans>>

ACrash ==
    /\ bits' = durable
    /\ UNCHANGED <<durable, pc, op, ret, applied, res, orphans>>

ANext ==
    \/ \E c \in Clients :
          \/ \E o \in Ops : ACall(c, o)
          \/ AApply(c) \/ AReturn(c) \/ AFail(c)
    \/ \E o \in orphans : AOrphan(o) \/ AForget(o)
    \/ AFlush \/ ACrash

ASpec == AInit /\ [][ANext]_avars

====
