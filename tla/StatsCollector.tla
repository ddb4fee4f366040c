---------------------------- MODULE StatsCollector ----------------------------
(***************************************************************************)
(* The storage node's request statistics: mqStats.stat_inc in the node's  *)
(* request threads packs a table letter and a duration into a '!cI'       *)
(* datagram; the collector (stats_collector/server.py) appends each one   *)
(* it receives, stamped with its clock, to the table's history, drops     *)
(* history older than KEEP_PERIOD every FLUSH_PERIOD, and on every TCP    *)
(* connection reports count, mean and deviation of three windows,         *)
(* computed by Welford's online update in Stats.make.                     *)
(*                                                                         *)
(* The collector runs on one Twisted reactor, so a datagram, a flush and  *)
(* a report are atomic steps.  UDP may lose and reorder datagrams.  The   *)
(* float arithmetic of make is modelled exactly, as rationals, and the    *)
(* deviation by its square; times are abstract ticks that keep the order *)
(* of the windows (5 s < 5 min = FLUSH_PERIOD < 60 min = KEEP_PERIOD).    *)
(***************************************************************************)
EXTENDS Integers, Sequences, Bags, BagsExt

CONSTANTS
    Durations,     \* usec_diff of a request: wall-clock time, may be negative
    UIntMax,       \* the largest value of struct format 'I'
    Windows,       \* report name -> how far back it looks
    KEEP_PERIOD,
    FLUSH_PERIOD,
    MaxTime,       \* bound on the collector's clock
    MaxCalls       \* bound on stat_inc calls

Tables == {"g", "p"}

(* update_get / update_post: the table is the first letter of its name.  *)
TableOf == [gets |-> "g", posts |-> "p"]

(* Rationals: Python's float arithmetic in make, taken exactly.          *)
Rat(n, d) == [num |-> n, den |-> d]
Int2Rat(x) == Rat(x, 1)
RAdd(a, b) == Rat(a.num * b.den + b.num * a.den, a.den * b.den)
RSub(a, b) == Rat(a.num * b.den - b.num * a.den, a.den * b.den)
RMul(a, b) == Rat(a.num * b.num, a.den * b.den)
RDivInt(a, k) == Rat(a.num, a.den * k)
REq(a, b) == a.num * b.den = b.num * a.den

(* struct.pack('!cI', ...) raises unless the duration fits 'I'.            *)
Packs(usec) == 0 <= usec /\ usec <= UIntMax

VARIABLES
    stats,     \* Stats.stats: table -> sequence of <<time, usec>>
    net,       \* bag of datagrams <<table, usec>> in flight
    clock,     \* the collector's datetime.now()
    due,       \* when the LoopingCall next runs StatsFlusher
    calls      \* stat_inc calls made

vars == <<stats, net, clock, due, calls>>

Init ==
    /\ stats = [t \in Tables |-> <<>>]
    /\ net = EmptyBag
    /\ clock = 0
    /\ due = 0
    /\ calls = 0

-----------------------------------------------------------------------------
(* mqStats.stat_inc: pack, then sendto under the mutex; a duration that  *)
(* does not pack raises to the request handler and nothing is sent.       *)
stat_inc(name, usec) ==
    /\ calls < MaxCalls
    /\ calls' = calls + 1
    /\ net' = IF Packs(usec) THEN BagAdd(net, <<TableOf[name], usec>>) ELSE net
    /\ UNCHANGED <<stats, clock, due>>

(* Stats.add: the entry, stamped with now, at the end of the table.      *)
add(st, table, now, usec) == [st EXCEPT ![table] = Append(@, <<now, usec>>)]

(* StatsUDP.datagramReceived: unpack and Stats.add.                       *)
datagramReceived(m) ==
    /\ net' = BagRemove(net, m)
    /\ stats' = add(stats, m[1], clock, m[2])
    /\ UNCHANGED <<clock, due, calls>>

(* A mutant: the cut-off taken from FLUSH_PERIOD, not KEEP_PERIOD.        *)
flushByPeriod(st, now) ==
    [t \in Tables |-> SelectSeq(st[t], LAMBDA x : x[1] >= now - FLUSH_PERIOD)]

(* Stats.flush: keep the entries at or after now - KEEP_PERIOD.           *)
flush(st, now) ==
    [t \in Tables |-> SelectSeq(st[t], LAMBDA x : x[1] >= now - KEEP_PERIOD)]

(* The LoopingCall, when due, calls StatsFlusher; the next call is the    *)
(* next multiple of the period after now (missed intervals are skipped).  *)
StatsFlusher ==
    /\ clock >= due
    /\ stats' = flush(stats, clock)
    /\ due' = (clock \div FLUSH_PERIOD + 1) * FLUSH_PERIOD
    /\ UNCHANGED <<net, clock, calls>>

(* UDP drops a datagram.                                                   *)
Lose(m) ==
    /\ net' = BagRemove(net, m)
    /\ UNCHANGED <<stats, clock, due, calls>>

(* Time passes on the collector.                                           *)
Tick ==
    /\ clock < MaxTime
    /\ clock' = clock + 1
    /\ UNCHANGED <<stats, net, due, calls>>

Next ==
    \/ \E name \in DOMAIN TableOf, usec \in Durations : stat_inc(name, usec)
    \/ \E m \in BagToSet(net) : datagramReceived(m) \/ Lose(m)
    \/ StatsFlusher
    \/ Tick

Spec == Init /\ [][Next]_vars

-----------------------------------------------------------------------------
(* One step of the loop of Stats.make: entry e after t0 updates the count *)
(* n, the running mean a and the running sum of squares q.                *)
Fresh == [n |-> 0, a |-> Int2Rat(0), q |-> Int2Rat(0)]

(* A mutant of the step: q updated with the new mean on both sides.       *)
WelfordNewMeanTwice(acc, e, t0) ==
    IF e[1] > t0
    THEN LET n == acc.n + 1
             x == Int2Rat(e[2])
             an == RAdd(acc.a, RDivInt(RSub(x, acc.a), n))
         IN  [n |-> n, a |-> an, q |-> RAdd(acc.q, RMul(RSub(x, an), RSub(x, an)))]
    ELSE acc

WelfordStep(acc, e, t0) ==
    IF e[1] > t0
    THEN LET n == acc.n + 1
             x == Int2Rat(e[2])
             an == RAdd(acc.a, RDivInt(RSub(x, acc.a), n))
         IN  [n |-> n, a |-> an, q |-> RAdd(acc.q, RMul(RSub(x, an), RSub(x, acc.a)))]
    ELSE acc

RECURSIVE Welford(_, _, _)
Welford(acc, es, t0) ==
    IF es = <<>> THEN acc ELSE Welford(WelfordStep(acc, Head(es), t0), Tail(es), t0)

(* Stats.make(table, time, t0) over st = self.stats: var is dev squared, *)
(* q / (n - 1), and 0 for fewer than two entries.                          *)
make(st, table, t0) ==
    LET r == Welford(Fresh, st[table], t0)
    IN  [n |-> r.n, avg |-> r.a, var |-> IF r.n > 1 THEN RDivInt(r.q, r.n - 1) ELSE Int2Rat(0)]

(* StatsTCP.connectionMade on stats st at time now: the reports of both  *)
(* tables over every window.                                               *)
connectionMade(st, now) == [t \in Tables, w \in DOMAIN Windows |-> make(st, t, now - Windows[w])]

-----------------------------------------------------------------------------
(* The textbook mean and sample variance of the usec values after t0.     *)
InWindow(table, t0) == [i \in 1..Len(SelectSeq(stats[table], LAMBDA e : e[1] > t0)) |->
                           SelectSeq(stats[table], LAMBDA e : e[1] > t0)[i][2]]
RECURSIVE SumOf(_)
SumOf(xs) == IF xs = <<>> THEN 0 ELSE Head(xs) + SumOf(Tail(xs))
SquaresOf(xs) == [i \in DOMAIN xs |-> xs[i] * xs[i]]

(* What a TCP client reads is the count, mean and variance of the usec   *)
(* values the collector holds for each table and window: Welford's        *)
(* running mean and sum of squares in Stats.make agree with the sums      *)
(* n*avg = S and (n-1)*var = S2 - S^2/n, whatever the order the datagrams *)
(* arrived in.                                                             *)
ReportIsMeanAndVariance ==
    \A t \in Tables, w \in DOMAIN Windows :
        LET xs == InWindow(t, clock - Windows[w])
            n == Len(xs)
            r == connectionMade(stats, clock)[t, w]
        IN  /\ r.n = n
            /\ REq(RMul(r.avg, Int2Rat(n)), Int2Rat(SumOf(xs)))
            /\ n > 1 => REq(RMul(r.var, Int2Rat(n * (n - 1))),
                            Int2Rat(n * SumOf(SquaresOf(xs)) - SumOf(xs) * SumOf(xs)))

(* A flush never changes a report: Stats.flush keeps every entry that the *)
(* longest window of StatsTCP ('hour', t > now - 60 min) still counts.    *)
FlushKeepsReports ==
    [][StatsFlusher => connectionMade(stats', clock') = connectionMade(stats, clock)]_vars

====
