------------------------------ MODULE ExpiryUDP ------------------------------
(***************************************************************************)
(* The expiry client of the storage node (lib/mqExpiry.py, mqExpiryInfo)   *)
(* talking over UDP to the expiry service (expiry_info/server.py) about   *)
(* one style's bit file.                                                   *)
(*                                                                         *)
(* Each client object serialises its calls with its mutex, so a client    *)
(* has at most one request outstanding.  _basic_req sends a datagram on   *)
(* the client's socket and waits 0.2 s for a reply; on a timeout it closes *)
(* the socket and opens a new one, so a late reply, sent to the old port, *)
(* is discarded by the host.  The network loses and reorders datagrams    *)
(* (duplication is not modelled).  The service answers each datagram      *)
(* in turn from its memory-mapped bits; every 5 s InfoFlusher fsyncs them *)
(* and a crash of its host falls back to the last fsync.                  *)
(***************************************************************************)
EXTENDS Naturals, Bags, BagsExt

CONSTANTS
    Clients,    \* mqExpiryInfo objects, one per storage node process
    Idx,        \* metatile indices the clients ask about
    MaxIdx,     \* the service's max_idx: its file holds bits 0 .. MaxIdx - 1
    MaxCalls,   \* bound on calls of all clients
    MaxCrash    \* bound on crashes of the service's host

VARIABLES
    mem,        \* the mmapped bits
    disk,       \* the bits as on disk after the last fsync
    pc,         \* "idle" or "wait" per client
    op,         \* the client's current call: [cmd, idx, val]
    ret,        \* what the client's last call returned
    sock,       \* generation of the client's socket (its local port)
    net,        \* bag of datagrams in flight
    served,     \* whether the service answered the current request
    answer,     \* the reply body the service sent to the current request
    calls, crashes

vars == <<mem, disk, pc, op, ret, sock, net, served, answer, calls, crashes>>

Ops == [cmd : {"S"}, idx : Idx, val : {0, 1}] \cup [cmd : {"G"}, idx : Idx, val : {0}]
Bodies == {"OK", "ERR", "b0", "b1"}

(* One datagram shape for both directions: a request carries the call,  *)
(* a reply its body; both name the client's socket.                       *)
Req(c, g, o) == [type |-> "req", client |-> c, port |-> g, cmd |-> o.cmd,
                 idx |-> o.idx, val |-> o.val, body |-> "none"]
Rep(m, body) == [m EXCEPT !.type = "rep", !.body = body]

(* get_tile and set_tile reading the reply: 'ERR' or no reply is None,   *)
(* any other reply of a get is unpacked as one byte ('OK' raises         *)
(* struct.error); a set succeeded iff the reply is 'OK'.                  *)
Interpret(cmd, body) ==
    IF cmd = "S" THEN IF body = "OK" THEN "ok" ELSE "failed"
    ELSE CASE body = "ERR" -> "none"
           [] body = "OK"  -> "raise"
           [] body = "b1"  -> "expired"
           [] body = "b0"  -> "fresh"

Init ==
    /\ mem = [i \in Idx |-> 0]
    /\ disk = mem
    /\ pc = [c \in Clients |-> "idle"]
    /\ op = [c \in Clients |-> [cmd |-> "G", idx |-> CHOOSE i \in Idx : TRUE, val |-> 0]]
    /\ ret = [c \in Clients |-> "none"]
    /\ sock = [c \in Clients |-> 0]
    /\ net = EmptyBag
    /\ served = [c \in Clients |-> FALSE]
    /\ answer = [c \in Clients |-> "ERR"]
    /\ calls = 0 /\ crashes = 0

-----------------------------------------------------------------------------
(* set_tile / get_tile: _basic_req takes the mutex and sends the request. *)
Call(c, o) ==
    /\ pc[c] = "idle"
    /\ calls < MaxCalls
    /\ net' = BagAdd(net, Req(c, sock[c], o))
    /\ pc' = [pc EXCEPT ![c] = "wait"]
    /\ op' = [op EXCEPT ![c] = o]
    /\ served' = [served EXCEPT ![c] = FALSE]
    /\ answer' = [answer EXCEPT ![c] = "ERR"]
    /\ calls' = calls + 1
    /\ UNCHANGED <<mem, disk, ret, sock, crashes>>

(* sock.recv returns the first datagram queued on the client's socket.   *)
Receive(c) ==
    /\ pc[c] = "wait"
    /\ \E m \in BagToSet(net) :
          /\ m.type = "rep" /\ m.client = c /\ m.port = sock[c]
          /\ net' = BagRemove(net, m)
          /\ ret' = [ret EXCEPT ![c] = Interpret(op[c].cmd, m.body)]
    /\ pc' = [pc EXCEPT ![c] = "idle"]
    /\ UNCHANGED <<mem, disk, op, sock, served, answer, calls, crashes>>

(* A mutant: the timeout returns None but keeps the socket.              *)
TimeoutNoReset(c) ==
    /\ pc[c] = "wait"
    /\ ret' = [ret EXCEPT ![c] = Interpret(op[c].cmd, "ERR")]
    /\ pc' = [pc EXCEPT ![c] = "idle"]
    /\ UNCHANGED <<mem, disk, op, sock, net, served, answer, calls, crashes>>

(* recv times out: the except branch re-initialises the socket and the   *)
(* call returns None; the replies still coming to the old port are lost. *)
Timeout(c) ==
    /\ pc[c] = "wait"
    /\ sock' = [sock EXCEPT ![c] = @ + 1]
    /\ net' = [m \in {m \in DOMAIN net : ~(m.type = "rep" /\ m.client = c)} |-> net[m]]
    /\ ret' = [ret EXCEPT ![c] = Interpret(op[c].cmd, "ERR")]
    /\ pc' = [pc EXCEPT ![c] = "idle"]
    /\ UNCHANGED <<mem, disk, op, served, answer, calls, crashes>>

-----------------------------------------------------------------------------
(* Info.set_bit ignores an index past the file; get_bit answers None for *)
(* it, which struct.pack turns into an exception and the reply 'ERR'.    *)
InRange(i) == i < MaxIdx
SetBit(i, v) == IF InRange(i) THEN [mem EXCEPT ![i] = IF v > 0 THEN 1 ELSE 0] ELSE mem
GetBit(i) == IF ~InRange(i) THEN "ERR" ELSE IF mem[i] = 1 THEN "b1" ELSE "b0"

(* InfoUDP.datagramReceived: 'S' sets the bit and answers 'OK' whether   *)
(* or not the index was in range, 'G' answers the bit.  A reply to a      *)
(* port the client has closed is discarded by the client's host.          *)
Serve(m) ==
    /\ m.type = "req"
    /\ LET body == IF m.cmd = "S" THEN "OK" ELSE GetBit(m.idx)
           current == pc[m.client] = "wait" /\ m.port = sock[m.client]
       IN  /\ mem' = IF m.cmd = "S" THEN SetBit(m.idx, m.val) ELSE mem
           /\ net' = IF m.port = sock[m.client]
                     THEN BagAdd(BagRemove(net, m), Rep(m, body))
                     ELSE BagRemove(net, m)
           /\ served' = IF current THEN [served EXCEPT ![m.client] = TRUE] ELSE served
           /\ answer' = IF current THEN [answer EXCEPT ![m.client] = body] ELSE answer
    /\ UNCHANGED <<disk, pc, op, ret, sock, calls, crashes>>

(* InfoFlusher, every FLUSH_PERIOD seconds: Info.flush fsyncs the file.  *)
Flush ==
    /\ disk' = mem
    /\ UNCHANGED <<mem, pc, op, ret, sock, net, served, answer, calls, crashes>>

(* The service's host crashes and the service restarts: Info maps the    *)
(* file again, holding what the last fsync wrote.                         *)
Crash ==
    /\ crashes < MaxCrash
    /\ mem' = disk
    /\ crashes' = crashes + 1
    /\ UNCHANGED <<disk, pc, op, ret, sock, net, served, answer, calls>>

(* UDP loses a datagram.                                                 *)
Lose(m) ==
    /\ net' = BagRemove(net, m)
    /\ UNCHANGED <<mem, disk, pc, op, ret, sock, served, answer, calls, crashes>>

Next ==
    \/ \E c \in Clients :
          \/ \E o \in Ops : Call(c, o)
          \/ Receive(c) \/ Timeout(c)
    \/ \E m \in BagToSet(net) : Serve(m) \/ Lose(m)
    \/ Flush \/ Crash

(* The flusher is a LoopingCall on the reactor, which never blocks long. *)
Spec == Init /\ [][Next]_vars /\ WF_vars(Flush)

-----------------------------------------------------------------------------
(* The refinement mapping: the service's memory is the index, a request *)
(* on a socket the client no longer listens on is an orphan.              *)
Orphans ==
    {[cmd |-> m.cmd, idx |-> m.idx, val |-> m.val] :
        m \in {m \in BagToSet(net) :
                 m.type = "req" /\ m.cmd = "S"
                 /\ ~(pc[m.client] = "wait" /\ m.port = sock[m.client])}}

Abstract == INSTANCE ExpiryIndex WITH
    bits <- mem, durable <- disk, applied <- served,
    res <- [c \in Clients |-> Interpret(op[c].cmd, answer[c])],
    orphans <- Orphans

(* Every get_tile or set_tile call behaves as one atomic step of the     *)
(* index while it waits, and returns what that step answered or fails:   *)
(* the socket reset on timeout keeps a late reply from answering a later *)
(* call, and bits survive a crash exactly as far as the last fsync.       *)
ImplementsExpiryIndex == Abstract!ASpec

====
