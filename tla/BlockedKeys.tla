----------------------------- MODULE BlockedKeys -----------------------------
(***************************************************************************)
(* The blocking-command path of one shard: the registry of clients parked *)
(* by BLPOP, BRPOP, BLMOVE, BRPOPLPUSH, BLMPOP, BZPOPMIN, BZPOPMAX and     *)
(* BZMPOP (senko-net/src/blocked.rs), the connection tasks that park and   *)
(* resume (senko-net/src/connection.rs), and the writes that wake them.    *)
(*                                                                         *)
(* A shard is single threaded: code between two awaits is atomic.  The     *)
(* loop `while registry.notify(key, store).is_some() {}` and its recursion *)
(* on the destination of a move are unrolled one waiter at a time; the     *)
(* call stack is `draining`, and while it is not empty nothing else runs.  *)
(*                                                                         *)
(* Lists and sorted sets are both a sequence of members in pop order.      *)
(***************************************************************************)
EXTENDS Integers, Sequences, FiniteSets

CONSTANTS
  Conns,      \* connections that issue blocking commands
  Keys,       \* keys of the shard
  Elems,      \* list elements and sorted-set members; each is pushed once
  Requests,   \* blocking commands a connection may issue
  Commands,   \* kinds of commands other connections issue
  Timeouts,   \* timeouts in timer ticks; 0 blocks for ever
  MaxNow,     \* bound on timer ticks
  MaxBlocks,  \* bound on registrations
  None        \* absence of a registry entry, a deadline or a destination

Types == {"none", "list", "zset", "string"}
Sides == {"front", "back"}
OpKinds == {"Pop", "Move", "MPop", "ZPop", "ZMPop"}
BlockedOp == {op \in [kind : OpKinds, side : Sides, dstSide : Sides,
                      dest : Keys \cup {None}, count : Nat \ {0}] :
                op.kind = "Move" <=> op.dest # None}
Request == [keys : Seq(Keys) \ {<<>>}, op : BlockedOp]

ASSUME ConstantsAssumption ==
  /\ None \notin Keys /\ None \notin Nat
  /\ Timeouts \subseteq Nat /\ MaxNow \in Nat /\ MaxBlocks \in Nat
  /\ Requests \subseteq Request

VARIABLES
  store,      \* key -> value
  waiters,    \* BlockedKeyRegistry.waiters: key -> queue of connection ids
  clients,    \* BlockedKeyRegistry.clients: connection -> parked command
  ready,      \* BlockedKeyRegistry.ready: connection -> response
  heap,       \* BlockedKeyRegistry.timeout_heap: <<deadline, connection>>
  now,        \* timer ticks so far
  task,       \* connection task: "reading", "awaiting" (in await_blocked), "closed"
  asked,      \* arguments of the await_blocked call in progress
  flagged,    \* BLOCKED flag of the shared connection metadata
  killed,     \* close_after_write of the connection handle
  draining,   \* keys whose waiters are being notified, innermost first
  blocks,     \* registrations so far
  fate,       \* element -> not yet written, in the shard, or out of it
  silent      \* keys filled by a write that notifies nobody

registry == <<waiters, clients, ready, heap>>
conns == <<task, asked, flagged, killed>>
vars == <<store, waiters, clients, ready, heap, now, task, asked, flagged,
          killed, draining, blocks, fate, silent>>

----------------------------------------------------------------------------
(* Values and responses *)

\* A list is never empty: it is removed with its last element.  A sorted set
\* is empty when the ZADD or GEOADD that created it failed.
Value == {x \in [t : Types, v : Seq(Elems)] :
            /\ x.t = "list" => x.v # <<>>
            /\ x.v # <<>> => x.t \in {"list", "zset"}}
Absent == [t |-> "none", v |-> <<>>]

BlockedClient == [keys : Seq(Keys) \ {<<>>}, op : BlockedOp,
                  deadline : Nat \cup {None}]
Response == {resp \in [r : {"nil", "items", "error"}, key : Keys \cup {None},
                       items : Seq(Elems)] : resp.r = "items" <=> resp.key # None}
Nil == [r |-> "nil", key |-> None, items |-> <<>>]
Error == [r |-> "error", key |-> None, items |-> <<>>]

RangeOf(s) == {s[i] : i \in 1 .. Len(s)}
Out(es) == [e \in Elems |-> IF e \in es THEN "out" ELSE fate[e]]
MinOf(a, b) == IF a < b THEN a ELSE b

\* remove_list_if_empty, remove_zset_if_empty.
Holding(t, s) == IF s = <<>> THEN Absent ELSE [t |-> t, v |-> s]

\* The n members popped from a side, in pop order, and what is left.
PoppedOne(s, side, n) ==
  IF s = <<>> THEN <<>> ELSE IF side = "front" THEN <<s[1]>> ELSE <<s[Len(s)]>>
Popped(s, side, n) ==
  LET m == MinOf(n, Len(s)) IN
  IF side = "front" THEN SubSeq(s, 1, m)
  ELSE [i \in 1 .. m |-> s[Len(s) + 1 - i]]
LeftBehind(s, side, n) == SubSeq(s, MinOf(n, Len(s)) + 1, Len(s))
Left(s, side, n) ==
  LET m == MinOf(n, Len(s)) IN
  IF side = "front" THEN SubSeq(s, m + 1, Len(s)) ELSE SubSeq(s, 1, Len(s) - m)
Insert(s, i, e) == SubSeq(s, 1, i) \o <<e>> \o SubSeq(s, i + 1, Len(s))
PushTo(s, side, e) == IF side = "front" THEN <<e>> \o s ELSE Append(s, e)

\* The type a blocking command pops from.
WantedType(op) == IF op.kind \in {"ZPop", "ZMPop"} THEN "zset" ELSE "list"

----------------------------------------------------------------------------
(* Execution of a parked or immediate command *)

\* pop_now, mpop_now, zpop_now, zmpop_now: pop up to count members of key.
PopNowKeepEmpty(st, key, op) ==
  [st EXCEPT ![key] = [t |-> st[key].t, v |-> Left(st[key].v, op.side, op.count)]]
PopNow(st, key, op) ==
  [st EXCEPT ![key] = Holding(st[key].t, Left(st[key].v, op.side, op.count))]

\* move_now: pop one member of key and push it to dest, which is replaced
\* by a fresh list when it holds another type (get_or_create_list).
MoveNow(st, key, op) ==
  LET e == Popped(st[key].v, op.side, 1)[1]
      popped == [st EXCEPT ![key] =
                   [t |-> st[key].t, v |-> Left(st[key].v, op.side, 1)]]
      d == popped[op.dest]
      base == IF d.t = "list" THEN d.v ELSE <<>>
      moved == [popped EXCEPT ![op.dest] =
                  [t |-> "list", v |-> PushTo(base, op.dstSide, e)]]
  IN [moved EXCEPT ![key] = Holding(moved[key].t, moved[key].v)]

RunNow(st, key, op) ==
  IF op.kind = "Move" THEN MoveNow(st, key, op) ELSE PopNow(st, key, op)

\* The members popped, null when there was none.
ItemsNow(st, key, op) ==
  LET items == Popped(st[key].v, op.side, IF op.kind = "Move" THEN 1 ELSE op.count)
  IN IF items = <<>> THEN Nil ELSE [r |-> "items", key |-> key, items |-> items]

\* pop_ready, move_ready, mpop_ready, zpop_ready, zmpop_ready: the type checks
\* before a parked command runs against the notified key.
CanRun(st, key, op) ==
  /\ st[key].t = WantedType(op)
  /\ op.kind = "Move" => st[op.dest].t \in {"none", "list"}

Executed(st, key, op) == IF CanRun(st, key, op) THEN RunNow(st, key, op) ELSE st
ExecuteResponse(st, key, op) ==
  IF CanRun(st, key, op) THEN ItemsNow(st, key, op)
  ELSE IF st[key].t = "none" THEN Nil ELSE Error

----------------------------------------------------------------------------
(* Blocking commands *)

\* keys[i] is the first requested key that holds something.
FirstHeld(keys, i) ==
  /\ store[keys[i]].t # "none"
  /\ \A j \in 1 .. i - 1 : store[keys[j]].t = "none"

Idle(c) == draining = <<>> /\ task[c] = "reading"

\* Elements lost when a move replaces a destination of another type.
Replaced(st, op) ==
  IF op.kind = "Move" /\ st[op.dest].t = "zset" THEN RangeOf(st[op.dest].v) ELSE {}

\* A command answered without blocking.  The waiters of the popped key are
\* notified afterwards, except for BZMPOP; a move does not notify its
\* destination's waiters.
Immediate(c, req) ==
  \E i \in 1 .. Len(req.keys) :
    LET key == req.keys[i]
    IN /\ FirstHeld(req.keys, i)
       /\ store[key].t = WantedType(req.op)
       /\ store' = RunNow(store, key, req.op)
       /\ fate' = Out(IF req.op.kind = "Move" THEN Replaced(store, req.op)
                      ELSE RangeOf(ItemsNow(store, key, req.op).items))
       /\ silent' = IF req.op.kind = "Move" THEN silent \cup {req.op.dest} ELSE silent
       /\ draining' = IF req.op.kind = "ZMPop" \/ ItemsNow(store, key, req.op) = Nil
                      THEN <<>> ELSE <<key>>
       /\ task' = [task EXCEPT ![c] = IF killed[c] THEN "closed" ELSE "reading"]
       /\ UNCHANGED <<registry, now, asked, flagged, killed, blocks>>

\* register: the connection joins the queue of each key, as often as it is named.
EnqueuedOnFirst(c, keys) == [waiters EXCEPT ![keys[1]] = Append(@, c)]
Enqueued(c, keys) ==
  LET Times(k) == Cardinality({i \in 1 .. Len(keys) : keys[i] = k})
  IN [k \in Keys |-> waiters[k] \o [i \in 1 .. Times(k) |-> c]]

\* No key holds anything (and a move's destination is a list or missing):
\* register and park the task.
Block(c, req, timeout) ==
  LET deadline == IF timeout = 0 THEN None ELSE now + timeout
      client == [keys |-> req.keys, op |-> req.op,
                 deadline |-> deadline]
  IN /\ blocks < MaxBlocks
     /\ \A i \in 1 .. Len(req.keys) : store[req.keys[i]].t = "none"
     /\ req.op.kind = "Move" => store[req.op.dest].t \in {"none", "list"}
     /\ heap' = IF deadline = None THEN heap ELSE heap \cup {<<deadline, c>>}
     /\ waiters' = Enqueued(c, req.keys)
     /\ clients' = [clients EXCEPT ![c] = client]
     /\ task' = [task EXCEPT ![c] = "awaiting"]
     /\ asked' = [asked EXCEPT ![c] = client]
     /\ blocks' = blocks + 1
     /\ UNCHANGED <<store, ready, now, flagged, killed, draining,
                    fate, silent>>

BlockingCommand(c) ==
  /\ Idle(c)
  /\ \E req \in Requests :
       \/ Immediate(c, req)
       \/ \E timeout \in Timeouts : Block(c, req, timeout)

\* The task is polled after its response became ready.  An error response
\* returns through `?`: the connection state stays Blocked and so does the
\* flag copied to the shared metadata.  A response of BLPOP, BRPOP, BLMPOP,
\* BZPOPMIN or BZPOPMAX notifies the waiters of the key it names, BLMOVE and
\* BRPOPLPUSH those of the source even when the response is null.
Resume(c) ==
  LET resp == ready[c]
      op == asked[c].op
      ok == resp.r # "error"
  IN /\ draining = <<>>
     /\ task[c] = "awaiting" /\ resp # None
     /\ ready' = [ready EXCEPT ![c] = None]
     /\ task' = [task EXCEPT ![c] = IF killed[c] THEN "closed" ELSE "reading"]
     /\ asked' = [asked EXCEPT ![c] = None]
     /\ flagged' = [flagged EXCEPT ![c] = ~ok]
     /\ fate' = Out(IF op.kind = "Move" THEN {} ELSE RangeOf(resp.items))
     /\ draining' = IF ok /\ op.kind = "Move" THEN <<asked[c].keys[1]>>
                    ELSE IF resp.r = "items" /\ op.kind # "ZMPop" THEN <<resp.key>>
                    ELSE <<>>
     /\ UNCHANGED <<store, waiters, clients, heap, now, killed, blocks, silent>>

----------------------------------------------------------------------------
(* Notification *)

DequeuedToBack(key) == [waiters EXCEPT ![key] = Append(Tail(@), Head(@))]
Dequeued(key) == [waiters EXCEPT ![key] = Tail(@)]

\* One iteration of BlockedKeyRegistry::notify on the innermost key: an empty
\* queue ends the loop, the id of a client that is no longer registered is
\* skipped, a registered client is executed against the key; a move then
\* drains the waiters of its destination before the loop goes on.
NotifyEmpty(key) ==
  /\ waiters[key] = <<>>
  /\ draining' = Tail(draining)
  /\ silent' = silent \ {key}
  /\ UNCHANGED <<store, waiters, clients, ready>>

NotifyStale(key, c) ==
  /\ waiters[key] # <<>> /\ clients[c] = None
  /\ waiters' = Dequeued(key)
  /\ UNCHANGED <<store, clients, ready, draining, silent>>

NotifyClient(key, c, op) ==
  /\ waiters[key] # <<>> /\ clients[c] # None
  /\ waiters' = Dequeued(key)
  /\ clients' = [clients EXCEPT ![c] = None]
  /\ store' = Executed(store, key, op)
  /\ ready' = [ready EXCEPT ![c] = ExecuteResponse(store, key, op)]
  /\ draining' = IF op.kind = "Move" THEN <<op.dest>> \o draining ELSE draining
  /\ UNCHANGED silent

Notify ==
  /\ draining # <<>>
  /\ \/ NotifyEmpty(Head(draining))
     \/ NotifyStale(Head(draining), Head(waiters[Head(draining)]))
     \/ NotifyClient(Head(draining), Head(waiters[Head(draining)]),
                     clients[Head(waiters[Head(draining)])].op)
  /\ UNCHANGED <<heap, now, conns, blocks, fate>>

----------------------------------------------------------------------------
(* Commands of other connections that write keys *)

\* A write command and the post_dispatch_notify after it: st is the new store,
\* dr the keys whose waiters are notified.
WrittenUnnoticed(st, dr) ==
  /\ store' = st
  /\ UNCHANGED <<now, conns, blocks, draining>>
Written(st, dr) ==
  /\ store' = st
  /\ draining' = dr
  /\ UNCHANGED <<now, conns, blocks>>

\* LPUSH, RPUSH and LINSERT (t = "list") or ZADD (t = "zset") of a new member.
Push(k, e, t) ==
  /\ draining = <<>> /\ fate[e] = "new"
  /\ store[k].t \in {"none", t}
  /\ \E i \in 0 .. Len(store[k].v) :
       Written([store EXCEPT ![k] = [t |-> t, v |-> Insert(@.v, i, e)]], <<k>>)
  /\ fate' = [fate EXCEPT ![e] = "in"]
  /\ UNCHANGED <<registry, silent>>

\* Sorted-set writes after which nobody is notified: GEOADD (notification_keys
\* does not list it), and ZADD or GEOADD that fails on a later argument after it
\* created the sorted set and perhaps added members.
AddUnnotified(k, added) ==
  /\ draining = <<>> /\ \A e \in added : fate[e] = "new"
  /\ store[k].t \in {"none", "zset"}
  /\ \E i \in 0 .. Len(store[k].v) :
       Written([store EXCEPT ![k] =
                  [t |-> "zset",
                   v |-> IF added = {} THEN @.v
                         ELSE Insert(@.v, i, CHOOSE e \in added : TRUE)]], <<>>)
  /\ fate' = [e \in Elems |-> IF e \in added THEN "in" ELSE fate[e]]
  /\ silent' = silent \cup {k}
  /\ UNCHANGED registry

\* LPOP, RPOP: a missing key answers null and still notifies its waiters.
ListPop(k, side) ==
  /\ draining = <<>> /\ store[k].t \in {"none", "list"}
  /\ Written([store EXCEPT ![k] = Holding("list", Left(@.v, side, 1))], <<k>>)
  /\ fate' = Out(RangeOf(Popped(store[k].v, side, 1)))
  /\ UNCHANGED <<registry, silent>>

\* LMOVE, RPOPLPUSH: the source's waiters are notified, also when nothing
\* moved; the destination's are not (keys.first()).
ListMove(src, dst, from, to) ==
  LET op == [kind |-> "Move", side |-> from, dstSide |-> to, dest |-> dst, count |-> 1]
  IN /\ draining = <<>> /\ store[src].t \in {"none", "list"}
     /\ store[src].t = "list" => store[dst].t \in {"none", "list"}
     /\ Written(IF store[src].t = "none" THEN store ELSE MoveNow(store, src, op), <<src>>)
     /\ silent' = IF store[src].t = "none" THEN silent ELSE silent \cup {dst}
     /\ UNCHANGED <<registry, fate>>

\* SET: replaces any value by a string and notifies the key's waiters.
SetString(k) ==
  /\ draining = <<>>
  /\ Written([store EXCEPT ![k] = [t |-> "string", v |-> <<>>]], <<k>>)
  /\ fate' = Out(RangeOf(store[k].v))
  /\ UNCHANGED <<registry, silent>>

\* cancel_waiters on each key of ks: the queue is dropped and every client of
\* it that is still registered is answered null.
CancelQueuesOnly(ks) ==
  /\ waiters' = [k \in Keys |-> IF k \in ks THEN <<>> ELSE waiters[k]]
  /\ UNCHANGED <<clients, ready, heap>>
CancelWaiters(ks) ==
  LET out == {c \in Conns : clients[c] # None /\ \E k \in ks : c \in RangeOf(waiters[k])}
  IN /\ waiters' = [k \in Keys |-> IF k \in ks THEN <<>> ELSE waiters[k]]
     /\ clients' = [c \in Conns |-> IF c \in out THEN None ELSE clients[c]]
     /\ ready' = [c \in Conns |-> IF c \in out THEN Nil ELSE ready[c]]
     /\ UNCHANGED heap

\* is_blocking_type.
BlockingZSet(t) == t = "zset"
Blocking(t) == t \in {"list", "zset"}

\* DEL, UNLINK.
Delete(k) ==
  /\ draining = <<>> /\ store[k].t # "none"
  /\ Written([store EXCEPT ![k] = Absent], <<>>)
  /\ CancelWaiters(IF Blocking(store[k].t) THEN {k} ELSE {})
  /\ fate' = Out(RangeOf(store[k].v))
  /\ UNCHANGED silent

\* RENAME, and RENAMENX where the destination is missing: waiters of the source and of an overwritten destination are
\* cancelled, then the destination's are notified.
Rename(src, dst) ==
  LET s == store[src].t
  IN /\ draining = <<>> /\ s # "none" /\ src # dst
     /\ Written([store EXCEPT ![dst] = store[src], ![src] = Absent],
                IF Blocking(s) THEN <<dst>> ELSE <<>>)
     /\ CancelWaiters((IF Blocking(s) THEN {src} ELSE {})
                      \cup (IF Blocking(store[dst].t) THEN {dst} ELSE {}))
     /\ fate' = Out(RangeOf(store[dst].v))
     /\ UNCHANGED silent

\* FLUSHALL, FLUSHDB on this shard: the store is cleared, then clear_all
\* answers every registered client null and empties queues and heap.
Flush ==
  /\ draining = <<>>
  /\ Written([k \in Keys |-> Absent], <<>>)
  /\ fate' = Out(UNION {RangeOf(store[k].v) : k \in Keys})
  /\ waiters' = [k \in Keys |-> <<>>]
  /\ ready' = [c \in Conns |-> IF clients[c] # None THEN Nil ELSE ready[c]]
  /\ clients' = [c \in Conns |-> None]
  /\ heap' = {}
  /\ UNCHANGED silent

----------------------------------------------------------------------------
(* Timer, CLIENT UNBLOCK, CLIENT KILL, disconnection *)

\* The 100 ms timer task: pop every due heap entry, earliest first.  The
\* client is removed from the registry before its deadline is compared with
\* the entry's, so an entry left by an earlier command drops the client.
TimerTick ==
  LET due(c) == {e \in heap : e[2] = c /\ e[1] <= now + 1}
      hit == {c \in Conns : due(c) # {} /\ clients[c] # None}
      first(c) == CHOOSE e \in due(c) : \A f \in due(c) : e[1] <= f[1]
      out == {c \in hit : clients[c].deadline = first(c)[1]}
  IN /\ draining = <<>> /\ now < MaxNow
     /\ now' = now + 1
     /\ heap' = {e \in heap : e[1] > now + 1}
     /\ clients' = [c \in Conns |-> IF c \in hit THEN None ELSE clients[c]]
     /\ ready' = [c \in Conns |-> IF c \in out THEN Nil ELSE ready[c]]
     /\ UNCHANGED <<store, waiters, conns, draining, blocks, fate, silent>>

\* force_unblock.
ForceUnblockKeep(c, resp) ==
  /\ UNCHANGED clients
  /\ ready' = IF clients[c] = None THEN ready ELSE [ready EXCEPT ![c] = resp]
ForceUnblockAny(c, resp) ==
  /\ clients' = [clients EXCEPT ![c] = None]
  /\ ready' = IF task[c] = "awaiting" THEN [ready EXCEPT ![c] = resp] ELSE ready
ForceUnblock(c, resp) ==
  /\ clients' = [clients EXCEPT ![c] = None]
  /\ ready' = IF clients[c] = None THEN ready ELSE [ready EXCEPT ![c] = resp]

\* CLIENT UNBLOCK id [TIMEOUT|ERROR].
ClientUnblock(c) ==
  /\ draining = <<>> /\ task[c] # "closed"
  /\ \E resp \in {Nil, Error} : ForceUnblock(c, resp)
  /\ UNCHANGED <<store, waiters, heap, now, conns, draining, blocks, fate, silent>>

\* CLIENT KILL: kill_handle unblocks only when the shared metadata carries the
\* BLOCKED flag, which a task parked for the first time has not published.
ClientKill(c) ==
  /\ draining = <<>> /\ task[c] # "closed" /\ ~killed[c]
  /\ IF flagged[c] THEN ForceUnblock(c, Nil) ELSE UNCHANGED <<clients, ready>>
  /\ killed' = [killed EXCEPT ![c] = TRUE]
  /\ UNCHANGED <<store, waiters, heap, now, task, asked, flagged, draining,
                 blocks, fate, silent>>

\* End of file on an idle connection: cleanup_connection_state.
Close(c) ==
  /\ Idle(c)
  /\ task' = [task EXCEPT ![c] = "closed"]
  /\ clients' = [clients EXCEPT ![c] = None]
  /\ ready' = [ready EXCEPT ![c] = None]
  /\ UNCHANGED <<store, waiters, heap, now, asked, flagged, killed, draining,
                 blocks, fate, silent>>

----------------------------------------------------------------------------
Init ==
  /\ store = [k \in Keys |-> Absent]
  /\ waiters = [k \in Keys |-> <<>>]
  /\ clients = [c \in Conns |-> None]
  /\ ready = [c \in Conns |-> None]
  /\ heap = {} /\ now = 0
  /\ task = [c \in Conns |-> "reading"]
  /\ asked = [c \in Conns |-> None]
  /\ flagged = [c \in Conns |-> FALSE]
  /\ killed = [c \in Conns |-> FALSE]
  /\ draining = <<>> /\ blocks = 0
  /\ fate = [e \in Elems |-> "new"]
  /\ silent = {}

ConnStep(c) ==
  \/ BlockingCommand(c)
  \/ Resume(c)
  \/ "unblock" \in Commands /\ ClientUnblock(c)
  \/ "kill" \in Commands /\ ClientKill(c)
  \/ "kill" \in Commands /\ Close(c)

Write ==
  \/ "push" \in Commands /\ \E k \in Keys, e \in Elems : Push(k, e, "list")
  \/ "zadd" \in Commands /\ \E k \in Keys, e \in Elems : Push(k, e, "zset")
  \/ "geoadd" \in Commands /\ \E k \in Keys :
       AddUnnotified(k, {}) \/ \E e \in Elems : AddUnnotified(k, {e})
  \/ "pop" \in Commands /\ \E k \in Keys, s \in Sides : ListPop(k, s)
  \/ "move" \in Commands /\ \E k, d \in Keys, s, t \in Sides : ListMove(k, d, s, t)
  \/ "set" \in Commands /\ \E k \in Keys : SetString(k)
  \/ "del" \in Commands /\ \E k \in Keys : Delete(k)
  \/ "rename" \in Commands /\ \E k, d \in Keys : Rename(k, d)
  \/ "flush" \in Commands /\ Flush

Next == (\E c \in Conns : ConnStep(c)) \/ Notify \/ Write \/ TimerTick

Spec == Init /\ [][Next]_vars

----------------------------------------------------------------------------
(* Properties *)

TypeOK ==
  /\ store \in [Keys -> Value]
  /\ waiters \in [Keys -> Seq(Conns)]
  /\ clients \in [Conns -> BlockedClient \cup {None}]
  /\ ready \in [Conns -> Response \cup {None}]
  /\ heap \subseteq (Nat \X Conns) /\ now \in Nat
  /\ task \in [Conns -> {"reading", "awaiting", "closed"}]
  /\ asked \in [Conns -> BlockedClient \cup {None}]
  /\ \A c \in Conns : task[c] = "awaiting" => asked[c] \in BlockedClient
  /\ flagged \in [Conns -> BOOLEAN] /\ killed \in [Conns -> BOOLEAN]
  /\ draining \in Seq(Keys) /\ blocks \in Nat
  /\ fate \in [Elems -> {"new", "in", "out"}]
  /\ silent \subseteq Keys

\* The registry and the tasks agree: a client is registered only while its
\* task waits, with the arguments of that wait; a response is ready only for
\* a waiting task; nobody is registered and answered at once.  A second
\* registration (take_ready at the first poll) or a notification of a client
\* already answered would hand a response to the wrong command.
RegistryMatchesTasks ==
  \A c \in Conns :
    /\ clients[c] # None => task[c] = "awaiting" /\ clients[c] = asked[c]
    /\ ready[c] # None => task[c] = "awaiting" /\ clients[c] = None

\* A registered client is in the queue of every key it waits for, however
\* queues were popped, cancelled or left with ids of earlier registrations.
RegisteredIsQueued ==
  \A c \in Conns : clients[c] # None =>
    \A i \in 1 .. Len(clients[c].keys) : c \in RangeOf(waiters[clients[c].keys[i]])

\* No lost wake-up: between commands, no registered client waits for a key
\* that holds what it wants, unless the key was filled by a write that
\* notifies nobody (the destination of LMOVE, RPOPLPUSH or an immediate
\* BLMOVE, or a sorted-set write of AddUnnotified).
Servable(c) ==
  {k \in RangeOf(clients[c].keys) : store[k].t = WantedType(clients[c].op)}
NoLostWakeup ==
  draining = <<>> =>
    \A c \in Conns : clients[c] # None => Servable(c) \subseteq silent

\* Where an element is: in keys and in responses not yet taken (the element in
\* the response of a move is a copy).
Places(e) ==
  {<<"key", k>> : k \in {k \in Keys : e \in RangeOf(store[k].v)}}
  \cup {<<"ready", c>> : c \in {c \in Conns : ready[c] # None /\ asked[c].op.kind # "Move"
                                            /\ e \in RangeOf(ready[c].items)}}

\* An element that was written and neither returned nor removed is in exactly
\* one place, and once there; one that left is nowhere: concurrent blocked
\* pops, chained moves, timeouts and cancellations neither lose nor duplicate
\* an element.
ElementsConserved ==
  /\ \A e \in Elems : Cardinality(Places(e)) = IF fate[e] = "in" THEN 1 ELSE 0
  /\ \A k \in Keys : Cardinality(RangeOf(store[k].v)) = Len(store[k].v)

\* A step answers a client or leaves its response alone; only its own task
\* takes it.
ResponseStable ==
  [][\A c \in Conns : ready[c] # None /\ ready'[c] # ready[c] =>
       ready'[c] = None /\ task[c] = "awaiting" /\ task'[c] # "awaiting"]_vars

\* Every notification loop ends, also when parked moves form a cycle of keys.
DrainTerminates == []<>(draining = <<>>)

----------------------------------------------------------------------------
(* What the tests say and the code does not do *)

\* senko-net/src/blocked.rs timeout_zero_style_waiter_does_not_expire_and_
\* wakes_on_notify: a waiting task stays in the registry until it is answered.
WaitingIsRegistered ==
  \A c \in Conns : task[c] = "awaiting" => clients[c] # None \/ ready[c] # None

\* tests/compat/list.rs list_blocking_compat: a null reply comes after the
\* timeout, never from another client's write.
NotifyNeverAnswersNull ==
  [][draining # <<>> => \A c \in Conns : ready'[c] # ready[c] => ready'[c] # Nil]_vars

----------------------------------------------------------------------------
\* The runtime polls a woken task and runs the notification loop to its end.
FairSpec == Spec /\ WF_vars(Notify) /\ \A c \in Conns : WF_vars(Resume(c))
=============================================================================
