---------------------------- MODULE Transactions ----------------------------
(***************************************************************************)
(* MULTI, EXEC, DISCARD, WATCH and UNWATCH of senko-net (transaction.rs,   *)
(* commands/transaction.rs and the EXEC loop of connection.rs), with the   *)
(* writes of other connections, FLUSHALL, expiry and the queries that      *)
(* shards send each other.                                                 *)
(*                                                                         *)
(* A shard is one thread running tasks that only stop at an await.         *)
(* running[s] is the task that holds shard s inside an EXEC or the task    *)
(* that drains the shard's queries; a task that awaits releases it.        *)
(***************************************************************************)
EXTENDS Naturals, Sequences, FiniteSets

CONSTANTS
  Conns,      \* connections
  Keys,       \* keys
  Shards,     \* shards
  Home,       \* [Conns -> Shards]: the shard that accepted a connection
  Owner,      \* [Keys -> Shards]: target_shard_for_keys
  Ops,        \* the operations clients issue, a subset of AllOps
  MaxIssued,  \* bound on the commands issued and the keys expired
  MaxQueue,   \* bound on the length of a transaction's queue
  None,       \* no connection, no version, no transaction
  Bus         \* the task that drains a shard's queries

\* write: a command whose key is in notification_keys, or touched by a module.
\* del: DEL and UNLINK.  quiet: a command that changes its key and is not in
\* notification_keys (SETBIT, PFADD, GEOADD, LMPOP, RESTORE, ...).
\* flush: FLUSHALL and FLUSHDB.  park: a blocking command that times out.
\* bad: a command with a syntax error.
KeyOps == {"write", "del", "quiet", "read"}
AllOps == KeyOps \cup {"flush", "park", "bad"}

\* validate_queued_command tries a command on a scratch store through the table
\* of dispatch.rs, which FLUSHALL and FLUSHDB are not in: "unknown command".
Refused == {"bad", "flush"}

ASSUME TopologyAssumption ==
  /\ Home \in [Conns -> Shards] /\ Owner \in [Keys -> Shards]
  /\ Ops \subseteq AllOps
  /\ None \notin Conns \cup {Bus} \cup Nat /\ Bus \notin Conns

VARIABLES
  live,      \* [Keys -> BOOLEAN]: the key exists in its owner's store
  global,    \* Store.global_version of each shard
  version,   \* Store.per_key_version of each shard, 0 where missing
  watchers,  \* WatchRegistry.watchers of each shard
  watched,   \* WatchState.watched_keys: the version of each watched key or None
  dirty,     \* WatchState.dirty
  link,      \* "open", "closed" after cleanup, "failed" without it
  tx,        \* TxState: None or the queue and the error flag
  task,      \* "idle", "command" (awaiting a reply), or "exec"
  rest,      \* the commands EXEC has still to run
  pending,   \* the shards whose reply the task awaits
  bus,       \* the queries sent to each shard, oldest first
  running,   \* the task holding each shard's thread
  issued,    \* history: commands issued
  stamp,     \* history: how often each key has changed
  seen,      \* history: the stamp of a key when it was watched
  hushed     \* history: watched keys that changed without a notification

stores == <<live, global, version>>
tables == <<watchers, watched, dirty>>
tasks == <<link, tx, task, rest>>
wires == <<pending, bus, running>>
history == <<issued, stamp, seen, hushed>>
vars == <<stores, tables, tasks, wires, history>>

Command == [op : AllOps, key : Keys] \cup [op : {"unwatch", "slot"}, key : {None}]
Query == [op : KeyOps \cup {"flush"}, key : Keys, conn : Conns \cup {None}]

----------------------------------------------------------------------------
(* The watch tables *)

\* notify_keys_written for one key: notify_watchers bumps the shard's version
\* and notify_write marks the watchers that hold another version.
NotifyWrite(s, k) ==
  /\ global' = [global EXCEPT ![s] = @ + 1]
  /\ version' = [version EXCEPT ![s][k] = global[s] + 1]
  /\ dirty' = [c \in Conns |-> \/ dirty[c]
                               \/ /\ c \in watchers[s][k] /\ link[c] # "closed"
                                  /\ watched[c][k] \notin {None, global[s] + 1}]

\* WATCH of one key, outside MULTI: the version is read from the store of the
\* connection's own shard, whichever shard owns the key.
WatchKey(c, k) ==
  /\ watched' = [watched EXCEPT ![c][k] = version[Home[c]][k]]
  /\ watchers' = [watchers EXCEPT ![Home[c]][k] = @ \cup {c}]

\* clear_watch_state: unwatch, and a clean WatchState.
ClearStateOnly(c) ==
  /\ watched' = [watched EXCEPT ![c] = [k \in Keys |-> None]]
  /\ dirty' = [dirty EXCEPT ![c] = FALSE]
  /\ hushed' = hushed \ ({c} \X Keys)
  /\ UNCHANGED watchers
ClearWatchState(c) ==
  /\ watchers' = [s \in Shards |-> [k \in Keys |-> IF s = Home[c] THEN watchers[s][k] \ {c}
                                                   ELSE watchers[s][k]]]
  /\ watched' = [watched EXCEPT ![c] = [k \in Keys |-> None]]
  /\ dirty' = [dirty EXCEPT ![c] = FALSE]
  /\ hushed' = hushed \ ({c} \X Keys)

----------------------------------------------------------------------------
(* What a command does to the store of the shard that runs it *)

\* Connections that watch k at this moment: their history records a change
\* that notifies nobody.
Hush(k) == hushed' = hushed \cup {<<c, k>> : c \in {d \in Conns : watched[d][k] # None}}

\* dispatch or dispatch_key_lifecycle_command, then the notifications.
EffectUnnoticed(s, op, k) ==
  /\ live' = [live EXCEPT ![k] = op # "del"]
  /\ stamp' = [stamp EXCEPT ![k] = @ + 1]
  /\ UNCHANGED <<global, version, dirty, hushed>>
Effect(s, op, k) ==
  \/ /\ op \in {"write", "del"}
     /\ live' = [live EXCEPT ![k] = op = "write"]
     /\ stamp' = [stamp EXCEPT ![k] = @ + 1]
     /\ NotifyWrite(s, k)
     /\ UNCHANGED hushed
  \/ /\ op = "quiet"
     /\ live' = [live EXCEPT ![k] = TRUE]
     /\ stamp' = [stamp EXCEPT ![k] = @ + 1]
     /\ Hush(k)
     /\ UNCHANGED <<global, version, dirty>>
  \/ /\ op = "read"
     /\ UNCHANGED <<stores, dirty, stamp, hushed>>

\* ShardQuery::Flush: Store.clear and mark_all_dirty.
FlushForgetsWatchers(s) ==
  /\ live' = [k \in Keys |-> IF Owner[k] = s THEN FALSE ELSE live[k]]
  /\ global' = [global EXCEPT ![s] = 0]
  /\ version' = [version EXCEPT ![s] = [k \in Keys |-> 0]]
  /\ stamp' = [k \in Keys |-> IF Owner[k] = s /\ live[k] THEN stamp[k] + 1 ELSE stamp[k]]
  /\ UNCHANGED dirty
FlushDropsVersions(s) ==
  /\ live' = [k \in Keys |-> IF Owner[k] = s THEN FALSE ELSE live[k]]
  /\ version' = [version EXCEPT ![s] = [k \in Keys |-> None]]
  /\ stamp' = [k \in Keys |-> IF Owner[k] = s /\ live[k] THEN stamp[k] + 1 ELSE stamp[k]]
  /\ dirty' = [c \in Conns |-> dirty[c] \/ (Home[c] = s /\ link[c] # "closed")]
  /\ UNCHANGED global
FlushShard(s) ==
  /\ live' = [k \in Keys |-> IF Owner[k] = s THEN FALSE ELSE live[k]]
  /\ global' = [global EXCEPT ![s] = 0]
  /\ version' = [version EXCEPT ![s] = [k \in Keys |-> 0]]
  /\ stamp' = [k \in Keys |-> IF Owner[k] = s /\ live[k] THEN stamp[k] + 1 ELSE stamp[k]]
  /\ dirty' = [c \in Conns |-> dirty[c] \/ (Home[c] = s /\ link[c] # "closed")]

----------------------------------------------------------------------------
(* Queries between shards *)

\* execute_store_command_on_shard and flush_all_shards_sync: queries are sent
\* to the shards in to, and the task awaits their replies.
Send(c, op, k, to) ==
  /\ bus' = [s \in Shards |->
               IF s \in to THEN Append(bus[s], [op |-> op, key |-> k, conn |-> c]) ELSE bus[s]]
  /\ pending' = [pending EXCEPT ![c] = to]

\* drain_shard_queries: the shard runs every query it finds, without an await.
DrainKeepsThread(s) ==
  LET q == Head(bus[s])
  IN /\ running[s] \in {None, Bus} /\ bus[s] # <<>>
     /\ \/ q.op = "flush" /\ FlushShard(s) /\ UNCHANGED hushed
        \/ q.op # "flush" /\ Effect(s, q.op, q.key)
     /\ bus' = [bus EXCEPT ![s] = Tail(@)]
     /\ pending' = [c \in Conns |-> IF c = q.conn THEN pending[c] \ {s} ELSE pending[c]]
     /\ running' = [running EXCEPT ![s] = Bus]
     /\ UNCHANGED <<watchers, watched, tasks, issued, seen>>
DrainBus(s) ==
  LET q == Head(bus[s])
      more == Len(bus[s]) > 1
  IN /\ running[s] \in {None, Bus} /\ bus[s] # <<>>
     /\ \/ q.op = "flush" /\ FlushShard(s) /\ UNCHANGED hushed
        \/ q.op # "flush" /\ Effect(s, q.op, q.key)
     /\ bus' = [bus EXCEPT ![s] = Tail(@)]
     /\ pending' = [c \in Conns |-> IF c = q.conn THEN pending[c] \ {s} ELSE pending[c]]
     /\ running' = [running EXCEPT ![s] = IF more THEN Bus ELSE None]
     /\ UNCHANGED <<watchers, watched, tasks, issued, seen>>

\* The 5 s deadline of a query passes: its reply channel is dropped, the query
\* stays in the queue and is run later.
QueryTimeout(c) ==
  /\ pending[c] # {} /\ running[Home[c]] = None
  /\ pending' = [pending EXCEPT ![c] = {}]
  /\ bus' = [s \in Shards |-> [i \in 1 .. Len(bus[s]) |->
               IF bus[s][i].conn = c THEN [bus[s][i] EXCEPT !.conn = None] ELSE bus[s][i]]]
  /\ UNCHANGED <<stores, tables, tasks, running, history>>

\* The task goes on once every reply is there.
Resume(c) ==
  /\ task[c] # "idle" /\ pending[c] = {} /\ running[Home[c]] = None
  /\ task' = [task EXCEPT ![c] = IF @ = "command" THEN "idle" ELSE @]
  /\ running' = [running EXCEPT ![Home[c]] = IF task[c] = "exec" THEN c ELSE None]
  /\ UNCHANGED <<stores, tables, link, tx, rest, pending, bus, history>>

----------------------------------------------------------------------------
(* Commands *)

\* The connection's task can read its next command.
Ready(c) == link[c] = "open" /\ task[c] = "idle" /\ running[Home[c]] = None

Issue == issued < MaxIssued /\ issued' = issued + 1

\* A command outside MULTI that runs on the connection's own shard.
LocalCommand(c, op, k) ==
  /\ Ready(c) /\ tx[c] = None /\ Issue
  /\ op \in KeyOps /\ Owner[k] = Home[c]
  /\ Effect(Home[c], op, k)
  /\ UNCHANGED <<watchers, watched, tasks, wires, seen>>

\* A command outside MULTI that another shard runs, or FLUSHALL.
RemoteCommand(c, op, k) ==
  /\ Ready(c) /\ tx[c] = None /\ Issue
  /\ \/ op \in KeyOps /\ Owner[k] # Home[c] /\ Send(c, op, k, {Owner[k]})
     \/ op = "flush" /\ Send(c, op, k, Shards)
  /\ task' = [task EXCEPT ![c] = "command"]
  /\ UNCHANGED <<stores, tables, link, tx, rest, running, stamp, seen, hushed>>

\* FLUSHALL ASYNC answers at once.
FlushAsync(c, k) ==
  /\ Ready(c) /\ tx[c] = None /\ Issue
  /\ bus' = [s \in Shards |-> Append(bus[s], [op |-> "flush", key |-> k, conn |-> None])]
  /\ UNCHANGED <<stores, tables, tasks, pending, running, stamp, seen, hushed>>

Watch(c, k) ==
  /\ Ready(c) /\ tx[c] = None
  /\ WatchKey(c, k)
  /\ seen' = [seen EXCEPT ![c][k] = stamp[k]]
  /\ hushed' = hushed \ {<<c, k>>}
  /\ UNCHANGED <<stores, dirty, tasks, wires, issued, stamp>>

Unwatch(c) ==
  /\ Ready(c) /\ tx[c] = None
  /\ ClearWatchState(c)
  /\ UNCHANGED <<stores, tasks, wires, issued, stamp, seen>>

Multi(c) ==
  /\ Ready(c) /\ tx[c] = None
  /\ tx' = [tx EXCEPT ![c] = [queue |-> <<>>, error |-> FALSE]]
  /\ UNCHANGED <<stores, tables, link, task, rest, wires, history>>

\* queue_transaction_command: a refused command is queued too and marks the
\* transaction; WATCH inside MULTI queues an error slot and
\* UNWATCH is queued without validation.
QueueCommand(c, cmd) ==
  /\ Ready(c) /\ tx[c] # None /\ Issue /\ Len(tx[c].queue) < MaxQueue
  /\ tx' = [tx EXCEPT ![c] = [queue |-> Append(@.queue, cmd),
                              error |-> @.error \/ cmd.op \in Refused]]
  /\ UNCHANGED <<stores, tables, link, task, rest, wires, stamp, seen, hushed>>

\* DISCARD and RESET; RESET also outside MULTI.
Discard(c) ==
  /\ Ready(c)
  /\ tx' = [tx EXCEPT ![c] = None]
  /\ ClearWatchState(c)
  /\ UNCHANGED <<stores, link, task, rest, wires, issued, stamp, seen>>

\* EXEC of a transaction whose watched keys changed (null) or in which a
\* command was refused (EXECABORT).
ExecRefused(c) ==
  /\ Ready(c) /\ tx[c] # None /\ (dirty[c] \/ tx[c].error)
  /\ tx' = [tx EXCEPT ![c] = None]
  /\ ClearWatchState(c)
  /\ UNCHANGED <<stores, link, task, rest, wires, issued, stamp, seen>>

ExecStart(c) ==
  /\ Ready(c) /\ tx[c] # None /\ ~dirty[c] /\ ~tx[c].error
  /\ tx' = [tx EXCEPT ![c] = None]
  /\ task' = [task EXCEPT ![c] = "exec"]
  /\ rest' = [rest EXCEPT ![c] = tx[c].queue]
  /\ running' = [running EXCEPT ![Home[c]] = c]
  /\ UNCHANGED <<stores, tables, link, pending, bus, history>>

Running(c) == task[c] = "exec" /\ running[Home[c]] = c
Release(c) == running' = [running EXCEPT ![Home[c]] = None]

\* The next queued command, when it needs no await.
ExecLocal(c, cmd) ==
  /\ rest' = [rest EXCEPT ![c] = Tail(@)]
  /\ \/ /\ cmd.op \in KeyOps /\ Owner[cmd.key] = Home[c]
        /\ Effect(Home[c], cmd.op, cmd.key)
        /\ UNCHANGED <<watchers, watched>>
     \/ /\ cmd.op = "unwatch"
        /\ ClearWatchState(c)
        /\ UNCHANGED <<stores, stamp>>
     \/ /\ cmd.op = "slot"
        /\ UNCHANGED <<stores, tables, stamp, hushed>>
  /\ UNCHANGED <<link, tx, task, wires, issued, seen>>

\* The next queued command, when the task awaits: other tasks of the shard run.
ExecAwait(c, cmd) ==
  /\ rest' = [rest EXCEPT ![c] = Tail(@)]
  /\ \/ cmd.op \in KeyOps /\ Owner[cmd.key] # Home[c] /\ Send(c, cmd.op, cmd.key, {Owner[cmd.key]})
     \/ cmd.op = "park" /\ UNCHANGED <<pending, bus>>
  /\ Release(c)
  /\ UNCHANGED <<stores, tables, link, tx, task, history>>

\* The queue is done: the watches are cleared and the array is answered.
ExecEnd(c) ==
  /\ rest[c] = <<>>
  /\ task' = [task EXCEPT ![c] = "idle"]
  /\ ClearWatchState(c)
  /\ Release(c)
  /\ UNCHANGED <<stores, link, tx, rest, pending, bus, issued, stamp, seen>>

ExecStep(c) ==
  /\ Running(c)
  /\ \/ rest[c] # <<>> /\ (ExecLocal(c, Head(rest[c])) \/ ExecAwait(c, Head(rest[c])))
     \/ ExecEnd(c)

----------------------------------------------------------------------------
(* Expiry and connections *)

\* A key whose deadline passed is removed, by the timer task or by the next
\* command that looks it up, inside an EXEC too: nobody is notified.
Expire(k) ==
  /\ live[k] /\ Issue
  /\ live' = [live EXCEPT ![k] = FALSE]
  /\ stamp' = [stamp EXCEPT ![k] = @ + 1]
  /\ Hush(k)
  /\ UNCHANGED <<global, version, tables, tasks, wires, seen>>

\* End of file or QUIT: cleanup_connection_state.
CloseWithoutUnwatch(c) ==
  /\ Ready(c)
  /\ link' = [link EXCEPT ![c] = "closed"]
  /\ tx' = [tx EXCEPT ![c] = None]
  /\ ClearStateOnly(c)
  /\ UNCHANGED <<stores, task, rest, wires, issued, stamp, seen>>
Close(c) ==
  /\ Ready(c)
  /\ link' = [link EXCEPT ![c] = "closed"]
  /\ tx' = [tx EXCEPT ![c] = None]
  /\ ClearWatchState(c)
  /\ UNCHANGED <<stores, task, rest, wires, issued, stamp, seen>>

\* A read, write or protocol error: run returns early and cleans nothing up.
Fail(c) ==
  /\ Ready(c)
  /\ link' = [link EXCEPT ![c] = "failed"]
  /\ UNCHANGED <<stores, tables, tx, task, rest, wires, history>>

\* A new connection, where an old one was cleaned up.
Accept(c) ==
  /\ link[c] = "closed"
  /\ link' = [link EXCEPT ![c] = "open"]
  /\ UNCHANGED <<stores, tables, tx, task, rest, wires, history>>

----------------------------------------------------------------------------
Init ==
  /\ live = [k \in Keys |-> FALSE]
  /\ global = [s \in Shards |-> 0]
  /\ version = [s \in Shards |-> [k \in Keys |-> 0]]
  /\ watchers = [s \in Shards |-> [k \in Keys |-> {}]]
  /\ watched = [c \in Conns |-> [k \in Keys |-> None]]
  /\ dirty = [c \in Conns |-> FALSE]
  /\ link = [c \in Conns |-> "open"]
  /\ tx = [c \in Conns |-> None]
  /\ task = [c \in Conns |-> "idle"]
  /\ rest = [c \in Conns |-> <<>>]
  /\ pending = [c \in Conns |-> {}]
  /\ bus = [s \in Shards |-> <<>>]
  /\ running = [s \in Shards |-> None]
  /\ issued = 0
  /\ stamp = [k \in Keys |-> 0]
  /\ seen = [c \in Conns |-> [k \in Keys |-> 0]]
  /\ hushed = {}

Queueable == [op : Ops, key : Keys] \cup [op : {"unwatch", "slot"}, key : {None}]

ClientStep(c) ==
  \/ \E op \in Ops, k \in Keys : LocalCommand(c, op, k) \/ RemoteCommand(c, op, k)
  \/ "flush" \in Ops /\ \E k \in Keys : FlushAsync(c, k)
  \/ \E k \in Keys : Watch(c, k)
  \/ Unwatch(c)
  \/ Multi(c)
  \/ \E cmd \in Queueable : QueueCommand(c, cmd)
  \/ Discard(c)
  \/ ExecRefused(c)
  \/ ExecStart(c)
  \/ Close(c)
  \/ Fail(c)
  \/ Accept(c)

ServerStep ==
  \/ \E c \in Conns : ExecStep(c) \/ Resume(c) \/ QueryTimeout(c)
  \/ \E s \in Shards : DrainBus(s)

Next == (\E c \in Conns : ClientStep(c)) \/ ServerStep \/ (\E k \in Keys : Expire(k))

Spec == Init /\ [][Next]_vars

\* The shard's executor runs its ready tasks in turn: a task that is ready
\* again and again is run, and a task that holds the thread goes on.
Fairness ==
  /\ \A c \in Conns : WF_vars(ExecStep(c)) /\ SF_vars(Resume(c)) /\ SF_vars(QueryTimeout(c))
  /\ \A s \in Shards : SF_vars(DrainBus(s))
FairSpec == Spec /\ Fairness

----------------------------------------------------------------------------
(* Properties *)

TypeOK ==
  /\ live \in [Keys -> BOOLEAN]
  /\ global \in [Shards -> Nat]
  /\ version \in [Shards -> [Keys -> Nat]]
  /\ watchers \in [Shards -> [Keys -> SUBSET Conns]]
  /\ watched \in [Conns -> [Keys -> Nat \cup {None}]]
  /\ dirty \in [Conns -> BOOLEAN]
  /\ link \in [Conns -> {"open", "closed", "failed"}]
  /\ tx \in [Conns -> [queue : Seq(Command), error : BOOLEAN] \cup {None}]
  /\ task \in [Conns -> {"idle", "command", "exec"}]
  /\ rest \in [Conns -> Seq(Command)]
  /\ pending \in [Conns -> SUBSET Shards]
  /\ bus \in [Shards -> Seq(Query)]
  /\ running \in [Shards -> Conns \cup {None, Bus}]
  /\ issued \in Nat /\ stamp \in [Keys -> Nat]
  /\ seen \in [Conns -> [Keys -> Nat]]
  /\ hushed \subseteq Conns \X Keys

\* The two watch tables agree: a shard lists a connection under a key exactly
\* when the connection is one of its own and has the key in its WatchState.
\* A connection that was cleaned up is in neither.
WatchTablesAgree ==
  \A s \in Shards, k \in Keys, c \in Conns :
    c \in watchers[s][k] <=> s = Home[c] /\ watched[c][k] # None

\* While a connection is not dirty, every key it watches still has, on its own
\* shard, the version WATCH recorded: no notified write and no FLUSH (which
\* starts the versions again at 0) can slip past the version comparison.
CleanMeansSameVersion ==
  \A c \in Conns, k \in Keys :
    link[c] # "closed" /\ ~dirty[c] /\ watched[c][k] # None
      => version[Home[c]][k] = watched[c][k]

\* While a connection is not dirty, a key it watches on its own shard has not
\* changed since WATCH, unless by a change that notifies nobody.  EXEC runs
\* only when the connection is not dirty.
NoMissedWrite ==
  \A c \in Conns, k \in Keys :
    link[c] # "closed" /\ ~dirty[c] /\ watched[c][k] # None /\ Owner[k] = Home[c]
      /\ <<c, k>> \notin hushed
      => stamp[k] = seen[c][k]

\* Every command and every EXEC comes to an end, whatever the other shards do.
CommandsEnd == \A c \in Conns : task[c] # "idle" ~> task[c] = "idle"

\* A step in which EXEC of connection c starts to run its queue.
Starts(c) == task[c] # "exec" /\ task'[c] = "exec"

\* EXEC answers null when another connection wrote a watched key
\* (tests/compat/transaction.rs:394-409, key tx:cross).
ExecSeesWrites ==
  [][\A c \in Conns : Starts(c) =>
       \A k \in Keys : watched[c][k] # None /\ <<c, k>> \notin hushed
                        => stamp[k] = seen[c][k]]_vars

\* EXEC answers null when a watched key expired (tests/compat/transaction.rs:
\* 442-461, key tx:expire).
ExecSeesExpiry ==
  [][\A c \in Conns : Starts(c) => \A k \in Keys : <<c, k>> \notin hushed]_vars

\* After FLUSHDB a transaction that watches nothing is run by EXEC
\* (tests/compat/transaction.rs:61-77).
UnwatchedExecRuns ==
  \A c \in Conns :
    Ready(c) /\ tx[c] # None /\ ~tx[c].error /\ (\A k \in Keys : watched[c][k] = None)
      => ~dirty[c]
=============================================================================
