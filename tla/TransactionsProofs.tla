------------------------- MODULE TransactionsProofs -------------------------
(***************************************************************************)
(* Proofs about Transactions for every set of connections, keys and shards *)
(* and every placement of keys and connections on shards.                  *)
(*                                                                         *)
(* The invariants speak of nine variables only.  Lemma StepKinds shows     *)
(* that a step changes them in one of seven ways, and each invariant is    *)
(* then proved for the seven ways rather than for every action.            *)
(***************************************************************************)
EXTENDS Transactions, TLAPS, SequenceTheorems

----------------------------------------------------------------------------
(* The inductive invariant *)

\* No key has a version its shard has not given out yet.
VersionsGivenOut == \A s \in Shards, k \in Keys : version[s][k] <= global[s]

\* A connection that was cleaned up watches nothing.
ClosedWatchNothing ==
  \A c \in Conns, k \in Keys : link[c] = "closed" => watched[c][k] = None

\* A query for a key is only ever sent to the shard that owns the key.
QueriesAtOwner ==
  \A s \in Shards : \A i \in 1 .. Len(bus[s]) :
    bus[s][i].op \in KeyOps => Owner[bus[s][i].key] = s

WatchInv ==
  /\ WatchTablesAgree /\ ClosedWatchNothing
  /\ VersionsGivenOut /\ CleanMeansSameVersion /\ NoMissedWrite

----------------------------------------------------------------------------
(* Types *)

\* A queued command that names an operation of a client names a key.
LEMMA CommandKey ==
  ASSUME NEW cmd \in Command, cmd.op \in AllOps
  PROVE  cmd.key \in Keys
BY DEF Command, AllOps, KeyOps

\* A command keeps the variables it changes in their types.
LEMMA EffectTypes ==
  ASSUME TypeOK, NEW s \in Shards, NEW op, NEW k \in Keys, Effect(s, op, k)
  PROVE  /\ live' \in [Keys -> BOOLEAN]
         /\ global' \in [Shards -> Nat]
         /\ version' \in [Shards -> [Keys -> Nat]]
         /\ dirty' \in [Conns -> BOOLEAN]
         /\ stamp' \in [Keys -> Nat]
         /\ hushed' \subseteq Conns \X Keys
<1>1. CASE op \in {"write", "del"}
  <2>1. /\ live' = [live EXCEPT ![k] = op = "write"]
        /\ stamp' = [stamp EXCEPT ![k] = @ + 1]
        /\ NotifyWrite(s, k) /\ hushed' = hushed
    BY <1>1 DEF Effect
  <2>2. live' \in [Keys -> BOOLEAN] /\ stamp' \in [Keys -> Nat]
    BY <2>1 DEF TypeOK
  <2>3. global[s] + 1 \in Nat
    BY DEF TypeOK
  <2>4. global' \in [Shards -> Nat] /\ version' \in [Shards -> [Keys -> Nat]]
    BY <2>1, <2>3 DEF TypeOK, NotifyWrite
  <2>5. dirty' \in [Conns -> BOOLEAN]
    BY <2>1, Zenon DEF TypeOK, NotifyWrite
  <2> QED BY Zenon, <2>1, <2>2, <2>4, <2>5 DEF TypeOK
<1>2. CASE op = "quiet"
  <2>1. /\ live' = [live EXCEPT ![k] = TRUE]
        /\ stamp' = [stamp EXCEPT ![k] = @ + 1]
        /\ Hush(k) /\ UNCHANGED <<global, version, dirty>>
    BY <1>2 DEF Effect
  <2>2. hushed' \subseteq Conns \X Keys
    BY <2>1 DEF TypeOK, Hush
  <2> QED BY SMTT(30), <2>1, <2>2 DEF TypeOK
<1>3. CASE op = "read"
  BY Zenon, <1>3 DEF Effect, TypeOK, stores
<1> QED BY <1>1, <1>2, <1>3 DEF Effect

\* A flush keeps the variables it changes in their types.
LEMMA FlushTypes ==
  ASSUME TypeOK, NEW s \in Shards, FlushShard(s)
  PROVE  /\ live' \in [Keys -> BOOLEAN]
         /\ global' \in [Shards -> Nat]
         /\ version' \in [Shards -> [Keys -> Nat]]
         /\ dirty' \in [Conns -> BOOLEAN]
         /\ stamp' \in [Keys -> Nat]
<1>1. live' \in [Keys -> BOOLEAN]
  BY Zenon DEF TypeOK, FlushShard
<1>2. global' \in [Shards -> Nat] /\ version' \in [Shards -> [Keys -> Nat]]
  BY DEF TypeOK, FlushShard
<1>3. dirty' \in [Conns -> BOOLEAN]
  BY Zenon DEF TypeOK, FlushShard
<1>4. stamp' \in [Keys -> Nat]
  BY DEF TypeOK, FlushShard
<1> QED BY <1>1, <1>2, <1>3, <1>4

\* Clearing a connection's watches keeps the watch tables in their types.
LEMMA ClearTypes ==
  ASSUME TypeOK, NEW c \in Conns, ClearWatchState(c)
  PROVE  /\ watchers' \in [Shards -> [Keys -> SUBSET Conns]]
         /\ watched' \in [Conns -> [Keys -> Nat \cup {None}]]
         /\ dirty' \in [Conns -> BOOLEAN]
         /\ hushed' \subseteq Conns \X Keys
<1>1. watchers' \in [Shards -> [Keys -> SUBSET Conns]]
  BY DEF TypeOK, ClearWatchState
<1>2. watched' \in [Conns -> [Keys -> Nat \cup {None}]]
  BY DEF TypeOK, ClearWatchState
<1>3. dirty' \in [Conns -> BOOLEAN] /\ hushed' \subseteq Conns \X Keys
  BY DEF TypeOK, ClearWatchState
<1> QED BY <1>1, <1>2, <1>3

\* Sending a query keeps the queues and the awaited replies in their types.
LEMMA SendTypes ==
  ASSUME TypeOK, NEW c \in Conns, NEW op \in KeyOps \cup {"flush"}, NEW k \in Keys,
         NEW to \in SUBSET Shards, Send(c, op, k, to)
  PROVE  /\ bus' \in [Shards -> Seq(Query)]
         /\ pending' \in [Conns -> SUBSET Shards]
<1> DEFINE q == [op |-> op, key |-> k, conn |-> c]
<1>1. q \in Query
  BY DEF Query
<1> HIDE DEF q
<1>2. \A s \in Shards : Append(bus[s], q) \in Seq(Query)
  BY <1>1, AppendProperties DEF TypeOK
<1>3. bus' = [s \in Shards |-> IF s \in to THEN Append(bus[s], q) ELSE bus[s]]
  BY DEF Send, q
<1>4. bus' \in [Shards -> Seq(Query)]
  BY <1>2, <1>3 DEF TypeOK
<1>5. pending' \in [Conns -> SUBSET Shards]
  BY DEF Send, TypeOK
<1> QED BY <1>4, <1>5

\* The initial state is well typed.
LEMMA InitTypes == Init => TypeOK
<1> SUFFICES ASSUME Init PROVE TypeOK
  OBVIOUS
<1>1. <<>> \in Seq(Command) /\ <<>> \in Seq(Query)
  BY EmptySeq
<1> QED BY <1>1 DEF Init, TypeOK

\* A step of a client, at its own shard, keeps the types.
LEMMA ClientTypes ==
  ASSUME TypeOK, NEW c \in Conns, ClientStep(c)
  PROVE  TypeOK'
<1> USE TopologyAssumption
<1>0. Home[c] \in Shards /\ issued + 1 \in Nat
  BY DEF TypeOK
<1>1. ASSUME NEW op \in Ops, NEW k \in Keys, LocalCommand(c, op, k) PROVE TypeOK'
  <2>1. Effect(Home[c], op, k) /\ issued' = issued + 1
    BY <1>1 DEF LocalCommand, Issue
  <2> QED BY Zenon, <1>0, <1>1, <2>1, EffectTypes DEF LocalCommand, TypeOK, tasks, wires
<1>2. ASSUME NEW op \in Ops, NEW k \in Keys, RemoteCommand(c, op, k) PROVE TypeOK'
  <2>1. PICK to \in SUBSET Shards : op \in KeyOps \cup {"flush"} /\ Send(c, op, k, to)
    BY <1>2 DEF RemoteCommand
  <2>2. bus' \in [Shards -> Seq(Query)] /\ pending' \in [Conns -> SUBSET Shards]
    BY <2>1, SendTypes
  <2> QED BY Zenon, <1>0, <1>2, <2>2 DEF RemoteCommand, Issue, TypeOK, stores, tables
<1>3. ASSUME NEW k \in Keys, FlushAsync(c, k) PROVE TypeOK'
  <2> DEFINE q == [op |-> "flush", key |-> k, conn |-> None]
  <2>1. q \in Query
    BY DEF Query
  <2>2. bus' = [s \in Shards |-> Append(bus[s], q)]
    BY <1>3 DEF FlushAsync
  <2> HIDE DEF q
  <2>3. \A s \in Shards : Append(bus[s], q) \in Seq(Query)
    BY <2>1, AppendProperties DEF TypeOK
  <2>4. bus' \in [Shards -> Seq(Query)]
    BY <2>2, <2>3
  <2> QED BY Zenon, <1>0, <1>3, <2>4 DEF FlushAsync, Issue, TypeOK, stores, tables, tasks
<1>4. ASSUME NEW k \in Keys, Watch(c, k) PROVE TypeOK'
  <2>1. watched' \in [Conns -> [Keys -> Nat \cup {None}]]
    BY SMTT(30), <1>0, <1>4 DEF Watch, WatchKey, TypeOK
  <2>2. watchers' \in [Shards -> [Keys -> SUBSET Conns]]
    BY SMTT(30), <1>0, <1>4 DEF Watch, WatchKey, TypeOK
  <2>3. seen' \in [Conns -> [Keys -> Nat]] /\ hushed' \subseteq Conns \X Keys
    BY Zenon, <1>4 DEF Watch, TypeOK
  <2> QED BY Zenon, <1>4, <2>1, <2>2, <2>3 DEF Watch, TypeOK, stores, tasks, wires
<1>5. CASE Unwatch(c)
  BY Zenon, <1>5, ClearTypes DEF Unwatch, TypeOK, stores, tasks, wires
<1>6. CASE Multi(c)
  <2>1. [queue |-> <<>>, error |-> FALSE] \in [queue : Seq(Command), error : BOOLEAN]
    BY EmptySeq
  <2> QED BY Zenon, <1>6, <2>1 DEF Multi, TypeOK, stores, tables, wires, history
<1>7. ASSUME NEW cmd \in Queueable, QueueCommand(c, cmd) PROVE TypeOK'
  <2>1. cmd \in Command
    BY Zenon DEF Queueable, Command
  <2>2. tx[c] \in [queue : Seq(Command), error : BOOLEAN]
    BY <1>7 DEF QueueCommand, TypeOK
  <2> DEFINE new == [queue |-> Append(tx[c].queue, cmd),
                     error |-> tx[c].error \/ cmd.op \in Refused]
  <2>3. Append(tx[c].queue, cmd) \in Seq(Command)
    BY <2>1, <2>2, AppendProperties
  <2>4. (tx[c].error \/ cmd.op \in Refused) \in BOOLEAN
    OBVIOUS
  <2>5. new \in [queue : Seq(Command), error : BOOLEAN]
    BY Zenon, <2>3, <2>4
  <2>6. tx' = [tx EXCEPT ![c] = new]
    BY Zenon, <1>7 DEF QueueCommand
  <2>7. /\ issued' = issued + 1
        /\ UNCHANGED <<stores, tables, link, task, rest, wires, stamp, seen, hushed>>
    BY Zenon, <1>7 DEF QueueCommand, Issue
  <2> HIDE DEF new
  <2>8. tx' \in [Conns -> [queue : Seq(Command), error : BOOLEAN] \cup {None}]
    BY <2>5, <2>6 DEF TypeOK
  <2> QED BY Zenon, <1>0, <2>7, <2>8 DEF TypeOK, stores, tables, wires
<1>8. CASE Discard(c)
  BY Zenon, <1>8, ClearTypes DEF Discard, TypeOK, stores, wires
<1>9. CASE ExecRefused(c)
  BY Zenon, <1>9, ClearTypes DEF ExecRefused, TypeOK, stores, wires
<1>10. CASE ExecStart(c)
  <2>1. tx[c].queue \in Seq(Command)
    BY <1>10 DEF ExecStart, TypeOK
  <2> QED BY Zenon, <1>0, <1>10, <2>1 DEF ExecStart, TypeOK, stores, tables, history
<1>11. CASE Close(c)
  BY Zenon, <1>11, ClearTypes DEF Close, TypeOK, stores, wires
<1>12. CASE Fail(c)
  BY Zenon, <1>12 DEF Fail, TypeOK, stores, tables, wires, history
<1>13. CASE Accept(c)
  BY Zenon, <1>13 DEF Accept, TypeOK, stores, tables, wires, history
<1> QED BY Zenon, <1>1, <1>2, <1>3, <1>4, <1>5, <1>6, <1>7, <1>8, <1>9, <1>10, <1>11, <1>12, <1>13
        DEF ClientStep

\* A step of an EXEC in progress keeps the types.
LEMMA ExecTypes ==
  ASSUME TypeOK, NEW c \in Conns, ExecStep(c)
  PROVE  TypeOK'
<1> USE TopologyAssumption
<1>0. Home[c] \in Shards
  OBVIOUS
<1>1. ASSUME rest[c] # <<>>
      PROVE  /\ Head(rest[c]) \in Command
             /\ [rest EXCEPT ![c] = Tail(@)] \in [Conns -> Seq(Command)]
  <2>1. rest[c] \in Seq(Command)
    BY Zenon DEF TypeOK
  <2>2. Head(rest[c]) \in Command /\ Tail(rest[c]) \in Seq(Command)
    BY Zenon, <1>1, <2>1, HeadTailProperties
  <2> QED BY <2>2 DEF TypeOK
<1>2. ASSUME NEW cmd \in Command, ExecLocal(c, cmd), rest' \in [Conns -> Seq(Command)]
      PROVE  TypeOK'
  <2>1. CASE /\ cmd.op \in KeyOps
             /\ Effect(Home[c], cmd.op, cmd.key) /\ UNCHANGED <<watchers, watched>>
    <3>1. cmd.key \in Keys
      BY <2>1, CommandKey DEF AllOps
    <3> QED BY Zenon, <1>0, <1>2, <2>1, <3>1, EffectTypes DEF ExecLocal, TypeOK, wires
  <2>2. CASE ClearWatchState(c) /\ UNCHANGED <<stores, stamp>>
    BY Zenon, <1>2, <2>2, ClearTypes DEF ExecLocal, TypeOK, stores, wires
  <2>3. CASE UNCHANGED <<stores, tables, stamp, hushed>>
    BY Zenon, <1>2, <2>3 DEF ExecLocal, TypeOK, stores, tables, wires
  <2> QED BY <1>2, <2>1, <2>2, <2>3 DEF ExecLocal
<1>3. ASSUME NEW cmd \in Command, ExecAwait(c, cmd), rest' \in [Conns -> Seq(Command)]
      PROVE  TypeOK'
  <2>1. bus' \in [Shards -> Seq(Query)] /\ pending' \in [Conns -> SUBSET Shards]
    <3>1. CASE cmd.op \in KeyOps /\ Send(c, cmd.op, cmd.key, {Owner[cmd.key]})
      <4>1. cmd.key \in Keys
        BY <3>1, CommandKey DEF AllOps
      <4>2. {Owner[cmd.key]} \in SUBSET Shards
        BY Zenon, <4>1
      <4> QED BY <3>1, <4>1, <4>2, SendTypes
    <3>2. CASE UNCHANGED <<pending, bus>>
      BY <3>2 DEF TypeOK
    <3> QED BY Zenon, <1>3, <3>1, <3>2 DEF ExecAwait
  <2> QED BY Zenon, <1>0, <1>3, <2>1 DEF ExecAwait, Release, TypeOK, stores, tables, history
<1>4. CASE ExecEnd(c)
  BY Zenon, <1>0, <1>4, ClearTypes DEF ExecEnd, Release, TypeOK, stores
<1>5. ASSUME rest[c] # <<>>, ExecLocal(c, Head(rest[c])) PROVE TypeOK'
  <2>1. rest' = [rest EXCEPT ![c] = Tail(@)]
    BY Zenon, <1>5 DEF ExecLocal
  <2> QED BY Zenon, <1>1, <1>2, <1>5, <2>1
<1>6. ASSUME rest[c] # <<>>, ExecAwait(c, Head(rest[c])) PROVE TypeOK'
  <2>1. rest' = [rest EXCEPT ![c] = Tail(@)]
    BY <1>6 DEF ExecAwait
  <2> QED BY <1>1, <1>3, <1>6, <2>1
<1> QED BY <1>4, <1>5, <1>6 DEF ExecStep

\* A drained query, a timeout and a resumed task keep the types.
LEMMA WireTypes ==
  ASSUME TypeOK,
         \/ \E c \in Conns : Resume(c) \/ QueryTimeout(c)
         \/ \E s \in Shards : DrainBus(s)
  PROVE  TypeOK'
<1> USE TopologyAssumption
<1>1. ASSUME NEW c \in Conns, Resume(c) PROVE TypeOK'
  BY Zenon, <1>1 DEF Resume, TypeOK, stores, tables, history
<1>2. ASSUME NEW c \in Conns, QueryTimeout(c) PROVE TypeOK'
  <2> DEFINE answered(s) == [i \in 1 .. Len(bus[s]) |->
               IF bus[s][i].conn = c THEN [bus[s][i] EXCEPT !.conn = None] ELSE bus[s][i]]
  <2>1. ASSUME NEW s \in Shards PROVE answered(s) \in Seq(Query)
    <3>1. bus[s] \in Seq(Query) /\ Len(bus[s]) \in Nat
      BY LenProperties DEF TypeOK
    <3>2. ASSUME NEW i \in 1 .. Len(bus[s]) PROVE answered(s)[i] \in Query
      <4>1. bus[s][i] \in Query
        BY <3>1, ElementOfSeq
      <4> QED BY Zenon, <4>1 DEF Query
    <3>3. answered(s) \in [1 .. Len(bus[s]) -> Query]
      BY <3>2, Zenon
    <3> HIDE DEF answered
    <3> QED BY SMTT(30), <3>1, <3>3, SeqDef
  <2>2. bus' = [s \in Shards |-> answered(s)]
    BY <1>2 DEF QueryTimeout
  <2> HIDE DEF answered
  <2>3. bus' \in [Shards -> Seq(Query)]
    BY Zenon, <2>1, <2>2
  <2>4. pending' \in [Conns -> SUBSET Shards]
    BY Zenon, <1>2 DEF QueryTimeout, TypeOK
  <2>5. UNCHANGED <<stores, tables, tasks, running, history>>
    BY Zenon, <1>2 DEF QueryTimeout
  <2> QED BY Zenon, <2>3, <2>4, <2>5 DEF TypeOK, stores, tables, tasks, history
<1>3. ASSUME NEW s \in Shards, DrainBus(s) PROVE TypeOK'
  <2> DEFINE q == Head(bus[s])
  <2>1. bus[s] \in Seq(Query) /\ bus[s] # <<>>
    BY <1>3 DEF DrainBus, TypeOK
  <2>2. q \in Query /\ Tail(bus[s]) \in Seq(Query)
    BY <2>1, HeadTailProperties
  <2>3. q.key \in Keys
    BY Zenon, <2>2 DEF Query
  <2>4. bus' \in [Shards -> Seq(Query)]
    BY Zenon, <1>3, <2>2 DEF DrainBus, TypeOK
  <2>5. pending' \in [Conns -> SUBSET Shards] /\ running' \in [Shards -> Conns \cup {None, Bus}]
    BY Zenon, <1>3 DEF DrainBus, TypeOK
  <2>6. UNCHANGED <<watchers, watched, tasks, issued, seen>>
    BY <1>3 DEF DrainBus
  <2>7. CASE FlushShard(s) /\ UNCHANGED hushed
    BY Zenon, <2>4, <2>5, <2>6, <2>7, FlushTypes DEF TypeOK, tasks
  <2>8. CASE Effect(s, q.op, q.key)
    <3> HIDE DEF q
    <3>1. /\ live' \in [Keys -> BOOLEAN] /\ global' \in [Shards -> Nat]
          /\ version' \in [Shards -> [Keys -> Nat]] /\ dirty' \in [Conns -> BOOLEAN]
          /\ stamp' \in [Keys -> Nat] /\ hushed' \subseteq Conns \X Keys
      BY Zenon, <2>3, <2>8, EffectTypes
    <3> QED BY Zenon, <2>4, <2>5, <2>6, <3>1 DEF TypeOK, tasks
  <2> QED BY Zenon, <1>3, <2>7, <2>8 DEF DrainBus
<1> QED BY <1>1, <1>2, <1>3

\* An expired key keeps the types.
LEMMA ExpireTypes ==
  ASSUME TypeOK, NEW k \in Keys, Expire(k)
  PROVE  TypeOK'
BY SMTT(30) DEF Expire, Issue, Hush, TypeOK, tables, tasks, wires

\* Every step keeps the types.
LEMMA TypesPreserved == TypeOK /\ [Next]_vars => TypeOK'
<1> SUFFICES ASSUME TypeOK, [Next]_vars PROVE TypeOK'
  OBVIOUS
<1>1. CASE UNCHANGED vars
  BY Zenon, <1>1 DEF vars, stores, tables, tasks, wires, history, TypeOK
<1>2. CASE Next
  BY <1>2, ClientTypes, ExecTypes, WireTypes, ExpireTypes DEF Next, ServerStep
<1> QED BY <1>1, <1>2

\* The tasks, tables and queues of every shard stay well typed: a version is a
\* number and every query names a key, whatever clients, timeouts and flushes do.
THEOREM TransactionTypes == Spec => []TypeOK
BY InitTypes, TypesPreserved, PTL DEF Spec

----------------------------------------------------------------------------
(* Queries reach the owner of their key *)

\* Appending a query that belongs at its shard keeps the queues right.
LEMMA AppendAtOwner ==
  ASSUME TypeOK, QueriesAtOwner, NEW q \in Query, NEW to \in SUBSET Shards,
         q.op \in KeyOps => to = {Owner[q.key]},
         bus' = [s \in Shards |-> IF s \in to THEN Append(bus[s], q) ELSE bus[s]]
  PROVE  QueriesAtOwner'
<1> SUFFICES ASSUME NEW s \in Shards, NEW i \in 1 .. Len(bus'[s]), bus'[s][i].op \in KeyOps
             PROVE  Owner[bus'[s][i].key] = s
  BY Zenon DEF QueriesAtOwner
<1>1. bus[s] \in Seq(Query) /\ Len(bus[s]) \in Nat
  BY Zenon, LenProperties DEF TypeOK
<1>2. CASE s \notin to
  BY Zenon, <1>2 DEF QueriesAtOwner
<1>3. CASE s \in to
  <2>1. bus'[s] = Append(bus[s], q)
    BY Zenon, <1>3
  <2>2. /\ Len(bus'[s]) = Len(bus[s]) + 1
        /\ \A j \in 1 .. Len(bus[s]) : bus'[s][j] = bus[s][j]
        /\ bus'[s][Len(bus[s]) + 1] = q
    BY SMTT(30), <1>1, <2>1, AppendProperties
  <2>3. CASE i \in 1 .. Len(bus[s])
    BY SMTT(30), <2>2, <2>3 DEF QueriesAtOwner
  <2>4. CASE i = Len(bus[s]) + 1
    BY <1>3, <2>2, <2>4
  <2> QED BY SMTT(30), <1>1, <2>2, <2>3, <2>4
<1> QED BY Zenon, <1>2, <1>3

\* A routed command is sent to the owner of its key, a flush to every shard.
LEMMA SendAtOwner ==
  ASSUME TypeOK, QueriesAtOwner, NEW c \in Conns, NEW op \in KeyOps \cup {"flush"},
         NEW k \in Keys, NEW to \in SUBSET Shards,
         op \in KeyOps => to = {Owner[k]}, Send(c, op, k, to)
  PROVE  QueriesAtOwner'
<1> DEFINE q == [op |-> op, key |-> k, conn |-> c]
<1>1. q \in Query /\ q.op = op /\ q.key = k
  BY Zenon DEF Query
<1>2. bus' = [s \in Shards |-> IF s \in to THEN Append(bus[s], q) ELSE bus[s]]
  BY Zenon DEF Send
<1> HIDE DEF q
<1> QED BY Zenon, <1>1, <1>2, AppendAtOwner

\* Every step keeps each query at the owner of its key.
LEMMA OwnerPreserved ==
  ASSUME TypeOK, QueriesAtOwner, [Next]_vars
  PROVE  QueriesAtOwner'
<1> USE TopologyAssumption
<1>1. CASE UNCHANGED bus
  BY Zenon, <1>1 DEF QueriesAtOwner
<1>2. ASSUME NEW c \in Conns, NEW op \in Ops, NEW k \in Keys, RemoteCommand(c, op, k)
      PROVE  QueriesAtOwner'
  <2>1. CASE op \in KeyOps /\ Send(c, op, k, {Owner[k]})
    BY SMTT(30), <2>1, SendAtOwner
  <2>2. CASE op = "flush" /\ Send(c, op, k, Shards)
    BY <2>2, SendAtOwner DEF KeyOps
  <2> QED BY Zenon, <1>2, <2>1, <2>2 DEF RemoteCommand
<1>3. ASSUME NEW c \in Conns, NEW k \in Keys, FlushAsync(c, k) PROVE QueriesAtOwner'
  <2> DEFINE q == [op |-> "flush", key |-> k, conn |-> None]
  <2>1. q \in Query /\ q.op \notin KeyOps
    BY Zenon DEF Query, KeyOps
  <2>2. bus' = [s \in Shards |-> IF s \in Shards THEN Append(bus[s], q) ELSE bus[s]]
    BY Zenon, <1>3 DEF FlushAsync
  <2> HIDE DEF q
  <2> QED BY Zenon, <2>1, <2>2, AppendAtOwner
<1>4. ASSUME NEW c \in Conns, ExecStep(c) PROVE QueriesAtOwner'
  <2>1. ASSUME rest[c] # <<>>, ExecAwait(c, Head(rest[c])), bus' # bus PROVE QueriesAtOwner'
    <3> DEFINE cmd == Head(rest[c])
    <3>1. cmd \in Command
      BY Zenon, <2>1, HeadTailProperties DEF TypeOK
    <3>2. cmd.op \in KeyOps /\ Send(c, cmd.op, cmd.key, {Owner[cmd.key]})
      BY <2>1 DEF ExecAwait
    <3> HIDE DEF cmd
    <3>3. cmd.key \in Keys
      BY Zenon, <3>1, <3>2, CommandKey DEF AllOps
    <3> QED BY SMTT(30), <3>2, <3>3, SendAtOwner
  <2> QED BY Zenon, <1>1, <1>4, <2>1 DEF ExecStep, ExecLocal, ExecEnd, wires
<1>5. ASSUME NEW c \in Conns, QueryTimeout(c) PROVE QueriesAtOwner'
  <2> SUFFICES ASSUME NEW s \in Shards, NEW i \in 1 .. Len(bus'[s]),
                      bus'[s][i].op \in KeyOps
               PROVE  Owner[bus'[s][i].key] = s
    BY Zenon DEF QueriesAtOwner
  <2>1. bus[s] \in Seq(Query) /\ Len(bus[s]) \in Nat
    BY LenProperties DEF TypeOK
  <2>2. bus'[s] = [j \in 1 .. Len(bus[s]) |->
          IF bus[s][j].conn = c THEN [bus[s][j] EXCEPT !.conn = None] ELSE bus[s][j]]
    BY <1>5 DEF QueryTimeout
  <2>3. Len(bus'[s]) = Len(bus[s])
    BY SMTT(30), <2>1, <2>2
  <2>4. bus[s][i] \in Query
    BY Zenon, <2>1, <2>3, ElementOfSeq
  <2>5. bus'[s][i].op = bus[s][i].op /\ bus'[s][i].key = bus[s][i].key
    BY Zenon, <2>2, <2>3, <2>4 DEF Query
  <2> QED BY Zenon, <2>3, <2>5 DEF QueriesAtOwner
<1>6. ASSUME NEW s \in Shards, DrainBus(s) PROVE QueriesAtOwner'
  <2> SUFFICES ASSUME NEW t \in Shards, NEW i \in 1 .. Len(bus'[t]),
                      bus'[t][i].op \in KeyOps
               PROVE  Owner[bus'[t][i].key] = t
    BY Zenon DEF QueriesAtOwner
  <2>1. bus[s] \in Seq(Query) /\ bus[s] # <<>> /\ bus' = [bus EXCEPT ![s] = Tail(@)]
    BY Zenon, <1>6 DEF DrainBus, TypeOK
  <2>2. CASE t # s
    BY Zenon, <2>1, <2>2 DEF QueriesAtOwner, TypeOK
  <2>3. CASE t = s
    <3>1. bus'[s] = Tail(bus[s])
      BY Zenon, <2>1 DEF TypeOK
    <3>2. /\ Len(bus[s]) \in Nat /\ Len(Tail(bus[s])) = Len(bus[s]) - 1
          /\ \A j \in 1 .. Len(Tail(bus[s])) : Tail(bus[s])[j] = bus[s][j + 1]
      BY Zenon, <2>1, HeadTailProperties, LenProperties
    <3>3. i + 1 \in 1 .. Len(bus[s]) /\ bus'[s][i] = bus[s][i + 1]
      BY SMTT(30), <2>3, <3>1, <3>2
    <3>4. bus[s][i + 1].op \in KeyOps
      BY <2>3, <3>3
    <3>5. Owner[bus[s][i + 1].key] = s
      BY ZenonT(40), <3>3, <3>4 DEF QueriesAtOwner
    <3> QED BY Zenon, <2>3, <3>3, <3>5
  <2> QED BY Zenon, <2>2, <2>3
<1>7. ASSUME NEW c \in Conns, ClientStep(c) PROVE QueriesAtOwner'
  BY Zenon, <1>1, <1>2, <1>3, <1>7
     DEF ClientStep, LocalCommand, Watch, Unwatch, Multi, QueueCommand, Discard, ExecRefused,
         ExecStart, Close, Fail, Accept, wires
<1>8. CASE Next
  BY ZenonT(40), <1>1, <1>4, <1>5, <1>6, <1>7, <1>8 DEF Next, ServerStep, Resume, Expire, wires
<1> QED BY Zenon, <1>1, <1>8 DEF vars, wires

\* A query for a key is only ever in the queue of the shard that owns the key:
\* whichever shard runs a routed command notifies the owner's watch table.
THEOREM QueriesReachOwner == Spec => []QueriesAtOwner
<1>1. ASSUME Init PROVE QueriesAtOwner
  <2>1. bus = [s \in Shards |-> <<>>]
    BY <1>1, Zenon DEF Init
  <2>2. \A s \in Shards : 1 .. Len(bus[s]) = {}
    BY <2>1
  <2> QED BY <2>2, Zenon DEF QueriesAtOwner
<1>2. TypeOK /\ QueriesAtOwner /\ [Next]_vars => QueriesAtOwner'
  BY OwnerPreserved
<1> QED BY <1>1, <1>2, TransactionTypes, PTL DEF Spec

----------------------------------------------------------------------------
(* What a step does to the watch tables, the versions and the history *)

ByNothing == UNCHANGED <<global, version, tables, link, stamp, seen, hushed>>

ByCommand(s, op, k) ==
  Effect(s, op, k) /\ Owner[k] = s /\ UNCHANGED <<watchers, watched, link, seen>>

ByFlush(s) == FlushShard(s) /\ UNCHANGED <<watchers, watched, link, seen, hushed>>

ByClear(c) ==
  /\ ClearWatchState(c)
  /\ link' = link \/ link' = [link EXCEPT ![c] = "closed"]
  /\ UNCHANGED <<global, version, stamp, seen>>

ByWatch(c, k) ==
  /\ link[c] = "open" /\ WatchKey(c, k)
  /\ seen' = [seen EXCEPT ![c][k] = stamp[k]]
  /\ hushed' = hushed \ {<<c, k>>}
  /\ UNCHANGED <<global, version, dirty, link, stamp>>

ByExpiry(k) ==
  /\ stamp' = [stamp EXCEPT ![k] = @ + 1] /\ Hush(k)
  /\ UNCHANGED <<global, version, tables, link, seen>>

ByLink(c) ==
  /\ \/ link[c] = "open" /\ link' = [link EXCEPT ![c] = "failed"]
     \/ link[c] = "closed" /\ link' = [link EXCEPT ![c] = "open"]
  /\ UNCHANGED <<global, version, tables, stamp, seen, hushed>>

Kinds ==
  \/ ByNothing
  \/ \E s \in Shards, k \in Keys : \E op \in KeyOps : ByCommand(s, op, k)
  \/ \E s \in Shards : ByFlush(s)
  \/ \E c \in Conns : ByClear(c) \/ ByLink(c)
  \/ \E c \in Conns, k \in Keys : ByWatch(c, k)
  \/ \E k \in Keys : ByExpiry(k)

\* Every step changes the watch tables, versions and history in one of the seven ways.
LEMMA StepKinds ==
  ASSUME TypeOK, QueriesAtOwner, [Next]_vars
  PROVE  Kinds
<1> USE TopologyAssumption
<1>1. ASSUME NEW c \in Conns, ClientStep(c) PROVE Kinds
  <2>1. ASSUME NEW op \in Ops, NEW k \in Keys, LocalCommand(c, op, k) PROVE Kinds
    <3>1. Home[c] \in Shards /\ op \in KeyOps /\ ByCommand(Home[c], op, k)
      BY SMTT(30), <2>1 DEF LocalCommand, ByCommand, tasks
    <3> QED BY ZenonT(40), <3>1 DEF Kinds
  <2>2. ASSUME NEW op \in Ops, NEW k \in Keys, RemoteCommand(c, op, k) PROVE ByNothing
    BY ZenonT(40), <2>2 DEF RemoteCommand, ByNothing, stores
  <2>3. ASSUME NEW k \in Keys, FlushAsync(c, k) PROVE ByNothing
    BY ZenonT(40), <2>3 DEF FlushAsync, ByNothing, stores, tasks
  <2>4. ASSUME NEW k \in Keys, Watch(c, k) PROVE ByWatch(c, k)
    BY Zenon, <2>4 DEF Watch, Ready, ByWatch, stores, tasks
  <2>5. Unwatch(c) \/ Discard(c) \/ ExecRefused(c) \/ Close(c) => ByClear(c)
    BY Zenon DEF Unwatch, Discard, ExecRefused, Close, ByClear, stores, tasks
  <2>6. Multi(c) \/ ExecStart(c) => ByNothing
    BY SMTT(30) DEF Multi, ExecStart, ByNothing, stores, history
  <2>7. ASSUME NEW cmd, QueueCommand(c, cmd) PROVE ByNothing
    BY ZenonT(40), <2>7 DEF QueueCommand, ByNothing, stores
  <2>8. Fail(c) \/ Accept(c) => ByLink(c)
    BY ZenonT(40) DEF Fail, Accept, Ready, ByLink, stores, history
  <2> QED BY <1>1, <2>1, <2>2, <2>3, <2>4, <2>5, <2>6, <2>7, <2>8, Zenon DEF ClientStep, Kinds
<1>2. ASSUME NEW c \in Conns, ExecStep(c) PROVE Kinds
  <2>1. ASSUME rest[c] # <<>>, ExecLocal(c, Head(rest[c])) PROVE Kinds
    <3> DEFINE cmd == Head(rest[c])
    <3>1. cmd \in Command
      BY Zenon, <2>1, HeadTailProperties DEF TypeOK
    <3> HIDE DEF cmd
    <3>2. ExecLocal(c, cmd)
      BY <2>1 DEF cmd
    <3>3. CASE /\ cmd.op \in KeyOps /\ Owner[cmd.key] = Home[c]
               /\ Effect(Home[c], cmd.op, cmd.key) /\ UNCHANGED <<watchers, watched>>
      <4>1. cmd.key \in Keys
        BY Zenon, <3>1, <3>3, CommandKey DEF AllOps
      <4>2. Home[c] \in Shards /\ ByCommand(Home[c], cmd.op, cmd.key)
        BY <3>2, <3>3 DEF ExecLocal, ByCommand
      <4> QED BY <3>3, <4>1, <4>2, Zenon DEF Kinds
    <3>4. CASE ClearWatchState(c) /\ UNCHANGED <<stores, stamp>>
      <4>1. ByClear(c)
        BY Zenon, <3>2, <3>4 DEF ExecLocal, ByClear, stores
      <4> QED BY ZenonT(40), <4>1 DEF Kinds
    <3>5. CASE UNCHANGED <<stores, tables, stamp, hushed>>
      <4>1. ByNothing
        BY Zenon, <3>2, <3>5 DEF ExecLocal, ByNothing, stores
      <4> QED BY Zenon, <4>1 DEF Kinds
    <3> QED BY Zenon, <3>2, <3>3, <3>4, <3>5 DEF ExecLocal
  <2>2. ASSUME NEW cmd, ExecAwait(c, cmd) PROVE ByNothing
    BY Zenon, <2>2 DEF ExecAwait, ByNothing, stores, history
  <2>3. ExecEnd(c) => ByClear(c)
    BY DEF ExecEnd, ByClear, stores
  <2> QED BY ZenonT(40), <1>2, <2>1, <2>2, <2>3 DEF ExecStep, Kinds
<1>3. ASSUME NEW c \in Conns, Resume(c) \/ QueryTimeout(c) PROVE Kinds
  BY Zenon, <1>3 DEF Resume, QueryTimeout, Kinds, ByNothing, stores, tasks, history
<1>4. ASSUME NEW s \in Shards, DrainBus(s) PROVE Kinds
  <2> DEFINE q == Head(bus[s])
  <2>1. bus[s] \in Seq(Query) /\ bus[s] # <<>>
    BY Zenon, <1>4 DEF DrainBus, TypeOK
  <2>2. q \in Query /\ q = bus[s][1] /\ 1 \in 1 .. Len(bus[s])
    BY SMTT(30), <2>1, HeadTailProperties, LenProperties
  <2>3. q.op \in KeyOps => Owner[q.key] = s
    BY Zenon, <2>2 DEF QueriesAtOwner
  <2>4. UNCHANGED <<watchers, watched, link, seen>>
    BY Zenon, <1>4 DEF DrainBus, tasks
  <2>5. \/ FlushShard(s) /\ UNCHANGED hushed
        \/ q.op # "flush" /\ Effect(s, q.op, q.key)
    BY Zenon, <1>4 DEF DrainBus
  <2> HIDE DEF q
  <2>6. CASE FlushShard(s) /\ UNCHANGED hushed
    BY <2>4, <2>6 DEF Kinds, ByFlush
  <2>7. CASE q.op # "flush" /\ Effect(s, q.op, q.key)
    <3>1. q.op \in KeyOps /\ q.key \in Keys
      BY Zenon, <2>2, <2>7 DEF Query
    <3>2. ByCommand(s, q.op, q.key)
      BY Zenon, <2>3, <2>4, <2>7, <3>1 DEF ByCommand
    <3> QED BY <3>1, <3>2, Zenon DEF Kinds
  <2> QED BY Zenon, <2>5, <2>6, <2>7
<1>5. ASSUME NEW k \in Keys, Expire(k) PROVE Kinds
  <2>1. ByExpiry(k)
    BY Zenon, <1>5 DEF Expire, ByExpiry, tasks
  <2> QED BY Zenon, <2>1 DEF Kinds
<1>6. CASE UNCHANGED vars
  BY Zenon, <1>6 DEF vars, stores, tables, tasks, history, Kinds, ByNothing
<1>7. CASE Next
  BY Zenon, <1>1, <1>2, <1>3, <1>4, <1>5, <1>7 DEF Next, ServerStep
<1> QED BY <1>6, <1>7

----------------------------------------------------------------------------
(* The watch invariant *)

\* A notified write marks every clean connection of the shard that watches the
\* key: it still holds a version already given out, and the write's is new.
LEMMA WritesMark ==
  ASSUME TypeOK, WatchInv, NEW s \in Shards, NEW k \in Keys, NotifyWrite(s, k),
         NEW c \in Conns, Home[c] = s, watched[c][k] # None
  PROVE  dirty'[c]
<1>1. link[c] # "closed" /\ c \in watchers[s][k]
  BY Zenon DEF WatchInv, WatchTablesAgree, ClosedWatchNothing
<1>2. CASE dirty[c]
  BY Zenon, <1>2 DEF NotifyWrite
<1>3. CASE ~dirty[c]
  <2>1. watched[c][k] = version[s][k] /\ version[s][k] <= global[s]
    BY Zenon, <1>1, <1>3 DEF WatchInv, CleanMeansSameVersion, VersionsGivenOut
  <2>2. version[s][k] \in Nat /\ global[s] \in Nat
    BY Zenon DEF TypeOK
  <2>3. watched[c][k] # global[s] + 1
    BY <2>1, <2>2
  <2> QED BY Zenon, <1>1, <2>3 DEF NotifyWrite
<1> QED BY Zenon, <1>2, <1>3

\* A command that runs on the owner of its key keeps the invariant.
LEMMA CommandKeepsWatch ==
  ASSUME TypeOK, WatchInv, NEW s \in Shards, NEW k \in Keys, NEW op \in KeyOps,
         ByCommand(s, op, k)
  PROVE  WatchInv'
<1>0. Effect(s, op, k) /\ Owner[k] = s /\ UNCHANGED <<watchers, watched, link, seen>>
  BY Zenon DEF ByCommand
<1>1. WatchTablesAgree' /\ ClosedWatchNothing'
  BY <1>0 DEF WatchInv, WatchTablesAgree, ClosedWatchNothing
<1>2. CASE op \in {"write", "del"}
  <2>1. NotifyWrite(s, k) /\ UNCHANGED hushed /\ stamp' = [stamp EXCEPT ![k] = @ + 1]
    BY Zenon, <1>0, <1>2 DEF Effect
  <2>2. \A c \in Conns : dirty[c] => dirty'[c]
    BY Zenon, <2>1 DEF NotifyWrite
  <2>3. \A c \in Conns : Home[c] = s /\ watched[c][k] # None => dirty'[c]
    BY Zenon, <2>1, WritesMark
  <2>4. VersionsGivenOut'
    BY SMTT(30), <2>1 DEF WatchInv, VersionsGivenOut, NotifyWrite, TypeOK
  <2>5. CleanMeansSameVersion'
    <3> SUFFICES ASSUME NEW c \in Conns, NEW j \in Keys,
                        link[c] # "closed", ~dirty'[c], watched[c][j] # None
                 PROVE  version'[Home[c]][j] = watched[c][j]
      BY ZenonT(40), <1>0 DEF CleanMeansSameVersion
    <3>1. version[Home[c]][j] = watched[c][j]
      BY Zenon, <2>2 DEF WatchInv, CleanMeansSameVersion
    <3>2. ~(Home[c] = s /\ j = k)
      BY <2>3
    <3>3. /\ version \in [Shards -> [Keys -> Nat]] /\ Home[c] \in Shards
          /\ version' = [version EXCEPT ![s][k] = global[s] + 1]
      BY ZenonT(40), <2>1, TopologyAssumption DEF NotifyWrite, TypeOK
    <3> QED BY SMTT(30), <3>1, <3>2, <3>3
  <2>6. NoMissedWrite'
    <3> SUFFICES ASSUME NEW c \in Conns, NEW j \in Keys,
                        link[c] # "closed", ~dirty'[c], watched[c][j] # None,
                        Owner[j] = Home[c], <<c, j>> \notin hushed
                 PROVE  stamp'[j] = seen[c][j]
      BY ZenonT(30), <1>0, <2>1 DEF NoMissedWrite
    <3>1. stamp[j] = seen[c][j]
      BY Zenon, <2>2 DEF WatchInv, NoMissedWrite
    <3>2. j # k
      BY <1>0, <2>3
    <3> QED BY Zenon, <2>1, <3>1, <3>2 DEF TypeOK
  <2> QED BY Zenon, <1>1, <2>4, <2>5, <2>6 DEF WatchInv
<1>3. CASE op = "quiet"
  <2>1. /\ Hush(k) /\ stamp' = [stamp EXCEPT ![k] = @ + 1]
        /\ UNCHANGED <<global, version, dirty>>
    BY Zenon, <1>0, <1>3 DEF Effect
  <2>2. VersionsGivenOut' /\ CleanMeansSameVersion'
    BY Zenon, <1>0, <2>1 DEF WatchInv, VersionsGivenOut, CleanMeansSameVersion
  <2>3. NoMissedWrite'
    <3>1. stamp \in [Keys -> Nat]
      BY Zenon DEF TypeOK
    <3> QED BY Zenon, <1>0, <2>1, <3>1 DEF WatchInv, NoMissedWrite, Hush
  <2> QED BY Zenon, <1>1, <2>2, <2>3 DEF WatchInv
<1>4. CASE op = "read"
  <2>1. UNCHANGED <<stores, dirty, stamp, hushed>>
    BY <1>0, <1>4 DEF Effect
  <2> QED BY Zenon, <1>0, <1>1, <2>1
          DEF WatchInv, VersionsGivenOut, CleanMeansSameVersion, NoMissedWrite, stores
<1> QED BY Zenon, <1>2, <1>3, <1>4 DEF KeyOps

\* A flush keeps the invariant: it starts the versions of its shard again at 0
\* and marks every connection of the shard that is still known.
LEMMA FlushKeepsWatch ==
  ASSUME TypeOK, WatchInv, NEW s \in Shards, ByFlush(s)
  PROVE  WatchInv'
<1>0. FlushShard(s) /\ UNCHANGED <<watchers, watched, link, seen, hushed>>
  BY Zenon DEF ByFlush
<1>1. WatchTablesAgree' /\ ClosedWatchNothing'
  BY <1>0 DEF WatchInv, WatchTablesAgree, ClosedWatchNothing
<1>2. VersionsGivenOut'
  <2>1. /\ global \in [Shards -> Nat] /\ version \in [Shards -> [Keys -> Nat]]
        /\ global' = [global EXCEPT ![s] = 0]
        /\ version' = [version EXCEPT ![s] = [k \in Keys |-> 0]]
    BY <1>0, Zenon DEF FlushShard, TypeOK
  <2> QED BY <2>1 DEF WatchInv, VersionsGivenOut
<1>3. \A c \in Conns : ~dirty'[c] /\ link[c] # "closed" => ~dirty[c] /\ Home[c] # s
  <2>1. dirty' = [c \in Conns |-> dirty[c] \/ (Home[c] = s /\ link[c] # "closed")]
    BY ZenonT(40), <1>0 DEF FlushShard
  <2> QED BY <2>1, Zenon
<1>4. CleanMeansSameVersion'
  <2> SUFFICES ASSUME NEW c \in Conns, NEW j \in Keys,
                      link[c] # "closed", ~dirty'[c], watched[c][j] # None
               PROVE  version'[Home[c]][j] = watched[c][j]
    BY Zenon, <1>0 DEF CleanMeansSameVersion
  <2>1. version[Home[c]][j] = watched[c][j] /\ Home[c] # s
    BY <1>3 DEF WatchInv, CleanMeansSameVersion
  <2>2. /\ version \in [Shards -> [Keys -> Nat]] /\ Home[c] \in Shards
        /\ version' = [version EXCEPT ![s] = [k \in Keys |-> 0]]
    BY ZenonT(40), <1>0, TopologyAssumption DEF FlushShard, TypeOK
  <2> QED BY Zenon, <2>1, <2>2
<1>5. NoMissedWrite'
  <2> SUFFICES ASSUME NEW c \in Conns, NEW j \in Keys,
                      link[c] # "closed", ~dirty'[c], watched[c][j] # None,
                      Owner[j] = Home[c], <<c, j>> \notin hushed
               PROVE  stamp'[j] = seen[c][j]
    BY Zenon, <1>0 DEF NoMissedWrite
  <2>1. stamp[j] = seen[c][j] /\ Owner[j] # s
    BY <1>3 DEF WatchInv, NoMissedWrite
  <2> QED BY Zenon, <1>0, <2>1 DEF FlushShard
<1> QED BY <1>1, <1>2, <1>4, <1>5 DEF WatchInv

\* Clearing a connection's watches keeps the invariant.
LEMMA ClearKeepsWatch ==
  ASSUME TypeOK, WatchInv, NEW c \in Conns, ByClear(c)
  PROVE  WatchInv'
<1> USE TopologyAssumption
<1>0. /\ ClearWatchState(c) /\ UNCHANGED <<global, version, stamp, seen>>
      /\ link' = link \/ link' = [link EXCEPT ![c] = "closed"]
  BY Zenon DEF ByClear
<1>1. /\ \A k \in Keys : watched'[c][k] = None
      /\ \A d \in Conns : d # c => /\ watched'[d] = watched[d] /\ dirty'[d] = dirty[d]
                                  /\ link'[d] = link[d]
      /\ \A d \in Conns, k \in Keys : d # c => (<<d, k>> \in hushed' <=> <<d, k>> \in hushed)
  BY Zenon, <1>0 DEF ClearWatchState, TypeOK
<1>2. WatchTablesAgree'
  <2> SUFFICES ASSUME NEW s \in Shards, NEW k \in Keys, NEW d \in Conns
               PROVE  d \in watchers'[s][k] <=> s = Home[d] /\ watched'[d][k] # None
    BY SMTT(30) DEF WatchTablesAgree
  <2>1. d \in watchers[s][k] <=> s = Home[d] /\ watched[d][k] # None
    BY SMTT(30) DEF WatchInv, WatchTablesAgree
  <2>2. watchers'[s][k] = IF s = Home[c] THEN watchers[s][k] \ {c} ELSE watchers[s][k]
    BY Zenon, <1>0 DEF ClearWatchState
  <2> QED BY <1>1, <2>1, <2>2
<1>3. ClosedWatchNothing' /\ VersionsGivenOut'
  BY SMTT(30), <1>0, <1>1 DEF WatchInv, ClosedWatchNothing, VersionsGivenOut
<1>4. CleanMeansSameVersion'
  BY SMTT(30), <1>0, <1>1 DEF WatchInv, CleanMeansSameVersion
<1>5. NoMissedWrite'
  BY <1>0, <1>1 DEF WatchInv, NoMissedWrite
<1> QED BY Zenon, <1>2, <1>3, <1>4, <1>5 DEF WatchInv

\* WATCH records the version and the contents of its key as they are.
LEMMA WatchKeepsWatch ==
  ASSUME TypeOK, WatchInv, NEW c \in Conns, NEW k \in Keys, ByWatch(c, k)
  PROVE  WatchInv'
<1> USE TopologyAssumption
<1>0. /\ link[c] = "open" /\ WatchKey(c, k)
      /\ seen' = [seen EXCEPT ![c][k] = stamp[k]] /\ hushed' = hushed \ {<<c, k>>}
      /\ UNCHANGED <<global, version, dirty, link, stamp>>
  BY Zenon DEF ByWatch
<1>a. /\ watched \in [Conns -> [Keys -> Nat \cup {None}]]
      /\ seen \in [Conns -> [Keys -> Nat]]
      /\ watchers \in [Shards -> [Keys -> SUBSET Conns]]
      /\ version[Home[c]][k] \in Nat /\ Home[c] \in Shards /\ None \notin Nat
  BY SMTT(30) DEF TypeOK
<1>b. /\ watched' = [watched EXCEPT ![c][k] = version[Home[c]][k]]
      /\ watchers' = [watchers EXCEPT ![Home[c]][k] = @ \cup {c}]
  BY <1>0, Zenon DEF WatchKey
<1>1. /\ watched'[c][k] = version[Home[c]][k] /\ seen'[c][k] = stamp[k]
      /\ watched'[c][k] # None
  BY Zenon, <1>0, <1>a, <1>b
<1>2. \A d \in Conns, j \in Keys : ~(d = c /\ j = k) =>
        watched'[d][j] = watched[d][j] /\ seen'[d][j] = seen[d][j]
  BY Zenon, <1>0, <1>a, <1>b
<1>3. \A d \in Conns, j \in Keys : ~(d = c /\ j = k) =>
        (<<d, j>> \in hushed' <=> <<d, j>> \in hushed)
  BY SMTT(30), <1>0
<1>4. WatchTablesAgree'
  <2> SUFFICES ASSUME NEW s \in Shards, NEW j \in Keys, NEW d \in Conns
               PROVE  d \in watchers'[s][j] <=> s = Home[d] /\ watched'[d][j] # None
    BY Zenon DEF WatchTablesAgree
  <2>1. d \in watchers[s][j] <=> s = Home[d] /\ watched[d][j] # None
    BY DEF WatchInv, WatchTablesAgree
  <2>2. watchers'[s][j] = IF s = Home[c] /\ j = k THEN watchers[s][j] \cup {c}
                          ELSE watchers[s][j]
    BY Zenon, <1>a, <1>b
  <2>3. CASE d = c /\ j = k
    <3>1. watched'[d][j] # None
      BY <1>1, <2>3, Zenon
    <3>2. CASE s = Home[c]
      <4>1. d \in watchers'[s][j]
        BY <2>2, <2>3, <3>2, Zenon
      <4> QED BY <2>3, <3>1, <3>2, <4>1, Zenon
    <3>3. CASE s # Home[c]
      <4>1. watchers'[s][j] = watchers[s][j]
        BY <2>2, <3>3, Zenon
      <4> QED BY <2>1, <2>3, <3>3, <4>1, Zenon
    <3> QED BY <3>2, <3>3, Zenon
  <2>4. CASE ~(d = c /\ j = k)
    <3>1. watched'[d][j] = watched[d][j]
      BY <1>2, <2>4, Zenon
    <3>2. d \in watchers'[s][j] <=> d \in watchers[s][j]
      BY <2>2, <2>4, Zenon
    <3> QED BY <2>1, <3>1, <3>2, Zenon
  <2> QED BY <2>3, <2>4, Zenon
<1>5. ClosedWatchNothing' /\ VersionsGivenOut'
  BY SMTT(30), <1>0, <1>2 DEF WatchInv, ClosedWatchNothing, VersionsGivenOut
<1>6. CleanMeansSameVersion'
  BY SMTT(30), <1>0, <1>1, <1>2 DEF WatchInv, CleanMeansSameVersion
<1>7. NoMissedWrite'
  BY <1>0, <1>1, <1>2, <1>3 DEF WatchInv, NoMissedWrite
<1> QED BY Zenon, <1>4, <1>5, <1>6, <1>7 DEF WatchInv

\* Expiry, failures and new connections keep the invariant.
LEMMA OthersKeepWatch ==
  ASSUME TypeOK, WatchInv,
         \/ ByNothing
         \/ \E k \in Keys : ByExpiry(k)
         \/ \E c \in Conns : ByLink(c)
  PROVE  WatchInv'
<1>1. CASE ByNothing
  BY <1>1 DEF ByNothing, tables, WatchInv, WatchTablesAgree, ClosedWatchNothing,
              VersionsGivenOut, CleanMeansSameVersion, NoMissedWrite
<1>2. ASSUME NEW k \in Keys, ByExpiry(k) PROVE WatchInv'
  <2>0. /\ stamp' = [stamp EXCEPT ![k] = @ + 1] /\ Hush(k)
        /\ UNCHANGED <<global, version, watchers, watched, dirty, link, seen>>
    BY SMTT(30), <1>2 DEF ByExpiry, tables
  <2>1. NoMissedWrite'
    <3>1. stamp \in [Keys -> Nat]
      BY ZenonT(40) DEF TypeOK
    <3> QED BY ZenonT(40), <2>0, <3>1 DEF Hush, WatchInv, NoMissedWrite
  <2>2. WatchTablesAgree' /\ ClosedWatchNothing'
    BY SMTT(30), <2>0 DEF WatchInv, WatchTablesAgree, ClosedWatchNothing
  <2>3. VersionsGivenOut' /\ CleanMeansSameVersion'
    BY <2>0 DEF WatchInv, VersionsGivenOut, CleanMeansSameVersion
  <2> QED BY Zenon, <2>1, <2>2, <2>3 DEF WatchInv
<1>3. ASSUME NEW c \in Conns, ByLink(c) PROVE WatchInv'
  <2>1. \A d \in Conns : link'[d] = "closed" => link[d] = "closed"
    BY Zenon, <1>3 DEF ByLink, TypeOK
  <2>2. \A d \in Conns, k \in Keys : watched[d][k] # None => link[d] # "closed"
    BY Zenon DEF WatchInv, ClosedWatchNothing
  <2>3. WatchTablesAgree' /\ ClosedWatchNothing' /\ VersionsGivenOut'
    BY SMTT(30), <1>3, <2>1 DEF ByLink, tables, WatchInv, WatchTablesAgree, ClosedWatchNothing,
                      VersionsGivenOut
  <2>4. CleanMeansSameVersion' /\ NoMissedWrite'
    BY <1>3, <2>2 DEF ByLink, tables, WatchInv, CleanMeansSameVersion, NoMissedWrite
  <2> QED BY Zenon, <2>3, <2>4 DEF WatchInv
<1> QED BY Zenon, <1>1, <1>2, <1>3

\* WatchInv is inductive, relative to the types and the routing of queries.
LEMMA WatchInvariant == Spec => []WatchInv
<1>1. ASSUME Init PROVE WatchInv
  <2>1. /\ watchers = [s \in Shards |-> [k \in Keys |-> {}]]
        /\ watched = [c \in Conns |-> [k \in Keys |-> None]]
        /\ global = [s \in Shards |-> 0] /\ version = [s \in Shards |-> [k \in Keys |-> 0]]
    BY <1>1, Zenon DEF Init
  <2>2. \A c \in Conns, k \in Keys : watched[c][k] = None
    BY <2>1
  <2>3. WatchTablesAgree
    BY <2>1, <2>2 DEF WatchTablesAgree
  <2>4. VersionsGivenOut
    BY <2>1 DEF VersionsGivenOut
  <2>5. ClosedWatchNothing /\ CleanMeansSameVersion /\ NoMissedWrite
    BY <2>2, Zenon DEF ClosedWatchNothing, CleanMeansSameVersion, NoMissedWrite
  <2> QED BY <2>3, <2>4, <2>5 DEF WatchInv
<1>2. TypeOK /\ QueriesAtOwner /\ WatchInv /\ [Next]_vars => WatchInv'
  <2> SUFFICES ASSUME TypeOK, QueriesAtOwner, WatchInv, [Next]_vars PROVE WatchInv'
    OBVIOUS
  <2>1. Kinds
    BY StepKinds
  <2> QED BY <2>1, CommandKeepsWatch, FlushKeepsWatch, ClearKeepsWatch, WatchKeepsWatch,
             OthersKeepWatch, Zenon DEF Kinds
<1> QED BY <1>1, <1>2, TransactionTypes, QueriesReachOwner, PTL DEF Spec

\* The registry of a shard and the WatchState of its connections name the same
\* watches, after every WATCH, UNWATCH, EXEC, DISCARD, RESET and disconnection.
THEOREM WatchTablesCorrect == Spec => []WatchTablesAgree
<1>1. WatchInv => WatchTablesAgree
  BY DEF WatchInv
<1> QED BY <1>1, WatchInvariant, PTL

\* A connection that is not dirty holds the current version of every key it
\* watches, although a flush gives out the same versions again.
THEOREM VersionsCorrect == Spec => []CleanMeansSameVersion
<1>1. WatchInv => CleanMeansSameVersion
  BY DEF WatchInv
<1> QED BY <1>1, WatchInvariant, PTL

\* EXEC of a connection that is not dirty misses no notified write of a key
\* that its own shard owns: the optimistic lock of WATCH, for any number of
\* connections, keys and shards.
THEOREM NoWriteMissed == Spec => []NoMissedWrite
<1>1. WatchInv => NoMissedWrite
  BY DEF WatchInv
<1> QED BY <1>1, WatchInvariant, PTL
=============================================================================
