-------------------------- MODULE BlockedKeysProofs --------------------------
(***************************************************************************)
(* Proofs about BlockedKeys for every set of connections, keys, elements,  *)
(* requests and every bound.                                               *)
(***************************************************************************)
EXTENDS BlockedKeys, TLAPS, SequenceTheorems, FiniteSetTheorems

\* Popping members of a sequence returns members of it and leaves members.
LEMMA PopTypes ==
  ASSUME NEW S, NEW s \in Seq(S), NEW side \in Sides, NEW n \in Nat
  PROVE  Popped(s, side, n) \in Seq(S) /\ Left(s, side, n) \in Seq(S)
<1> DEFINE m == MinOf(n, Len(s))
<1>1. m \in Nat /\ m <= Len(s)
  BY LenProperties DEF MinOf
<1>2. SubSeq(s, 1, m) \in Seq(S)
  BY <1>1, SubSeqProperties, LenProperties
<1>3. SubSeq(s, m + 1, Len(s)) \in Seq(S)
  BY <1>1, SubSeqProperties, LenProperties
<1>4. SubSeq(s, 1, Len(s) - m) \in Seq(S)
  BY <1>1, SubSeqProperties, LenProperties
<1>5. \A i \in 1 .. m : s[Len(s) + 1 - i] \in S
  <2> TAKE i \in 1 .. m
  <2>1. Len(s) + 1 - i \in 1 .. Len(s)
    BY <1>1, LenProperties
  <2> QED BY <2>1, ElementOfSeq
<1>6. [i \in 1 .. m |-> s[Len(s) + 1 - i]] \in Seq(S)
  BY <1>1, <1>5, IsASeq
<1> QED BY <1>2, <1>3, <1>4, <1>6 DEF Popped, Left

\* Inserting a member at any place keeps a sequence of members.
LEMMA InsertType ==
  ASSUME NEW S, NEW s \in Seq(S), NEW i \in 0 .. Len(s), NEW e \in S
  PROVE  Insert(s, i, e) \in Seq(S)
<1>1. SubSeq(s, 1, i) \in Seq(S) /\ SubSeq(s, i + 1, Len(s)) \in Seq(S)
  BY SubSeqProperties, LenProperties
<1> QED BY <1>1, ConcatProperties DEF Insert

\* A push at either end keeps a sequence of members.
LEMMA PushToType ==
  ASSUME NEW S, NEW s \in Seq(S), NEW side \in Sides, NEW e \in S
  PROVE  PushTo(s, side, e) \in Seq(S)
BY ConcatProperties, AppendProperties DEF PushTo

\* What a key holds after losing its members is a value: an emptied list is removed.
LEMMA HoldingType ==
  ASSUME NEW t \in {"list", "zset"}, NEW s \in Seq(Elems)
  PROVE  Holding(t, s) \in Value
<1>1. <<>> \in Seq(Elems)
  BY EmptySeq
<1> QED BY <1>1 DEF Holding, Absent, Value, Types

\* The constant values and responses are well typed.
LEMMA ConstantResponses == Nil \in Response /\ Error \in Response /\ Absent \in Value
<1>1. <<>> \in Seq(Elems)
  BY EmptySeq
<1> QED BY <1>1 DEF Nil, Error, Absent, Response, Value, Types

\* A command that pops finds members: its key's type says so.
LEMMA FirstPopped ==
  ASSUME NEW s \in Seq(Elems), s # <<>>, NEW side \in Sides
  PROVE  Popped(s, side, 1)[1] \in Elems
<1>1. Len(s) \in Nat \ {0} /\ \A i \in 1 .. Len(s) : s[i] \in Elems
  BY EmptySeq, ElementOfSeq
<1>2. MinOf(1, Len(s)) = 1
  BY <1>1 DEF MinOf
<1>3. SubSeq(s, 1, 1)[1] = s[1]
  BY <1>1, SubSeqProperties
<1>4. [i \in 1 .. 1 |-> s[Len(s) + 1 - i]][1] = s[Len(s)]
  BY <1>1
<1> QED BY <1>1, <1>2, <1>3, <1>4 DEF Popped

\* A key that was pushed to holds at least one member.
LEMMA PushToNonEmpty ==
  ASSUME NEW S, NEW s \in Seq(S), NEW side \in Sides, NEW e \in S
  PROVE  PushTo(s, side, e) # <<>>
<1>1. <<e>> \in Seq(S) /\ Len(<<e>>) = 1
  OBVIOUS
<1>2. Len(<<e>> \o s) = 1 + Len(s) /\ Len(Append(s, e)) = Len(s) + 1
  BY <1>1, ConcatProperties, AppendProperties
<1> QED BY <1>2, EmptySeq, LenProperties DEF PushTo

\* Running a command keeps the store well typed and answers with members.
LEMMA RunTypes ==
  ASSUME NEW st \in [Keys -> Value], NEW key \in Keys, NEW op \in BlockedOp,
         st[key].t = WantedType(op)
  PROVE  RunNow(st, key, op) \in [Keys -> Value] /\ ItemsNow(st, key, op) \in Response
<1>1. /\ st[key].t \in {"list", "zset"} /\ st[key].v \in Seq(Elems)
      /\ op.kind = "Move" => st[key].v # <<>>
      /\ op.side \in Sides /\ op.dstSide \in Sides /\ op.count \in Nat
      /\ op.dest \in Keys \cup {None}
  BY DEF WantedType, Value, BlockedOp
<1>2. ItemsNow(st, key, op) \in Response
  <2> DEFINE items == Popped(st[key].v, op.side, IF op.kind = "Move" THEN 1 ELSE op.count)
  <2>1. items \in Seq(Elems)
    BY Zenon, <1>1, PopTypes
  <2>2. ItemsNow(st, key, op) \in {Nil, [r |-> "items", key |-> key, items |-> items]}
    BY DEF ItemsNow
  <2> HIDE DEF items
  <2> QED BY <2>1, <2>2, ConstantResponses, ConstantsAssumption DEF Response
<1>3. CASE op.kind # "Move"
  <2>1. Holding(st[key].t, Left(st[key].v, op.side, op.count)) \in Value
    BY Zenon, <1>1, PopTypes, HoldingType
  <2> QED BY <1>2, <1>3, <2>1 DEF RunNow, PopNow
<1>4. CASE op.kind = "Move"
  <2> DEFINE e == Popped(st[key].v, op.side, 1)[1]
             rest == Left(st[key].v, op.side, 1)
             popped == [st EXCEPT ![key] = [t |-> st[key].t, v |-> rest]]
             base == IF popped[op.dest].t = "list" THEN popped[op.dest].v ELSE <<>>
             full == PushTo(base, op.dstSide, e)
             moved == [popped EXCEPT ![op.dest] = [t |-> "list", v |-> full]]
  <2>1. e \in Elems /\ rest \in Seq(Elems) /\ op.dest \in Keys
    BY Zenon, <1>1, <1>4, FirstPopped, PopTypes DEF BlockedOp
  <2>2. base \in Seq(Elems)
    BY <1>1, <2>1, EmptySeq DEF Value
  <2>3. full \in Seq(Elems) /\ full # <<>>
    BY Zenon, <1>1, <2>1, <2>2, PushToType, PushToNonEmpty
  <2>4. [t |-> "list", v |-> full] \in Value
    BY <2>3 DEF Value, Types
  <2>5. Holding(moved[key].t, moved[key].v) \in Value
    <3>1. moved[key].t \in {"list", "zset"} /\ moved[key].v \in Seq(Elems)
      BY <1>1, <2>1, <2>3
    <3> HIDE DEF moved
    <3> QED BY <3>1, HoldingType
  <2>6. RunNow(st, key, op) = [moved EXCEPT ![key] = Holding(moved[key].t, moved[key].v)]
    BY <1>4 DEF RunNow, MoveNow
  <2>7. ASSUME NEW k \in Keys PROVE k # key => moved[k] \in Value
    BY <2>1, <2>4
  <2>8. moved \in [Keys -> [t : Types, v : Seq(Elems)]] /\ DOMAIN moved = Keys
    BY <1>1, <2>1, <2>3 DEF Value, Types
  <2> HIDE DEF moved
  <2> QED BY <1>2, <2>5, <2>6, <2>7, <2>8
<1> QED BY <1>3, <1>4

\* What notify stores and answers is well typed.
LEMMA ExecuteTypes ==
  ASSUME NEW st \in [Keys -> Value], NEW key \in Keys, NEW op \in BlockedOp
  PROVE  Executed(st, key, op) \in [Keys -> Value] /\ ExecuteResponse(st, key, op) \in Response
BY RunTypes, ConstantResponses DEF Executed, ExecuteResponse, CanRun

\* register keeps queues of connections, and puts c in the queue of each key.
LEMMA EnqueuedTypes ==
  ASSUME TypeOK, NEW c \in Conns, NEW keys \in Seq(Keys)
  PROVE  /\ Enqueued(c, keys) \in [Keys -> Seq(Conns)]
         /\ \A k \in Keys : RangeOf(waiters[k]) \subseteq RangeOf(Enqueued(c, keys)[k])
         /\ \A i \in 1 .. Len(keys) : c \in RangeOf(Enqueued(c, keys)[keys[i]])
<1> DEFINE At(k) == {i \in 1 .. Len(keys) : keys[i] = k}
           Times(k) == Cardinality(At(k))
           Copies(k) == [i \in 1 .. Times(k) |-> c]
<1>1. ASSUME NEW k \in Keys
      PROVE  /\ Times(k) \in Nat /\ (At(k) # {} => Times(k) >= 1)
             /\ Copies(k) \in Seq(Conns) /\ Len(Copies(k)) = Times(k)
             /\ waiters[k] \in Seq(Conns)
  <2>1. IsFiniteSet(1 .. Len(keys))
    BY FS_Interval, LenProperties
  <2>2. IsFiniteSet(At(k))
    BY <2>1, FS_Subset
  <2>3. Times(k) \in Nat /\ (Times(k) = 0 <=> At(k) = {})
    BY <2>2, FS_CardinalityType, FS_EmptySet
  <2>4. Copies(k) \in Seq(Conns) /\ Len(Copies(k)) = Times(k)
    <3> HIDE DEF Times
    <3> QED BY <2>3, IsASeq, LenProperties
  <2> HIDE DEF Times, At
  <2> QED BY <2>3, <2>4 DEF TypeOK
<1>2. ASSUME NEW k \in Keys
      PROVE  /\ waiters[k] \o Copies(k) \in Seq(Conns)
             /\ RangeOf(waiters[k]) \subseteq RangeOf(waiters[k] \o Copies(k))
             /\ At(k) # {} => c \in RangeOf(waiters[k] \o Copies(k))
  <2> DEFINE w == waiters[k]
             q == w \o Copies(k)
  <2>1. /\ q \in Seq(Conns) /\ Len(q) = Len(w) + Times(k) /\ Len(w) \in Nat /\ Times(k) \in Nat
        /\ \A i \in 1 .. Len(q) : q[i] = IF i <= Len(w) THEN w[i] ELSE Copies(k)[i - Len(w)]
    <3>1. w \in Seq(Conns) /\ Copies(k) \in Seq(Conns) /\ Len(Copies(k)) = Times(k)
      BY <1>1
    <3>2. Len(w) \in Nat /\ Times(k) \in Nat
      BY <1>1, <3>1, LenProperties
    <3> HIDE DEF Copies, Times, w
    <3> QED BY <3>1, <3>2, ConcatProperties
  <2>2. \A i \in 1 .. Len(w) : i \in 1 .. Len(q) /\ q[i] = w[i]
    BY <2>1
  <2>3. At(k) # {} => Len(w) + 1 \in 1 .. Len(q) /\ q[Len(w) + 1] = c
    <3> SUFFICES ASSUME At(k) # {} PROVE Len(w) + 1 \in 1 .. Len(q) /\ q[Len(w) + 1] = c
      BY Zenon
    <3>1. Times(k) >= 1
      BY Zenon, <1>1
    <3>2. Len(w) + 1 \in 1 .. Len(q)
      BY <2>1, <3>1
    <3>3. q[Len(w) + 1] = Copies(k)[1]
      <4>1. q[Len(w) + 1] = Copies(k)[(Len(w) + 1) - Len(w)]
        BY <2>1, <3>2
      <4>2. (Len(w) + 1) - Len(w) = 1
        BY <2>1
      <4> QED BY Zenon, <4>1, <4>2
    <3>4. Copies(k)[1] = c
      BY <2>1, <3>1
    <3> QED BY Zenon, <3>2, <3>3, <3>4
  <2> HIDE DEF q, At
  <2> QED BY Zenon, <2>1, <2>2, <2>3 DEF RangeOf, q
<1>3. \A k \in Keys : Enqueued(c, keys)[k] = waiters[k] \o Copies(k)
  BY Zenon DEF Enqueued
<1>4. Enqueued(c, keys) = [k \in Keys |-> waiters[k] \o Copies(k)]
  BY DEF Enqueued
<1>5. \A i \in 1 .. Len(keys) : keys[i] \in Keys /\ i \in At(keys[i])
  BY ElementOfSeq
<1> HIDE DEF Copies, At
<1> QED BY Zenon, <1>2, <1>3, <1>4, <1>5

----------------------------------------------------------------------------
(* Type correctness *)

\* The keys and the operation of an issued request.
LEMMA RequestTypes ==
  ASSUME NEW req \in Requests
  PROVE  req.keys \in Seq(Keys) /\ req.keys # <<>> /\ req.op \in BlockedOp
BY ConstantsAssumption DEF Request

\* The response a served client gets is well typed.
LEMMA OutType ==
  ASSUME TypeOK, NEW es
  PROVE  Out(es) \in [Elems -> {"new", "in", "out"}]
BY DEF TypeOK, Out

\* A blocking command answered at once keeps the state well typed.
LEMMA ImmediateTypes ==
  ASSUME TypeOK, NEW c \in Conns, NEW req \in Requests, Immediate(c, req)
  PROVE  TypeOK'
<1>1. PICK i \in 1 .. Len(req.keys) : Immediate(c, req)!(i)
  BY DEF Immediate
<1> DEFINE key == req.keys[i]
<1>2. key \in Keys /\ req.op \in BlockedOp
  BY <1>1, RequestTypes, ElementOfSeq
<1>3. store[key].t = WantedType(req.op) /\ store' = RunNow(store, key, req.op)
  BY <1>1
<1>4. store' \in [Keys -> Value]
  BY Zenon, <1>2, <1>3, RunTypes DEF TypeOK
<1>5. silent' \subseteq Keys
  BY <1>1, <1>2 DEF TypeOK, BlockedOp
<1>6. draining' \in Seq(Keys)
  BY <1>1, <1>2, EmptySeq
<1>7. fate' \in [Elems -> {"new", "in", "out"}]
  BY <1>1, OutType
<1>8. /\ task' \in [Conns -> {"reading", "awaiting", "closed"}]
      /\ \A d \in Conns : task'[d] = "awaiting" => asked'[d] \in BlockedClient
  BY <1>1 DEF TypeOK
<1> QED BY <1>1, <1>4, <1>5, <1>6, <1>7, <1>8 DEF TypeOK, registry

\* Parking a client keeps the state well typed.
LEMMA BlockTypes ==
  ASSUME TypeOK, NEW c \in Conns, NEW req \in Requests, NEW timeout \in Timeouts,
         Block(c, req, timeout)
  PROVE  TypeOK'
<1> DEFINE deadline == IF timeout = 0 THEN None ELSE now + timeout
           client == [keys |-> req.keys, op |-> req.op, deadline |-> deadline]
<1>1. timeout \in Nat /\ now \in Nat /\ blocks \in Nat
  BY ConstantsAssumption DEF TypeOK
<1>2. deadline \in Nat \cup {None} /\ (deadline # None => deadline \in Nat)
  BY <1>1
<1>3. client \in BlockedClient
  BY <1>1, <1>2, RequestTypes DEF BlockedClient
<1>4. waiters' \in [Keys -> Seq(Conns)]
  BY EnqueuedTypes, RequestTypes DEF Block
<1>5. heap' \subseteq (Nat \X Conns)
  BY <1>2 DEF Block, TypeOK
<1>6. clients' = [clients EXCEPT ![c] = client] /\ asked' = [asked EXCEPT ![c] = client]
  BY DEF Block
<1>7. blocks' \in Nat
  BY <1>1 DEF Block
<1> HIDE DEF client
<1>8. clients' \in [Conns -> BlockedClient \cup {None}] /\ asked' \in [Conns -> BlockedClient \cup {None}]
  BY <1>3, <1>6 DEF TypeOK
<1>9. /\ task' \in [Conns -> {"reading", "awaiting", "closed"}]
      /\ \A d \in Conns : task'[d] = "awaiting" => asked'[d] \in BlockedClient
  BY <1>3, <1>6 DEF Block, TypeOK
<1> QED BY <1>4, <1>5, <1>7, <1>8, <1>9 DEF Block, TypeOK

\* The steps of the waiting task keep the state well typed.
LEMMA ResumeTypes ==
  ASSUME TypeOK, NEW c \in Conns, Resume(c)
  PROVE  TypeOK'
<1>1. ready[c] \in Response /\ asked[c] \in BlockedClient
  BY DEF Resume, TypeOK
<1>2. asked[c].keys[1] \in Keys
  <2>1. asked[c].keys \in Seq(Keys) /\ asked[c].keys # <<>>
    BY <1>1 DEF BlockedClient
  <2> QED BY <2>1, EmptySeq, ElementOfSeq
<1>3. ready[c].r = "items" => ready[c].key \in Keys
  BY <1>1 DEF Response
<1>4. draining' \in Seq(Keys)
  BY <1>2, <1>3, EmptySeq DEF Resume
<1>5. fate' \in [Elems -> {"new", "in", "out"}]
  BY OutType DEF Resume
<1>6. ready' \in [Conns -> Response \cup {None}] /\ asked' \in [Conns -> BlockedClient \cup {None}]
  BY DEF Resume, TypeOK
<1>7. /\ task' \in [Conns -> {"reading", "awaiting", "closed"}]
      /\ \A d \in Conns : task'[d] = "awaiting" => asked'[d] \in BlockedClient
  BY DEF Resume, TypeOK
<1>8. flagged' \in [Conns -> BOOLEAN]
  BY DEF Resume, TypeOK
<1> QED BY <1>4, <1>5, <1>6, <1>7, <1>8 DEF Resume, TypeOK

\* What notify works on: a key, and the connection at the head of its queue.
NotifyAt(key) ==
  /\ draining \in Seq(Keys) /\ draining # <<>> /\ key = Head(draining)
  /\ Tail(draining) \in Seq(Keys)
  /\ UNCHANGED <<heap, now, task, asked, flagged, killed, blocks, fate>>
  /\ \/ NotifyEmpty(key)
     \/ \E c \in Conns : /\ c = Head(waiters[key])
                         /\ Dequeued(key) \in [Keys -> Seq(Conns)]
                         /\ NotifyStale(key, c) \/ NotifyClient(key, c, clients[c].op)

\* The client notify serves waits for the key it was found under.
LEMMA NotifyTargets ==
  ASSUME TypeOK, Notify
  PROVE  \E key \in Keys : NotifyAt(key)
<1> DEFINE key == Head(draining)
           c == Head(waiters[key])
<1>1. draining \in Seq(Keys) /\ draining # <<>> /\ key \in Keys /\ Tail(draining) \in Seq(Keys)
  BY HeadTailProperties DEF Notify, TypeOK
<1>2. waiters[key] \in Seq(Conns)
  BY <1>1 DEF TypeOK
<1>3. waiters[key] # <<>> => c \in Conns /\ Dequeued(key) \in [Keys -> Seq(Conns)]
  BY <1>1, <1>2, HeadTailProperties DEF Dequeued, TypeOK
<1>4. UNCHANGED <<heap, now, task, asked, flagged, killed, blocks, fate>>
  BY DEF Notify, conns
<1>5. NotifyEmpty(key) \/ NotifyStale(key, c) \/ NotifyClient(key, c, clients[c].op)
  BY DEF Notify
<1>6. NotifyStale(key, c) \/ NotifyClient(key, c, clients[c].op) => waiters[key] # <<>>
  BY Zenon DEF NotifyStale, NotifyClient
<1> HIDE DEF c
<1>7. CASE NotifyEmpty(key)
  BY <1>1, <1>4, <1>7 DEF NotifyAt
<1>8. CASE NotifyStale(key, c) \/ NotifyClient(key, c, clients[c].op)
  <2>1. c = Head(waiters[key])
    BY DEF c
  <2>2. c \in Conns /\ Dequeued(key) \in [Keys -> Seq(Conns)]
    BY <1>3, <1>6, <1>8
  <2> QED BY <1>1, <1>4, <1>8, <2>1, <2>2 DEF NotifyAt
<1> QED BY <1>5, <1>7, <1>8

\* One step of the notify loop keeps the state well typed.
LEMMA NotifyTypes ==
  ASSUME TypeOK, Notify
  PROVE  TypeOK'
<1>1. PICK key \in Keys : NotifyAt(key)
  BY NotifyTargets
<1>2. CASE NotifyEmpty(key)
  BY <1>1, <1>2 DEF NotifyAt, NotifyEmpty, TypeOK
<1>3. ASSUME NEW c \in Conns, Dequeued(key) \in [Keys -> Seq(Conns)], NotifyStale(key, c)
      PROVE  TypeOK'
  BY <1>1, <1>3 DEF NotifyAt, NotifyStale, TypeOK
<1>4. ASSUME NEW c \in Conns, Dequeued(key) \in [Keys -> Seq(Conns)],
             NotifyClient(key, c, clients[c].op)
      PROVE  TypeOK'
  <2> DEFINE op == clients[c].op
  <2>1. op \in BlockedOp
    BY <1>4 DEF NotifyClient, TypeOK, BlockedClient
  <2>2. Executed(store, key, op) \in [Keys -> Value] /\ ExecuteResponse(store, key, op) \in Response
    BY Zenon, <2>1, ExecuteTypes DEF TypeOK
  <2>3. draining' \in Seq(Keys)
    <3>1. op.kind = "Move" => op.dest \in Keys
      BY <2>1 DEF BlockedOp
    <3>2. draining' = IF op.kind = "Move" THEN <<op.dest>> \o draining ELSE draining
      BY <1>4 DEF NotifyClient
    <3> QED BY <1>1, <3>1, <3>2, ConcatProperties DEF NotifyAt
  <2>4. ready' \in [Conns -> Response \cup {None}] /\ clients' \in [Conns -> BlockedClient \cup {None}]
    BY <1>4, <2>2 DEF NotifyClient, TypeOK
  <2> QED BY <1>1, <1>4, <2>2, <2>3, <2>4 DEF NotifyAt, NotifyClient, TypeOK
<1> QED BY <1>1, <1>2, <1>3, <1>4 DEF NotifyAt

\* The registry and store after cancel_waiters are well typed.
LEMMA CancelTypes ==
  ASSUME TypeOK, NEW ks \in SUBSET Keys, CancelWaiters(ks)
  PROVE  /\ waiters' \in [Keys -> Seq(Conns)]
         /\ clients' \in [Conns -> BlockedClient \cup {None}]
         /\ ready' \in [Conns -> Response \cup {None}]
         /\ heap' = heap
BY EmptySeq, ConstantResponses DEF CancelWaiters, TypeOK

\* A push keeps the state well typed.
LEMMA PushTypes ==
  ASSUME TypeOK, NEW k \in Keys, NEW e \in Elems, NEW t \in {"list", "zset"},
         Push(k, e, t) \/ (t = "zset" /\ AddUnnotified(k, {e}))
  PROVE  store' \in [Keys -> Value]
<1>1. PICK i \in 0 .. Len(store[k].v) :
        store' = [store EXCEPT ![k] = [t |-> t, v |-> Insert(store[k].v, i, e)]]
  BY DEF Push, AddUnnotified, Written
<1>2. store[k].v \in Seq(Elems)
  BY DEF TypeOK, Value
<1>3. Insert(store[k].v, i, e) \in Seq(Elems)
  BY <1>2, InsertType
<1>4. Insert(store[k].v, i, e) # <<>>
  <2>1. SubSeq(store[k].v, 1, i) \in Seq(Elems) /\ SubSeq(store[k].v, i + 1, Len(store[k].v)) \in Seq(Elems)
    BY <1>2, SubSeqProperties, LenProperties
  <2>2. <<e>> \in Seq(Elems) /\ Len(<<e>>) = 1
    OBVIOUS
  <2>3. SubSeq(store[k].v, 1, i) \o <<e>> \in Seq(Elems) /\ Len(SubSeq(store[k].v, 1, i) \o <<e>>) >= 1
    BY <2>1, <2>2, ConcatProperties, LenProperties
  <2> DEFINE a == SubSeq(store[k].v, 1, i) \o <<e>>
             b == SubSeq(store[k].v, i + 1, Len(store[k].v))
  <2>4. Len(Insert(store[k].v, i, e)) >= 1
    <3>1. Insert(store[k].v, i, e) = a \o b
      BY DEF Insert
    <3>2. a \in Seq(Elems) /\ b \in Seq(Elems) /\ Len(a) >= 1
      BY <2>1, <2>3
    <3> HIDE DEF a, b
    <3> QED BY <3>1, <3>2, ConcatProperties, LenProperties
  <2> QED BY <1>3, <2>4, EmptySeq
<1>5. [t |-> t, v |-> Insert(store[k].v, i, e)] \in Value
  BY <1>3, <1>4 DEF Value, Types
<1> QED BY <1>1, <1>5 DEF TypeOK

\* A pop keeps the state well typed.
LEMMA ListPopTypes ==
  ASSUME TypeOK, NEW k \in Keys, NEW side \in Sides, ListPop(k, side)
  PROVE  store' \in [Keys -> Value]
<1>1. store[k].v \in Seq(Elems)
  BY DEF TypeOK, Value
<1>2. Holding("list", Left(store[k].v, side, 1)) \in Value
  BY Zenon, <1>1, PopTypes, HoldingType
<1> QED BY <1>2 DEF ListPop, Written, TypeOK

\* LMOVE keeps the state well typed.
LEMMA ListMoveTypes ==
  ASSUME TypeOK, NEW src \in Keys, NEW dst \in Keys, NEW from \in Sides, NEW to \in Sides,
         ListMove(src, dst, from, to)
  PROVE  store' \in [Keys -> Value]
<1> DEFINE op == [kind |-> "Move", side |-> from, dstSide |-> to, dest |-> dst, count |-> 1]
<1>1. op \in BlockedOp
  BY ConstantsAssumption DEF BlockedOp, OpKinds
<1>2. store[src].t = "list" => RunNow(store, src, op) \in [Keys -> Value]
  BY Zenon, <1>1, RunTypes DEF TypeOK, WantedType
<1>3. RunNow(store, src, op) = MoveNow(store, src, op)
  BY DEF RunNow
<1> QED BY <1>2, <1>3 DEF ListMove, Written, TypeOK

\* Every write keeps the state well typed.
LEMMA WriteTypes ==
  ASSUME TypeOK, Write
  PROVE  TypeOK'
<1> USE DEF Written, conns, registry
<1>0. \A k \in Keys : <<k>> \in Seq(Keys)
  OBVIOUS
<1>00. <<>> \in Seq(Keys) /\ <<>> \in Seq(Conns)
  BY EmptySeq
<1>1. ASSUME NEW k \in Keys, NEW e \in Elems, NEW t \in {"list", "zset"}, Push(k, e, t)
      PROVE  TypeOK'
  <2>1. store' \in [Keys -> Value]
    BY Zenon, <1>1, PushTypes
  <2>2. UNCHANGED <<registry, silent, now, conns, blocks>> /\ draining' = <<k>>
    BY <1>1 DEF Push
  <2>3. fate' \in [Elems -> {"new", "in", "out"}]
    BY <1>1 DEF Push, TypeOK
  <2> QED BY <1>0, <2>1, <2>2, <2>3 DEF TypeOK
<1>2. ASSUME NEW k \in Keys, NEW added \in SUBSET Elems, AddUnnotified(k, added),
             store' \in [Keys -> Value]
      PROVE  TypeOK'
  <2>1. UNCHANGED <<registry, now, conns, blocks>> /\ draining' = <<>> /\ silent' = silent \cup {k}
    BY <1>2 DEF AddUnnotified
  <2>2. fate' \in [Elems -> {"new", "in", "out"}]
    BY <1>2 DEF AddUnnotified, TypeOK
  <2> QED BY <1>00, <1>2, <2>1, <2>2 DEF TypeOK
<1>2a. ASSUME NEW k \in Keys, NEW e \in Elems, AddUnnotified(k, {e}) PROVE TypeOK'
  BY <1>2, <1>2a, PushTypes
<1>2b. ASSUME NEW k \in Keys, AddUnnotified(k, {}) PROVE TypeOK'
  <2>1. store' = [store EXCEPT ![k] = [t |-> "zset", v |-> store[k].v]]
    BY <1>2b DEF AddUnnotified
  <2>2. store' \in [Keys -> Value]
    BY <2>1 DEF TypeOK, Value, Types
  <2> QED BY <1>2, <1>2b, <2>2
<1>3. ASSUME NEW k \in Keys, NEW side \in Sides, ListPop(k, side)
      PROVE  TypeOK'
  <2>1. store' \in [Keys -> Value] /\ fate' \in [Elems -> {"new", "in", "out"}]
    BY Zenon, <1>3, ListPopTypes, OutType DEF ListPop
  <2>2. UNCHANGED <<registry, silent, now, conns, blocks>> /\ draining' = <<k>>
    BY <1>3 DEF ListPop
  <2> QED BY <1>0, <2>1, <2>2 DEF TypeOK
<1>4. ASSUME NEW k \in Keys, NEW d \in Keys, NEW s \in Sides, NEW t \in Sides, ListMove(k, d, s, t)
      PROVE  TypeOK'
  <2>1. store' \in [Keys -> Value]
    BY <1>4, ListMoveTypes
  <2>2. UNCHANGED <<registry, fate, now, conns, blocks>> /\ draining' = <<k>> /\ silent' \subseteq silent \cup {d}
    BY <1>4 DEF ListMove
  <2> QED BY <1>0, <2>1, <2>2 DEF TypeOK
<1>5. ASSUME NEW k \in Keys, SetString(k)
      PROVE  TypeOK'
  <2>1. [t |-> "string", v |-> <<>>] \in Value
    BY EmptySeq DEF Value, Types
  <2>2. store' \in [Keys -> Value] /\ fate' \in [Elems -> {"new", "in", "out"}]
    BY <1>5, <2>1, OutType DEF SetString, TypeOK
  <2>3. UNCHANGED <<registry, silent, now, conns, blocks>> /\ draining' = <<k>>
    BY <1>5 DEF SetString
  <2> QED BY <1>0, <2>2, <2>3 DEF TypeOK
<1>6. ASSUME NEW k \in Keys, Delete(k)
      PROVE  TypeOK'
  <2>1. PICK ks \in SUBSET Keys : CancelWaiters(ks)
    BY <1>6 DEF Delete
  <2>2. store' \in [Keys -> Value] /\ fate' \in [Elems -> {"new", "in", "out"}]
    BY <1>6, ConstantResponses, OutType DEF Delete, TypeOK
  <2>3. UNCHANGED <<silent, now, conns, blocks>> /\ draining' = <<>>
    BY <1>6 DEF Delete
  <2>4. /\ waiters' \in [Keys -> Seq(Conns)] /\ clients' \in [Conns -> BlockedClient \cup {None}]
        /\ ready' \in [Conns -> Response \cup {None}] /\ heap' = heap
    BY <2>1, CancelTypes
  <2> QED BY <1>00, <2>2, <2>3, <2>4 DEF TypeOK
<1>7. ASSUME NEW k \in Keys, NEW d \in Keys, Rename(k, d)
      PROVE  TypeOK'
  <2>1. PICK ks \in SUBSET Keys : CancelWaiters(ks)
    BY <1>7 DEF Rename
  <2>2. store' \in [Keys -> Value] /\ fate' \in [Elems -> {"new", "in", "out"}]
    BY Zenon, <1>7, ConstantResponses, OutType DEF Rename, TypeOK
  <2>3. UNCHANGED <<silent, now, conns, blocks>> /\ draining' \in {<<>>, <<d>>}
    BY <1>7 DEF Rename
  <2>4. /\ waiters' \in [Keys -> Seq(Conns)] /\ clients' \in [Conns -> BlockedClient \cup {None}]
        /\ ready' \in [Conns -> Response \cup {None}] /\ heap' = heap
    BY <2>1, CancelTypes
  <2> QED BY Zenon, <1>0, <1>00, <2>2, <2>3, <2>4 DEF TypeOK
<1>8. ASSUME Flush
      PROVE  TypeOK'
  <2>1. store' \in [Keys -> Value] /\ fate' \in [Elems -> {"new", "in", "out"}]
    BY <1>8, ConstantResponses, OutType DEF Flush
  <2>2. UNCHANGED <<silent, now, conns, blocks>> /\ draining' = <<>> /\ heap' = {}
    BY <1>8 DEF Flush
  <2>3. /\ waiters' \in [Keys -> Seq(Conns)] /\ clients' \in [Conns -> BlockedClient \cup {None}]
        /\ ready' \in [Conns -> Response \cup {None}]
    BY <1>8, <1>00, ConstantResponses DEF Flush, TypeOK
  <2> QED BY <1>00, <2>1, <2>2, <2>3 DEF TypeOK
<1> HIDE DEF Written, conns, registry
<1> QED BY Zenon, <1>1, <1>2a, <1>2b, <1>3, <1>4, <1>5, <1>6, <1>7, <1>8 DEF Write

\* The administrative commands and the clock keep the state well typed.
LEMMA AdminTypes ==
  ASSUME TypeOK, NEW c \in Conns, TimerTick \/ ClientUnblock(c) \/ ClientKill(c) \/ Close(c)
  PROVE  TypeOK'
<1>1. CASE TimerTick
  BY <1>1, ConstantResponses DEF TimerTick, TypeOK, conns
<1>2. CASE ClientUnblock(c)
  BY <1>2, ConstantResponses DEF ClientUnblock, ForceUnblock, TypeOK, conns
<1>3. CASE ClientKill(c)
  BY Zenon, <1>3, ConstantResponses DEF ClientKill, ForceUnblock, TypeOK
<1>4. CASE Close(c)
  BY <1>4 DEF Close, TypeOK
<1> QED BY <1>1, <1>2, <1>3, <1>4

\* The initial state is well typed.
LEMMA InitTypes == Init => TypeOK
BY EmptySeq, ConstantResponses DEF Init, TypeOK

\* Every step keeps the state well typed.
LEMMA NextTypes == TypeOK /\ [Next]_vars => TypeOK'
<1> SUFFICES ASSUME TypeOK, [Next]_vars PROVE TypeOK'
  OBVIOUS
<1>1. CASE UNCHANGED vars
  BY <1>1 DEF vars, TypeOK
<1>2. ASSUME NEW c \in Conns, ConnStep(c) PROVE TypeOK'
  BY <1>2, ImmediateTypes, BlockTypes, ResumeTypes, AdminTypes DEF ConnStep, BlockingCommand
<1>3. CASE Notify
  BY <1>3, NotifyTypes
<1>4. CASE Write
  BY <1>4, WriteTypes
<1>5. CASE TimerTick
  BY <1>5, ConstantResponses DEF TimerTick, TypeOK, conns
<1> QED BY <1>1, <1>2, <1>3, <1>4, <1>5 DEF Next

\* Every reachable state of the shard is well typed: in particular no list is
\* ever empty and every pending response names a key exactly when it carries
\* members.
THEOREM TypeCorrect == Spec => []TypeOK
BY InitTypes, NextTypes, PTL DEF Spec

----------------------------------------------------------------------------
(* The registry and the connection tasks *)

\* Nobody is registered, and nobody waits, initially.
LEMMA InitRegistry == Init => RegistryMatchesTasks /\ RegisteredIsQueued
BY DEF Init, RegistryMatchesTasks, RegisteredIsQueued

\* Actions that leave the registry and the waiting tasks alone.
LEMMA RegistryUntouched ==
  ASSUME RegistryMatchesTasks, UNCHANGED <<clients, ready, task, asked>>
  PROVE  RegistryMatchesTasks'
BY DEF RegistryMatchesTasks

\* Every step keeps the registry and the waiting tasks in agreement.
LEMMA NextRegistry == TypeOK /\ RegistryMatchesTasks /\ [Next]_vars => RegistryMatchesTasks'
<1> SUFFICES ASSUME TypeOK, RegistryMatchesTasks, [Next]_vars PROVE RegistryMatchesTasks'
  OBVIOUS
<1>1. CASE UNCHANGED vars
  BY <1>1, RegistryUntouched DEF vars
<1>2. ASSUME NEW c \in Conns, ConnStep(c) PROVE RegistryMatchesTasks'
  <2>1. ASSUME NEW req \in Requests, Idle(c), Immediate(c, req) PROVE RegistryMatchesTasks'
    BY <2>1 DEF Immediate, Idle, TypeOK, RegistryMatchesTasks, registry
  <2>2. ASSUME NEW req \in Requests, NEW timeout \in Timeouts, Idle(c), Block(c, req, timeout)
        PROVE  RegistryMatchesTasks'
    BY Zenon, <2>2 DEF Block, Idle, TypeOK, RegistryMatchesTasks
  <2>3. CASE Resume(c)
    BY <2>3 DEF Resume, TypeOK, RegistryMatchesTasks
  <2>4. CASE ClientUnblock(c)
    BY <2>4 DEF ClientUnblock, ForceUnblock, TypeOK, RegistryMatchesTasks, conns
  <2>5. CASE ClientKill(c)
    BY <2>5 DEF ClientKill, ForceUnblock, TypeOK, RegistryMatchesTasks
  <2>6. CASE Close(c)
    BY <2>6 DEF Close, Idle, TypeOK, RegistryMatchesTasks
  <2> QED BY <1>2, <2>1, <2>2, <2>3, <2>4, <2>5, <2>6 DEF ConnStep, BlockingCommand
<1>3. CASE Notify
  <2>1. PICK key \in Keys : NotifyAt(key)
    BY <1>3, NotifyTargets
  <2>2. CASE UNCHANGED <<clients, ready>>
    BY <2>1, <2>2, RegistryUntouched DEF NotifyAt
  <2>3. ASSUME NEW c \in Conns, NotifyClient(key, c, clients[c].op)
        PROVE  RegistryMatchesTasks'
    <3>1. PICK resp : /\ clients[c] # None /\ clients' = [clients EXCEPT ![c] = None]
                      /\ ready' = [ready EXCEPT ![c] = resp]
      BY Zenon, <2>3 DEF NotifyClient
    <3> QED BY <2>1, <3>1 DEF NotifyAt, RegistryMatchesTasks, TypeOK
  <2> QED BY <2>1, <2>2, <2>3 DEF NotifyAt, NotifyEmpty, NotifyStale
<1>4. CASE Write
  <2> USE DEF Written, conns, registry
  <2>1. CASE UNCHANGED <<clients, ready, task, asked>>
    BY <2>1, RegistryUntouched
  <2>2. ASSUME NEW ks \in SUBSET Keys, CancelWaiters(ks), UNCHANGED <<task, asked>>
        PROVE  RegistryMatchesTasks'
    BY <2>2 DEF CancelWaiters, RegistryMatchesTasks, TypeOK
  <2>3. ASSUME NEW k \in Keys, Delete(k) PROVE RegistryMatchesTasks'
    BY <2>2, <2>3 DEF Delete
  <2>4. ASSUME NEW k \in Keys, NEW d \in Keys, Rename(k, d) PROVE RegistryMatchesTasks'
    BY <2>2, <2>4 DEF Rename
  <2>5. CASE Flush
    BY <2>5 DEF Flush, RegistryMatchesTasks, TypeOK
  <2>6. ASSUME NEW k \in Keys,
               \/ \E e \in Elems : Push(k, e, "list") \/ Push(k, e, "zset")
               \/ \E added \in SUBSET Elems : AddUnnotified(k, added)
               \/ \E s \in Sides : ListPop(k, s)
               \/ \E d \in Keys, s, t \in Sides : ListMove(k, d, s, t)
               \/ SetString(k)
        PROVE  RegistryMatchesTasks'
    <3>1. UNCHANGED <<clients, ready, task, asked>>
      BY Zenon, <2>6 DEF Push, AddUnnotified, ListPop, ListMove, SetString
    <3> QED BY <2>1, <3>1
  <2> HIDE DEF Written, conns, registry
  <2> QED BY Zenon, <1>4, <2>3, <2>4, <2>5, <2>6 DEF Write
<1>5. CASE TimerTick
  BY <1>5 DEF TimerTick, RegistryMatchesTasks, TypeOK, conns
<1> QED BY <1>1, <1>2, <1>3, <1>4, <1>5 DEF Next

\* In every reachable state a registered client is a waiting task with the
\* arguments of that wait, and a pending response belongs to a waiting task
\* that is no longer registered.
THEOREM RegistryCorrect == Spec => []RegistryMatchesTasks
<1>1. Spec => [](TypeOK /\ RegistryMatchesTasks)
  BY InitTypes, NextTypes, InitRegistry, NextRegistry, PTL DEF Spec
<1> QED BY <1>1, PTL

----------------------------------------------------------------------------
(* Queues *)

\* Taking the head off a queue loses at most the head.
LEMMA TailRange ==
  ASSUME NEW S, NEW s \in Seq(S), s # <<>>
  PROVE  RangeOf(s) = {Head(s)} \cup RangeOf(Tail(s))
<1>1. /\ Tail(s) \in Seq(S) /\ Len(Tail(s)) = Len(s) - 1 /\ Len(s) \in Nat \ {0}
      /\ Head(s) = s[1] /\ \A i \in 1 .. Len(Tail(s)) : Tail(s)[i] = s[i + 1]
  BY HeadTailProperties, LenProperties, EmptySeq
<1>2. \A i \in 1 .. Len(s) : i = 1 \/ (i - 1 \in 1 .. Len(Tail(s)) /\ Tail(s)[i - 1] = s[i])
  BY <1>1
<1>3. \A i \in 1 .. Len(Tail(s)) : i + 1 \in 1 .. Len(s)
  BY <1>1
<1>4. RangeOf(s) \subseteq {Head(s)} \cup RangeOf(Tail(s))
  BY <1>1, <1>2 DEF RangeOf
<1>5. {Head(s)} \cup RangeOf(Tail(s)) \subseteq RangeOf(s)
  BY <1>1, <1>3 DEF RangeOf
<1> QED BY <1>4, <1>5

\* Steps that register nobody and drop no id keep registered clients queued.
LEMMA QueuesUntouched ==
  ASSUME RegisteredIsQueued, waiters' = waiters,
         \A c \in Conns : clients'[c] # None => clients'[c] = clients[c]
  PROVE  RegisteredIsQueued'
BY DEF RegisteredIsQueued, RangeOf

\* cancel_waiters drops a client from the registry and from every queue together.
LEMMA QueuedCancel ==
  ASSUME TypeOK, RegisteredIsQueued, NEW ks \in SUBSET Keys, CancelWaiters(ks)
  PROVE  RegisteredIsQueued'
<1> SUFFICES ASSUME NEW c \in Conns, clients'[c] # None, NEW i \in 1 .. Len(clients'[c].keys)
             PROVE  c \in RangeOf(waiters'[clients'[c].keys[i]])
  BY Zenon DEF RegisteredIsQueued, RangeOf
<1>1. clients'[c] = clients[c] /\ \A k \in ks : c \notin RangeOf(waiters[k])
  BY DEF CancelWaiters
<1>2. clients[c].keys[i] \in Keys
  BY <1>1, ElementOfSeq DEF TypeOK, BlockedClient
<1>3. c \in RangeOf(waiters[clients[c].keys[i]])
  BY <1>1 DEF RegisteredIsQueued
<1> QED BY <1>1, <1>2, <1>3 DEF CancelWaiters

\* notify takes an id off a queue only with the registration it belongs to.
LEMMA QueuedNotify ==
  ASSUME TypeOK, RegisteredIsQueued, Notify
  PROVE  RegisteredIsQueued'
<1>1. PICK key \in Keys : NotifyAt(key)
  BY NotifyTargets
<1>2. CASE NotifyEmpty(key)
  BY <1>2, QueuesUntouched DEF NotifyEmpty
<1>3. ASSUME NEW c \in Conns, c = Head(waiters[key]),
             NotifyStale(key, c) \/ NotifyClient(key, c, clients[c].op)
      PROVE  RegisteredIsQueued'
  <2>1. /\ waiters' = [waiters EXCEPT ![key] = Tail(waiters[key])] /\ clients'[c] = None
        /\ waiters[key] # <<>> /\ \A d \in Conns : d # c => clients'[d] = clients[d]
    BY Zenon, <1>3 DEF NotifyStale, NotifyClient, Dequeued, TypeOK
  <2>2. RangeOf(waiters[key]) = {c} \cup RangeOf(Tail(waiters[key]))
    <3>1. waiters[key] \in Seq(Conns)
      BY DEF TypeOK
    <3> QED BY <1>3, <2>1, <3>1, TailRange
  <2> SUFFICES ASSUME NEW d \in Conns, clients'[d] # None, NEW i \in 1 .. Len(clients'[d].keys)
               PROVE  d \in RangeOf(waiters'[clients'[d].keys[i]])
    BY Zenon DEF RegisteredIsQueued, RangeOf
  <2>3. clients'[d] = clients[d] /\ d # c
    BY <2>1
  <2>4. clients[d].keys[i] \in Keys
    BY <2>3, ElementOfSeq DEF TypeOK, BlockedClient
  <2>5. d \in RangeOf(waiters[clients[d].keys[i]])
    BY <2>3 DEF RegisteredIsQueued
  <2> QED BY <2>1, <2>2, <2>3, <2>4, <2>5 DEF TypeOK
<1> QED BY <1>1, <1>2, <1>3 DEF NotifyAt

\* A new registration is queued on every key it names.
LEMMA QueuedBlock ==
  ASSUME TypeOK, RegisteredIsQueued, NEW c \in Conns, NEW req \in Requests,
         NEW timeout \in Timeouts, Block(c, req, timeout)
  PROVE  RegisteredIsQueued'
<1> DEFINE client == [keys |-> req.keys, op |-> req.op,
                      deadline |-> IF timeout = 0 THEN None ELSE now + timeout]
<1>1. /\ req.keys \in Seq(Keys) /\ waiters' = Enqueued(c, req.keys)
      /\ clients' = [clients EXCEPT ![c] = client]
  BY RequestTypes DEF Block
<1>2. /\ \A k \in Keys : RangeOf(waiters[k]) \subseteq RangeOf(waiters'[k])
      /\ \A i \in 1 .. Len(req.keys) : c \in RangeOf(waiters'[req.keys[i]])
  BY Zenon, <1>1, EnqueuedTypes
<1> SUFFICES ASSUME NEW d \in Conns, clients'[d] # None, NEW i \in 1 .. Len(clients'[d].keys)
             PROVE  d \in RangeOf(waiters'[clients'[d].keys[i]])
  BY Zenon DEF RegisteredIsQueued, RangeOf
<1>3. CASE d = c
  <2>1. clients'[d].keys = req.keys
    BY <1>1, <1>3 DEF TypeOK
  <2> QED BY <1>2, <1>3, <2>1
<1>4. CASE d # c
  <2>1. clients'[d] = clients[d]
    BY <1>1, <1>4 DEF TypeOK
  <2>2. clients[d].keys[i] \in Keys
    BY <2>1, ElementOfSeq DEF TypeOK, BlockedClient
  <2>3. d \in RangeOf(waiters[clients[d].keys[i]])
    BY <2>1 DEF RegisteredIsQueued
  <2> QED BY Zenon, <1>2, <2>1, <2>2, <2>3
<1> QED BY <1>3, <1>4

\* The writes: those that cancel waiters, and those that leave the registry alone.
LEMMA WriteRegistry ==
  ASSUME Write
  PROVE  \/ UNCHANGED <<waiters, clients, ready>>
         \/ \E ks \in SUBSET Keys : CancelWaiters(ks)
         \/ Flush /\ clients' = [c \in Conns |-> None]
<1>1. ASSUME NEW k \in Keys,
             \/ \E e \in Elems : Push(k, e, "list") \/ Push(k, e, "zset")
             \/ \E added \in SUBSET Elems : AddUnnotified(k, added)
             \/ \E s \in Sides : ListPop(k, s)
             \/ \E d \in Keys, s, t \in Sides : ListMove(k, d, s, t)
             \/ SetString(k)
      PROVE  UNCHANGED <<waiters, clients, ready>>
  BY Zenon, <1>1 DEF Push, AddUnnotified, ListPop, ListMove, SetString, registry
<1>2. ASSUME NEW k \in Keys, Delete(k) PROVE \E ks \in SUBSET Keys : CancelWaiters(ks)
  BY <1>2 DEF Delete
<1>3. ASSUME NEW k \in Keys, NEW d \in Keys, Rename(k, d)
      PROVE  \E ks \in SUBSET Keys : CancelWaiters(ks)
  BY <1>3 DEF Rename
<1>4. CASE Flush
  BY <1>4 DEF Flush
<1> QED BY Zenon, <1>1, <1>2, <1>3, <1>4 DEF Write

\* Every step keeps registered clients queued.
LEMMA NextQueued == TypeOK /\ RegisteredIsQueued /\ [Next]_vars => RegisteredIsQueued'
<1> SUFFICES ASSUME TypeOK, RegisteredIsQueued, [Next]_vars PROVE RegisteredIsQueued'
  OBVIOUS
<1>1. CASE UNCHANGED vars
  BY <1>1, QueuesUntouched DEF vars
<1>2. ASSUME NEW c \in Conns, ConnStep(c) PROVE RegisteredIsQueued'
  <2>1. ASSUME NEW req \in Requests, Immediate(c, req) PROVE RegisteredIsQueued'
    <3>1. UNCHANGED <<waiters, clients>>
      BY Zenon, <2>1 DEF Immediate, registry
    <3> QED BY <3>1, QueuesUntouched
  <2>2. CASE Resume(c)
    BY Zenon, <2>2, QueuesUntouched DEF Resume
  <2>3. CASE ClientUnblock(c)
    BY <2>3, QueuesUntouched DEF ClientUnblock, ForceUnblock, TypeOK
  <2>4. CASE ClientKill(c)
    BY <2>4, QueuesUntouched DEF ClientKill, ForceUnblock, TypeOK
  <2>5. CASE Close(c)
    BY <2>5, QueuesUntouched DEF Close, TypeOK
  <2> QED BY <1>2, <2>1, <2>2, <2>3, <2>4, <2>5, QueuedBlock DEF ConnStep, BlockingCommand
<1>3. CASE Notify
  BY <1>3, QueuedNotify
<1>4. CASE Write
  <2>1. CASE UNCHANGED <<waiters, clients, ready>>
    BY <2>1, QueuesUntouched
  <2>2. CASE clients' = [c \in Conns |-> None]
    BY <2>2 DEF RegisteredIsQueued
  <2> QED BY <1>4, <2>1, <2>2, QueuedCancel, WriteRegistry
<1>5. CASE TimerTick
  BY <1>5, QueuesUntouched DEF TimerTick
<1> QED BY <1>1, <1>2, <1>3, <1>4, <1>5 DEF Next

\* In every reachable state a registered client is in the queue of every key
\* it waits for.
THEOREM QueuesCorrect == Spec => []RegisteredIsQueued
<1>1. Spec => [](TypeOK /\ RegisteredIsQueued)
  BY InitTypes, NextTypes, InitRegistry, NextQueued, PTL DEF Spec
<1> QED BY <1>1, PTL

----------------------------------------------------------------------------
(* No lost wake-up *)

\* The inductive form: also in the middle of a notification, a key that holds
\* what a registered client wants is still to be drained, or was filled by a
\* write that notifies nobody.
WakeupPending ==
  \A c \in Conns : clients[c] # None =>
    Servable(c) \subseteq silent \cup RangeOf(draining)

\* A command changes the type of no key but its own, which it may remove, and
\* the destination of a move.
LEMMA RunKeepsOthers ==
  ASSUME NEW st \in [Keys -> Value], NEW key \in Keys, NEW op \in BlockedOp,
         NEW k \in Keys, op.kind = "Move" => k # op.dest
  PROVE  RunNow(st, key, op)[k].t \in {st[k].t, "none"}
<1>1. CASE op.kind # "Move"
  BY <1>1 DEF RunNow, PopNow, Holding, Absent
<1>2. CASE op.kind = "Move"
  <2> DEFINE e == Popped(st[key].v, op.side, 1)[1]
             popped == [st EXCEPT ![key] = [t |-> st[key].t, v |-> Left(st[key].v, op.side, 1)]]
             base == IF popped[op.dest].t = "list" THEN popped[op.dest].v ELSE <<>>
             full == PushTo(base, op.dstSide, e)
             moved == [popped EXCEPT ![op.dest] = [t |-> "list", v |-> full]]
  <2>1. RunNow(st, key, op) = [moved EXCEPT ![key] = Holding(moved[key].t, moved[key].v)]
    BY Zenon, <1>2 DEF RunNow, MoveNow
  <2>2. moved[k].t = st[k].t /\ DOMAIN moved = Keys
    BY <1>2
  <2> HIDE DEF moved
  <2> QED BY <2>1, <2>2 DEF Holding, Absent
<1> QED BY <1>1, <1>2

\* Ids a queue gains and loses in one step of notify.
LEMMA RangeFacts ==
  /\ RangeOf(<<>>) = {}
  /\ \A k \in Keys : RangeOf(<<k>>) = {k}
  /\ \A k \in Keys, s \in Seq(Keys) : RangeOf(<<k>> \o s) = {k} \cup RangeOf(s)
<1>1. ASSUME NEW k \in Keys, NEW s \in Seq(Keys)
      PROVE  RangeOf(<<k>> \o s) = {k} \cup RangeOf(s)
  <2> DEFINE q == <<k>> \o s
  <2>1. q \in Seq(Keys) /\ q # <<>>
    <3>1. <<k>> \in Seq(Keys) /\ Len(<<k>>) = 1
      OBVIOUS
    <3>2. q \in Seq(Keys) /\ Len(q) = 1 + Len(s) /\ Len(s) \in Nat
      BY <3>1, ConcatProperties, LenProperties
    <3> QED BY <3>2, EmptySeq
  <2>2. Head(q) = k /\ Tail(q) = s
    OBVIOUS
  <2> HIDE DEF q
  <2>3. RangeOf(q) = {k} \cup RangeOf(s)
    BY Zenon, <2>1, <2>2, TailRange
  <2> QED BY <2>3 DEF q
<1> QED BY <1>1 DEF RangeOf

\* A step that registers nobody, gives no key a new type outside the covered
\* ones and keeps the covered keys covered preserves WakeupPending.
LEMMA PendingKept ==
  ASSUME TypeOK, WakeupPending,
         \A c \in Conns : clients'[c] # None => clients'[c] = clients[c],
         \A k \in Keys : store'[k].t \in {"none", "string", store[k].t}
                           \/ k \in silent' \cup RangeOf(draining)',
         silent \cup RangeOf(draining) \subseteq silent' \cup RangeOf(draining)'
  PROVE  WakeupPending'
<1> SUFFICES ASSUME NEW c \in Conns, clients'[c] # None, NEW k \in RangeOf(clients'[c].keys),
                    store'[k].t = WantedType(clients'[c].op)
             PROVE  k \in silent' \cup RangeOf(draining)'
  BY DEF WakeupPending, Servable, RangeOf
<1>1. clients'[c] = clients[c] /\ clients[c] \in BlockedClient
  BY DEF TypeOK
<1>2. k \in Keys
  BY <1>1, ElementOfSeq DEF BlockedClient, RangeOf
<1>3. store'[k].t \notin {"none", "string"}
  BY Zenon DEF WantedType
<1>4. CASE store'[k].t = store[k].t
  BY <1>1, <1>4 DEF WakeupPending, Servable
<1> QED BY <1>2, <1>3, <1>4

\* A step of the notify loop covers every key it leaves servable.
LEMMA PendingNotify ==
  ASSUME TypeOK, RegisteredIsQueued, WakeupPending, Notify
  PROVE  WakeupPending'
<1>1. PICK key \in Keys : NotifyAt(key)
  BY NotifyTargets
<1>2. CASE NotifyEmpty(key)
  <2>1. /\ UNCHANGED <<store, clients>> /\ waiters[key] = <<>>
        /\ draining' = Tail(draining) /\ silent' = silent \ {key}
    BY <1>2 DEF NotifyEmpty
  <2>2. RangeOf(draining) = {key} \cup RangeOf(Tail(draining))
    BY <1>1, TailRange DEF NotifyAt
  <2>3. ASSUME NEW c \in Conns, clients[c] # None PROVE key \notin RangeOf(clients[c].keys)
    <3>1. RangeOf(waiters[key]) = {}
      BY <2>1 DEF RangeOf
    <3> QED BY Zenon, <2>3, <3>1 DEF RegisteredIsQueued, RangeOf
  <2>4. RangeOf(draining)' = RangeOf(Tail(draining))
    BY <2>1 DEF RangeOf
  <2>5. ASSUME NEW c \in Conns, clients[c] # None
        PROVE  Servable(c)' = Servable(c) /\ Servable(c) \subseteq RangeOf(clients[c].keys)
    BY <2>1 DEF Servable, RangeOf
  <2> QED BY <2>1, <2>2, <2>3, <2>4, <2>5 DEF WakeupPending
<1>3. ASSUME NEW c \in Conns, NotifyStale(key, c) PROVE WakeupPending'
  BY <1>3, PendingKept DEF NotifyStale, RangeOf
<1>4. ASSUME NEW c \in Conns, NotifyClient(key, c, clients[c].op) PROVE WakeupPending'
  <2> DEFINE op == clients[c].op
  <2>1. op \in BlockedOp /\ (op.kind = "Move" => op.dest \in Keys)
    BY Zenon, <1>4 DEF NotifyClient, TypeOK, BlockedClient, BlockedOp
  <2>2. \A d \in Conns : clients'[d] # None => clients'[d] = clients[d]
    BY Zenon, <1>4 DEF NotifyClient, TypeOK
  <2>3. RangeOf(draining)' = RangeOf(draining) \cup (IF op.kind = "Move" THEN {op.dest} ELSE {})
    <3>1. draining' = IF op.kind = "Move" THEN <<op.dest>> \o draining ELSE draining
      BY <1>4 DEF NotifyClient
    <3>2. RangeOf(draining)' = RangeOf(draining')
      BY DEF RangeOf
    <3> QED BY <1>1, <2>1, <3>1, <3>2, RangeFacts DEF NotifyAt
  <2>4. silent' = silent /\ store' = Executed(store, key, op)
    BY Zenon, <1>4 DEF NotifyClient
  <2>5. \A k \in Keys : store'[k].t \in {"none", store[k].t} \/ (op.kind = "Move" /\ k = op.dest)
    <3> TAKE k \in Keys
    <3>1. (op.kind = "Move" /\ k = op.dest) \/ RunNow(store, key, op)[k].t \in {store[k].t, "none"}
      BY Zenon, <2>1, RunKeepsOthers DEF TypeOK
    <3> HIDE DEF op
    <3> QED BY <2>4, <3>1 DEF Executed
  <2> HIDE DEF op
  <2> QED BY <2>2, <2>3, <2>4, <2>5, PendingKept
<1> QED BY <1>1, <1>2, <1>3, <1>4 DEF NotifyAt

\* The blocking commands leave no servable key uncovered.
LEMMA PendingBlocking ==
  ASSUME TypeOK, WakeupPending, NEW c \in Conns, BlockingCommand(c)
  PROVE  WakeupPending'
<1>0. draining = <<>> /\ RangeOf(draining) = {}
  BY RangeFacts DEF BlockingCommand, Idle
<1>1. ASSUME NEW req \in Requests, Immediate(c, req) PROVE WakeupPending'
  <2>1. PICK i \in 1 .. Len(req.keys) : Immediate(c, req)!(i)
    BY Zenon, <1>1 DEF Immediate
  <2> DEFINE key == req.keys[i]
             op == req.op
  <2>2. key \in Keys /\ op \in BlockedOp
    BY RequestTypes, ElementOfSeq
  <2>3. clients' = clients /\ store' = RunNow(store, key, op)
    BY Zenon, <2>1 DEF registry
  <2>4. \A k \in Keys : store'[k].t \in {"none", store[k].t} \/ (op.kind = "Move" /\ k = op.dest)
    <3> TAKE k \in Keys
    <3>1. (op.kind = "Move" /\ k = op.dest) \/ RunNow(store, key, op)[k].t \in {store[k].t, "none"}
      BY Zenon, <2>2, RunKeepsOthers DEF TypeOK
    <3> HIDE DEF op, key
    <3> QED BY <2>3, <3>1
  <2>5. silent' = IF op.kind = "Move" THEN silent \cup {op.dest} ELSE silent
    BY Zenon, <2>1
  <2> HIDE DEF op, key
  <2> QED BY <1>0, <2>3, <2>4, <2>5, PendingKept
<1>2. ASSUME NEW req \in Requests, NEW timeout \in Timeouts, Block(c, req, timeout)
      PROVE  WakeupPending'
  <2>1. /\ UNCHANGED <<store, silent, draining>>
        /\ \A d \in Conns : d # c => clients'[d] = clients[d]
        /\ clients'[c].keys = req.keys
        /\ \A i \in 1 .. Len(req.keys) : store[req.keys[i]].t = "none"
    BY Zenon, <1>2 DEF Block, TypeOK
  <2>2. Servable(c)' = {}
    <3>1. \A k \in RangeOf(req.keys) : store[k].t = "none"
      BY <2>1 DEF RangeOf
    <3>2. Servable(c)' = {k \in RangeOf(req.keys) : store[k].t = WantedType(clients'[c].op)}
      BY <2>1 DEF Servable, RangeOf, WantedType
    <3>3. WantedType(clients'[c].op) # "none"
      BY DEF WantedType
    <3> QED BY <3>1, <3>2, <3>3
  <2>3. \A d \in Conns : d # c => Servable(d)' = Servable(d)
    BY <2>1 DEF Servable, RangeOf
  <2>4. RangeOf(draining)' = RangeOf(draining)
    BY <2>1 DEF RangeOf
  <2> QED BY <2>1, <2>2, <2>3, <2>4 DEF WakeupPending
<1> QED BY <1>1, <1>2 DEF BlockingCommand

\* Every write either notifies, or is recorded as silent.
LEMMA PendingWrite ==
  ASSUME TypeOK, WakeupPending, Write
  PROVE  WakeupPending'
<1>1. \A c \in Conns : clients'[c] # None => clients'[c] = clients[c]
  BY WriteRegistry DEF CancelWaiters
<1> USE DEF Written
<1>2. ASSUME draining = <<>>,
             \A k \in Keys : store'[k].t \in {"none", "string", store[k].t}
                               \/ k \in silent' \/ draining' = <<k>>,
             silent \subseteq silent'
      PROVE  WakeupPending'
  <2>1. RangeOf(draining) = {} /\ RangeOf(draining)' = RangeOf(draining')
    BY <1>2, RangeFacts DEF RangeOf
  <2> QED BY <1>1, <1>2, <2>1, PendingKept, RangeFacts
<1>3. ASSUME NEW k \in Keys, NEW e \in Elems, NEW t \in {"list", "zset"}, Push(k, e, t)
      PROVE  WakeupPending'
  BY <1>2, <1>3 DEF Push, TypeOK
<1>4. ASSUME NEW k \in Keys, NEW added \in SUBSET Elems, AddUnnotified(k, added)
      PROVE  WakeupPending'
  BY <1>2, <1>4 DEF AddUnnotified, TypeOK
<1>5. ASSUME NEW k \in Keys, NEW side \in Sides, ListPop(k, side) PROVE WakeupPending'
  BY <1>2, <1>5 DEF ListPop, TypeOK
<1>6. ASSUME NEW k \in Keys, NEW d \in Keys, NEW s \in Sides, NEW t \in Sides, ListMove(k, d, s, t)
      PROVE  WakeupPending'
  <2> DEFINE op == [kind |-> "Move", side |-> s, dstSide |-> t, dest |-> d, count |-> 1]
  <2>1. op \in BlockedOp /\ op.kind = "Move" /\ op.dest = d
    BY ConstantsAssumption DEF BlockedOp, OpKinds
  <2>2. RunNow(store, k, op) = MoveNow(store, k, op)
    BY DEF RunNow
  <2>3. /\ draining = <<>> /\ (store[k].t = "none" \/ silent' = silent \cup {d})
        /\ silent \subseteq silent'
        /\ store' = IF store[k].t = "none" THEN store ELSE MoveNow(store, k, op)
    BY <1>6 DEF ListMove
  <2> HIDE DEF op
  <2>4. \A j \in Keys : store'[j].t \in {"none", store[j].t} \/ j \in silent'
    <3> TAKE j \in Keys
    <3>1. j = d \/ RunNow(store, k, op)[j].t \in {store[j].t, "none"}
      BY Zenon, <2>1, RunKeepsOthers DEF TypeOK
    <3> QED BY <2>2, <2>3, <3>1
  <2> QED BY <1>2, <2>3, <2>4
<1>7. ASSUME NEW k \in Keys, SetString(k) PROVE WakeupPending'
  BY <1>2, <1>7 DEF SetString, TypeOK
<1>8. ASSUME NEW k \in Keys, Delete(k) PROVE WakeupPending'
  BY <1>2, <1>8 DEF Delete, TypeOK, Absent
<1>9. ASSUME NEW k \in Keys, NEW d \in Keys, Rename(k, d) PROVE WakeupPending'
  <2>1. /\ draining = <<>> /\ silent' = silent
        /\ store' = [store EXCEPT ![d] = store[k], ![k] = Absent]
        /\ draining' = IF Blocking(store[k].t) THEN <<d>> ELSE <<>>
    BY <1>9 DEF Rename
  <2>2. ~Blocking(store[k].t) => store[k].t \in {"none", "string"}
    BY DEF TypeOK, Value, Types, Blocking
  <2>3. \A j \in Keys : store'[j].t \in {"none", "string", store[j].t} \/ draining' = <<j>>
    BY <2>1, <2>2 DEF TypeOK, Absent
  <2> QED BY Zenon, <1>2, <2>1, <2>3
<1>10. CASE Flush
  BY <1>2, <1>10 DEF Flush, Absent
<1> QED BY Zenon, <1>3, <1>4, <1>5, <1>6, <1>7, <1>8, <1>9, <1>10 DEF Write

\* Every step preserves WakeupPending.
LEMMA NextPending ==
  TypeOK /\ RegisteredIsQueued /\ WakeupPending /\ [Next]_vars => WakeupPending'
<1> SUFFICES ASSUME TypeOK, RegisteredIsQueued, WakeupPending, [Next]_vars PROVE WakeupPending'
  OBVIOUS
<1>0. ASSUME UNCHANGED <<store, silent, draining>>,
             \A c \in Conns : clients'[c] # None => clients'[c] = clients[c]
      PROVE  WakeupPending'
  BY <1>0, PendingKept DEF RangeOf
<1>1. CASE UNCHANGED vars
  BY <1>0, <1>1 DEF vars
<1>2. ASSUME NEW c \in Conns, ConnStep(c) PROVE WakeupPending'
  <2>1. CASE Resume(c)
    <3>1. UNCHANGED <<store, silent, clients>> /\ RangeOf(draining) = {}
      BY <2>1, RangeFacts DEF Resume
    <3> QED BY <3>1, PendingKept
  <2>2. CASE ClientUnblock(c)
    BY <1>0, <2>2 DEF ClientUnblock, ForceUnblock, TypeOK
  <2>3. CASE ClientKill(c)
    BY <1>0, <2>3 DEF ClientKill, ForceUnblock, TypeOK
  <2>4. CASE Close(c)
    BY <1>0, <2>4 DEF Close, TypeOK
  <2> QED BY <1>2, <2>1, <2>2, <2>3, <2>4, PendingBlocking DEF ConnStep
<1>3. CASE TimerTick
  BY <1>0, <1>3 DEF TimerTick
<1> QED BY <1>1, <1>2, <1>3, PendingNotify, PendingWrite DEF Next

\* Between commands no registered client waits for a key that holds what it
\* wants, other than a key filled by one of the writes that notify nobody:
\* the drain loop of post_dispatch_notify loses no wake-up, for any number of
\* clients, keys and chained moves.
THEOREM NoWakeupLost == Spec => []NoLostWakeup
<1>1. Init => WakeupPending
  BY DEF Init, WakeupPending
<1>2. WakeupPending => NoLostWakeup
  BY RangeFacts DEF WakeupPending, NoLostWakeup
<1>3. Spec => [](TypeOK /\ RegisteredIsQueued /\ WakeupPending)
  BY <1>1, InitTypes, NextTypes, InitRegistry, NextQueued, NextPending, PTL DEF Spec
<1> QED BY <1>2, <1>3, PTL

\* A pending response is only ever taken by the task it belongs to.
THEOREM ResponsesStable == Spec => ResponseStable
<1> DEFINE Taken == \A c \in Conns : ready[c] # None /\ ready'[c] # ready[c] =>
                      ready'[c] = None /\ task[c] = "awaiting" /\ task'[c] # "awaiting"
<1>1. TypeOK /\ RegistryMatchesTasks /\ [Next]_vars => [Taken]_vars
  <2> SUFFICES ASSUME TypeOK, RegistryMatchesTasks, Next PROVE Taken
    OBVIOUS
  <2>1. ASSUME NEW c \in Conns, ConnStep(c) PROVE Taken
    <3>1. ASSUME BlockingCommand(c) PROVE Taken
      <4>1. ready' = ready
        BY Zenon, <3>1 DEF BlockingCommand, Immediate, Block, registry
      <4> QED BY <4>1
    <3>2. CASE Resume(c)
      BY <3>2 DEF Resume, TypeOK
    <3>3. CASE ClientUnblock(c)
      BY <3>3 DEF ClientUnblock, ForceUnblock, RegistryMatchesTasks, TypeOK
    <3>4. CASE ClientKill(c)
      BY <3>4 DEF ClientKill, ForceUnblock, RegistryMatchesTasks, TypeOK
    <3>5. CASE Close(c)
      BY <3>5 DEF Close, Idle, RegistryMatchesTasks, TypeOK
    <3> QED BY Zenon, <2>1, <3>1, <3>2, <3>3, <3>4, <3>5 DEF ConnStep
  <2>2. CASE Notify
    <3>1. PICK key \in Keys : NotifyAt(key)
      BY <2>2, NotifyTargets
    <3>2. ASSUME NEW c \in Conns, NotifyClient(key, c, clients[c].op) PROVE Taken
      <4>1. PICK resp : clients[c] # None /\ ready' = [ready EXCEPT ![c] = resp]
        BY Zenon, <3>2 DEF NotifyClient
      <4> QED BY <4>1 DEF RegistryMatchesTasks, TypeOK
    <3> QED BY <3>1, <3>2 DEF NotifyAt, NotifyEmpty, NotifyStale
  <2>3. CASE Write
    <3>1. CASE Flush
      BY Zenon, <3>1 DEF Flush, RegistryMatchesTasks
    <3>2. ASSUME NEW ks \in SUBSET Keys, CancelWaiters(ks) PROVE Taken
      BY <3>2 DEF CancelWaiters, RegistryMatchesTasks
    <3>3. CASE ready' = ready
      BY <3>3
    <3> QED BY Zenon, <2>3, <3>1, <3>2, <3>3, WriteRegistry
  <2>4. CASE TimerTick
    BY <2>4 DEF TimerTick, RegistryMatchesTasks
  <2> QED BY <2>1, <2>2, <2>3, <2>4 DEF Next
<1>2. Spec => [](TypeOK /\ RegistryMatchesTasks)
  BY InitTypes, NextTypes, InitRegistry, NextRegistry, PTL DEF Spec
<1> QED BY <1>1, <1>2, PTL DEF Spec, ResponseStable
=============================================================================
