------------------------------ MODULE Keyspace ------------------------------
(***************************************************************************)
(* The keyspace of a shard (senko-store/src/store.rs, expiry.rs,           *)
(* eviction.rs): a hash table, a second one while entries migrate from the *)
(* old to the new, a timer wheel of deadlines with an overflow map, and a  *)
(* memory counter.  One action per method of Store.                        *)
(*                                                                         *)
(* A store is a record, and the steps a method is made of are operators    *)
(* from stores to stores.  Which entries the next buckets of the old table *)
(* hold is the business of the hash function: a migration moves any batch. *)
(***************************************************************************)
EXTENDS Integers, FiniteSetsExt

CONSTANTS
  Keys, Values, None,
  Collections, Empty,      \* collection values, and the empty one
  Compared,                \* values the conditions of SET compare with
  Size,                    \* entry_bytes of an entry with this value
  Wrap,                    \* 2^w, the range of the memory counter
  MaxMemory,               \* max_memory, or None
  DefaultBuckets,          \* DEFAULT_BUCKETS
  LoadNumerator, LoadDenominator,
  Batch,                   \* REHASH_BATCH_BUCKETS
  Slots,                   \* WHEEL_SLOTS
  Resolution,              \* WHEEL_RESOLUTION_MS
  Deadlines, Delays,       \* deadlines and delays that commands ask for
  MaxNow                   \* bound on the wall clock

VARIABLES
  store,      \* the record described by Store
  now,        \* current_unix_ms
  target,     \* the tick advance goes to, or None
  due,        \* keys drained from the wheel and not yet looked at
  reply,      \* the last operation, its arguments and its result
  drift       \* history: bytes that changed in place, which nothing counts

vars == <<store, now, target, due, reply, drift>>

Entry == [value : Values, expires : Nat \cup {None}]
NoEntry == [value |-> None, expires |-> None]
Table == [Keys -> Entry \cup {NoEntry}]
Timer == Keys \X Nat       \* a key and the tick it was scheduled for
Store == [primary : Table, old : Table, resizing : BOOLEAN, buckets : Nat,
          slots : [0 .. Slots - 1 -> SUBSET Timer], overflow : SUBSET Timer,
          tick : Nat, used : Nat]

NoEntries == [k \in Keys |-> NoEntry]
Put(table, k, e) == [j \in Keys |-> IF j = k THEN e ELSE table[j]]
In(table) == {k \in Keys : table[k] # NoEntry}

----------------------------------------------------------------------------
(* The timer wheel *)

Tick(ms) == ms \div Resolution

\* A deadline that has passed is scheduled for the next tick.
NormalizeDeadline(s, e) ==
  IF e <= s.tick * Resolution THEN (s.tick + 1) * Resolution ELSE e

ScheduleKey(s, k, e) ==
  LET at == NormalizeDeadline(s, e)
      timer == <<k, Tick(at)>>
  IN  IF at <= (s.tick + Slots) * Resolution
      THEN [s EXCEPT !.slots = [@ EXCEPT ![Tick(at) % Slots] = @ \cup {timer}]]
      ELSE [s EXCEPT !.overflow = @ \cup {timer}]

Tombstone(s, k, e) ==
  IF e = None THEN s
  ELSE IF Tick(e) <= s.tick + Slots
       THEN [s EXCEPT !.slots = [@ EXCEPT ![Tick(e) % Slots] = {x \in @ : x[1] # k}]]
       ELSE [s EXCEPT !.overflow = @ \ {<<k, Tick(e)>>}]

UpdateExpirySwapped(s, k, old, new) ==
  Tombstone(IF new = None THEN s ELSE ScheduleKey(s, k, new), k, old)
UpdateExpiry(s, k, old, new) ==
  LET cleared == Tombstone(s, k, old)
  IN  IF new = None THEN cleared ELSE ScheduleKey(cleared, k, new)

\* One turn of the loop of advance: the slot of the next tick is drained, and
\* a rotation brings in what is due during the next one.
WheelStepLate(s) ==
  LET t == s.tick + 1
      drained == [s.slots EXCEPT ![t % Slots] = {}]
      promoted == IF t % Slots = Slots - 1 THEN {x \in s.overflow : x[2] <= t} ELSE {}
  IN  [s EXCEPT !.tick = t, !.overflow = @ \ promoted,
                !.slots = [i \in 0 .. Slots - 1 |->
                             drained[i] \cup {x \in promoted : x[2] % Slots = i}]]
WheelStep(s) ==
  LET t == s.tick + 1
      drained == [s.slots EXCEPT ![t % Slots] = {}]
      promoted == IF t % Slots = Slots - 1 THEN {x \in s.overflow : x[2] <= t + Slots} ELSE {}
  IN  [s EXCEPT !.tick = t, !.overflow = @ \ promoted,
                !.slots = [i \in 0 .. Slots - 1 |->
                             drained[i] \cup {x \in promoted : x[2] % Slots = i}]]
Drained(s) == {x[1] : x \in s.slots[(s.tick + 1) % Slots]}

----------------------------------------------------------------------------
(* The two tables *)

FindSlot(s, k) == IF s.primary[k] # NoEntry THEN s.primary[k] ELSE s.old[k]

Expired(e, t) == e.expires # None /\ e.expires <= t

\* hashbrown: with_capacity allocates twice a power of two, and a table that
\* is seven eighths full doubles.
WithCapacity(c) == 2 * c
Grown(b, n) == IF 8 * n > 7 * b THEN 2 * b ELSE b

\* What leaves a table is taken off the wheel and off the counter.
ForgetUnwrapped(s, k, e) ==
  [Tombstone(s, k, e.expires) EXCEPT !.used = @ - Size[e.value]]
Forget(s, k, e) ==
  [Tombstone(s, k, e.expires) EXCEPT !.used = (@ - Size[e.value]) % Wrap]

RemovePrimary(s, k) ==
  IF s.primary[k] # NoEntry THEN Forget([s EXCEPT !.primary = Put(@, k, NoEntry)], k, s.primary[k])
  ELSE s
RemoveSlot(s, k) ==
  IF s.primary[k] # NoEntry THEN Forget([s EXCEPT !.primary = Put(@, k, NoEntry)], k, s.primary[k])
  ELSE IF s.old[k] # NoEntry THEN Forget([s EXCEPT !.old = Put(@, k, NoEntry)], k, s.old[k])
  ELSE s

RemoveIfExpired(s, k, t) == IF Expired(FindSlot(s, k), t) THEN RemoveSlot(s, k) ELSE s

ReplaceUncounted(s, k, e) ==
  Tombstone([s EXCEPT !.primary = Put(@, k, e)], k, s.primary[k].expires)
Replace(s, k, e) ==
  [Tombstone([s EXCEPT !.primary = Put(@, k, e)], k, s.primary[k].expires)
     EXCEPT !.used = (@ + Size[e.value] - Size[s.primary[k].value]) % Wrap]
Insert(s, k, e) ==
  [s EXCEPT !.primary = Put(@, k, e), !.used = (@ + Size[e.value]) % Wrap,
            !.buckets = Grown(@, Cardinality(In(s.primary)) + 1)]
InsertBeside(s, k, e) ==
  IF s.primary[k] # NoEntry THEN Replace(s, k, e) ELSE Insert(s, k, e)
InsertOrReplace(s, k, e) ==
  IF s.primary[k] # NoEntry THEN Replace(s, k, e) ELSE Insert(RemoveSlot(s, k), k, e)

\* find_slot_mut: a change in place.
InPlace(s, k, e) ==
  IF s.primary[k] # NoEntry THEN [s EXCEPT !.primary = Put(@, k, e)] ELSE [s EXCEPT !.old = Put(@, k, e)]

MaybeStartResize(s) ==
  IF s.resizing \/ Cardinality(In(s.primary)) * LoadDenominator <= s.buckets * LoadNumerator
  THEN s
  ELSE [s EXCEPT !.old = s.primary, !.primary = NoEntries, !.resizing = TRUE,
                 !.buckets = WithCapacity(IF 2 * @ > DefaultBuckets THEN 2 * @ ELSE DefaultBuckets)]

\* incremental_rehash_step: the loop wraps around the old table until it has
\* moved a batch or emptied the table.
Batches(s) ==
  LET left == Cardinality(In(s.old))
  IN  {m \in SUBSET In(s.old) : Cardinality(m) = IF left < Batch THEN left ELSE Batch}
Migrate(s, m) ==
  [s EXCEPT !.primary = [k \in Keys |-> IF k \in m THEN s.old[k] ELSE s.primary[k]],
            !.old = [k \in Keys |-> IF k \in m THEN NoEntry ELSE s.old[k]],
            !.resizing = s.resizing /\ In(s.old) # m,
            !.buckets = Grown(@, Cardinality(In(s.primary)) + Cardinality(m))]

\* maybe_evict: above nine tenths of max_memory one sampled live key goes.
Victims(s) ==
  IF MaxMemory # None /\ s.used * 100 > MaxMemory * 90
  THEN {k \in Keys : FindSlot(s, k) # NoEntry /\ ~Expired(FindSlot(s, k), now)} ELSE {}
EvictTwo(s) ==
  IF Victims(s) = {} THEN store' = s
  ELSE \E k, l \in Victims(s) : store' = RemoveSlot(RemoveSlot(s, k), l)
MaybeEvict(s) ==
  IF Victims(s) = {} THEN store' = s ELSE \E k \in Victims(s) : store' = RemoveSlot(s, k)

----------------------------------------------------------------------------
(* The methods of Store.  The shard is single threaded, so a method is one  *)
(* step; only the loop of advance_expiry_wheel is unrolled, and nothing     *)
(* else happens until it is done.                                           *)

Idle == target = None

\* Every method that starts with refresh_clock, incremental_rehash_step and
\* remove_if_expired goes on from this store.
Refreshed(s, m, k) == RemoveIfExpired(Migrate(s, m), k, now)

Keep == UNCHANGED <<now, target, due>>

SetConditions == {"Always", "NX", "XX"} \X {None}
                 \cup {"IfEq", "IfNe", "IfDeq", "IfDne"} \X Compared
ConditionMatches(c, current) ==
  CASE c[1] = "Always" -> TRUE
    [] c[1] = "NX"     -> current = NoEntry
    [] c[1] = "XX"     -> current # NoEntry
    [] c[1] = "IfEq"   -> current # NoEntry /\ current.value = c[2]
    [] c[1] = "IfNe"   -> current # NoEntry /\ current.value # c[2]
    [] c[1] = "IfDeq"  -> current = NoEntry \/ current.value = c[2]
    [] c[1] = "IfDne"  -> current = NoEntry \/ current.value # c[2]

\* Seconds are milliseconds here, so EX is PX and EXAT is PXAT.
SetExpiries == {<<"None", 0>>, <<"KeepTtl", 0>>} \cup {"PxAt"} \X Deadlines
               \cup {"Px"} \X Delays
ExpiryFromOption(x, current) ==
  CASE x[1] = "None"    -> None
    [] x[1] = "Px"      -> now + x[2]
    [] x[1] = "PxAt"    -> x[2]
    [] x[1] = "KeepTtl" -> current.expires

Stored(s, k, e) ==
  MaybeStartResize(UpdateExpiry(InsertOrReplace(s, k, e), k, None, e.expires))

Set(k, v, c, x) ==
  /\ Idle
  /\ \E m \in Batches(store) :
       LET s == Refreshed(store, m, k)
           current == FindSlot(s, k)
           applied == ConditionMatches(c, current)
           e == [value |-> v, expires |-> ExpiryFromOption(x, current)]
       IN  /\ reply' = <<"set", <<k, v, c, x>>, applied, current>>
           /\ IF applied THEN MaybeEvict(Stored(s, k, e)) ELSE store' = s
  /\ Keep /\ UNCHANGED drift

\* get, get_cloned, get_mut, touch: an expired entry is removed on the way.
Get(k) ==
  /\ Idle
  /\ store' = RemoveIfExpired(store, k, now)
  /\ reply' = <<"get", k, FindSlot(store', k)>>
  /\ Keep /\ UNCHANGED drift

\* exists, ttl_ms: nothing is removed.
Peek(k) ==
  /\ Idle
  /\ reply' = <<"get", k, IF Expired(FindSlot(store, k), now) THEN NoEntry ELSE FindSlot(store, k)>>
  /\ Keep /\ UNCHANGED <<store, drift>>

\* type_name, clone_entry, expiretime_ms, memory_usage.
Lookup(k) ==
  /\ Idle
  /\ \E m \in Batches(store) : store' = Refreshed(store, m, k)
  /\ reply' = <<"get", k, FindSlot(store', k)>>
  /\ Keep /\ UNCHANGED drift

Delete(k) ==
  /\ Idle
  /\ \E m \in Batches(store) :
       LET s == Refreshed(store, m, k)
       IN  reply' = <<"delete", k, FindSlot(s, k) # NoEntry>> /\ store' = RemoveSlot(s, k)
  /\ Keep /\ UNCHANGED drift

\* RENAME of a key to itself does not get here.
Rename(from, to) ==
  /\ Idle /\ from # to
  /\ \E m \in Batches(store) :
       LET s == Refreshed(store, m, from)
           e == FindSlot(s, from)
       IN  /\ reply' = <<"rename", <<from, to>>, e>>
           /\ IF e = NoEntry
              THEN /\ store' = IF Expired(FindSlot(store, from), now) THEN s
                               ELSE RemoveIfExpired(s, to, now)
                  
              ELSE /\ store' = Stored(RemoveSlot(RemoveSlot(RemoveIfExpired(s, to, now), from), to), to, e)
  /\ Keep /\ UNCHANGED drift

\* clone_entry and copy_from_entry, as COPY calls them.
CopyFromEntry(from, to) ==
  /\ Idle /\ from # to
  /\ \E m \in Batches(store) :
       LET r == Refreshed(store, m, from)
           e == FindSlot(r, from)
       IN  /\ reply' = <<"copy", <<from, to>>, e>>
           /\ IF e = NoEntry THEN store' = r
              ELSE /\ \E n \in Batches(r) :
                        MaybeEvict(Stored(RemoveSlot(Refreshed(r, n, to), to), to, e))
  /\ Keep /\ UNCHANGED drift

Deadline(s, k, t) ==
  LET e == FindSlot(s, k)
  IN  IF e = NoEntry THEN s
      ELSE UpdateExpiry(InPlace(s, k, [e EXCEPT !.expires = t]), k, e.expires, t)

ExpiryConditions == {"Always", "NX", "XX", "GT", "LT"}
ApplyKeyExpiry(c, current, new) ==
  CASE c = "Always" -> TRUE
    [] c = "NX"     -> current = None
    [] c = "XX"     -> current # None
    [] c = "GT"     -> current # None /\ new > current
    [] c = "LT"     -> current # None /\ new < current

\* EXPIRE writes the deadline through get_mut and then calls set_expiry, which
\* takes the new deadline for the previous one.
SetKeyExpiry(k, t, c) ==
  /\ Idle
  /\ LET s == RemoveIfExpired(store, k, now)
         e == FindSlot(s, k)
         shouldSet == e # NoEntry /\ ApplyKeyExpiry(c, e.expires, t)
     IN  /\ reply' = <<"expire", <<k, t, c>>, shouldSet>>
         /\ IF ~shouldSet THEN store' = s
            ELSE /\ LET r == InPlace(s, k, [e EXCEPT !.expires = t])
                    IN  \E m \in Batches(r) : store' = Deadline(Refreshed(r, m, k), k, t)
  /\ Keep /\ UNCHANGED drift

SetExpiry(k, t) ==
  /\ Idle
  /\ \E m \in Batches(store) :
       LET s == Refreshed(store, m, k)
       IN  store' = Deadline(s, k, t) /\ reply' = <<"expire", <<k, t, "Always">>, FindSlot(s, k) # NoEntry>>
  /\ Keep /\ UNCHANGED drift

RemoveExpiry(k) ==
  /\ Idle
  /\ \E m \in Batches(store) : store' = Deadline(Refreshed(store, m, k), k, None)
  /\ reply' = <<"persist", k>>
  /\ Keep /\ UNCHANGED drift

Grow(from, to) == drift' = (drift + Size[to] - Size[from]) % Wrap

\* get_mut of a string a command then changes.
Change(k, v) ==
  /\ Idle
  /\ LET s == RemoveIfExpired(store, k, now)
         e == FindSlot(s, k)
     IN  /\ reply' = <<"change", <<k, v>>, e>>
         /\ IF e # NoEntry /\ e.value \notin Collections
            THEN store' = InPlace(s, k, [e EXCEPT !.value = v]) /\ Grow(e.value, v)
            ELSE store' = s /\ UNCHANGED drift
  /\ Keep

\* get_or_create_list and its like, and what the command then puts in.
GetOrCreate(k, v) ==
  /\ Idle
  /\ \E m \in Batches(store) :
       LET r == Refreshed(store, m, k)
           found == FindSlot(r, k) # NoEntry /\ FindSlot(r, k).value \in Collections
           s == IF found THEN r
                ELSE InsertOrReplace(r, k, [value |-> Empty, expires |-> None])
           e == FindSlot(s, k)
       IN  store' = InPlace(s, k, [e EXCEPT !.value = v]) /\ Grow(e.value, v)
  /\ reply' = <<"create", <<k, v>>>>
  /\ Keep

\* get_list_mut and its like: an empty collection is removed on the way; also
\* remove_list_if_empty.
GetCollectionMut(k, v) ==
  /\ Idle
  /\ LET s == RemoveIfExpired(store, k, now)
         e == FindSlot(s, k)
         found == e # NoEntry /\ e.value \in Collections
     IN  /\ reply' = <<"collection", <<k, v>>, found /\ e.value # Empty>>
         /\ IF ~found THEN store' = s /\ UNCHANGED drift
            ELSE IF e.value = Empty THEN store' = RemoveSlot(s, k) /\ UNCHANGED drift
            ELSE store' = InPlace(s, k, [e EXCEPT !.value = v]) /\ Grow(e.value, v)
  /\ Keep

NewStore(t) ==
  [primary |-> NoEntries, old |-> NoEntries, resizing |-> FALSE,
   buckets |-> WithCapacity(DefaultBuckets), slots |-> [i \in 0 .. Slots - 1 |-> {}],
   overflow |-> {}, tick |-> Tick(t), used |-> 0]

Clear ==
  /\ Idle
  /\ store' = NewStore(now)
  /\ reply' = <<"clear">> /\ drift' = 0
  /\ Keep

\* advance_expiry_wheel, called by the timer task of the shard.
Advance ==
  /\ Idle
  /\ \E m \in Batches(store) : store' = Migrate(store, m)
  /\ target' = Tick(now)
  /\ UNCHANGED <<now, due, reply, drift>>

AdvanceTick ==
  /\ ~Idle /\ store.tick < target
  /\ store' = WheelStep(store)
  /\ due' = due \cup Drained(store)
  /\ UNCHANGED <<now, target, reply, drift>>

Reap(k) ==
  /\ ~Idle /\ store.tick >= target /\ k \in due
  /\ store' = RemoveIfExpired(store, k, now)
  /\ due' = due \ {k}
  /\ UNCHANGED <<now, target, reply, drift>>

AdvanceEnd ==
  /\ ~Idle /\ store.tick >= target /\ due = {}
  /\ target' = None
  /\ UNCHANGED <<store, now, due, reply, drift>>

Pass ==
  /\ Idle /\ now < MaxNow
  /\ now' = now + 1
  /\ UNCHANGED <<store, target, due, reply, drift>>

----------------------------------------------------------------------------
Init ==
  /\ store = NewStore(0) /\ now = 0
  /\ target = None /\ due = {} /\ reply = <<"none">>
  /\ drift = 0

Command ==
  \/ \E k \in Keys : Get(k) \/ Peek(k) \/ Lookup(k) \/ Delete(k) \/ RemoveExpiry(k)
  \/ \E k \in Keys, v \in Values, c \in SetConditions, x \in SetExpiries : Set(k, v, c, x)
  \/ \E from, to \in Keys : Rename(from, to) \/ CopyFromEntry(from, to)
  \/ \E k \in Keys, t \in Deadlines, c \in ExpiryConditions : SetKeyExpiry(k, t, c)
  \/ \E k \in Keys, t \in Deadlines : SetExpiry(k, t)
  \/ \E k \in Keys, v \in Values \ Collections : Change(k, v)
  \/ \E k \in Keys, v \in Collections : GetOrCreate(k, v) \/ GetCollectionMut(k, v)
  \/ Clear

Timers == Advance \/ AdvanceTick \/ (\E k \in Keys : Reap(k)) \/ AdvanceEnd

Next == Command \/ Timers \/ Pass

Spec == Init /\ [][Next]_vars

----------------------------------------------------------------------------
(* Properties *)

TypeOK ==
  /\ store \in Store /\ now \in Nat
  /\ target \in Nat \cup {None}
  /\ due \subseteq Keys
  /\ drift \in 0 .. Wrap - 1

\* A key is in one table at most, and the old table is empty when no resize is
\* under way: a lookup that stops at the first table, a removal that stops at
\* the first hit and a migration that inserts without looking rely on it.
OneTable ==
  /\ \A k \in Keys : store.primary[k] = NoEntry \/ store.old[k] = NoEntry
  /\ ~store.resizing => In(store.old) = {}

\* A timer in a slot is never met before its tick and at most one rotation
\* after it; a timer in the overflow map is brought in before its tick passes.
NextRotation(t) == ((t + 1) \div Slots) * Slots + Slots - 1
WheelWindow ==
  /\ \A i \in 0 .. Slots - 1 : \A x \in store.slots[i] :
       /\ x[2] % Slots = i
       /\ store.tick - Slots < x[2] /\ x[2] <= store.tick + Slots
  /\ \A x \in store.overflow : x[2] >= NextRotation(store.tick)

\* Until the wheel has gone past the tick of a key's deadline there is a timer
\* that will find the key at or after that tick, however often the key was
\* replaced, renamed, copied or given another deadline.
TimersOf(s) == s.overflow \cup UNION {s.slots[i] : i \in 0 .. Slots - 1}
DeadlineHasTimer ==
  \A k \in Keys :
    LET e == FindSlot(store, k)
    IN  e.expires # None =>
          \/ Tick(e.expires) <= store.tick
          \/ \E x \in TimersOf(store) : x[1] = k /\ Tick(e.expires) <= x[2]

\* The counter is the size of what was stored, up to what changed in place.
MemoryExact ==
  LET bytes(k) == IF FindSlot(store, k) = NoEntry THEN 0 ELSE Size[FindSlot(store, k).value]
  IN  (store.used + drift) % Wrap = MapThenSumSet(bytes, Keys) % Wrap

\* The tables, the wheel and the removal of expired entries implement the map
\* of VisibleKeys: every operation answers and changes what the map says.
Visible == INSTANCE VisibleKeys WITH
  live <- [k \in Keys |-> IF Expired(FindSlot(store, k), now) THEN NoEntry ELSE FindSlot(store, k)],
  Limited <- (MaxMemory # None)
ImplementsMap == Visible!Spec

=============================================================================
