----------------------------- MODULE VisibleKeys -----------------------------
(***************************************************************************)
(* What a shard's keyspace promises: one map from keys to values with      *)
(* deadlines, in which a key is gone the moment its deadline is reached.   *)
(* An operation touches only the keys it names, answers from the map, and  *)
(* a write may push out one key when memory is limited.  Tables,           *)
(* rehashing, timer wheel and the removal of expired entries are invisible.*)
(***************************************************************************)
EXTENDS Integers

CONSTANTS
  Keys, Values, None,
  Deadlines,      \* absolute deadlines, in milliseconds
  Delays,         \* relative deadlines of SET EX and PX
  Collections,    \* the values that are collections
  Empty,          \* the collection a command starts from
  Compared,       \* values a condition of SET compares with
  Limited         \* whether maxmemory is set

VARIABLES
  live,           \* the entry a client sees under each key, or NoEntry
  now,            \* the wall clock, in milliseconds
  reply           \* the last operation, its arguments and its result

Entry == [value : Values, expires : Nat \cup {None}]
NoEntry == [value |-> None, expires |-> None]

Visible(e, t) == IF e.expires # None /\ e.expires <= t THEN NoEntry ELSE e

\* A write of a store with a memory limit may remove any one key.
Written(f) ==
  \/ live' = f
  \/ Limited /\ \E k \in Keys : live' = [f EXCEPT ![k] = NoEntry]

\* Conditions of SET, and the deadline a SET asks for.
SetConditions == {"Always", "NX", "XX"} \X {None}
                 \cup {"IfEq", "IfNe", "IfDeq", "IfDne"} \X Compared
Matches(c, e) ==
  \/ c[1] = "Always"
  \/ c[1] \in {"NX", "IfDeq", "IfDne"} /\ e = NoEntry
  \/ c[1] = "XX" /\ e # NoEntry
  \/ c[1] \in {"IfEq", "IfDeq"} /\ e # NoEntry /\ e.value = c[2]
  \/ c[1] \in {"IfNe", "IfDne"} /\ e # NoEntry /\ e.value # c[2]

SetExpiries == {<<"None", 0>>, <<"KeepTtl", 0>>} \cup {"PxAt"} \X Deadlines
               \cup {"Px"} \X Delays
DeadlineOf(x, e) ==
  CASE x[1] = "None"    -> None
    [] x[1] = "KeepTtl" -> e.expires
    [] x[1] = "PxAt"    -> x[2]
    [] x[1] = "Px"      -> now + x[2]

\* Conditions of EXPIRE.
ExpiryConditions == {"Always", "NX", "XX", "GT", "LT"}
Allows(c, old, new) ==
  \/ c = "Always"
  \/ c = "NX" /\ old = None
  \/ c = "XX" /\ old # None
  \/ c = "GT" /\ old # None /\ new > old
  \/ c = "LT" /\ old # None /\ new < old

----------------------------------------------------------------------------
Pass ==
  /\ now' = now + 1
  /\ live' = [k \in Keys |-> Visible(live[k], now + 1)]
  /\ UNCHANGED reply

Get(k) == reply' = <<"get", k, live[k]>> /\ UNCHANGED live

Set(k, v, c, x) ==
  LET applied == Matches(c, live[k])
      e == [value |-> v, expires |-> DeadlineOf(x, live[k])]
  IN  /\ reply' = <<"set", <<k, v, c, x>>, applied, live[k]>>
      /\ IF applied THEN Written([live EXCEPT ![k] = Visible(e, now)])
                    ELSE UNCHANGED live

Delete(k) ==
  /\ reply' = <<"delete", k, live[k] # NoEntry>>
  /\ live' = [live EXCEPT ![k] = NoEntry]

Rename(s, d) ==
  /\ s # d
  /\ reply' = <<"rename", <<s, d>>, live[s]>>
  /\ live' = IF live[s] = NoEntry THEN live ELSE [live EXCEPT ![d] = live[s], ![s] = NoEntry]

Copy(s, d) ==
  /\ s # d
  /\ reply' = <<"copy", <<s, d>>, live[s]>>
  /\ IF live[s] = NoEntry THEN UNCHANGED live
                       ELSE Written([live EXCEPT ![d] = live[s]])

Expire(k, t, c) ==
  LET set == live[k] # NoEntry /\ Allows(c, live[k].expires, t)
  IN  /\ reply' = <<"expire", <<k, t, c>>, set>>
      /\ live' = IF set THEN [live EXCEPT ![k] = Visible([@ EXCEPT !.expires = t], now)]
                        ELSE live

Persist(k) ==
  /\ reply' = <<"persist", k>>
  /\ live' = IF live[k] = NoEntry THEN live ELSE [live EXCEPT ![k].expires = None]

\* A command changes a string in place; the deadline stays.
Change(k, v) ==
  /\ reply' = <<"change", <<k, v>>, live[k]>>
  /\ live' = IF live[k] # NoEntry /\ live[k].value \notin Collections
             THEN [live EXCEPT ![k].value = v] ELSE live

\* A command on a collection creates it where there is none, and fills it.
Create(k, v) ==
  LET found == live[k] # NoEntry /\ live[k].value \in Collections
  IN  /\ reply' = <<"create", <<k, v>>>>
      /\ live' = [live EXCEPT ![k] = [value |-> v,
                                      expires |-> IF found THEN live[k].expires ELSE None]]

\* A command that finds a collection reads it, or changes it to v; an empty
\* one does not exist.
Collection(k, v) ==
  LET is(S) == live[k] # NoEntry /\ live[k].value \in S
  IN  /\ reply' = <<"collection", <<k, v>>, is(Collections \ {Empty})>>
      /\ live' = IF is({Empty}) THEN [live EXCEPT ![k] = NoEntry]
                 ELSE IF is(Collections) THEN [live EXCEPT ![k].value = v] ELSE live

Clear == reply' = <<"clear">> /\ live' = [k \in Keys |-> NoEntry]

----------------------------------------------------------------------------
Init == now = 0 /\ live = [k \in Keys |-> NoEntry] /\ reply = <<"none">>

Operation ==
  \/ \E k \in Keys : Get(k) \/ Delete(k) \/ Persist(k)
  \/ /\ reply'[1] = "set"
     /\ LET a == reply'[2]
        IN  a \in Keys \X Values \X SetConditions \X SetExpiries /\ Set(a[1], a[2], a[3], a[4])
  \/ \E s, d \in Keys : Rename(s, d) \/ Copy(s, d)
  \/ \E k \in Keys, t \in Deadlines, c \in ExpiryConditions : Expire(k, t, c)
  \/ \E k \in Keys, v \in Values \ Collections : Change(k, v)
  \/ \E k \in Keys, v \in Collections : Create(k, v) \/ Collection(k, v)
  \/ Clear

Next == Pass \/ (Operation /\ UNCHANGED now)

Spec == Init /\ [][Next]_<<live, now, reply>>
=============================================================================
