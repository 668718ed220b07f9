----------------------------- MODULE ParseCache -----------------------------
(***************************************************************************)
(* BoundedDocumentParseCache (document_execution.py): parses kept in       *)
(* memory in order of use, for a time and up to two bounds, with at most   *)
(* one computation of a key at a time.  Each section under the lock is one *)
(* step; a computation runs outside it.                                    *)
(***************************************************************************)
EXTENDS Naturals, Sequences, SequencesExt, FiniteSets

CONSTANTS Thread,      \* threads that ask for a parse
          Key,         \* (source digest, format, profile)
          Size,        \* key -> the bytes of its parse
          MaxEntries, MaxBytes,
          Ttl,         \* ticks an entry lives
          MaxCalls     \* bound: calls each thread makes

VARIABLES entries,     \* the kept parses, least recently used first
          total,       \* the cache's own count of their bytes
          inflight,    \* key -> the thread that computes it
          pc, key,     \* thread -> where its call is, and what it asks for
          calls        \* thread -> calls begun

vars == <<entries, total, inflight, pc, key, calls>>

NoThread == "no thread"
NoKey == "no key"

CacheTypeOK ==
    /\ entries \in Seq([key : Key, size : Nat, left : 0..Ttl])
    /\ total \in Nat
    /\ inflight \in [Key -> Thread \cup {NoThread}]
    /\ pc \in [Thread -> {"idle", "lookup", "wait", "compute", "insert", "release", "raise"}]
    /\ key \in [Thread -> Key \cup {NoKey}]
    /\ \A t \in Thread : pc[t] \in {"compute", "insert", "release", "raise"} => inflight[key[t]] # NoThread

Init ==
    /\ entries = << >> /\ total = 0
    /\ inflight = [k \in Key |-> NoThread]
    /\ pc = [t \in Thread |-> "idle"]
    /\ key = [t \in Thread |-> NoKey]
    /\ calls = [t \in Thread |-> 0]

Bytes(es) == FoldSeq(LAMBDA e, sum : e.size + sum, 0, es)
Live(es) == SelectSeq(es, LAMBDA e : e.left > 0)          \* _expire_locked
Others(es, k) == SelectSeq(es, LAMBDA e : e.key # k)
Holds(es, k) == \E i \in 1..Len(es) : es[i].key = k
Touched(es, k) == Others(es, k) \o SelectSeq(es, LAMBDA e : e.key = k)

Ask(t, k) ==
    /\ pc[t] = "idle" /\ calls[t] < MaxCalls
    /\ pc' = [pc EXCEPT ![t] = "lookup"]
    /\ key' = [key EXCEPT ![t] = k]
    /\ calls' = [calls EXCEPT ![t] = @ + 1]
    /\ UNCHANGED <<entries, total, inflight>>

Expire == total' = Bytes(Live(entries))

Ended(t) == /\ pc' = [pc EXCEPT ![t] = "idle"]
            /\ key' = [key EXCEPT ![t] = NoKey]

\* deviation: a second computation of a key does not wait for the first
LookupAlone(t) ==
    /\ pc[t] = "lookup" /\ Expire
    /\ IF Holds(Live(entries), key[t])
       THEN /\ entries' = Touched(Live(entries), key[t])
            /\ Ended(t) /\ UNCHANGED inflight
       ELSE /\ entries' = Live(entries)
            /\ inflight' = [inflight EXCEPT ![key[t]] = t]
            /\ pc' = [pc EXCEPT ![t] = "compute"] /\ UNCHANGED key
    /\ UNCHANGED calls

(* The first section of get_or_compute: a hit, an owner, or one more waiter. *)
Lookup(t) ==
    /\ pc[t] = "lookup" /\ Expire
    /\ IF Holds(Live(entries), key[t])
       THEN /\ entries' = Touched(Live(entries), key[t])
            /\ Ended(t) /\ UNCHANGED inflight
       ELSE /\ entries' = Live(entries) /\ UNCHANGED key
            /\ IF inflight[key[t]] = NoThread
               THEN /\ inflight' = [inflight EXCEPT ![key[t]] = t]
                    /\ pc' = [pc EXCEPT ![t] = "compute"]
               ELSE pc' = [pc EXCEPT ![t] = "wait"] /\ UNCHANGED inflight
    /\ UNCHANGED calls

\* deviation: the key is free again before its parse is kept
ComputeThenFree(t) ==
    /\ pc[t] = "compute"
    /\ pc' = [pc EXCEPT ![t] = IF Size[key[t]] <= MaxBytes THEN "insert" ELSE "release"]
    /\ inflight' = [inflight EXCEPT ![key[t]] = NoThread]
    /\ UNCHANGED <<entries, total, key, calls>>

(* compute returns a parse, a result not worth keeping, or raises. *)
Compute(t) ==
    /\ pc[t] = "compute"
    /\ \/ pc' = [pc EXCEPT ![t] = IF Size[key[t]] <= MaxBytes THEN "insert" ELSE "release"]
       \/ pc' = [pc EXCEPT ![t] = "release"]
       \/ pc' = [pc EXCEPT ![t] = "raise"]
    /\ UNCHANGED <<entries, total, inflight, key, calls>>

(* The least recently used entries that have to go for both bounds to hold. *)
\* deviation: only the number of entries is bounded
FitsByCount(es) == Len(es) <= MaxEntries

Fits(es) == Len(es) <= MaxEntries /\ Bytes(es) <= MaxBytes

Evicted(es) ==
    LET keep == {n \in 0..Len(es) : Fits(SubSeq(es, n + 1, Len(es)))}
    IN  SubSeq(es, (CHOOSE n \in keep : \A m \in keep : n <= m) + 1, Len(es))

Insert(t) ==
    /\ pc[t] = "insert"
    /\ entries' = Evicted(Append(Others(entries, key[t]),
                                 [key |-> key[t], size |-> Size[key[t]], left |-> Ttl]))
    /\ total' = Bytes(entries')
    /\ pc' = [pc EXCEPT ![t] = "release"]
    /\ UNCHANGED <<inflight, key, calls>>

Woken(t) == [u \in Thread |-> IF u = t THEN "idle"
                              ELSE IF pc[u] = "wait" /\ key[u] = key[t] THEN "lookup"
                              ELSE pc[u]]

\* deviation: the key is released only when its computation returned
ReleaseOnReturn(t) ==
    /\ pc[t] \in {"release", "raise"}
    /\ IF pc[t] = "raise"
       THEN pc' = [pc EXCEPT ![t] = "idle"] /\ UNCHANGED inflight
       ELSE pc' = Woken(t) /\ inflight' = [inflight EXCEPT ![key[t]] = NoThread]
    /\ key' = [key EXCEPT ![t] = NoKey]
    /\ UNCHANGED <<entries, total, calls>>

(* The finally clause: the key is free and everyone who waits for it is woken. *)
Release(t) ==
    /\ pc[t] \in {"release", "raise"}
    /\ pc' = Woken(t)
    /\ inflight' = [inflight EXCEPT ![key[t]] = NoThread]
    /\ key' = [key EXCEPT ![t] = NoKey]
    /\ UNCHANGED <<entries, total, calls>>

(* get_existing: a later page of a result is answered from memory or not at all. *)
GetExisting(t, k) ==
    /\ pc[t] = "idle" /\ calls[t] < MaxCalls /\ Expire
    /\ entries' = Touched(Live(entries), k)
    /\ calls' = [calls EXCEPT ![t] = @ + 1]
    /\ UNCHANGED <<inflight, pc, key>>

Clear ==
    /\ entries # << >>
    /\ entries' = << >> /\ total' = 0
    /\ UNCHANGED <<inflight, pc, key, calls>>

Tick ==
    /\ \E i \in 1..Len(entries) : entries[i].left > 0
    /\ entries' = [i \in 1..Len(entries) |->
                     [entries[i] EXCEPT !.left = IF @ > 0 THEN @ - 1 ELSE 0]]
    /\ UNCHANGED <<total, inflight, pc, key, calls>>

Step(t) == Lookup(t) \/ Compute(t) \/ Insert(t) \/ Release(t)
Next == \/ \E t \in Thread : \/ Step(t)
                             \/ \E k \in Key : Ask(t, k) \/ GetExisting(t, k)
        \/ Clear \/ Tick

(* A parse has a deadline, and the lock is held for moments only. *)
Spec == Init /\ [][Next]_vars /\ \A t \in Thread : WF_vars(Step(t))

(***************************************************************************)
(* Properties.                                                             *)
(***************************************************************************)

(* The bytes the cache believes to hold are those it holds, and neither    *)
(* bound is exceeded between two calls, in whatever order entries expire,  *)
(* are replaced, are evicted or are cleared beside a running computation.  *)
WithinBounds ==
    /\ total = Bytes(entries)
    /\ Len(entries) <= MaxEntries /\ total <= MaxBytes

(* While a key is computed nobody else computes it and no parse of it is   *)
(* kept, so no finished parse is replaced by a second one.                 *)
OneParsePerKey ==
    \A t, u \in Thread :
      pc[t] \in {"compute", "insert"} =>
        /\ ~Holds(entries, key[t])
        /\ t # u /\ pc[u] \in {"compute", "insert"} => key[u] # key[t]

(* What is kept is counted, and is the only parse of its key.               *)
ParsesAreCollected == WithinBounds /\ OneParsePerKey

InCall(t) == pc[t] # "idle"

(* Whoever asks is answered, also when the computation it waited for       *)
(* raised, was not kept, or was evicted before it looked again.            *)
EveryCallEnds == \A t \in Thread : InCall(t) ~> ~InCall(t)
=============================================================================
