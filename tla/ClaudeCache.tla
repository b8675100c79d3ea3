------------------------------- MODULE ClaudeCache -------------------------------
(***************************************************************************)
(* The one cache of the Claude leg, src/src/claude-cache.ts: snapshots of  *)
(* finished requests, replay content of handles and markers of adapted     *)
(* OpenAI responses share one budget of entries and bytes and one order of *)
(* use.  A cache is a value; put() and get() return the cache they leave.  *)
(***************************************************************************)
EXTENDS Naturals, Sequences, SequencesExt

CONSTANTS
  MaxEntries,  (* reasoningCache.maxEntries                                 *)
  MaxBytes     (* reasoningCache.maxBytes                                   *)

ASSUME CacheAssumption == MaxEntries \in Nat \ {0} /\ MaxBytes \in Nat \ {0}

(* entries: the insertion-ordered Map, oldest first; bytes: the counter.    *)
EmptyCache == [entries |-> <<>>, bytes |-> 0]

(* The bytes of the first n entries, for every n.                           *)
Sums(entries) ==
  LET sum[n \in 0 .. Len(entries)] == IF n = 0 THEN 0 ELSE sum[n - 1] + entries[n].bytes
  IN sum

Total(entries) == Sums(entries)[Len(entries)]
At(c, key) == {i \in DOMAIN c.entries : c.entries[i].key = key}
Has(c, key) == At(c, key) # {}
Entry(c, key) == c.entries[CHOOSE i \in At(c, key) : TRUE]
Value(c, key) == Entry(c, key).value

(* MUTANT: an entry that is replaced stays on the books.                    *)
DropUncounted(c, key) ==
  IF Has(c, key) THEN [c EXCEPT !.entries = RemoveAt(@, CHOOSE i \in At(c, key) : TRUE)] ELSE c

Drop(c, key) ==
  IF Has(c, key)
  THEN [entries |-> RemoveAt(c.entries, CHOOSE i \in At(c, key) : TRUE), bytes |-> c.bytes - Entry(c, key).bytes]
  ELSE c

(* The oldest entries go until both bounds hold.                            *)
Evict(c) ==
  LET left(k) == [entries |-> SubSeq(c.entries, k + 1, Len(c.entries)),
                  bytes |-> c.bytes - Total(SubSeq(c.entries, 1, k))]
      fits(k) == Len(left(k).entries) <= MaxEntries /\ left(k).bytes <= MaxBytes
  IN left(CHOOSE k \in 0 .. Len(c.entries) : fits(k) /\ \A j \in 0 .. k - 1 : ~fits(j))

(* An entry larger than the whole budget is dropped, the old one with it.   *)
Put(c, key, value, bytes) ==
  LET rest == Drop(c, key) IN
  IF bytes > MaxBytes THEN rest
  ELSE Evict([entries |-> Append(rest.entries, [key |-> key, value |-> value, bytes |-> bytes]),
              bytes |-> rest.bytes + bytes])

(* What was asked for becomes the youngest entry.                           *)
Touch(c, key) ==
  IF Has(c, key) THEN [c EXCEPT !.entries = Append(Drop(c, key).entries, Entry(c, key))] ELSE c

(* One use after the other.                                                 *)
TouchAll(c, keys) ==
  LET touched[n \in 0 .. Len(keys)] == IF n = 0 THEN c ELSE Touch(touched[n - 1], keys[n])
  IN touched[Len(keys)]

(* The budget is strict, the counter exact, and no key is held twice.       *)
WithinBudget(c) ==
  /\ c.bytes = Total(c.entries) /\ c.bytes <= MaxBytes
  /\ Len(c.entries) <= MaxEntries
  /\ \A i, j \in DOMAIN c.entries : c.entries[i].key = c.entries[j].key => i = j

=================================================================================
