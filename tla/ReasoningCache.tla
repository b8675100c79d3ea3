------------------------------ MODULE ReasoningCache ------------------------------
(***************************************************************************)
(* The cache of src/src/reasoning-cache.ts as a value: for a tool call the  *)
(* reasoning items that preceded it, the entry used last at the end, and    *)
(* the counter of bytes that is kept beside the entries.                    *)
(***************************************************************************)
EXTENDS Naturals, Sequences, SequencesExt

CONSTANTS
  MaxEntries, MaxBytes,
  Weight         (* of each reasoning item, the bytes of its JSON text        *)

ASSUME CacheAssumption ==
  MaxEntries \in Nat \ {0} /\ MaxBytes \in Nat \ {0} /\ Weight \in [DOMAIN Weight -> Nat]

(* The sum of the first n numbers, for every n.                             *)
Sums(numbers) ==
  LET sum[n \in 0 .. Len(numbers)] == IF n = 0 THEN 0 ELSE sum[n - 1] + numbers[n]
  IN sum

Total(numbers) == Sums(numbers)[Len(numbers)]
computeBytes(items) == Total([k \in DOMAIN items |-> Weight[items[k]]])
bytesOf(entries) == Total([k \in DOMAIN entries |-> entries[k].bytes])

EmptyCache == [entries |-> <<>>, totalBytes |-> 0]

of(cache, callId) == {k \in DOMAIN cache.entries : cache.entries[k].callId = callId}
has(cache, callId) == of(cache, callId) # {}
place(cache, callId) == CHOOSE k \in of(cache, callId) : TRUE
entryOf(cache, callId) == cache.entries[place(cache, callId)]
itemsOf(cache, callId) == entryOf(cache, callId).items

(* What put() does first, and get(): the entry leaves its place.            *)
without(cache, callId) ==
  IF has(cache, callId)
  THEN [entries |-> RemoveAt(cache.entries, place(cache, callId)),
        totalBytes |-> cache.totalBytes - entryOf(cache, callId).bytes]
  ELSE cache

Fits(entries, bytes) ==
  /\ Len(entries) <= MaxEntries
  /\ bytes <= MaxBytes \/ Len(entries) <= 1

(* The entries used longest ago go until both bounds hold; a single entry   *)
(* stays however large it is.                                               *)
evict(cache) ==
  LET rest(n) == SubSeq(cache.entries, n + 1, Len(cache.entries))
      bytes(n) == cache.totalBytes - bytesOf(SubSeq(cache.entries, 1, n))
      fits(n) == Fits(rest(n), bytes(n))
      gone == CHOOSE n \in 0 .. Len(cache.entries) : fits(n) /\ \A m \in 0 .. n - 1 : ~fits(m)
  IN [entries |-> rest(gone), totalBytes |-> bytes(gone)]

put(cache, callId, items) ==
  LET left == without(cache, callId)
      entry == [callId |-> callId, items |-> items, bytes |-> computeBytes(items)]
  IN evict([entries |-> Append(left.entries, entry), totalBytes |-> left.totalBytes + entry.bytes])

(* get() makes an entry the one used last and never removes it.              *)
get(cache, callId) ==
  IF has(cache, callId)
  THEN [cache EXCEPT !.entries = Append(without(cache, callId).entries, entryOf(cache, callId))]
  ELSE cache

===================================================================================
