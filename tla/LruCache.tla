------------------------------ MODULE LruCache ------------------------------
(***************************************************************************)
(* The bounded cache of golang-lru that the block pools keep, as far as    *)
(* they use it: a sequence of blocks whose first one was used least        *)
(* recently.                                                               *)
(***************************************************************************)
EXTENDS Naturals, Sequences, SequencesExt

IsCached(cache, b) == b \in Range(cache)

WithoutKey(cache, b) ==
  IF IsCached(cache, b) THEN RemoveAt(cache, CHOOSE i \in DOMAIN cache : cache[i] = b) ELSE cache

Touched(cache, b) == Append(WithoutKey(cache, b), b)

\* cache.Get: a block that is found becomes the most recently used one.
CacheGet(cache, b) == IF IsCached(cache, b) THEN Touched(cache, b) ELSE cache

\* cache.Add: the least recently used block makes room.
CacheAdd(cache, b, size) ==
  LET c == Touched(cache, b)
  IN IF Len(c) > size THEN Tail(c) ELSE c

\* cache.Add for one block after the other.
CacheAddAll(cache, blks, size) ==
  LET added[i \in 0..Len(blks)] ==
        IF i = 0 THEN cache ELSE CacheAdd(added[i - 1], blks[i], size)
  IN added[Len(blks)]
=============================================================================
