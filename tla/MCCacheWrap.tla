---------------------------- MODULE MCCacheWrap ----------------------------
(* CacheWrap for TLC: calls are alike, and so are caches.                  *)
EXTENDS CacheWrap, TLC

Symmetry == Permutations(Caller) \cup Permutations(Cache)
=============================================================================
