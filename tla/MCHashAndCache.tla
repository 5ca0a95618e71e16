--------------------------- MODULE MCHashAndCache ---------------------------
(***************************************************************************)
(* What a consumer does with a packet, for model checking: hashlittle,     *)
(* and after it the lookup.  The hash keeps nothing between two calls and  *)
(* PacketCache takes its value from Hash, so that every key is hashed      *)
(* once, and the lookups follow the hash of one of them only: behind the   *)
(* others they would be the same.                                          *)
(***************************************************************************)
EXTENDS MCPacketCache, Lookup3

\* hashlittle is called before the mutex `cache' is taken.
HashFirst == HashNext /\ UNCHANGED cacheVars

Hashed == result # "none" /\ align = 0 /\ key = MaxLength

LookupsAfter == Hashed /\ (CacheNext \/ CacheIdle) /\ UNCHANGED hashVars

HashAndCacheInit == HashInit /\ CacheInit

HashAndCacheSpec ==
  /\ HashAndCacheInit
  /\ [][HashFirst \/ LookupsAfter]_<<hashVars, cacheVars>>
=============================================================================
