------------------------- MODULE MCSupervisorCycle --------------------------
(***************************************************************************)
(* A cycle of dependencies that can come to life: the cache needs a store, *)
(* which the disk and the replica both provide, and the replica needs the  *)
(* cache.  Started from the disk, cache and replica then hold each other   *)
(* up.  The recursions of startRecurse and stopRecurse run around it.      *)
(***************************************************************************)
EXTENDS SupervisorInvariant

CONSTANTS disk, replica, cache

Plain(b) == [base |-> b, variant |-> NoVariant]

MCService == {disk, replica, cache}
MCNameSet == {Plain("disk"), Plain("replica"), Plain("cache"), Plain("store")}
MCName == [s \in MCService |-> CASE s = disk -> Plain("disk")
                                 [] s = replica -> Plain("replica")
                                 [] s = cache -> Plain("cache")]
MCProvides == [s \in MCService |-> IF s = cache THEN {} ELSE {Plain("store")}]
MCDepends == [s \in MCService |-> CASE s = disk -> <<>>
                                    [] s = replica -> <<Plain("cache")>>
                                    [] s = cache -> <<Plain("store")>>]
MCConflicts == [s \in MCService |-> {}]
=============================================================================
