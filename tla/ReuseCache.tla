----------------------------- MODULE ReuseCache -----------------------------
(***************************************************************************)
(* mertReuseCache of internal/libraryindex: the MERT results of recordings *)
(* by key, and the flights of those that a worker is computing.  Every     *)
(* action runs under mertReuseCache.mu.                                    *)
(***************************************************************************)
CONSTANTS
    Recordings,  \* the keys
    Claimants,   \* those who call claim
    NoFlight

ASSUME NoFlightAssumption == NoFlight \notin Claimants

VARIABLES
    values,   \* the keys that have a value
    flights,  \* of each key, the claimant whose flight it is, or NoFlight
    joined    \* of each key, the claimants that wait on its flight's `done'

cacheVars == <<values, flights, joined>>

\* newMERTReuseCache, with the durable results as its seed.
CacheInit(seed) ==
    /\ values = seed
    /\ flights = [k \in Recordings |-> NoFlight]
    /\ joined = [k \in Recordings |-> {}]

CacheTypeOK ==
    /\ values \subseteq Recordings
    /\ flights \in [Recordings -> Claimants \cup {NoFlight}]
    /\ joined \in [Recordings -> SUBSET Claimants]

\* claim has three ends: the value is there, ...
ClaimValue(k) == k \in values /\ UNCHANGED cacheVars

\* Mutant of ClaimFlight: a flight that is on its way is not noticed.
ClaimFlightAnyway(c, k) ==
    /\ k \notin values
    /\ flights' = [flights EXCEPT ![k] = c]
    /\ UNCHANGED <<values, joined>>

\* ... the caller is the first and gets a flight of its own, ...
ClaimFlight(c, k) ==
    /\ k \notin values /\ flights[k] = NoFlight
    /\ flights' = [flights EXCEPT ![k] = c]
    /\ UNCHANGED <<values, joined>>

\* ... or it waits until the flight is done, to look again, ...
Join(c, k) ==
    /\ k \notin values /\ flights[k] # NoFlight
    /\ joined' = [joined EXCEPT ![k] = @ \cup {c}]
    /\ UNCHANGED <<values, flights>>

\* ... unless its context ends while it waits.
LeaveFlight(c, k) ==
    /\ c \in joined[k]
    /\ joined' = [joined EXCEPT ![k] = @ \ {c}]
    /\ UNCHANGED <<values, flights>>

Store(k) ==
    /\ values' = values \cup {k}
    /\ UNCHANGED <<flights, joined>>

\* finish: whoever waited wakes.
Finish(c, k) ==
    /\ flights' = [flights EXCEPT ![k] = IF @ = c THEN NoFlight ELSE @]
    /\ joined' = [joined EXCEPT ![k] = IF flights[k] = c THEN {} ELSE @]
    /\ UNCHANGED values
=============================================================================
