----------------------------- MODULE Admission -----------------------------
(***************************************************************************)
(* The resource admission controller of internal/libraryindex: every       *)
(* reservation takes all of its resources at once or waits, and waiters    *)
(* are served oldest first, except that a younger one may pass if it takes *)
(* nothing that an older one lacks.                                        *)
(*                                                                         *)
(* Every action runs under Admission.mu.  A client is one caller of        *)
(* AcquireLease and the lease it gets.                                     *)
(***************************************************************************)
EXTENDS Integers, Sequences, FiniteSets, FiniteSetsExt

CONSTANTS
    Resources,  \* CPU, SourceIO, Memory, Files, PCMBytes
    Capacity,   \* units of each
    Clients,
    Requests    \* the reservations clients make

ASSUME ClientsAssumption == IsFiniteSet(Clients)
ASSUME CapacityAssumption == Capacity \in [Resources -> Nat]
ASSUME RequestsAssumption == Requests \subseteq [Resources -> Nat]

Nothing == [r \in Resources |-> 0]

Plus(a, b) == [r \in Resources |-> a[r] + b[r]]
Minus(a, b) == [r \in Resources |-> a[r] - b[r]]
Within(a, b) == \A r \in Resources : a[r] <= b[r]

VARIABLES
    used,     \* Admission.used
    waiters,  \* Admission.waiters, oldest first
    closed,
    status,   \* of each client: "idle", "waiting", "granted" (the waiter's
              \* channel is closed, the caller has not run yet), "refused"
              \* (closed with an error), or "holding"
    held      \* what a waiting client asked for, or the lease's reservation

avars == <<used, waiters, closed, status, held>>

AInit ==
    /\ used = Nothing
    /\ waiters = <<>>
    /\ closed = FALSE
    /\ status = [c \in Clients |-> "idle"]
    /\ held = [c \in Clients |-> Nothing]

-----------------------------------------------------------------------------

FitsCapacity(q) == Within(q, Capacity)

\* Mutant of Available: only the resources in use are compared.
AvailableOverbooked(u, q) == \A r \in Resources : u[r] > 0 => u[r] < Capacity[r]

\* available(request), at usage u
Available(u, q) == Within(Plus(u, q), Capacity)

\* blockedMask(request)
BlockedOn(u, q) == {r \in Resources : u[r] + q[r] > Capacity[r]}

\* Mutant of Grantable: nothing protects the older waiters.
GrantableUnprotected(u, ws, asks, i) == Available(u, asks[ws[i]])

\* A waiter may be granted when it fits and takes nothing an older one lacks.
Grantable(u, ws, asks, i) ==
    /\ Available(u, asks[ws[i]])
    /\ \A k \in 1..(i - 1) : \A r \in BlockedOn(u, asks[ws[k]]) : asks[ws[i]][r] = 0

Without(ws, i) == SubSeq(ws, 1, i - 1) \o SubSeq(ws, i + 1, Len(ws))

\* One turn of grantLocked's loop, p being the usage, the waiters and who has
\* been granted: the oldest grantable waiter leaves the queue.
GrantOldest(p, asks) ==
    LET grantable == {i \in DOMAIN p.waiters : Grantable(p.used, p.waiters, asks, i)}
    IN IF grantable = {} THEN p
       ELSE LET i == Min(grantable) IN
            [used |-> Plus(p.used, asks[p.waiters[i]]),
             waiters |-> Without(p.waiters, i),
             granted |-> p.granted \cup {p.waiters[i]}]

\* grantLocked, as the set of the one outcome it has.
Granting(u, ws, asks) ==
    LET after[n \in 0..Len(ws)] ==
          IF n = 0 THEN {[used |-> u, waiters |-> ws, granted |-> {}]}
                   ELSE {GrantOldest(p, asks) : p \in after[n - 1]}
    IN after[Len(ws)]

\* The controller goes to usage u, waiters ws and client states st, and then
\* grants what it can.  Closed, it grants nothing, and has no waiters.
GrantFrom(u, ws, st) ==
    \E g \in IF closed THEN {[used |-> u, waiters |-> ws, granted |-> {}]}
                       ELSE Granting(u, ws, held') :
        /\ used' = g.used
        /\ waiters' = g.waiters
        /\ status' = [c \in Clients |-> IF c \in g.granted THEN "granted" ELSE st[c]]

-----------------------------------------------------------------------------
(* AcquireLease *)

\* A request that can never fit, or that comes after Close, returns an error
\* and leaves the controller alone.
Admitted(q) == FitsCapacity(q) /\ ~closed

AcquireNow(c, q) ==
    /\ status[c] = "idle"
    /\ Admitted(q)
    /\ waiters = <<>>
    /\ Available(used, q)
    /\ used' = Plus(used, q)
    /\ status' = [status EXCEPT ![c] = "holding"]
    /\ held' = [held EXCEPT ![c] = q]
    /\ UNCHANGED <<waiters, closed>>

Enqueue(c, q) ==
    /\ status[c] = "idle"
    /\ Admitted(q)
    /\ ~(waiters = <<>> /\ Available(used, q))
    /\ held' = [held EXCEPT ![c] = q]
    /\ GrantFrom(used, Append(waiters, c), [status EXCEPT ![c] = "waiting"])
    /\ UNCHANGED closed

Acquire(c, q) == AcquireNow(c, q) \/ Enqueue(c, q)

\* case <-waiter.ready
Receive(c) ==
    /\ status[c] = "granted"
    /\ status' = [status EXCEPT ![c] = "holding"]
    /\ UNCHANGED <<used, waiters, closed, held>>

\* Either case of the select, once Close has answered the waiter.
ReceiveRefusal(c) ==
    /\ status[c] = "refused"
    /\ status' = [status EXCEPT ![c] = "idle"]
    /\ UNCHANGED <<used, waiters, closed, held>>

\* Mutant of CancelWaiting: the waiters behind are not looked at again.
CancelWaitingQuietly(c) ==
    /\ status[c] = "waiting"
    /\ held' = [held EXCEPT ![c] = Nothing]
    /\ \E i \in DOMAIN waiters : waiters[i] = c /\ waiters' = Without(waiters, i)
    /\ status' = [status EXCEPT ![c] = "idle"]
    /\ UNCHANGED <<used, closed>>

\* case <-ctx.Done(), still queued
CancelWaiting(c) ==
    /\ status[c] = "waiting"
    /\ held' = [held EXCEPT ![c] = Nothing]
    /\ \E i \in DOMAIN waiters :
         /\ waiters[i] = c
         /\ GrantFrom(used, Without(waiters, i), [status EXCEPT ![c] = "idle"])
    /\ UNCHANGED closed

\* Mutant of CancelGranted: the grant that raced the cancellation is lost.
CancelGrantedLeaking(c) ==
    /\ status[c] = "granted"
    /\ held' = [held EXCEPT ![c] = Nothing]
    /\ GrantFrom(used, waiters, [status EXCEPT ![c] = "idle"])
    /\ UNCHANGED closed

\* case <-ctx.Done(), after the grant was made: it is given back
CancelGranted(c) ==
    /\ status[c] = "granted"
    /\ held' = [held EXCEPT ![c] = Nothing]
    /\ GrantFrom(Minus(used, held[c]), waiters, [status EXCEPT ![c] = "idle"])
    /\ UNCHANGED closed

-----------------------------------------------------------------------------
(* ReservationLease, Close *)

\* ReleasePart returns an error, and changes nothing, unless the lease holds it.
ReleasePart(c, part) ==
    /\ status[c] = "holding"
    /\ Within(part, held[c])
    /\ held' = [held EXCEPT ![c] = Minus(@, part)]
    /\ GrantFrom(Minus(used, part), waiters, status)
    /\ UNCHANGED closed

Release(c) ==
    /\ status[c] = "holding"
    /\ held' = [held EXCEPT ![c] = Nothing]
    /\ GrantFrom(Minus(used, held[c]), waiters, [status EXCEPT ![c] = "idle"])
    /\ UNCHANGED closed

Close ==
    /\ ~closed
    /\ closed' = TRUE
    /\ waiters' = <<>>
    /\ status' = [c \in Clients |-> IF status[c] = "waiting" THEN "refused" ELSE status[c]]
    /\ held' = [c \in Clients |-> IF status[c] = "waiting" THEN Nothing ELSE held[c]]
    /\ UNCHANGED used

-----------------------------------------------------------------------------
(* Properties *)

\* Every variable has its type; usage is never negative nor over capacity.
ATypeOK ==
    /\ used \in [Resources -> Nat]
    /\ Within(used, Capacity)
    /\ waiters \in Seq(Clients)
    /\ closed \in BOOLEAN
    /\ status \in [Clients -> {"idle", "waiting", "granted", "refused", "holding"}]
    /\ held \in [Clients -> [Resources -> Nat]]

Holders == {c \in Clients : status[c] \in {"granted", "holding"}}

\* The units of r that clients cs have, each with its client.
Units(h, cs, r) == UNION {{c} \X (1..h[c][r]) : c \in cs}

\* What is used is exactly what the leases out there hold: nothing leaks and
\* nothing is given back twice when a cancellation races its grant, a lease is
\* released in parts, or the controller closes.
UsedIsHeld ==
    \A r \in Resources : used[r] = Cardinality(Units(held, Holders, r))

\* No wakeup is lost: with the lock free, no waiter that may be granted waits.
NoneForgotten ==
    ~\E i \in DOMAIN waiters : Grantable(used, waiters, held, i)

=============================================================================
