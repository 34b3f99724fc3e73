---------------------------- MODULE LocalCatalog ----------------------------
(***************************************************************************)
(* Catalogs pinned to one generation of a local library and the queries    *)
(* their executors run (internal/localcatalog).                            *)
(*                                                                         *)
(* A query holds a request slot and its catalog's read lock from admission *)
(* to merge; each of its channels runs in a goroutine of its own that      *)
(* takes a channel slot and the read lock again: once for its search, and  *)
(* for a search by artist once more for every hit, which is looked up by   *)
(* itself.  The slots belong to the generation and are shared by its       *)
(* catalogs.  Close takes the write lock.  A sync.RWMutex admits no new    *)
(* reader while a writer waits.                                            *)
(*                                                                         *)
(* Each catalog answers one query.                                         *)
(***************************************************************************)
EXTENDS Integers, FiniteSets

CONSTANTS
    Catalogs,
    Channels,   \* what a query asks for: metadata, MERT, CLAP
    Metadata,   \* the channel that may search by artist
    Capacity,   \* of requestSlots and of channelSlots
    MaxHits     \* bound of the model: hits of a search by artist

ASSUME CapacityAssumption ==
    /\ Capacity \in Nat \ {0} /\ MaxHits \in Nat
    /\ IsFiniteSet(Channels) /\ Metadata \in Channels

VARIABLES
    pin,      \* of each catalog: "open", "closing" (the writer waits),
              \* "releasing" (closed, its lease not yet given back), "released"
    query,    \* "idle", "queued", "admitted", "running", "over"
    channel,  \* of each channel of a query: "none", "queued", "slotted",
              \* "reading", "over"; slotted, it asks for the read lock
    hits,     \* of each query: how many its artist's search has still to look up
    gaveUp    \* the queries whose context has ended

queryVars == <<pin, query, channel, hits, gaveUp>>

Quiet == [k \in Channels |-> "none"]

QueryInit ==
    /\ pin = [c \in Catalogs |-> "open"]
    /\ query = [c \in Catalogs |-> "idle"]
    /\ channel = [c \in Catalogs |-> Quiet]
    /\ hits = [c \in Catalogs |-> 0]
    /\ gaveUp = {}

QueryTypeOK ==
    /\ pin \in [Catalogs -> {"open", "closing", "releasing", "released"}]
    /\ query \in [Catalogs -> {"idle", "queued", "admitted", "running", "over"}]
    /\ channel \in [Catalogs -> [Channels -> {"none", "queued", "slotted", "reading", "over"}]]
    /\ hits \in [Catalogs -> 0..MaxHits]
    /\ gaveUp \subseteq Catalogs

-----------------------------------------------------------------------------

RequestsAdmitted == {c \in Catalogs : query[c] \in {"admitted", "running"}}
ChannelsAdmitted == {ck \in Catalogs \X Channels : channel[ck[1]][ck[2]] \in {"slotted", "reading"}}

\* Who holds the read lock: those of its channels that read, and the query.
ReadersOf(c) ==
    {k \in Channels : channel[c][k] = "reading"} \cup (IF query[c] = "running" THEN {c} ELSE {})

\* RLock succeeds.
MayRead(c) == pin[c] # "closing"
IsClosed(c) == pin[c] \in {"releasing", "released"}

Query(c, stage) == query' = [query EXCEPT ![c] = stage]
Channel(c, k, stage) == channel' = [channel EXCEPT ![c][k] = stage]

\* Executor.Query waits for a request slot.  No hits: not by an artist's name.
Submit(c) ==
    /\ query[c] = "idle"
    /\ Query(c, "queued")
    /\ \E n \in 0..MaxHits : hits' = [hits EXCEPT ![c] = n]
    /\ UNCHANGED <<pin, channel, gaveUp>>

Admit(c) ==
    /\ query[c] = "queued"
    /\ Cardinality(RequestsAdmitted) < Capacity
    /\ Query(c, "admitted")
    /\ UNCHANGED <<pin, channel, hits, gaveUp>>

\* The other case of the select.
LeaveRequests(c) ==
    /\ query[c] = "queued" /\ c \in gaveUp
    /\ Query(c, "over")
    /\ UNCHANGED <<pin, channel, hits, gaveUp>>

\* withGeneration: the catalog is closed, or it stays open until the merge.
PinGeneration(c) ==
    /\ query[c] = "admitted" /\ MayRead(c)
    /\ IF IsClosed(c)
       THEN Query(c, "over") /\ UNCHANGED channel
       ELSE Query(c, "running") /\ channel' = [channel EXCEPT ![c] = [k \in Channels |-> "queued"]]
    /\ UNCHANGED <<pin, hits, gaveUp>>

\* Some searches end before they ask for the lock: invalid ones, those that ask
\* for no hits, and CLAP's whose context has ended.
TakeChannelSlot(c, k) ==
    /\ channel[c][k] = "queued"
    /\ Cardinality(ChannelsAdmitted) < Capacity
    /\ \E stage \in {"slotted", "over"} : Channel(c, k, stage)
    /\ UNCHANGED <<pin, query, hits, gaveUp>>

\* Mutant of LeaveChannel: a channel whose context has ended says nothing.
LeaveChannelSilently(c, k) ==
    /\ channel[c][k] = "queued" /\ c \in gaveUp
    /\ Channel(c, k, "none")
    /\ UNCHANGED <<pin, query, hits, gaveUp>>

LeaveChannel(c, k) ==
    /\ channel[c][k] = "queued" /\ c \in gaveUp
    /\ Channel(c, k, "over")
    /\ UNCHANGED <<pin, query, hits, gaveUp>>

\* Search, Neighbors or CLAPNeighbors takes the catalog's read lock itself.
ReadChannel(c, k) ==
    /\ channel[c][k] = "slotted" /\ MayRead(c)
    /\ Channel(c, k, IF IsClosed(c) THEN "over" ELSE "reading")
    /\ UNCHANGED <<pin, query, hits, gaveUp>>

\* A search by artist gives the lock back and asks for it again, to look up its
\* next hit.
LookUpNext(c) ==
    /\ channel[c][Metadata] = "reading" /\ hits[c] > 0
    /\ Channel(c, Metadata, "slotted")
    /\ hits' = [hits EXCEPT ![c] = @ - 1]
    /\ UNCHANGED <<pin, query, gaveUp>>

\* It answers or fails, with hits left where the limit, the context or an
\* excluded track says so, and gives lock and slot back.
EndChannel(c, k) ==
    /\ channel[c][k] = "reading"
    /\ Channel(c, k, "over")
    /\ UNCHANGED <<pin, query, hits, gaveUp>>

\* Every channel has reported; the hits are merged, lock and slot given back.
MergeChannels(c) ==
    /\ query[c] = "running"
    /\ \A k \in Channels : channel[c][k] = "over"
    /\ Query(c, "over")
    /\ channel' = [channel EXCEPT ![c] = Quiet]
    /\ UNCHANGED <<pin, hits, gaveUp>>

\* The caller's context ends.
GiveUp(c) ==
    /\ query[c] \in {"queued", "admitted", "running"}
    /\ c \notin gaveUp /\ gaveUp' = gaveUp \cup {c}
    /\ UNCHANGED <<pin, query, channel, hits>>

-----------------------------------------------------------------------------
\* Catalog.Close.

\* Close asks for the write lock: from here on no reader is let in.
AskToClose(c) ==
    /\ pin[c] = "open"
    /\ pin' = [pin EXCEPT ![c] = "closing"]
    /\ UNCHANGED <<query, channel, hits, gaveUp>>

ShutCatalog(c) ==
    /\ pin[c] = "closing" /\ ReadersOf(c) = {}
    /\ pin' = [pin EXCEPT ![c] = "releasing"]
    /\ UNCHANGED <<query, channel, hits, gaveUp>>

\* The indexes are closed, and the lease and the budget given back.
ReleasePin(c) ==
    /\ pin[c] = "releasing"
    /\ pin' = [pin EXCEPT ![c] = "released"]
    /\ UNCHANGED <<query, channel, hits, gaveUp>>

-----------------------------------------------------------------------------

\* A channel asks for the read lock that its query holds already, the first time
\* or once more, behind a writer that waits for the query.
Overtaken(c) == pin[c] = "closing" /\ \E k \in Channels : channel[c][k] = "slotted"

\* The rest of the program goes on, whatever happens here.
Elsewhere == UNCHANGED queryVars

ChannelStep(c, k) ==
    \/ TakeChannelSlot(c, k) \/ LeaveChannel(c, k)
    \/ ReadChannel(c, k) \/ EndChannel(c, k)
    \/ k = Metadata /\ LookUpNext(c)
RequestStep(c) ==
    Admit(c) \/ LeaveRequests(c) \/ PinGeneration(c) \/ MergeChannels(c)
CloseStep(c) == ShutCatalog(c) \/ ReleasePin(c)

QueryNext ==
    \/ \E c \in Catalogs :
        \/ Submit(c) \/ RequestStep(c) \/ GiveUp(c)
        \/ AskToClose(c) \/ CloseStep(c)
        \/ \E k \in Channels : ChannelStep(c, k)
    \/ Elsewhere

QuerySpec == QueryInit /\ [][QueryNext]_queryVars

-----------------------------------------------------------------------------

\* Every query and every Close returns, unless a Close overtook a channel of a
\* query under way: whoever is given up reports, closed catalogs give their slots
\* back, and a catalog that waits does not keep those of others
\* (executor.go:154-231, catalog.go:183-209).  Overtaken, the two wait for each
\* other for ever, and with them whoever needs their slots.
Called(c) == pin[c] = "closing" \/ query[c] \in {"queued", "admitted", "running"}
CallsReturn == \A c \in Catalogs : Called(c) ~> ~Called(c) \/ \E d \in Catalogs : Overtaken(d)

\* What the code says of Close: it waits for the query under way, which then
\* ends, and the catalog is released (catalog.go:49).  Overtaken, it is not.
ClosingEnds == \A c \in Catalogs : pin[c] = "closing" ~> pin[c] = "released"
=============================================================================
