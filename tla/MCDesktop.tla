------------------------------ MODULE MCDesktop ------------------------------
(***************************************************************************)
(* The components that share no state with each other, checked in one run: *)
(* each behaviour is one of a component, chosen at the start, while the    *)
(* others stay in their initial state.  The fairness of a component is     *)
(* that of the goroutines that run it, and is asked of its own behaviours. *)
(***************************************************************************)
EXTENDS AudioWorkers, CatalogInstall, PackManager, LocalCatalog, TasteData, AppShell, Updater

VARIABLE part

desktopVars == <<part, audioVars, catalogVars, packVars, queryVars, tasteVars, appVars, updateVars>>

MCRecordingOf == [t \in Tracks |-> "recording"]

First == [db |-> 1, extra |-> Absent, manifest |-> 1]
Second == [db |-> 2, extra |-> 2, manifest |-> 2]
MCFiles == DOMAIN First
MCManifests == {First, Second}
MCBefore == {First, [First EXCEPT !.db = Absent], NoFiles}

MCCasts ==
    {[one |-> "set", two |-> "device", three |-> "clear"],
     [one |-> "set", two |-> "set", three |-> "clear"],
     [one |-> "set", two |-> "set", three |-> "device"],
     [one |-> "ensure", two |-> "load", three |-> "use"],
     [one |-> "ensure", two |-> "late", three |-> "use"]}
MCActors == {"one", "two", "three"}

-----------------------------------------------------------------------------

MCInit ==
    /\ part \in {"audio", "catalog", "packs", "queries", "taste", "app", "updates"}
    /\ AudioInit /\ CatalogInit /\ PackInit /\ QueryInit /\ TasteInit /\ AppInit
    /\ UpdaterInit
    \* the others stay as they are: one initial state of theirs is enough
    /\ part # "catalog" => disk = NoFiles
    /\ part # "app" => role = CHOOSE cast \in Casts : TRUE
    /\ part # "updates" => application = CHOOSE r \in Releases : TRUE

Audio == part = "audio"
Queries == part = "queries"

MCNext ==
    /\ UNCHANGED part
    /\ \/ /\ Audio /\ AudioNext
          /\ UNCHANGED <<catalogVars, packVars, queryVars, tasteVars, appVars, updateVars>>
       \/ /\ part = "catalog" /\ CatalogNext
          /\ UNCHANGED <<audioVars, packVars, queryVars, tasteVars, appVars, updateVars>>
       \/ /\ part = "packs" /\ PackNext
          /\ UNCHANGED <<audioVars, catalogVars, queryVars, tasteVars, appVars, updateVars>>
       \/ /\ Queries /\ QueryNext
          /\ UNCHANGED <<audioVars, catalogVars, packVars, tasteVars, appVars, updateVars>>
       \/ /\ part = "taste" /\ TasteNext
          /\ UNCHANGED <<audioVars, catalogVars, packVars, queryVars, appVars, updateVars>>
       \/ /\ part = "app" /\ AppNext
          /\ UNCHANGED <<audioVars, catalogVars, packVars, queryVars, tasteVars, updateVars>>
       \/ /\ part = "updates" /\ UpdaterNext
          /\ UNCHANGED <<audioVars, catalogVars, packVars, queryVars, tasteVars, appVars>>

Fairness ==
    /\ \A w \in Workers : WF_audioVars(Audio /\ WorkerStep(w))
    /\ WF_audioVars(Audio /\ Recovered)
    /\ WF_audioVars(Audio /\ RecoverOn)
    /\ WF_audioVars(Audio /\ ProbeOn)
    /\ WF_audioVars(Audio /\ StopSupervisor)
    /\ \A c \in Catalogs :
        /\ WF_queryVars(Queries /\ RequestStep(c))
        /\ WF_queryVars(Queries /\ CloseStep(c))
        /\ \A k \in Channels : WF_queryVars(Queries /\ ChannelStep(c, k))

MCSpec == MCInit /\ [][MCNext]_desktopVars /\ Fairness

TypeOK ==
    /\ AudioTypeOK /\ CatalogTypeOK /\ PackTypeOK
    /\ QueryTypeOK /\ TasteTypeOK /\ AppTypeOK /\ UpdaterTypeOK

\* Unless the user stops the run, every track is analysed or failed for good: no
\* outage pauses it for ever, no quarantined session makes it circle, and
\* whoever waits for another's flight is woken.
TracksSettle == Audio ~> NoneLeft \/ stop \/ ended
=============================================================================
