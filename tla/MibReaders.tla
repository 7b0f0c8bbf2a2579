----------------------------- MODULE MibReaders -----------------------------
(***************************************************************************)
(* MibStore next to GET /mibs/status.  The route is a plain function, so   *)
(* it runs on a thread of its own: it scans the upload tree when nothing   *)
(* is cached, and assigns what it has found to the source service it was   *)
(* given when the scan ends, whatever happened in between.                 *)
(***************************************************************************)
EXTENDS MibStore

CONSTANT Readers  \* threads serving GET /mibs/status

VARIABLE seen  \* what each reader's scan found; NoScan when it has none to store

readerVars == <<vars, seen>>

NothingSeen == [r \in Readers |-> NoScan]

ReaderInit == Init /\ seen = NothingSeen

ReaderScans(r) ==
    /\ phase = "up"
    /\ seen[r] = NoScan /\ cache = NoScan
    /\ seen' = [seen EXCEPT ![r] = files]
    /\ UNCHANGED vars

ReaderStores(r) ==
    /\ seen[r] # NoScan
    /\ cache' = seen[r]
    /\ seen' = [seen EXCEPT ![r] = NoScan]
    /\ UNCHANGED <<bundleVars, files, opVars>>

\* _invalidate_source_cache() has made a new instance: what readers have yet to
\* store goes to the old one and no longer matters.
Renewed ==
    /\ \/ \E new \in Batches : UploadBegins(new)
       \/ Reload
       \/ \E gone \in (SUBSET files) \ {{}} : Delete(gone)
       \/ \E deps \in SUBSET Mibs : Fetch(deps) \/ FetchOffline(deps)
       \/ FetchEnds /\ op' = "refetch"
       \/ Crash
    /\ seen' = NothingSeen

\* reset_source_caches() empties the cache of the instance in use; readers of
\* that instance still store into it.
SameInstance ==
    /\ \/ UploadAnalyses \/ UploadRefused
       \/ UploadWrites \/ UploadWriteFails
       \/ UploadCompiles \/ UploadEnds
       \/ ReloadEnds \/ DeleteEnds \/ DeleteFails \/ PersistFails
       \/ FetchEnds /\ op' = "none"
       \/ RefetchEnds
       \/ JobGoesOn \/ ActivateBundle \/ StartUp
    /\ UNCHANGED seen

ReaderNext ==
    \/ \E r \in Readers : ReaderScans(r) \/ ReaderStores(r)
    \/ Renewed
    \/ SameInstance

ReaderSpec == ReaderInit /\ [][ReaderNext]_readerVars

-----------------------------------------------------------------------------
\* mib_sources.py: "Mutations reset the caches, so the entries never go stale
\* across an upload/delete/fetch cycle": the directories an upload's compile
\* derives from the inventory include those of the files it has just written.
UploadFindsItsFiles ==
    [][op = "compile" /\ op' = "upload" => GroupsOf(batch) \subseteq GroupsOf(cache')]_readerVars
=============================================================================
