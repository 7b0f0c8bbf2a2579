---------------------------- MODULE AppSettings ----------------------------
(***************************************************************************)
(* The session timeout of services/app_settings.py: its row, and the       *)
(* process-wide cache in front of it.  It is saved on the event loop only; *)
(* worker threads read it, and fill the cache, next to a save.             *)
(***************************************************************************)
EXTENDS Integers

CONSTANTS
    Timeouts,  \* the values offered for session_timeout_seconds, in ticks
    Default,   \* settings.session_timeout
    Threads    \* worker threads that serve requests

ASSUME TimeoutsAssumption == Timeouts \subseteq Nat /\ Default \in Timeouts

VARIABLES
    row,       \* what the database resolves session_timeout_seconds to
    cache,     \* _SETTINGS_READ_CACHE, None when it has no entry
    held,      \* what each thread has read from the row and not yet stored
    saving,    \* how far update_settings is
    overtaken, \* auxiliary: threads that hold a value read before a save
    late       \* auxiliary: was such a value stored since the last save

settingsVars == <<row, cache, held, saving, overtaken, late>>

None == -1
YesNo == {"yes", "no"}

SettingsTypeOK ==
    /\ row \in Timeouts
    /\ cache \in Timeouts \cup {None}
    /\ held \in [Threads -> Timeouts \cup {None}]
    /\ saving \in {"no", "committed", "popped"}
    /\ overtaken \subseteq Threads
    /\ late \in YesNo

SettingsInit ==
    /\ row \in Timeouts
    /\ cache = None
    /\ held = [p \in Threads |-> None]
    /\ saving = "no"
    /\ overtaken = {}
    /\ late = "no"

LoopFree == saving = "no"

\* update_settings commits the row, ...
CommitTimeout(t) ==
    /\ LoopFree
    /\ row' = t
    /\ saving' = "committed"
    /\ overtaken' = {p \in Threads : held[p] # None}
    /\ UNCHANGED <<held, late>>

\* Mutant: the cached values are kept.
PopNothing ==
    /\ saving = "committed"
    /\ saving' = "popped"
    /\ late' = "no"
    /\ UNCHANGED <<row, cache, held, overtaken>>

\* ... drops the cached values ...
PopCache ==
    /\ saving = "committed"
    /\ saving' = "popped"
    /\ cache' = None
    /\ late' = "no"
    /\ UNCHANGED <<row, held, overtaken>>

\* _resolved_values on the event loop, where nothing else writes the row.
Resolved == IF cache = None THEN row ELSE cache

\* ... and resolves them again for its answer.
ResolveSaved ==
    /\ saving = "popped"
    /\ saving' = "no"
    /\ cache' = Resolved
    /\ UNCHANGED <<row, held, overtaken, late>>

\* A thread finds no cached value and reads the row.
ReadRow(p) ==
    /\ cache = None
    /\ held' = [held EXCEPT ![p] = row]
    /\ UNCHANGED <<row, cache, saving, overtaken, late>>

\* It stores what it has read.
StoreCache(p) ==
    /\ held[p] # None
    /\ cache' = held[p]
    /\ held' = [held EXCEPT ![p] = None]
    /\ late' = IF p \in overtaken THEN "yes" ELSE late
    /\ overtaken' = overtaken \ {p}
    /\ UNCHANGED <<row, saving>>

ForgetSettings ==
    /\ cache' = None
    /\ held' = [p \in Threads |-> None]
    /\ saving' = "no"
    /\ overtaken' = {}
    /\ late' = "no"
    /\ UNCHANGED row

\* Once a save is over, sessions are judged by the value it saved, unless a
\* thread that had read the row before the save stored its value after it:
\* then the old timeout stays in effect until the next save.
SavedTimeoutInEffect ==
    saving = "no" /\ late = "no" => cache \in {None, row}
=============================================================================
