----------------------------- MODULE AptPackages -----------------------------
(***************************************************************************)
(* The packages cache of one mirror: AptPackages.py's AptPackages, which   *)
(* loads the mirror's index files into python-apt in a thread when a hash  *)
(* is asked for, and unloads them after a while or when an index changes.  *)
(*                                                                         *)
(* The index files are known by a version, the number of times one of them *)
(* has changed.  The Deferred that load() returns may be chained by        *)
(* doneLoading() to the Deferred of another load: those who wait for the   *)
(* first get the result of the last, those who wait for any later one get  *)
(* None, the result that chaining leaves in it.                            *)
(***************************************************************************)
EXTENDS Integers, Sequences, SequencesExt

CONSTANTS
    Reqs,       \* calls of findHash
    MaxChanges  \* bound on the number of changes of index files

ASSUME AptPackagesAssumption == MaxChanges \in Nat \ {0}

VARIABLES
    listed,          \* what AptPackages.packages lists
    closed,          \* whether packages has been closed
    loaded,          \* AptPackages.loaded
    held,            \* the version that cache, records and indexrecords hold
    loading,         \* AptPackages.loading: None ("none"), a load ("first"), a load that
                     \* another one is chained to ("again"), or what a failed load has
                     \* left there ("failed" and, of a chained one, "spent")
    loading_unload,  \* AptPackages.loading_unload
    unload_later,    \* whether AptPackages.unload_later is active
    jobs,            \* calls of _load given to the thread pool, not yet reported back
    waiting,         \* findHash calls waiting for the first load, in order
    late,            \* findHash calls waiting for a load chained to it
    heard            \* what each findHash call was answered

packagesVars == <<listed, closed, loaded, held, loading, loading_unload, unload_later, jobs,
          waiting, late, heard>>

PackagesVersions == 0 .. MaxChanges

\* A call of _load: how far it is, and the version it has read.
Job ==
    [at : {"queued", "nothing"}, read : {0}] \cup [at : {"reading", "raised"}, read : PackagesVersions]
        \cup [at : {"loaded"}, read : PackagesVersions \ {0}]

NewJob == [at |-> "queued", read |-> 0]

PackagesTypeOK ==
    /\ listed \in PackagesVersions
    /\ closed \in BOOLEAN
    /\ loaded \in BOOLEAN
    /\ held \in PackagesVersions
    /\ loading \in {"none", "first", "again", "failed", "spent"}
    /\ loading_unload \in BOOLEAN
    /\ unload_later \in BOOLEAN
    /\ jobs \in Seq(Job)
    /\ waiting \in Seq(Reqs)
    /\ late \in Seq(Reqs)
    /\ heard \in [Reqs -> {"unasked", "pending", "found", "empty", "error"}]

PackagesInit ==
    /\ listed \in {0, 1}
    /\ closed = FALSE
    /\ loaded = FALSE
    /\ held = 0
    /\ loading = "none"
    /\ loading_unload = FALSE
    /\ unload_later = FALSE
    /\ jobs = <<>>
    /\ waiting = <<>>
    /\ late = <<>>
    /\ heard = [r \in Reqs |-> "unasked"]

-----------------------------------------------------------------------------
(* unload() *)

\* AptPackages.unload: put off while there is a Deferred in `loading`.
Unload ==
    /\ unload_later' = FALSE
    /\ IF loading # "none"
       THEN loading_unload' = TRUE /\ UNCHANGED loaded
       ELSE loaded' = FALSE /\ UNCHANGED loading_unload

\* unload_later fires.
UnloadLater ==
    /\ unload_later
    /\ Unload
    /\ UNCHANGED <<listed, closed, held, loading, jobs, waiting, late, heard>>

\* AptPackages.file_updated for an index file.
FileUpdated ==
    /\ ~closed
    /\ listed < MaxChanges
    /\ listed' = listed + 1
    /\ Unload
    /\ UNCHANGED <<closed, held, loading, jobs, waiting, late, heard>>

\* AptPackages.cleanup, when the program shuts down.
Cleanup ==
    /\ ~closed
    /\ closed' = TRUE
    /\ Unload
    /\ UNCHANGED <<listed, held, loading, jobs, waiting, late, heard>>

-----------------------------------------------------------------------------
(* findHash() and load() *)

\* AptPackages._findHash with the cache loaded: it finds what the cached index files say
\* of the path, or python-apt raises an exception and _findHash_error is called.
LookUp == {"found", "error"}

\* Mutant of PackagesFindHash: it does not look at `loading`.
EagerPackagesFindHash(r) ==
    /\ heard[r] = "unasked"
    /\ ~closed /\ ~loaded
    /\ unload_later' = TRUE
    /\ loading_unload' = FALSE
    /\ loading' = "first"
    /\ jobs' = Append(jobs, NewJob)
    /\ waiting' = Append(waiting, r)
    /\ heard' = [heard EXCEPT ![r] = "pending"]
    /\ UNCHANGED <<listed, closed, loaded, held, late>>

\* AptPackages.findHash, with load(): an answer at once if the cache is loaded or a
\* failed load has been left in `loading`, else one when the load is done.
PackagesFindHash(r) ==
    /\ heard[r] = "unasked"
    /\ ~closed
    /\ unload_later' = TRUE
    /\ IF loaded
       THEN /\ \E found \in LookUp : heard' = [heard EXCEPT ![r] = found]
            /\ UNCHANGED <<loading, loading_unload, jobs, waiting, late>>
       ELSE \/ /\ loading = "none"
               /\ loading_unload' = FALSE
               /\ loading' = "first"
               /\ jobs' = Append(jobs, NewJob)
               /\ waiting' = <<r>>
               /\ heard' = [heard EXCEPT ![r] = "pending"]
               /\ UNCHANGED late
            \/ /\ loading = "first"
               /\ waiting' = Append(waiting, r)
               /\ heard' = [heard EXCEPT ![r] = "pending"]
               /\ UNCHANGED <<loading, loading_unload, jobs, late>>
            \/ /\ loading = "again"
               /\ late' = Append(late, r)
               /\ heard' = [heard EXCEPT ![r] = "pending"]
               /\ UNCHANGED <<loading, loading_unload, jobs, waiting>>
            \/ /\ loading \in {"failed", "spent"}
               /\ heard' = [heard EXCEPT ![r] = IF loading = "failed" THEN "error" ELSE "empty"]
               /\ UNCHANGED <<loading, loading_unload, jobs, waiting, late>>
    /\ UNCHANGED <<listed, closed, loaded, held>>

-----------------------------------------------------------------------------
(* _load(), in a thread. *)

At(i, where) == i \in DOMAIN jobs /\ jobs[i].at = where

\* A call of _load gets somewhere with what it has read.
Reach(i, where) == jobs' = [jobs EXCEPT ![i] = [at |-> where, read |-> jobs[i].read]]

\* AptPackages._load begins: it returns if the cache is loaded, else reads the list of
\* index files, which raises an exception when it has been closed.
LoadReads(i) ==
    /\ At(i, "queued")
    /\ jobs' = [jobs EXCEPT ![i] = [at |-> IF loaded THEN "loaded"
                                           ELSE IF closed THEN "raised" ELSE "reading",
                                    read |-> listed]]
    /\ UNCHANGED <<listed, closed, loaded, held, loading, loading_unload, unload_later,
                   waiting, late, heard>>

\* _load ends: there are no index files, or the cache is loaded, which the reactor's
\* thread sees at once, or an exception is raised.
LoadEnds(i) ==
    /\ At(i, "reading")
    /\ \/ /\ jobs[i].read = 0
          /\ Reach(i, "nothing")
          /\ UNCHANGED <<loaded, held>>
       \/ /\ jobs[i].read > 0
          /\ Reach(i, "loaded")
          /\ loaded' = TRUE
          /\ held' = jobs[i].read
       \/ /\ Reach(i, "raised")
          /\ UNCHANGED <<loaded, held>>
    /\ UNCHANGED <<listed, closed, loading, loading_unload, unload_later, waiting, late,
                   heard>>

-----------------------------------------------------------------------------
(* The result of _load arrives in the reactor's thread. *)

\* The answers to everyone who waits: the first n of those who wait for the first load
\* are told `what`, the others of them that there was an error, namely with the load or
\* with the lookup for the one before; those who wait for another load get an empty hash.
AnswersToAll(what, n) ==
    [r \in Reqs |->
        IF Contains(late, r) THEN "empty"
        ELSE IF Contains(SubSeq(waiting, 1, n), r) THEN what
        ELSE IF Contains(waiting, r) THEN "error" ELSE heard[r]]

\* AptPackages.doneLoading when an unload was asked for in the meantime: unload, which
\* also cancels unload_later, and load again.
LoadAgain(i) ==
    /\ At(i, "loaded") \/ At(i, "nothing")
    /\ loading_unload
    /\ unload_later' = FALSE
    /\ loaded' = FALSE
    /\ loading_unload' = FALSE
    /\ loading' = "again"
    /\ jobs' = Append(RemoveAt(jobs, i), NewJob)
    /\ UNCHANGED <<listed, closed, held, waiting, late, heard>>

\* Mutant of DoneLoading: it does not look at loading_unload.
HastyDoneLoading(i) ==
    /\ At(i, "loaded") \/ At(i, "nothing")
    /\ loading' = "none"
    /\ jobs' = RemoveAt(jobs, i)
    /\ waiting' = <<>>
    /\ late' = <<>>
    /\ heard' = AnswersToAll(IF jobs[i].at = "loaded" THEN "found" ELSE "empty", Len(waiting))
    /\ UNCHANGED <<listed, closed, loaded, held, loading_unload, unload_later>>

\* doneLoading otherwise, followed by _findHash for everyone who waits.
DoneLoading(i) ==
    /\ At(i, "loaded") \/ At(i, "nothing")
    /\ ~loading_unload
    /\ loading' = "none"
    /\ jobs' = RemoveAt(jobs, i)
    /\ waiting' = <<>>
    /\ late' = <<>>
    /\ IF jobs[i].at = "loaded"
       THEN \E n \in 0 .. Len(waiting) : heard' = AnswersToAll("found", n)
       ELSE heard' = AnswersToAll("empty", Len(waiting))
    /\ UNCHANGED <<listed, closed, loaded, held, loading_unload, unload_later>>

\* Mutant of LoadFailed: those who wait are not told.
SilentLoadFailed(i) ==
    /\ At(i, "raised")
    /\ loading' = IF loading = "first" THEN "failed" ELSE "spent"
    /\ jobs' = RemoveAt(jobs, i)
    /\ UNCHANGED <<listed, closed, loaded, held, loading_unload, unload_later, waiting, late,
                   heard>>

\* A failed load passes by doneLoading, and leaves its Deferred in `loading`.
LoadFailed(i) ==
    /\ At(i, "raised")
    /\ loading' = IF loading = "first" THEN "failed" ELSE "spent"
    /\ jobs' = RemoveAt(jobs, i)
    /\ waiting' = <<>>
    /\ late' = <<>>
    /\ heard' = AnswersToAll("error", 0)
    /\ UNCHANGED <<listed, closed, loaded, held, loading_unload, unload_later>>

-----------------------------------------------------------------------------

Loading ==
    \E i \in DOMAIN jobs :
        LoadReads(i) \/ LoadEnds(i) \/ LoadAgain(i) \/ DoneLoading(i) \/ LoadFailed(i)

PackagesNext ==
    \/ UnloadLater
    \/ FileUpdated
    \/ Cleanup
    \/ \E r \in Reqs : PackagesFindHash(r)
    \/ Loading

\* The thread pool and the reactor go on with a load; nobody is obliged to ask.
PackagesFairness == WF_packagesVars(Loading)

PackagesSafety == PackagesInit /\ [][PackagesNext]_packagesVars
PackagesSpec == PackagesSafety /\ PackagesFairness

-----------------------------------------------------------------------------
(* Properties. *)

\* Two threads never load at a time (they would delete and write the same files), nor
\* does one load while the cache is in use.
OneLoadAtATime ==
    /\ Len(jobs) <= 1
    /\ \A i \in DOMAIN jobs : jobs[i].at # "loaded" => ~loaded

\* A cache that an index file has changed under is about to be unloaded: at any time
\* that it stays loaded without a load's result to come, it is up to date.
StaleIsUnloaded ==
    loaded /\ held # listed => loading_unload /\ \E i \in DOMAIN jobs : At(i, "loaded")

\* Whoever waited for the cache is answered from the index files as they are then,
\* however often they changed while it was being loaded.
WaitersGetFresh ==
    [][(\E r \in Reqs : heard[r] = "pending" /\ heard'[r] = "found") => held = listed]_packagesVars

\* Every findHash call is answered, whatever is unloaded, loaded again or fails.
EveryoneIsAnswered ==
    \A r \in Reqs : heard[r] = "pending" ~> heard[r] # "pending"
=============================================================================
