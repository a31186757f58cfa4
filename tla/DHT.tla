-------------------------------- MODULE DHT --------------------------------
(***************************************************************************)
(* The DHT class of DHT.py, through which the rest of the program uses the *)
(* DHT: joining it by way of the bootstrap nodes, again and again if that  *)
(* fails, leaving it, and looking up and storing values.  Its callers are  *)
(* the requests below; Khashmir's side, which answers contacts, searches,  *)
(* lookups and storages through the reactor, is the environment.           *)
(*                                                                         *)
(* Bootstrap nodes are counted, not named.  A contact that fails while     *)
(* join is still contacting the others is modelled to fail right after.    *)
(* The delays of later joins (next_rejoin) are left out.                   *)
(*                                                                         *)
(* The program joins once and never leaves; the tests of DHT.py leave.     *)
(***************************************************************************)
EXTENDS Integers, FiniteSets

CONSTANTS
    Joins,          \* calls of join, each with a Deferred of its own
    Gets,           \* calls of getValue
    Stores,         \* calls of storeValue
    Keys,           \* keys that are looked up
    Values,         \* values that may be found under them
    Pairs,          \* pairs of a key and a value to store
    Bootstraps,     \* the number of bootstrap nodes
    None,
    MaxContacts,    \* bound on the number of contacts waiting for an answer
    MaxSearches     \* bound on the number of searches under way

ASSUME DHTAssumption ==
    /\ Joins \cap Gets = {} /\ Joins \cap Stores = {} /\ Gets \cap Stores = {}
    /\ None \notin Joins \cup Gets \cup Stores
    /\ Bootstraps \in Nat \ {0}
    /\ MaxContacts \in Nat /\ MaxSearches \in Nat

Calls == Joins \cup Gets \cup Stores

VARIABLES
    bootstrap_node,   \* DHT.bootstrap_node: set in the configuration
    joining,          \* DHT.joining, or None
    joined,           \* DHT.joined
    outstandingJoins, \* DHT.outstandingJoins
    rejoins,          \* the joins that callLater will call again
    contacts,         \* bootstrap nodes that are being resolved or contacted
    searches,         \* calls of findCloseNodes that have not called back
    retrieving,       \* DHT.retrieving: for each key, who waits for its values
    retrieved,        \* DHT.retrieved: the values that have been found so far
    finding,          \* calls of valueForKey that are still searching for nodes
    lookups,          \* calls of valueForKey that get values and will make a final callback
    storing,          \* DHT.storing: for each pair, who waits for its storage, or None
    storages,         \* calls of storeValueForKey that have not called back
    open,             \* Khashmir's database is open: it is closed by leave, for ever
    status            \* the Deferreds of all calls

joinVars == <<joining, joined, outstandingJoins, rejoins, contacts, searches>>
getVars == <<retrieving, retrieved, finding, lookups>>
storeVars == <<storing, storages>>
vars == <<bootstrap_node, joinVars, getVars, storeVars, open, status>>

\* Types, with the bounds on what is counted.
TypeOK ==
    /\ bootstrap_node \in BOOLEAN
    /\ joining \in Joins \cup {None}
    /\ joined \in BOOLEAN
    /\ outstandingJoins \in Int
    /\ rejoins \subseteq Joins
    /\ contacts \in Nat
    /\ searches \in Nat
    /\ retrieving \in [Keys -> SUBSET Gets]
    /\ retrieved \in [Keys -> SUBSET Values]
    /\ finding \in [Keys -> Nat]
    /\ lookups \in [Keys -> Nat]
    /\ storing \in [Pairs -> Stores \cup {None}]
    /\ storages \in [Pairs -> Nat]
    /\ open \in BOOLEAN
    /\ status \in [Calls -> {"none", "pending", "answered", "error", "refused", "dropped"}]

\* DHT.__init__ and loadConfig.
Init ==
    /\ bootstrap_node \in BOOLEAN
    /\ joining = None /\ joined = FALSE
    /\ outstandingJoins = 0
    /\ rejoins = {}
    /\ contacts = 0 /\ searches = 0
    /\ retrieving = [k \in Keys |-> {}]
    /\ retrieved = [k \in Keys |-> {}]
    /\ finding = [k \in Keys |-> 0]
    /\ lookups = [k \in Keys |-> 0]
    /\ storing = [p \in Pairs |-> None]
    /\ storages = [p \in Pairs |-> 0]
    /\ open = TRUE
    /\ status = [c \in Calls |-> "none"]

-----------------------------------------------------------------------------
(* Joining and leaving. *)

\* Khashmir.addContact for every bootstrap node, which sends it a join request.
AddContacts ==
    /\ contacts + Bootstraps <= MaxContacts
    /\ contacts' = contacts + Bootstraps

\* Khashmir.findCloseNodes, if the contact that has ended leads to a search.
FindCloseNodes(starts) ==
    /\ searches < MaxSearches
    /\ searches' = IF starts THEN searches + 1 ELSE searches

\* The rest of join, once it is known that no join is in progress: all bootstrap
\* nodes are contacted.
StartJoin(j) ==
    /\ AddContacts
    /\ joining' = j
    /\ outstandingJoins' = Bootstraps
    /\ UNCHANGED <<joined, searches>>

\* join, called by the program.
Join(j) ==
    /\ status[j] = "none"
    /\ \/ /\ joining # None
          /\ status' = [status EXCEPT ![j] = "refused"]
          /\ UNCHANGED joinVars
       \/ /\ joining = None
          /\ status' = [status EXCEPT ![j] = "pending"]
          /\ StartJoin(j)
          /\ UNCHANGED rejoins
    /\ UNCHANGED <<bootstrap_node, getVars, storeVars, open>>

\* join, called again by the reactor for a join that failed.
Rejoin(j) ==
    /\ j \in rejoins
    /\ rejoins' = rejoins \ {j}
    /\ \/ /\ joining # None
          /\ status' = [status EXCEPT ![j] = "error"]
          /\ UNCHANGED <<joining, joined, outstandingJoins, contacts, searches>>
       \/ /\ joining = None
          /\ StartJoin(j)
          /\ UNCHANGED status
    /\ UNCHANGED <<bootstrap_node, getVars, storeVars, open>>

\* Mutant of ContactEnds: only nodes that give an address lead to a search.
HopefulContactEnds(addr) ==
    /\ contacts > 0
    /\ contacts' = contacts - 1
    /\ outstandingJoins' = outstandingJoins - 1
    /\ FindCloseNodes(addr)
    /\ UNCHANGED <<bootstrap_node, joining, joined, rejoins, getVars, storeVars, open, status>>

\* A bootstrap node has answered (_join_single), perhaps without an address, or could
\* not be resolved (_join_resolveFailed) or reached (_join_error).
ContactEnds(addr) ==
    /\ contacts > 0
    /\ contacts' = contacts - 1
    /\ outstandingJoins' = outstandingJoins - 1
    /\ FindCloseNodes(addr \/ outstandingJoins' <= 0)
    /\ UNCHANGED <<bootstrap_node, joining, joined, rejoins, getVars, storeVars, open, status>>

\* Mutant of JoinComplete: the Deferred stays in `joining` while it waits to be retried.
HoldingJoinComplete(others) ==
    /\ searches > 0
    /\ searches' = searches - 1
    /\ joined' = (joined \/ others)
    /\ IF joining # None /\ outstandingJoins <= 0
       THEN IF joined' \/ bootstrap_node
            THEN /\ joining' = None
                 /\ status' = [status EXCEPT ![joining] = "answered"]
                 /\ UNCHANGED rejoins
            ELSE /\ rejoins' = rejoins \cup {joining}
                 /\ UNCHANGED <<joining, status>>
       ELSE UNCHANGED <<joining, rejoins, status>>
    /\ UNCHANGED <<bootstrap_node, outstandingJoins, contacts, getVars, storeVars, open>>

\* _join_complete: a search for close nodes has found others, or only this node.
JoinComplete(others) ==
    /\ searches > 0
    /\ searches' = searches - 1
    /\ LET now == joined \/ others
           ends == joining # None /\ outstandingJoins <= 0
       IN  \/ /\ ~ends
              /\ joined' = now
              /\ UNCHANGED <<joining, rejoins, status>>
           \/ /\ ends /\ (now \/ bootstrap_node)
              /\ joined' = TRUE
              /\ joining' = None
              /\ status' = [status EXCEPT ![joining] = "answered"]
              /\ UNCHANGED rejoins
           \/ /\ ends /\ ~(now \/ bootstrap_node)
              /\ joining' = None
              /\ rejoins' = rejoins \cup {joining}
              /\ UNCHANGED <<joined, status>>
    /\ UNCHANGED <<bootstrap_node, outstandingJoins, contacts, getVars, storeVars, open>>

\* leave: Khashmir is shut down and its database closed.  It goes on calling back for
\* what it has under way, as far as that needs no database, and is never set up again.
Leave ==
    /\ joined \/ joining # None
    /\ joining' = None
    /\ joined' = FALSE
    /\ open' = FALSE
    /\ status' = [c \in Calls |-> IF c = joining THEN "error" ELSE status[c]]
    /\ UNCHANGED <<bootstrap_node, outstandingJoins, rejoins, contacts, searches, getVars, storeVars>>

-----------------------------------------------------------------------------
(* Looking up values. *)

\* getValue: callers that ask for a key that is being looked up share the lookup.
GetValue(g, k) ==
    /\ status[g] = "none"
    /\ \/ /\ ~joined
          /\ status' = [status EXCEPT ![g] = "refused"]
          /\ UNCHANGED getVars
       \/ /\ joined
          /\ status' = [status EXCEPT ![g] = "pending"]
          /\ retrieving' = [retrieving EXCEPT ![k] = @ \cup {g}]
          /\ finding' = [finding EXCEPT ![k] = IF retrieving[k] = {} THEN @ + 1 ELSE @]
          /\ UNCHANGED <<retrieved, lookups>>
    /\ UNCHANGED <<bootstrap_node, joinVars, storeVars, open>>

\* _getValueForKey: the nodes with values have been found, and are asked for them.  If
\* the database is closed the look at the local values raises an exception, and the
\* lookup is never heard of again, though `retrieving` still has those who wait for it.
FindEnds(k) ==
    /\ finding[k] > 0
    /\ finding' = [finding EXCEPT ![k] = @ - 1]
    /\ lookups' = IF open THEN [lookups EXCEPT ![k] = @ + 1] ELSE lookups
    /\ UNCHANGED <<bootstrap_node, joinVars, retrieving, retrieved, storeVars, open, status>>

\* _getValue with some values: they are kept, unless one of them cannot be decoded.
GotValues(k, values) ==
    /\ lookups[k] > 0
    /\ values # {}
    /\ retrieved' = [retrieved EXCEPT ![k] = @ \cup values]
    /\ UNCHANGED <<bootstrap_node, joinVars, retrieving, finding, lookups, storeVars, open, status>>

\* _getValue with the final empty list: everybody gets all that was found.  Calls of
\* getValue for the same key that are made in their callbacks (`more`) are put on the
\* list of those who wait, which is deleted after the last callback: they are dropped.
LookupEnds(k, more) ==
    /\ lookups[k] > 0
    /\ \A g \in more : status[g] = "none"
    /\ lookups' = [lookups EXCEPT ![k] = @ - 1]
    /\ retrieving' = [retrieving EXCEPT ![k] = {}]
    /\ retrieved' = [retrieved EXCEPT ![k] = {}]
    /\ status' = [c \in Calls |-> IF c \in retrieving[k] THEN "answered"
                                  ELSE IF c \in more THEN IF joined THEN "dropped" ELSE "refused"
                                  ELSE status[c]]
    /\ UNCHANGED <<bootstrap_node, joinVars, finding, storeVars, open>>

-----------------------------------------------------------------------------
(* Storing values. *)

\* Mutant of StoreValue: a pair that is being stored is stored again.
RepeatedStoreValue(s, p) ==
    /\ status[s] = "none"
    /\ joined
    /\ status' = [status EXCEPT ![s] = "pending"]
    /\ storing' = [storing EXCEPT ![p] = s]
    /\ storages' = [storages EXCEPT ![p] = @ + 1]
    /\ UNCHANGED <<bootstrap_node, joinVars, getVars, open>>

\* storeValue: a pair that is being stored already is refused.
StoreValue(s, p) ==
    /\ status[s] = "none"
    /\ \/ /\ ~joined \/ storing[p] # None
          /\ status' = [status EXCEPT ![s] = "refused"]
          /\ UNCHANGED storeVars
       \/ /\ joined /\ storing[p] = None
          /\ status' = [status EXCEPT ![s] = "pending"]
          /\ storing' = [storing EXCEPT ![p] = s]
          /\ storages' = [storages EXCEPT ![p] = @ + 1]
    /\ UNCHANGED <<bootstrap_node, joinVars, getVars, open>>

\* _storeValue: some nodes have stored the pair, or none.
StorageEnds(p, outcome) ==
    /\ storages[p] > 0
    /\ storages' = [storages EXCEPT ![p] = @ - 1]
    /\ storing' = [storing EXCEPT ![p] = None]
    /\ status' = [c \in Calls |-> IF c = storing[p] THEN outcome ELSE status[c]]
    /\ UNCHANGED <<bootstrap_node, joinVars, getVars, open>>

-----------------------------------------------------------------------------
(* Specification. *)

Next ==
    \/ \E j \in Joins : Join(j) \/ Rejoin(j)
    \/ \E addr \in BOOLEAN : ContactEnds(addr)
    \/ \E others \in BOOLEAN : JoinComplete(others)
    \/ Leave
    \/ \E g \in Gets, k \in Keys : GetValue(g, k)
    \/ \E k \in Keys, values \in SUBSET Values : GotValues(k, values)
    \/ \E k \in Keys : FindEnds(k)
    \/ \E k \in Keys, more \in SUBSET Gets : LookupEnds(k, more)
    \/ \E s \in Stores, p \in Pairs : StoreValue(s, p)
    \/ \E p \in Pairs, outcome \in {"answered", "error"} : StorageEnds(p, outcome)

Safety == Init /\ [][Next]_vars

\* Requests to nodes are answered, time out or are stopped (KRPC), so that searches, the
\* two phases of lookups and storages end (Action), if only, for the first phase of a
\* lookup, in an exception; the reactor runs its delayed calls.
Fairness ==
    /\ WF_vars(\E addr \in BOOLEAN : ContactEnds(addr))
    /\ WF_vars(\E others \in BOOLEAN : JoinComplete(others))
    /\ \A j \in Joins : WF_vars(Rejoin(j))
    /\ \A k \in Keys : WF_vars(FindEnds(k)) /\ WF_vars(\E more \in SUBSET Gets : LookupEnds(k, more))
    /\ \A p \in Pairs : WF_vars(\E outcome \in {"answered", "error"} : StorageEnds(p, outcome))

Spec == Safety /\ Fairness

-----------------------------------------------------------------------------
(* Properties. *)

\* A call whose Deferred has not fired is never forgotten: a join is being made, with
\* bootstrap nodes or a search still to call back, or waits to be made again; and
\* whoever waits for a storage waits for one under way, of which there is one for each
\* pair.  Whoever waits for values waits for the one lookup of the key as long as the
\* node has never left (open); later a lookup may be lost, with those who wait for its key then
\* and for ever after.  Other than that, only calls made in the callbacks of a lookup
\* of the same key are dropped.  What a lookup found is never left for those who ask
\* for the key later (join, _join_complete, leave, _getValue, _storeValue).
JoinIsAlive ==
    /\ outstandingJoins <= contacts
    /\ joining # None /\ outstandingJoins <= 0 => searches > 0
    /\ \A j \in Joins : status[j] = "pending" <=> (j = joining \/ j \in rejoins)
    /\ joining \notin rejoins
GetsAreAlive ==
    \A k \in Keys :
        /\ finding[k] + lookups[k] <= IF retrieving[k] = {} THEN 0 ELSE 1
        /\ open /\ retrieving[k] # {} => finding[k] + lookups[k] = 1
        /\ retrieving[k] \subseteq {g \in Gets : status[g] = "pending"}
        /\ retrieved[k] # {} => lookups[k] > 0
StoresAreAlive ==
    \A p \in Pairs :
        /\ storages[p] = IF storing[p] = None THEN 0 ELSE 1
        /\ storing[p] # None => status[storing[p]] = "pending"
NothingForgotten ==
    /\ JoinIsAlive
    /\ GetsAreAlive
    /\ StoresAreAlive
    /\ \A g \in Gets : status[g] = "pending" => \E k \in Keys : g \in retrieving[k]
    /\ \A s \in Stores : status[s] = "pending" => \E p \in Pairs : s = storing[p]

\* Every Deferred that join, getValue and storeValue return fires at most once, and
\* never otherwise, whatever joins, leaves and late answers come in between: the safety
\* part of the abstract promise that KRPC's requests keep as well.
Told == [c \in Calls |-> IF status[c] = "refused" THEN "stopped"
                         ELSE IF status[c] = "dropped" THEN "pending" ELSE status[c]]
Once == INSTANCE RequestOnce WITH Reqs <- Calls, status <- Told
OnceSafety == Once!Safety

\* A bootstrap node's join ends even if it is alone, and so do all storages, also
\* those that are under way when the node leaves.  Lookups end in a node that never
\* leaves, and in one that does those that had found their nodes before: of each key
\* none is in that phase for ever.  There are finitely many calls, so that after some
\* time none of these is left waiting.
CallsEnd ==
    /\ <>[](\A c \in Calls :
              status[c] = "pending" => (c \in Joins /\ ~bootstrap_node) \/ (c \in Gets /\ ~open))
    /\ <>[](\A k \in Keys : finding[k] = 0 /\ lookups[k] = 0)
=============================================================================
