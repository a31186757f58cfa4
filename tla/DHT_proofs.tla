----------------------------- MODULE DHT_proofs -----------------------------
(***************************************************************************)
(* Theorems about DHT for all sets of calls, keys, values and pairs and    *)
(* every number of bootstrap nodes, with their proofs: no call is          *)
(* forgotten, and the facade implements RequestOnce.                       *)
(***************************************************************************)
EXTENDS DHT, TLAPS

\* Nobody waits for two lookups or two storages, so that the end of one leaves the
\* others who wait alone.
OneWaitEach ==
    /\ \A k, l \in Keys : \A g \in Gets : g \in retrieving[k] /\ g \in retrieving[l] => k = l
    /\ \A p, q \in Pairs : storing[p] # None /\ storing[p] = storing[q] => p = q

IInv == TypeOK /\ NothingForgotten /\ OneWaitEach

\* What joins and leaves depend on.
JoinInv ==
    /\ bootstrap_node \in BOOLEAN /\ joining \in Joins \cup {None} /\ joined \in BOOLEAN
    /\ outstandingJoins \in Int /\ rejoins \subseteq Joins /\ contacts \in Nat /\ searches \in Nat
    /\ JoinIsAlive

\* What lookups depend on.
GetInv ==
    /\ retrieving \in [Keys -> SUBSET Gets] /\ retrieved \in [Keys -> SUBSET Values]
    /\ finding \in [Keys -> Nat] /\ lookups \in [Keys -> Nat] /\ open \in BOOLEAN
    /\ GetsAreAlive
    /\ \A g \in Gets : status[g] = "pending" => \E k \in Keys : g \in retrieving[k]
    /\ \A k, l \in Keys : \A g \in Gets : g \in retrieving[k] /\ g \in retrieving[l] => k = l

\* What storages depend on.
StoreInv ==
    /\ storing \in [Pairs -> Stores \cup {None}] /\ storages \in [Pairs -> Nat]
    /\ StoresAreAlive
    /\ \A s \in Stores : status[s] = "pending" => \E p \in Pairs : s = storing[p]
    /\ \A p, q \in Pairs : storing[p] # None /\ storing[p] = storing[q] => p = q

StatusType == status \in [Calls -> {"none", "pending", "answered", "error", "refused", "dropped"}]

LEMMA Parts == IInv <=> StatusType /\ JoinInv /\ GetInv /\ StoreInv
  BY DEF IInv, TypeOK, NothingForgotten, OneWaitEach, StatusType, JoinInv, GetInv, StoreInv

LEMMA PartsNext ==
    ASSUME StatusType', JoinInv', GetInv', StoreInv'
    PROVE  IInv'
  BY DEF IInv, TypeOK, NothingForgotten, OneWaitEach, StatusType, JoinInv, GetInv, StoreInv

-----------------------------------------------------------------------------
(* Each part is left alone by a step that touches neither its variables nor the  *)
(* status of its calls.                                                          *)

LEMMA Apart ==
    /\ Joins \cap Gets = {} /\ Joins \cap Stores = {} /\ Gets \cap Stores = {}
    /\ None \notin Calls
    /\ Joins \subseteq Calls /\ Gets \subseteq Calls /\ Stores \subseteq Calls
    /\ Bootstraps \in Nat /\ Bootstraps > 0
  BY DHTAssumption DEF Calls

LEMMA JoinsLeftAlone ==
    ASSUME JoinInv, UNCHANGED <<bootstrap_node, joinVars>>, \A j \in Joins : status'[j] = status[j]
    PROVE  JoinInv'
  BY DEF JoinInv, JoinIsAlive, joinVars

LEMMA GetsLeftAlone ==
    ASSUME GetInv, UNCHANGED getVars, open' = open \/ open' = FALSE, \A g \in Gets : status'[g] = status[g]
    PROVE  GetInv'
<1>1. retrieving' = retrieving /\ retrieved' = retrieved /\ finding' = finding /\ lookups' = lookups
  BY DEF getVars
<1>a. open' \in BOOLEAN /\ (open' => open)
  <2>1. open \in BOOLEAN
    BY DEF GetInv
  <2>2. CASE open' = open
    BY <2>1, <2>2
  <2>3. CASE open' = FALSE
    BY <2>3
  <2>4. QED
    BY <2>2, <2>3
<1>2. GetsAreAlive'
  <2>1. ASSUME NEW k \in Keys, NEW g \in retrieving[k] PROVE status'[g] = "pending"
    BY <2>1 DEF GetInv, GetsAreAlive
  <2>2. QED
    BY <1>1, <1>a, <2>1 DEF GetInv, GetsAreAlive
<1>3. QED
  BY <1>1, <1>2, <1>a DEF GetInv

LEMMA StoresLeftAlone ==
    ASSUME StoreInv, UNCHANGED storeVars, \A s \in Stores : status'[s] = status[s]
    PROVE  StoreInv'
  BY DEF StoreInv, StoresAreAlive, storeVars

-----------------------------------------------------------------------------
(* The steps. *)

LEMMA InitIInv == Init => IInv
<1> SUFFICES ASSUME Init PROVE IInv
  OBVIOUS
<1>1. StatusType /\ \A c \in Calls : status[c] = "none"
  BY DEF Init, StatusType
<1>2. JoinInv
  <2>1. \A j \in Joins : j # None /\ status[j] = "none"
    BY <1>1, Apart
  <2>2. JoinIsAlive
    BY <2>1 DEF Init, JoinIsAlive
  <2>3. bootstrap_node \in BOOLEAN /\ joined \in BOOLEAN
    BY Zenon DEF Init
  <2>4. QED
    BY <2>2, <2>3 DEF Init, JoinInv
<1>3. GetInv
  BY <1>1, Apart DEF Init, GetInv, GetsAreAlive
<1>4. StoreInv
  BY <1>1, Apart DEF Init, StoreInv, StoresAreAlive
<1> QED
  BY <1>1, <1>2, <1>3, <1>4, Parts

\* A join that starts is alive.
LEMMA StartJoinStep ==
    ASSUME JoinInv, NEW j \in Joins, joining = None, StartJoin(j), UNCHANGED bootstrap_node,
           rejoins' \subseteq rejoins, j \notin rejoins',
           \A i \in Joins : status'[i] = "pending" <=> (i = j \/ i \in rejoins')
    PROVE  JoinInv'
<1>1. outstandingJoins' = Bootstraps /\ joining' = j /\ UNCHANGED <<joined, searches>>
      /\ contacts' = contacts + Bootstraps
  BY DEF StartJoin, AddContacts
<1>2. contacts \in Nat /\ contacts' \in Nat /\ outstandingJoins' <= contacts'
      /\ outstandingJoins' > 0 /\ outstandingJoins' \in Int
  BY <1>1, Apart DEF JoinInv
<1>3. QED
  BY <1>1, <1>2 DEF JoinInv, JoinIsAlive

LEMMA JoinStep == ASSUME IInv, NEW j \in Joins, Join(j) PROVE IInv'
<1>1. StatusType /\ JoinInv /\ GetInv /\ StoreInv
  BY Parts
<1>2. StatusType' /\ \A c \in Calls : c # j => status'[c] = status[c]
  BY <1>1, Apart DEF Join, StatusType
<1>3. GetInv' /\ StoreInv'
  BY <1>1, <1>2, Apart, GetsLeftAlone, StoresLeftAlone DEF Join
<1>4. j # joining /\ j \notin rejoins
  BY <1>1, Apart DEF Join, JoinInv, JoinIsAlive
<1>5. CASE joining # None
  <2>1. status' = [status EXCEPT ![j] = "refused"] /\ UNCHANGED <<bootstrap_node, joinVars>>
    BY <1>5 DEF Join
  <2>2. JoinInv'
    BY <1>1, <1>4, <2>1, Apart DEF JoinInv, JoinIsAlive, joinVars, StatusType
  <2>3. QED
    BY <1>2, <1>3, <2>2, PartsNext
<1>6. CASE joining = None
  <2>1. status' = [status EXCEPT ![j] = "pending"] /\ StartJoin(j)
        /\ UNCHANGED <<bootstrap_node, rejoins>>
    BY <1>6 DEF Join
  <2>2. \A i \in Joins : status'[i] = "pending" <=> (i = j \/ i \in rejoins')
    BY <1>1, <1>6, <2>1, Apart DEF JoinInv, JoinIsAlive, StatusType
  <2>3. JoinInv'
    BY <1>1, <1>4, <1>6, <2>1, <2>2, StartJoinStep
  <2>4. QED
    BY <1>2, <1>3, <2>3, PartsNext
<1>7. QED
  BY <1>5, <1>6

LEMMA RejoinStep == ASSUME IInv, NEW j \in Joins, Rejoin(j) PROVE IInv'
<1>1. StatusType /\ JoinInv /\ GetInv /\ StoreInv
  BY Parts
<1>2. /\ StatusType'
      /\ \A c \in Calls : c # j => status'[c] = status[c]
      /\ UNCHANGED <<getVars, storeVars, open>>
  BY <1>1, Apart DEF Rejoin, StatusType
<1>3. GetInv' /\ StoreInv'
  BY <1>1, <1>2, Apart, GetsLeftAlone, StoresLeftAlone
<1>4. j # joining /\ status[j] = "pending" /\ rejoins' = rejoins \ {j}
      /\ UNCHANGED bootstrap_node
  BY <1>1 DEF Rejoin, JoinInv, JoinIsAlive
<1>5. CASE joining # None
  <2>1. status' = [status EXCEPT ![j] = "error"]
        /\ UNCHANGED <<joining, joined, outstandingJoins, contacts, searches>>
    BY <1>5 DEF Rejoin
  <2>2. JoinInv'
    BY <1>1, <1>4, <2>1, Apart DEF JoinInv, JoinIsAlive, StatusType
  <2>3. QED
    BY <1>2, <1>3, <2>2, PartsNext
<1>6. CASE joining = None
  <2>1. status' = status /\ StartJoin(j)
    BY <1>6 DEF Rejoin
  <2>2. \A i \in Joins : status'[i] = "pending" <=> (i = j \/ i \in rejoins')
    BY <1>1, <1>4, <1>6, <2>1, Apart DEF JoinInv, JoinIsAlive
  <2>3. JoinInv'
    BY <1>1, <1>4, <1>6, <2>1, <2>2, StartJoinStep
  <2>4. QED
    BY <1>2, <1>3, <2>3, PartsNext
<1>7. QED
  BY <1>5, <1>6

LEMMA ContactEndsStep == ASSUME IInv, NEW addr \in BOOLEAN, ContactEnds(addr) PROVE IInv'
<1>1. StatusType /\ JoinInv /\ GetInv /\ StoreInv
  BY Parts
<1>2. UNCHANGED <<bootstrap_node, joining, joined, rejoins, getVars, storeVars, open, status>>
  BY DEF ContactEnds
<1>3. StatusType' /\ GetInv' /\ StoreInv'
  BY <1>1, <1>2, GetsLeftAlone, StoresLeftAlone DEF StatusType
<1>4. /\ outstandingJoins' = outstandingJoins - 1 /\ contacts' = contacts - 1 /\ contacts > 0
      /\ searches' = IF addr \/ outstandingJoins' <= 0 THEN searches + 1 ELSE searches
  BY DEF ContactEnds, FindCloseNodes
<1>5. JoinInv'
  BY <1>1, <1>2, <1>4 DEF JoinInv, JoinIsAlive
<1>6. QED
  BY <1>3, <1>5, PartsNext

LEMMA JoinCompleteStep == ASSUME IInv, NEW others \in BOOLEAN, JoinComplete(others) PROVE IInv'
<1>1. StatusType /\ JoinInv /\ GetInv /\ StoreInv
  BY Parts
<1>2. /\ UNCHANGED <<bootstrap_node, outstandingJoins, contacts, getVars, storeVars, open>>
      /\ searches' = searches - 1 /\ searches > 0
  BY DEF JoinComplete
<1>3. joining # None => joining \in Joins /\ joining \in Calls /\ joining \notin rejoins
  BY <1>1, Apart DEF JoinInv, JoinIsAlive
<1>4. CASE ~(joining # None /\ outstandingJoins <= 0)
  <2>1. joined' = (joined \/ others) /\ UNCHANGED <<joining, rejoins, status>>
    BY <1>4 DEF JoinComplete
  <2>2. StatusType' /\ GetInv' /\ StoreInv'
    BY <1>1, <1>2, <2>1, GetsLeftAlone, StoresLeftAlone DEF StatusType
  <2>3. JoinInv'
    BY <1>1, <1>2, <1>4, <2>1 DEF JoinInv, JoinIsAlive
  <2>4. QED
    BY <2>2, <2>3, PartsNext
<1>5. CASE joining # None /\ outstandingJoins <= 0
  <2>1. joining' = None /\ joined' \in BOOLEAN
        /\ \/ status' = [status EXCEPT ![joining] = "answered"] /\ rejoins' = rejoins
           \/ status' = status /\ rejoins' = rejoins \cup {joining}
    BY <1>1, <1>5 DEF JoinComplete, JoinInv
  <2>2. StatusType' /\ \A c \in Calls : c # joining => status'[c] = status[c]
    BY <1>1, <1>3, <2>1 DEF StatusType
  <2>3. GetInv' /\ StoreInv'
    BY <1>1, <1>2, <1>3, <1>5, <2>2, Apart, GetsLeftAlone, StoresLeftAlone
  <2>4. JoinInv'
    BY <1>1, <1>2, <1>3, <1>5, <2>1, Apart DEF JoinInv, JoinIsAlive, StatusType
  <2>5. QED
    BY <2>2, <2>3, <2>4, PartsNext
<1>6. QED
  BY <1>4, <1>5

LEMMA LeaveStep == ASSUME IInv, Leave PROVE IInv'
<1>1. StatusType /\ JoinInv /\ GetInv /\ StoreInv
  BY Parts
<1>2. /\ joining' = None /\ joined' = FALSE /\ open' = FALSE
      /\ UNCHANGED <<bootstrap_node, outstandingJoins, rejoins, contacts, searches, getVars, storeVars>>
      /\ status' = [c \in Calls |-> IF c = joining THEN "error" ELSE status[c]]
  BY DEF Leave
<1>3. StatusType' /\ \A c \in Calls : c # joining => status'[c] = status[c]
  BY <1>1, <1>2 DEF StatusType
<1>4. \A c \in Gets \cup Stores : c # joining
  BY <1>1, Apart DEF JoinInv
<1>5. GetInv' /\ StoreInv'
  BY <1>1, <1>2, <1>3, <1>4, Apart, GetsLeftAlone, StoresLeftAlone
<1>6. JoinInv'
  BY <1>1, <1>2, Apart DEF JoinInv, JoinIsAlive
<1>7. QED
  BY <1>3, <1>5, <1>6, PartsNext

LEMMA GetValueStep == ASSUME IInv, NEW g \in Gets, NEW k \in Keys, GetValue(g, k) PROVE IInv'
<1>1. StatusType /\ JoinInv /\ GetInv /\ StoreInv
  BY Parts
<1>2. UNCHANGED <<bootstrap_node, joinVars, storeVars, open>> /\ status[g] = "none"
  BY DEF GetValue
<1>3. StatusType' /\ \A c \in Calls : c # g => status'[c] = status[c]
  BY <1>1, Apart DEF GetValue, StatusType
<1>4. JoinInv' /\ StoreInv'
  BY <1>1, <1>2, <1>3, Apart, JoinsLeftAlone, StoresLeftAlone
<1>5. CASE ~joined
  <2>1. UNCHANGED getVars /\ status' = [status EXCEPT ![g] = "refused"]
    BY <1>5 DEF GetValue
  <2>2. GetInv'
    BY <1>1, <1>2, <2>1, Apart DEF GetInv, GetsAreAlive, StatusType, getVars
  <2>3. QED
    BY <1>3, <1>4, <2>2, PartsNext
<1>6. CASE joined
  <2>1. /\ status' = [status EXCEPT ![g] = "pending"]
        /\ retrieving' = [retrieving EXCEPT ![k] = @ \cup {g}]
        /\ finding' = [finding EXCEPT ![k] = IF retrieving[k] = {} THEN @ + 1 ELSE @]
        /\ retrieved' = retrieved /\ lookups' = lookups
    BY <1>6 DEF GetValue
  <2>2. \A l \in Keys : g \notin retrieving[l]
    BY <1>1, <1>2 DEF GetInv, GetsAreAlive
  <2>3. /\ retrieving' \in [Keys -> SUBSET Gets] /\ retrieved' \in [Keys -> SUBSET Values]
        /\ finding' \in [Keys -> Nat] /\ lookups' \in [Keys -> Nat] /\ open' \in BOOLEAN
    BY <1>1, <1>2, <2>1 DEF GetInv
  <2>4. \A l \in Keys : retrieving'[l] = IF l = k THEN retrieving[l] \cup {g} ELSE retrieving[l]
    BY <1>1, <2>1 DEF GetInv
  <2>5. \A c \in Calls : status'[c] = IF c = g THEN "pending" ELSE status[c]
    BY <1>1, <2>1 DEF StatusType
  <2>6. GetsAreAlive'
    <3>1. ASSUME NEW l \in Keys
          PROVE  /\ finding'[l] + lookups'[l] <= IF retrieving'[l] = {} THEN 0 ELSE 1
                 /\ open' /\ retrieving'[l] # {} => finding'[l] + lookups'[l] = 1
      <4>1. /\ finding[l] \in Nat /\ lookups[l] \in Nat /\ open' = open /\ lookups'[l] = lookups[l]
            /\ finding[l] + lookups[l] <= IF retrieving[l] = {} THEN 0 ELSE 1
            /\ open /\ retrieving[l] # {} => finding[l] + lookups[l] = 1
        BY <1>1, <1>2, <2>1 DEF GetInv, GetsAreAlive
      <4>2. CASE l = k
        <5>1. retrieving'[l] # {}
          BY <2>4, <4>2
        <5>2. finding'[l] = IF retrieving[l] = {} THEN finding[l] + 1 ELSE finding[l]
          BY <1>1, <2>1, <4>2 DEF GetInv
        <5>3. QED
          BY <4>1, <5>1, <5>2
      <4>3. CASE l # k
        <5>1. finding'[l] = finding[l] /\ retrieving'[l] = retrieving[l]
          BY <1>1, <2>1, <2>4, <4>3 DEF GetInv
        <5>2. QED
          BY <4>1, <5>1
      <4>4. QED
        BY <4>2, <4>3
    <3>2. ASSUME NEW l \in Keys, NEW h \in retrieving'[l]
          PROVE  h \in Gets /\ status'[h] = "pending"
      <4>1. h \in Gets
        BY <2>3, <3>2
      <4>2. h = g \/ h \in retrieving[l]
        <5>1. CASE l = k
          BY <2>4, <3>2, <5>1
        <5>2. CASE l # k
          BY <2>4, <3>2, <5>2
        <5>3. QED
          BY <5>1, <5>2
      <4>3. h = g \/ status[h] = "pending"
        BY <1>1, <4>2 DEF GetInv, GetsAreAlive
      <4>4. QED
        BY <2>5, <4>1, <4>3, Apart
    <3>3. ASSUME NEW l \in Keys, retrieved'[l] # {} PROVE lookups'[l] > 0
      BY <1>1, <2>1, <3>3 DEF GetInv, GetsAreAlive
    <3>4. QED
      BY <3>1, <3>2, <3>3 DEF GetsAreAlive
  <2>7. \A h \in Gets : status'[h] = "pending" => \E l \in Keys : h \in retrieving'[l]
    BY <1>1, <2>4, <2>5, Apart DEF GetInv
  <2>8. ASSUME NEW l \in Keys, NEW m \in Keys, NEW h \in Gets,
               h \in retrieving'[l], h \in retrieving'[m]
        PROVE  l = m
    <3>1. (h \in retrieving[l] \/ (h = g /\ l = k)) /\ (h \in retrieving[m] \/ (h = g /\ m = k))
      BY <2>4, <2>8
    <3>2. h = g => l = k /\ m = k
      BY <2>2, <3>1
    <3>3. h # g => l = m
      BY <1>1, <3>1 DEF GetInv
    <3>4. QED
      BY <3>2, <3>3
  <2>9. GetInv'
    BY <2>3, <2>6, <2>7, <2>8 DEF GetInv
  <2>10. QED
    BY <1>3, <1>4, <2>9, PartsNext
<1>7. QED
  BY <1>5, <1>6, <1>1 DEF JoinInv

LEMMA GotValuesStep ==
    ASSUME IInv, NEW k \in Keys, NEW values \in SUBSET Values, GotValues(k, values)
    PROVE  IInv'
<1>1. StatusType /\ JoinInv /\ GetInv /\ StoreInv
  BY Parts
<1>2. UNCHANGED <<bootstrap_node, joinVars, retrieving, finding, lookups, storeVars, open, status>>
      /\ retrieved' = [retrieved EXCEPT ![k] = @ \cup values] /\ lookups[k] > 0
  BY DEF GotValues
<1>3. StatusType' /\ JoinInv' /\ StoreInv'
  BY <1>1, <1>2, JoinsLeftAlone, StoresLeftAlone DEF StatusType
<1>4. GetInv'
  <2>1. retrieved' \in [Keys -> SUBSET Values]
    BY <1>1, <1>2 DEF GetInv
  <2>2. \A l \in Keys : retrieved'[l] # {} => lookups[l] > 0
    BY <1>1, <1>2 DEF GetInv, GetsAreAlive
  <2>3. GetsAreAlive'
    BY <1>1, <1>2, <2>2 DEF GetInv, GetsAreAlive
  <2>4. QED
    BY <1>1, <1>2, <2>1, <2>3 DEF GetInv
<1>5. QED
  BY <1>3, <1>4, PartsNext

\* The search for nodes ends one phase of a lookup, and begins the other if the
\* database is open.
LEMMA FindEndsStep == ASSUME IInv, NEW k \in Keys, FindEnds(k) PROVE IInv'
<1>1. StatusType /\ JoinInv /\ GetInv /\ StoreInv
  BY Parts
<1>2. /\ UNCHANGED <<bootstrap_node, joinVars, retrieving, retrieved, storeVars, open, status>>
      /\ finding[k] > 0
      /\ finding' = [finding EXCEPT ![k] = @ - 1]
      /\ lookups' = IF open THEN [lookups EXCEPT ![k] = @ + 1] ELSE lookups
  BY DEF FindEnds
<1>3. StatusType' /\ JoinInv' /\ StoreInv'
  BY <1>1, <1>2, JoinsLeftAlone, StoresLeftAlone DEF StatusType
<1>4. ASSUME NEW l \in Keys
      PROVE  /\ finding'[l] \in Nat /\ lookups'[l] \in Nat
             /\ lookups'[l] >= lookups[l]
             /\ finding'[l] + lookups'[l] <= finding[l] + lookups[l]
             /\ open => finding'[l] + lookups'[l] = finding[l] + lookups[l]
  <2>1. finding[l] \in Nat /\ lookups[l] \in Nat
    BY <1>1 DEF GetInv
  <2>2. /\ finding'[l] = IF l = k THEN finding[l] - 1 ELSE finding[l]
        /\ lookups'[l] = IF open /\ l = k THEN lookups[l] + 1 ELSE lookups[l]
    BY <1>1, <1>2 DEF GetInv
  <2>3. QED
    BY <1>2, <2>1, <2>2
<1>5. finding' \in [Keys -> Nat] /\ lookups' \in [Keys -> Nat]
  BY <1>1, <1>2, <1>4 DEF GetInv
<1>6. GetsAreAlive'
  <2>1. ASSUME NEW l \in Keys
        PROVE  /\ finding'[l] + lookups'[l] <= IF retrieving[l] = {} THEN 0 ELSE 1
               /\ open /\ retrieving[l] # {} => finding'[l] + lookups'[l] = 1
               /\ retrieved[l] # {} => lookups'[l] > 0
    <3>1. finding[l] \in Nat /\ lookups[l] \in Nat
      BY <1>1 DEF GetInv
    <3>2. QED
      BY <1>1, <1>4, <3>1 DEF GetInv, GetsAreAlive
  <2>2. QED
    BY <1>1, <1>2, <2>1 DEF GetInv, GetsAreAlive
<1>7. GetInv'
  BY <1>1, <1>2, <1>5, <1>6 DEF GetInv
<1>8. QED
  BY <1>3, <1>7, PartsNext

LEMMA LookupEndsStep ==
    ASSUME IInv, NEW k \in Keys, NEW more \in SUBSET Gets, LookupEnds(k, more)
    PROVE  IInv'
<1>1. StatusType /\ JoinInv /\ GetInv /\ StoreInv
  BY Parts
<1>2. /\ lookups[k] > 0
      /\ \A g \in more : status[g] = "none"
      /\ lookups' = [lookups EXCEPT ![k] = @ - 1]
      /\ retrieving' = [retrieving EXCEPT ![k] = {}]
      /\ retrieved' = [retrieved EXCEPT ![k] = {}]
      /\ UNCHANGED <<bootstrap_node, joinVars, finding, storeVars, open>>
  BY DEF LookupEnds
<1>3. status' = [c \in Calls |-> IF c \in retrieving[k] THEN "answered"
                                 ELSE IF c \in more THEN IF joined THEN "dropped" ELSE "refused"
                                 ELSE status[c]]
  BY DEF LookupEnds
<1>4. retrieving[k] \subseteq Gets
  BY <1>1 DEF GetInv
<1>5. /\ StatusType'
      /\ \A c \in Calls : c \notin retrieving[k] \cup more => status'[c] = status[c]
      /\ \A c \in Calls : status'[c] = "pending" => status[c] = "pending" /\ c \notin retrieving[k]
  BY <1>1, <1>3 DEF StatusType
<1>6. JoinInv' /\ StoreInv'
  BY <1>1, <1>2, <1>4, <1>5, Apart, JoinsLeftAlone, StoresLeftAlone
<1>7. /\ retrieving' \in [Keys -> SUBSET Gets] /\ retrieved' \in [Keys -> SUBSET Values]
      /\ lookups' \in [Keys -> Nat]
  BY <1>1, <1>2 DEF GetInv
<1>8. \A l \in Keys : /\ retrieving'[l] = IF l = k THEN {} ELSE retrieving[l]
                      /\ retrieved'[l] = IF l = k THEN {} ELSE retrieved[l]
                      /\ lookups'[l] = IF l = k THEN 0 ELSE lookups[l]
  <2>1. lookups[k] = 1
    BY <1>1, <1>2 DEF GetInv, GetsAreAlive
  <2>2. QED
    BY <1>1, <1>2, <2>1 DEF GetInv
<1>9. finding[k] = 0
  BY <1>1, <1>2 DEF GetInv, GetsAreAlive
<1>10. ASSUME NEW l \in Keys, NEW h \in retrieving'[l]
       PROVE  h \in Gets /\ status'[h] = "pending"
  <2>1. l # k /\ h \in retrieving[l] /\ h \in Gets
    BY <1>7, <1>8, <1>10
  <2>2. h \notin retrieving[k] /\ status[h] = "pending"
    BY <1>1, <2>1 DEF GetInv, GetsAreAlive
  <2>3. h \notin more
    BY <1>2, <2>2
  <2>4. QED
    BY <1>5, <2>1, <2>2, <2>3, Apart
<1>11. GetsAreAlive'
  <2>1. ASSUME NEW l \in Keys
        PROVE  /\ finding[l] + lookups'[l] <= IF retrieving'[l] = {} THEN 0 ELSE 1
               /\ open /\ retrieving'[l] # {} => finding[l] + lookups'[l] = 1
               /\ retrieved'[l] # {} => lookups'[l] > 0
    BY <1>1, <1>8, <1>9 DEF GetInv, GetsAreAlive
  <2>2. QED
    BY <1>2, <1>10, <2>1 DEF GetsAreAlive
<1>12. ASSUME NEW h \in Gets, status'[h] = "pending" PROVE \E l \in Keys : h \in retrieving'[l]
  <2>1. h \notin retrieving[k] /\ status[h] = "pending"
    BY <1>5, <1>12, Apart
  <2>2. QED
    BY <1>1, <1>8, <2>1 DEF GetInv
<1>13. \A l, m \in Keys : \A h \in Gets : h \in retrieving'[l] /\ h \in retrieving'[m] => l = m
  BY <1>1, <1>8 DEF GetInv
<1>14. GetInv'
  BY <1>1, <1>2, <1>7, <1>11, <1>12, <1>13 DEF GetInv
<1>15. QED
  BY <1>5, <1>6, <1>14, PartsNext

LEMMA StoreValueStep == ASSUME IInv, NEW s \in Stores, NEW p \in Pairs, StoreValue(s, p) PROVE IInv'
<1>1. StatusType /\ JoinInv /\ GetInv /\ StoreInv
  BY Parts
<1>2. UNCHANGED <<bootstrap_node, joinVars, getVars, open>> /\ status[s] = "none"
  BY DEF StoreValue
<1>3. StatusType' /\ \A c \in Calls : c # s => status'[c] = status[c]
  BY <1>1, Apart DEF StoreValue, StatusType
<1>4. JoinInv' /\ GetInv'
  BY <1>1, <1>2, <1>3, Apart, JoinsLeftAlone, GetsLeftAlone
<1>5. \A q \in Pairs : storing[q] # s
  BY <1>1, <1>2, Apart DEF StoreInv, StoresAreAlive
<1>6. CASE UNCHANGED storeVars /\ status' = [status EXCEPT ![s] = "refused"]
  <2>1. StoreInv'
    BY <1>1, <1>2, <1>5, <1>6, Apart DEF StoreInv, StoresAreAlive, StatusType, storeVars
  <2>2. QED
    BY <1>3, <1>4, <2>1, PartsNext
<1>7. CASE ~(UNCHANGED storeVars /\ status' = [status EXCEPT ![s] = "refused"])
  <2>1. /\ status' = [status EXCEPT ![s] = "pending"]
        /\ storing[p] = None
        /\ storing' = [storing EXCEPT ![p] = s]
        /\ storages' = [storages EXCEPT ![p] = @ + 1]
    BY <1>7 DEF StoreValue
  <2>2. /\ storing' \in [Pairs -> Stores \cup {None}] /\ storages' \in [Pairs -> Nat]
    BY <1>1, <2>1 DEF StoreInv
  <2>3. \A q \in Pairs : storing'[q] = IF q = p THEN s ELSE storing[q]
    BY <1>1, <2>1 DEF StoreInv
  <2>4. \A q \in Pairs : storages'[q] = IF q = p THEN 1 ELSE storages[q]
    BY <1>1, <2>1 DEF StoreInv, StoresAreAlive
  <2>5. s # None /\ status'[s] = "pending"
    BY <1>1, <2>1, Apart DEF StatusType
  <2>6. StoresAreAlive'
    <3>1. ASSUME NEW q \in Pairs
          PROVE  /\ storages'[q] = IF storing'[q] = None THEN 0 ELSE 1
                 /\ storing'[q] # None => status'[storing'[q]] = "pending"
      <4>1. CASE q = p
        BY <2>3, <2>4, <2>5, <4>1
      <4>2. CASE q # p
        <5>1. storing'[q] = storing[q] /\ storages'[q] = storages[q]
          BY <2>3, <2>4, <4>2
        <5>2. storing[q] # None => status'[storing[q]] = status[storing[q]]
          BY <1>1, <1>3, <1>5, Apart DEF StoreInv
        <5>3. QED
          BY <1>1, <5>1, <5>2 DEF StoreInv, StoresAreAlive
      <4>3. QED
        BY <4>1, <4>2
    <3>2. QED
      BY <3>1 DEF StoresAreAlive
  <2>7. ASSUME NEW t \in Stores, status'[t] = "pending" PROVE \E q \in Pairs : t = storing'[q]
    <3>1. CASE t = s
      BY <2>3, <3>1
    <3>2. CASE t # s
      <4>1. PICK q \in Pairs : t = storing[q]
        BY <1>1, <1>3, <2>7, <3>2, Apart DEF StoreInv
      <4>2. q # p
        BY <2>1, <4>1, Apart
      <4>3. QED
        BY <2>3, <4>1, <4>2
    <3>3. QED
      BY <3>1, <3>2
  <2>8. \A q, r \in Pairs : storing'[q] # None /\ storing'[q] = storing'[r] => q = r
    BY <1>1, <1>5, <2>3 DEF StoreInv
  <2>9. StoreInv'
    BY <2>2, <2>6, <2>7, <2>8 DEF StoreInv
  <2>10. QED
    BY <1>3, <1>4, <2>9, PartsNext
<1>8. QED
  BY <1>6, <1>7

LEMMA StorageEndsStep ==
    ASSUME IInv, NEW p \in Pairs, NEW outcome \in {"answered", "error"}, StorageEnds(p, outcome)
    PROVE  IInv'
<1>1. StatusType /\ JoinInv /\ GetInv /\ StoreInv
  BY Parts
<1>2. /\ storages[p] > 0
      /\ storages' = [storages EXCEPT ![p] = @ - 1]
      /\ storing' = [storing EXCEPT ![p] = None]
      /\ status' = [c \in Calls |-> IF c = storing[p] THEN outcome ELSE status[c]]
      /\ UNCHANGED <<bootstrap_node, joinVars, getVars, open>>
  BY DEF StorageEnds
<1>3. StatusType' /\ \A c \in Calls : c # storing[p] => status'[c] = status[c]
  BY <1>1, <1>2 DEF StatusType
<1>4. storing[p] \in Stores /\ storages[p] = 1
  BY <1>1, <1>2 DEF StoreInv, StoresAreAlive
<1>5. JoinInv' /\ GetInv'
  BY <1>1, <1>2, <1>3, <1>4, Apart, JoinsLeftAlone, GetsLeftAlone
<1>6. /\ storing' \in [Pairs -> Stores \cup {None}] /\ storages' \in [Pairs -> Nat]
      /\ \A q \in Pairs : /\ storing'[q] = (IF q = p THEN None ELSE storing[q])
                         /\ storages'[q] = IF q = p THEN 0 ELSE storages[q]
  BY <1>1, <1>2, <1>4 DEF StoreInv
<1>7. ASSUME NEW q \in Pairs, storing'[q] # None PROVE status'[storing'[q]] = "pending"
  <2>1. q # p /\ storing'[q] = storing[q] /\ storing[q] \in Stores
    BY <1>1, <1>6, <1>7 DEF StoreInv
  <2>2. storing[q] # storing[p]
    BY <1>1, <2>1, <1>7 DEF StoreInv
  <2>3. QED
    BY <1>1, <1>3, <1>7, <2>1, <2>2, Apart DEF StoreInv, StoresAreAlive
<1>8. StoresAreAlive'
  BY <1>1, <1>6, <1>7 DEF StoreInv, StoresAreAlive
<1>9. ASSUME NEW t \in Stores, status'[t] = "pending" PROVE \E q \in Pairs : t = storing'[q]
  <2>1. t # storing[p] /\ status[t] = "pending"
    BY <1>2, <1>3, <1>9, Apart
  <2>2. PICK q \in Pairs : t = storing[q]
    BY <1>1, <2>1 DEF StoreInv
  <2>3. QED
    BY <1>6, <2>1, <2>2
<1>10. \A q, r \in Pairs : storing'[q] # None /\ storing'[q] = storing'[r] => q = r
  BY <1>1, <1>6 DEF StoreInv
<1>11. StoreInv'
  BY <1>6, <1>8, <1>9, <1>10 DEF StoreInv
<1>12. QED
  BY <1>3, <1>5, <1>11, PartsNext

LEMMA NextIInv == IInv /\ [Next]_vars => IInv'
<1> SUFFICES ASSUME IInv, [Next]_vars PROVE IInv'
  OBVIOUS
<1>1. CASE \E j \in Joins : Join(j) \/ Rejoin(j)
  BY <1>1, JoinStep, RejoinStep
<1>2. CASE \E addr \in BOOLEAN : ContactEnds(addr)
  BY <1>2, ContactEndsStep
<1>3. CASE \E others \in BOOLEAN : JoinComplete(others)
  BY <1>3, JoinCompleteStep
<1>4. CASE Leave
  BY <1>4, LeaveStep
<1>5. CASE \E g \in Gets, k \in Keys : GetValue(g, k)
  BY <1>5, GetValueStep
<1>6. CASE \E k \in Keys, values \in SUBSET Values : GotValues(k, values)
  BY <1>6, GotValuesStep
<1>7. CASE \E k \in Keys : FindEnds(k)
  BY <1>7, FindEndsStep
<1>a. CASE \E k \in Keys, more \in SUBSET Gets : LookupEnds(k, more)
  BY <1>a, LookupEndsStep
<1>8. CASE \E s \in Stores, p \in Pairs : StoreValue(s, p)
  BY <1>8, StoreValueStep
<1>9. CASE \E p \in Pairs, outcome \in {"answered", "error"} : StorageEnds(p, outcome)
  BY <1>9, StorageEndsStep
<1>10. CASE UNCHANGED vars
  BY <1>10 DEF vars, joinVars, getVars, storeVars, IInv, TypeOK, NothingForgotten, JoinIsAlive,
               GetsAreAlive, StoresAreAlive, OneWaitEach
<1>11. QED
  BY <1>1, <1>2, <1>3, <1>4, <1>5, <1>6, <1>7, <1>a, <1>8, <1>9, <1>10 DEF Next

-----------------------------------------------------------------------------
(* The theorems. *)

\* The inductive invariant holds in every reachable state of the facade.
THEOREM Inductive == Safety => []IInv
  BY InitIInv, NextIInv, PTL DEF Safety

\* The state of the DHT class is always well formed.
THEOREM TypeCorrect == Spec => []TypeOK
<1>1. IInv => TypeOK
  BY DEF IInv
<1>2. QED
  BY <1>1, Inductive, PTL DEF Spec

\* No call of join or storeValue is ever forgotten, nor one of getValue as long as the
\* node never leaves: it waits for something that is under way, whatever the other
\* callers and late answers do.  What leave can lose is what GetsAreAlive leaves out.
THEOREM NeverForgotten == Spec => []NothingForgotten
<1>1. IInv => NothingForgotten
  BY DEF IInv
<1>2. QED
  BY <1>1, Inductive, PTL DEF Spec

-----------------------------------------------------------------------------
(* The refinement of RequestOnce. *)

Outcome == {"answered", "error"}

\* Calls that waited and fire together conclude together.
LEMMA ConcludeTogether ==
    ASSUME StatusType, NEW R \in SUBSET Calls, R # {}, NEW outcome \in Outcome,
           \A c \in R : status[c] = "pending",
           status' = [c \in Calls |-> IF c \in R THEN outcome ELSE status[c]]
    PROVE  Once!Next
<1>1. PICK first \in R : TRUE
  OBVIOUS
<1>2. \A c \in R : Told[c] = "pending"
  BY DEF Told
<1>3. Told' = [c \in Calls |-> IF c = first THEN outcome
                               ELSE IF c \in R THEN outcome ELSE Told[c]]
  BY <1>1 DEF Told, Outcome
<1>4. outcome \in Once!Outcomes
  BY DEF Outcome, Once!Outcomes
<1>5. Once!Conclude(R)
  BY <1>1, <1>2, <1>3, <1>4 DEF Once!Conclude
<1>6. Once!Concluded = R
  BY <1>2, <1>3 DEF Once!Concluded, Outcome
<1>7. QED
  BY <1>5, <1>6 DEF Once!Next

LEMMA OneConcludes ==
    ASSUME StatusType, NEW c \in Calls, NEW outcome \in Outcome, status[c] = "pending",
           status' = [status EXCEPT ![c] = outcome]
    PROVE  Once!Next
<1>1. status' = [d \in Calls |-> IF d \in {c} THEN outcome ELSE status[d]]
  BY DEF StatusType
<1>2. QED
  BY <1>1, ConcludeTogether

\* Calls that waited fire together, and others are made in their callbacks.
LEMMA ConcludeWithCalls ==
    ASSUME StatusType, NEW R \in SUBSET Calls, R # {}, NEW outcome \in Outcome,
           NEW N \in SUBSET Calls, NEW s \in {"dropped", "refused"},
           \A c \in R : status[c] = "pending", \A c \in N : status[c] = "none",
           status' = [c \in Calls |-> IF c \in R THEN outcome ELSE IF c \in N THEN s ELSE status[c]]
    PROVE  Once!Next
<1> DEFINE issued == IF s = "refused" THEN "stopped" ELSE "pending"
<1>1. \A c \in R : Told[c] = "pending"
  BY DEF Told
<1>2. \A c \in N : Told[c] = "none"
  BY DEF Told
<1>3. Told' = [c \in Calls |-> IF c \in R THEN outcome ELSE IF c \in N THEN issued ELSE Told[c]]
  BY DEF Told, Outcome
<1>4. outcome \in Once!Outcomes /\ issued \in {"pending", "stopped"} /\ outcome # "pending"
      /\ issued # "none"
  BY DEF Outcome, Once!Outcomes
<1>5. Once!ConcludeAndIssue(R, N)
  <2> HIDE DEF issued
  <2>1. QED
    BY <1>1, <1>2, <1>3, <1>4 DEF Once!ConcludeAndIssue
<1>6. R \cap N = {}
  BY <1>1, <1>2
<1>7. Once!Concluded = R /\ Once!Issued = N
  <2> HIDE DEF issued
  <2>1. \A c \in Calls : Told'[c] = IF c \in R THEN outcome ELSE IF c \in N THEN issued ELSE Told[c]
    BY <1>3
  <2>2. Once!Concluded = R
    BY <1>1, <1>2, <1>4, <2>1 DEF Once!Concluded
  <2>3. Once!Issued = N
    BY <1>1, <1>2, <1>4, <1>6, <2>1 DEF Once!Issued
  <2>4. QED
    BY <2>2, <2>3
<1>8. QED
  BY <1>5, <1>7 DEF Once!Next

\* A call that is made waits or is refused.
LEMMA CallIsIssue ==
    ASSUME StatusType, NEW c \in Calls, NEW s \in {"pending", "refused"}, status[c] = "none",
           status' = [status EXCEPT ![c] = s]
    PROVE  Once!Next
<1>1. Told[c] = "none"
  BY DEF Told
<1>2. Told' = [Told EXCEPT ![c] = IF s = "refused" THEN "stopped" ELSE s]
  BY DEF Told, StatusType
<1>3. Once!Issue(c)
  BY <1>1, <1>2 DEF Once!Issue
<1>4. QED
  BY <1>3 DEF Once!Next

LEMMA NextIsOnce == IInv /\ [Next]_vars => [Once!Next]_Told
<1> SUFFICES ASSUME IInv, [Next]_vars PROVE [Once!Next]_Told
  OBVIOUS
<1> USE Apart
<1>a. StatusType /\ JoinInv /\ GetInv /\ StoreInv
  BY Parts
<1>b. ASSUME status' = status PROVE Told' = Told
  BY <1>b DEF Told
<1>1. ASSUME NEW j \in Joins, Join(j) PROVE Once!Next
  BY <1>a, <1>1, CallIsIssue DEF Join
<1>2. ASSUME NEW j \in Joins, Rejoin(j) PROVE [Once!Next]_Told
  <2>1. status[j] = "pending"
    BY <1>a, <1>2 DEF Rejoin, JoinInv, JoinIsAlive
  <2>2. status' = status \/ status' = [status EXCEPT ![j] = "error"]
    BY <1>2 DEF Rejoin
  <2>3. QED
    BY <1>a, <1>b, <2>1, <2>2, OneConcludes DEF Outcome
<1>3. ASSUME NEW others \in BOOLEAN, JoinComplete(others) PROVE [Once!Next]_Told
  <2>1. status' = status \/ (joining # None /\ status' = [status EXCEPT ![joining] = "answered"])
    BY <1>3 DEF JoinComplete
  <2>2. joining # None => joining \in Calls /\ status[joining] = "pending"
    BY <1>a DEF JoinInv, JoinIsAlive
  <2>3. QED
    BY <1>a, <1>b, <2>1, <2>2, OneConcludes DEF Outcome
<1>4. ASSUME Leave PROVE [Once!Next]_Told
  <2>1. status' = [c \in Calls |-> IF c = joining THEN "error" ELSE status[c]]
    BY <1>4 DEF Leave
  <2>2. CASE joining = None
    <3>1. status' = status
      BY <1>a, <2>1, <2>2 DEF StatusType
    <3>2. QED
      BY <1>b, <3>1
  <2>3. CASE joining # None
    <3>1. joining \in Calls /\ status[joining] = "pending"
      BY <1>a, <2>3 DEF JoinInv, JoinIsAlive
    <3>2. status' = [status EXCEPT ![joining] = "error"]
      BY <1>a, <2>1, <3>1 DEF StatusType
    <3>3. QED
      BY <1>a, <3>1, <3>2, OneConcludes DEF Outcome
  <2>4. QED
    BY <2>2, <2>3
<1>5. ASSUME NEW g \in Gets, NEW k \in Keys, GetValue(g, k) PROVE Once!Next
  BY <1>a, <1>5, CallIsIssue DEF GetValue
<1>6. ASSUME NEW k \in Keys, NEW more \in SUBSET Gets, LookupEnds(k, more) PROVE Once!Next
  <2>1. PICK made \in {"dropped", "refused"} :
            status' = [c \in Calls |-> IF c \in retrieving[k] THEN "answered"
                                      ELSE IF c \in more THEN made ELSE status[c]]
    <3>1. CASE joined
      BY <1>6, <3>1 DEF LookupEnds
    <3>2. CASE ~joined
      BY <1>6, <3>2 DEF LookupEnds
    <3>3. QED
      BY <3>1, <3>2
  <2>2. lookups[k] > 0 /\ \A c \in more : status[c] = "none"
    BY <1>6 DEF LookupEnds
  <2>3. retrieving[k] # {} /\ \A c \in retrieving[k] : status[c] = "pending"
    BY <1>a, <2>2 DEF GetInv, GetsAreAlive
  <2>4. retrieving[k] \in SUBSET Calls /\ more \in SUBSET Calls /\ "answered" \in Outcome
    BY <1>a DEF GetInv, Outcome
  <2> DEFINE R == retrieving[k]
  <2>5. R \in SUBSET Calls /\ R # {} /\ \A c \in R : status[c] = "pending"
    BY <2>3, <2>4
  <2>6. status' = [c \in Calls |-> IF c \in R THEN "answered" ELSE IF c \in more THEN made ELSE status[c]]
    BY <2>1
  <2> HIDE DEF R
  <2>7. QED
    BY <1>a, <2>2, <2>4, <2>5, <2>6, ConcludeWithCalls
<1>7. ASSUME NEW s \in Stores, NEW p \in Pairs, StoreValue(s, p) PROVE Once!Next
  BY <1>a, <1>7, CallIsIssue DEF StoreValue
<1>8. ASSUME NEW p \in Pairs, NEW outcome \in Outcome, StorageEnds(p, outcome) PROVE Once!Next
  <2>1. /\ storages[p] > 0
        /\ status' = [c \in Calls |-> IF c = storing[p] THEN outcome ELSE status[c]]
    BY <1>8 DEF StorageEnds
  <2>2. storing[p] \in Calls /\ status[storing[p]] = "pending"
    BY <1>a, <2>1 DEF StoreInv, StoresAreAlive
  <2>3. status' = [status EXCEPT ![storing[p]] = outcome]
    BY <1>a, <2>1, <2>2 DEF StatusType
  <2>4. QED
    BY <1>a, <2>2, <2>3, OneConcludes
<1>9. ASSUME status' = status PROVE [Once!Next]_Told
  BY <1>b, <1>9
<1>10. QED
  <2>1. CASE UNCHANGED vars
    BY <1>9, <2>1 DEF vars
  <2>2. CASE \E addr \in BOOLEAN : ContactEnds(addr)
    BY <1>9, <2>2 DEF ContactEnds
  <2>3. CASE \E k \in Keys, values \in SUBSET Values : GotValues(k, values)
    BY <1>9, <2>3 DEF GotValues
  <2>4. CASE \E k \in Keys : FindEnds(k)
    BY <1>9, <2>4 DEF FindEnds
  <2>5. CASE \E p \in Pairs, outcome \in {"answered", "error"} : StorageEnds(p, outcome)
    BY <1>8, <2>5 DEF Outcome
  <2>6. QED
    BY <1>1, <1>2, <1>3, <1>4, <1>5, <1>6, <1>7, <2>1, <2>2, <2>3, <2>4, <2>5 DEF Next

\* The facade implements the safety part of the one-shot promise: a Deferred that
\* join, getValue or storeValue has returned fires at most once, and for all.
THEOREM RefinesRequestOnce == Spec => OnceSafety
<1>1. Init => Once!Init
  BY DEF Init, Once!Init, Told
<1>2. QED
  BY <1>1, Inductive, NextIsOnce, PTL DEF Spec, Safety, Once!Safety, OnceSafety
=============================================================================
