--------------------------- MODULE KhashmirStore ---------------------------
(***************************************************************************)
(* What a DHT node keeps for others: the values of a key in the database   *)
(* (db.py), the secrets its tokens are made from, and the checkpoint that  *)
(* renews the secrets and expires values; with the requests that read and  *)
(* write them (find_node, store_value and get_value of khashmir.py) and    *)
(* the shortening of long responses in krpc.py.  The database outlives the *)
(* process, the secrets do not.                                            *)
(*                                                                         *)
(* Times are ages: how long ago something happened, counted as far as a    *)
(* property tells them apart.  Every secret is a new random ID: a secret   *)
(* is known by its place among the node's secrets.  A token is hashed from *)
(* a secret and a host's address, so that it is of no use to another host. *)
(* A value has the length of its bencoded form.                            *)
(***************************************************************************)
EXTENDS Integers, Sequences, FiniteSets, FiniteSetsExt, SequencesExt

CONSTANTS
    Hosts,              \* hosts that send requests
    Values,             \* values that may be stored under the key
    Size,               \* the length of each value, bencoded
    Overhead,           \* the length of the rest of a get_value response
    UDP_PACKET_LIMIT,   \* the length up to which a response is not shortened
    NoTime,
    KEY_EXPIRE,         \* time after which a value is too old
    FirstCheckpoint,    \* time from the start to the first checkpoint
    MinInterval,        \* shortest and
    MaxInterval         \* longest time from a checkpoint to the next

ASSUME SizeAssumption ==
    /\ IsFiniteSet(Hosts)
    /\ IsFiniteSet(Values)
    /\ Size \in [Values -> Nat \ {0}]
    /\ Overhead \in Nat
    /\ UDP_PACKET_LIMIT \in Nat
    /\ Overhead + 2 <= UDP_PACKET_LIMIT
ASSUME TimeAssumption ==
    /\ KEY_EXPIRE \in Nat
    /\ FirstCheckpoint \in Nat \ {0}
    /\ MinInterval \in Nat \ {0}
    /\ MaxInterval \in Nat
    /\ FirstCheckpoint <= MinInterval
    /\ MinInterval <= MaxInterval
ASSUME NoTimeAssumption == NoTime \notin Int

VARIABLES
    uptime,         \* how long ago the process was started, or NoTime while it is down
    next_checkpoint,\* time left until the next checkpoint
    secrets,        \* the number of self.token_secrets, of which the first is the newest
    kv,             \* the table kv: how long ago a value was stored last, or NoTime
    tokens,         \* the token that a host got last, with its age, or NoTime
    reply           \* the response to get_value that the last step sent, if it did

storeVars == <<uptime, next_checkpoint, secrets, kv, tokens, reply>>

\* Ages are not counted beyond the point where no property tells them apart.
AgeCap == Max({KEY_EXPIRE + MaxInterval, 3 * MaxInterval}) + 1
Ages == 0..AgeCap
Older(age) == IF age = NoTime THEN NoTime ELSE Min({age + 1, AgeCap})

\* Places of secrets; the last one stands for all that are out of the list.
Gone == 5
Places == 1..Gone

Replies == [asked : Seq(Values), sent : Int \cup {NoTime}]
NoReply == [asked |-> <<>>, sent |-> 0]

StoreTypeOK ==
    /\ uptime \in Ages \cup {NoTime}
    /\ next_checkpoint \in 0..MaxInterval
    /\ secrets \in 0..3
    /\ kv \in [Values -> Ages \cup {NoTime}]
    /\ tokens \in [Hosts -> [secret : Places, age : Ages, ours : BOOLEAN] \cup {NoTime}]
    /\ reply \in Replies

Running == uptime # NoTime

\* Khashmir.setup with a new database.
StoreInit ==
    /\ uptime = 0
    /\ next_checkpoint = FirstCheckpoint
    /\ secrets = 1
    /\ kv = [v \in Values |-> NoTime]
    /\ tokens = [host \in Hosts |-> NoTime]
    /\ reply = NoReply

-----------------------------------------------------------------------------
(* Time, checkpoints, restarts. *)

\* Time passes; a checkpoint that is due is run before it does.
Tick ==
    /\ Running => next_checkpoint > 0
    /\ uptime' = IF Running THEN Min({uptime + 1, FirstCheckpoint + 1}) ELSE NoTime
    /\ next_checkpoint' = IF Running THEN next_checkpoint - 1 ELSE next_checkpoint
    /\ kv' = [v \in Values |-> Older(kv[v])]
    /\ tokens' = [host \in Hosts |->
         IF tokens[host] = NoTime THEN NoTime ELSE [tokens[host] EXCEPT !.age = Older(@)]]
    /\ reply' = NoReply
    /\ UNCHANGED secrets

\* DB.expireValues.
Expired(rows) ==
    [v \in Values |-> IF rows[v] # NoTime /\ rows[v] > KEY_EXPIRE THEN NoTime ELSE rows[v]]

\* A checkpoint that keeps the given number of secrets, besides what it does to rows.
CheckpointKeeping(count) ==
    /\ Running
    /\ next_checkpoint = 0
    /\ secrets' = Min({secrets + 1, count})
    /\ tokens' = [host \in Hosts |->
         IF tokens[host] = NoTime THEN NoTime
         ELSE [tokens[host] EXCEPT !.secret = IF @ < count THEN @ + 1 ELSE Gone]]
    /\ kv' = Expired(kv)
    /\ \E interval \in MinInterval..MaxInterval : next_checkpoint' = interval
    /\ reply' = NoReply
    /\ UNCHANGED uptime

\* Mutant of Checkpoint: one secret less is kept.
HastyCheckpoint == CheckpointKeeping(2)

\* KhashmirBase.checkpoint: a new secret, at most three of them, no old values, and
\* the next checkpoint.  Its dump of the routing table is in KTable.
Checkpoint == CheckpointKeeping(3)

\* The process ends, by shutdown or otherwise: what is in the database stays.
Crash ==
    /\ Running
    /\ uptime' = NoTime
    /\ secrets' = 0
    /\ tokens' = [host \in Hosts |->
         IF tokens[host] = NoTime THEN NoTime ELSE [tokens[host] EXCEPT !.secret = Gone, !.ours = FALSE]]
    /\ reply' = NoReply
    /\ UNCHANGED <<next_checkpoint, kv>>

RestartWith(checkpoint) ==
    /\ ~Running
    /\ uptime' = 0
    /\ secrets' = 1
    /\ next_checkpoint' = checkpoint
    /\ reply' = NoReply
    /\ UNCHANGED <<kv, tokens>>

\* Mutant of Restart: the first checkpoint is as late as any.
LazyRestart == RestartWith(MaxInterval)

\* Khashmir.setup with the database of an earlier process.
Restart == RestartWith(FirstCheckpoint)

-----------------------------------------------------------------------------
(* Requests. *)

\* krpc_find_node: the response has a token for the sender's host.
FindNode(host) ==
    /\ Running
    /\ tokens' = [tokens EXCEPT ![host] = [secret |-> 1, age |-> 0, ours |-> TRUE]]
    /\ reply' = NoReply
    /\ UNCHANGED <<uptime, next_checkpoint, secrets, kv>>

\* Whether krpc_store_value accepts a host's token.
Accepts(host) ==
    tokens[host] # NoTime /\ tokens[host].secret \in 1..secrets

\* krpc_store_value and DB.storeValue, if the token is accepted; if not, the sender
\* gets an error and nothing changes.
StoreValue(host, value) ==
    /\ Running
    /\ Accepts(host)
    /\ kv' = [kv EXCEPT ![value] = 0]
    /\ reply' = NoReply
    /\ UNCHANGED <<uptime, next_checkpoint, secrets, tokens>>

\* The characters of the first k values of s, and the length of the bencoded list.
Characters(s, k) == UNION {{i} \X (1..Size[s[i]]) : i \in 1..k}

ListLength(s, k) == 2 + Cardinality(Characters(s, k))

Length(s, k) == Overhead + ListLength(s, k)

\* _sendResponse's first guess: as many values as fit if all were equally long.
\* Python's ceil(excess / per_value), with per_value = (ListLength - 2) / Len.
FirstGuess(s) ==
    LET all == ListLength(s, Len(s)) - 2
        excess == Length(s, Len(s)) - UDP_PACKET_LIMIT
    IN  Len(s) - ((excess * Len(s) + all - 1) \div all)

\* The loops that correct the guess, upwards and then downwards.
Corrected(s, guess) ==
    LET room == UDP_PACKET_LIMIT - Overhead
        up == Min({m \in guess..Len(s) : ListLength(s, m) >= room \/ m + 1 >= Len(s)})
    IN  Max({m \in 0..up : ListLength(s, m) <= room \/ m = 0})

\* Mutant of Sent: the guess is corrected downwards only.
GuessedSent(s) ==
    IF Length(s, Len(s)) <= UDP_PACKET_LIMIT THEN Len(s)
    ELSE LET guess == FirstGuess(s)
             num == Max({m \in 0..guess : Length(s, m) <= UDP_PACKET_LIMIT \/ m = 0})
         IN  IF num > 0 /\ Length(s, num) < UDP_PACKET_LIMIT THEN num ELSE NoTime

\* How many of the values krpc.py's _sendResponse sends; NoTime if one of its
\* assertions fails, which makes it send an error instead.
Sent(s) ==
    IF Length(s, Len(s)) <= UDP_PACKET_LIMIT THEN Len(s)
    ELSE LET num == Corrected(s, FirstGuess(s))
         IN  IF num > 0 /\ Length(s, num) < UDP_PACKET_LIMIT THEN num ELSE NoTime

\* krpc_get_value for at most num values, or all if num is 0: the stored values in
\* any order, as the database gives them or shuffled.
GetValue(num) ==
    LET stored == {v \in Values : kv[v] # NoTime}
        count == IF num = 0 THEN Cardinality(stored) ELSE Min({num, Cardinality(stored)})
    IN  /\ Running
        /\ \E chosen \in kSubset(count, stored) : \E s \in SetToSeqs(chosen) :
             reply' = [asked |-> s, sent |-> Sent(s)]
        /\ UNCHANGED <<uptime, next_checkpoint, secrets, kv, tokens>>

-----------------------------------------------------------------------------

StoreNext ==
    \/ Tick
    \/ Checkpoint
    \/ Crash
    \/ Restart
    \/ \E host \in Hosts : FindNode(host)
    \/ \E host \in Hosts, value \in Values : StoreValue(host, value)
    \/ \E num \in 0..Cardinality(Values) : GetValue(num)

StoreSpec == StoreInit /\ [][StoreNext]_storeVars

-----------------------------------------------------------------------------
(* Properties. *)

\* A token is good for two full intervals between checkpoints, long enough for the
\* search that got it and the storage that uses it, and for three at most: it is
\* accepted for the first two and refused after the third, and by a later process.
TokenLifetime ==
    Running => \A host \in Hosts :
        tokens[host] # NoTime =>
            LET age == tokens[host].age
                ours == tokens[host].ours
            IN  /\ ours /\ age < 2 * MinInterval => Accepts(host)
                /\ ~ours \/ age > 3 * MaxInterval => ~Accepts(host)

\* From the first checkpoint of a process on, no value is given to others that is older
\* than KEY_EXPIRE by more than the time between two checkpoints, however often the
\* process was restarted: the checkpoint that follows every start comes soon.
NothingOutdated ==
    Running /\ uptime > FirstCheckpoint =>
        \A v \in Values : kv[v] # NoTime => kv[v] <= KEY_EXPIRE + MaxInterval

\* The longest packet the limit allows.
Longest(s) == Max({0} \cup {k \in 1..Len(s) : Length(s, k) <= UDP_PACKET_LIMIT})

\* A response to get_value has as many of the values as fit into a packet, however
\* different their lengths; it is an error if not even one fits, or if those that
\* fit fill the packet to its last byte.
ReplyIsLongest ==
    LET longest == Longest(reply.asked)
    IN  reply.sent =
          IF longest = Len(reply.asked) THEN longest
          ELSE IF longest = 0 \/ Length(reply.asked, longest) = UDP_PACKET_LIMIT THEN NoTime
          ELSE longest
=============================================================================
