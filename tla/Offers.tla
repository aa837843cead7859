-------------------------------- MODULE Offers --------------------------------
(***************************************************************************)
(* How a transaction of several parties comes together: the pool of offers *)
(* waiting for signatures on each node (crates/view/src/pending.rs), the   *)
(* mempool an assembled envelope is queued in (crates/node/src/mempool.rs) *)
(* and the commit that takes it out and may give a newcomer an account.    *)
(*                                                                         *)
(* Requests are flooded: a signature or a refusal, once made, may reach a  *)
(* node late, twice or never.  A signature is over the transaction alone,  *)
(* so requests for one offer may ask for different signers: an entry keeps *)
(* those of the request that opened it.  The rate limiter, and what else   *)
(* may refuse an envelope at the door, is a request that never arrives.  A *)
(* member has one key and is known by it.                                  *)
(***************************************************************************)
EXTENDS Naturals, Sequences, FiniteSets, FiniteSetsExt, SequencesExt

CONSTANTS
    Nodes, Keys,
    Founders,        \* the keys with an account at genesis
    Offers,          \* bound: the transactions ever offered
    Requests,        \* bound: the signatures ever made, and what each asks for
    Refusals,        \* bound: <<offer, key>> that decline one
    MaxEntries, Share, MaxInvited, MaxTombstones, Ttl,
    MaxQueue, SeenCap, MaxBatch,
    Doors, MayRestart,               \* bound: the nodes requests reach, or that restart
    MaxTime, MaxBlocks, MaxClosed    \* bounds

NoKey == 0

Minus(x, y) == IF x > y THEN x - y ELSE 0

\* The transaction offered: need of parties have to sign it, byKey are those it
\* names by a key, and a trade has a buyer and a seller.
Transactions == [id : Nat, parties : SUBSET Keys, need : Nat, byKey : SUBSET Keys,
                 buyer : Keys \cup {NoKey}, seller : Keys \cup {NoKey}]

\* What a request asks for: min of a list of len parties, as accounts or by key.
Asking == [members : SUBSET Keys, fresh : SUBSET Keys, len : Nat, min : Nat]

ASSUME OffersAssumption ==
    /\ Keys \subseteq Nat \ {NoKey} /\ Founders \subseteq Keys
    /\ Offers \subseteq Transactions
    /\ \A c, d \in Offers : c.id = d.id => c = d   \* the digest, which entries are keyed by
    /\ Requests \subseteq [offer : Offers, signer : Keys, asks : Asking,
                           inviter : Keys \cup {NoKey}, until : Nat]
    /\ Refusals \subseteq Offers \X Keys
    /\ {MaxEntries, Share, MaxInvited, MaxTombstones, Ttl} \subseteq Nat
    /\ {MaxQueue, SeenCap, MaxBatch, MaxTime, MaxBlocks, MaxClosed} \subseteq Nat
    /\ Doors \cup MayRestart \subseteq Nodes

VARIABLES
    now,
    pool,      \* PendingPool::entries of each node
    tombs,     \* tombstone_order of each node
    sent,      \* the envelopes assembled so far
    queue, seen,
    chain,     \* the blocks committed, each the envelopes it carries
    done,      \* how many of them each node has applied
    over,      \* history: the offers each node closed since it started, in order
    from       \* history: how many blocks it had applied when it started

vars == <<now, pool, tombs, sent, queue, seen, chain, done, over, from>>

Entry == [asks : Asking, sigs : SUBSET Keys, initiator : Keys, byKey : BOOLEAN, at : Nat]
Envelope == [offer : Offers, signers : SUBSET Keys]

Committed(n) == UNION {chain[i] : i \in 1..done[n]}

\* member_of_key: a first trade seats the key that signed it (one that is refused
\* when it is applied is left out)
Accounts(n) == Founders \cup UNION {e.offer.byKey \cap e.signers : e \in Committed(n)}

\* verified_signer against a list of required parties
Wants(n, asks, k) == IF k \in Accounts(n) THEN k \in asks.members ELSE k \in asks.fresh

-----------------------------------------------------------------------------
(* The pool *)

Drop(p, D) == [d \in DOMAIN p \ D |-> p[d]]

\* prune
Live(n) == Drop(pool[n], {d \in DOMAIN pool[n] : pool[n][d].at + Ttl <= now})

RememberedOrCleared(s) == IF Len(s) > MaxTombstones THEN <<>> ELSE s   \* mutant: a flood clears it
Remembered(s) == IF Len(s) > MaxTombstones THEN SubSeq(s, Len(s) - MaxTombstones + 1, Len(s)) ELSE s

HeldBy(p, m) == {d \in DOMAIN p : p[d].initiator = m}

Invited(p, m) == {d \in HeldBy(p, m) : p[d].byKey}

\* invited_by: a purchase from the inviter, and the two of them are all it asks for
Invites(n, r) ==
    LET parties == {r.signer, r.inviter}
    IN /\ r.inviter \in Accounts(n) /\ now <= r.until
       /\ r.offer.buyer = r.signer /\ r.signer \in r.offer.byKey /\ r.offer.seller = r.inviter
       /\ r.asks.len = 2 /\ r.asks.min = 2
       /\ r.signer \in r.asks.fresh /\ r.asks.members \cup r.asks.fresh = parties

\* Who an entry this request opens is charged to; nobody may be.
Opener(n, p, r) ==
    IF r.signer \in Accounts(n) THEN r.signer
    ELSE IF Invites(n, r) /\ Cardinality(Invited(p, r.inviter)) < MaxInvited
    THEN r.inviter ELSE NoKey

\* The entry taken from each initiator over its share is its newest.
Hogs(p) ==
    LET over_share == {m \in Keys : Cardinality(HeldBy(p, m)) > Share}
        Before(c, d) == p[c].at > p[d].at \/ (p[c].at = p[d].at /\ c.id < d.id)
    IN {CHOOSE d \in HeldBy(p, m) : \A c \in HeldBy(p, m) : c = d \/ Before(d, c) : m \in over_share}

Full(p) == Cardinality(DOMAIN p) >= MaxEntries

RoomUnchecked(p, m) == TRUE   \* mutant: nobody has to be over its share
HasRoom(p, m) == Full(p) => Cardinality(HeldBy(p, m)) < Share /\ Hogs(p) # {}

Opened(p, r, m) ==
    LET q == IF Full(p) THEN Drop(p, Hogs(p)) ELSE p
        e == [asks |-> r.asks, sigs |-> {}, initiator |-> m, byKey |-> r.signer # m, at |-> now]
    IN [c \in DOMAIN q \cup {r.offer} |-> IF c = r.offer THEN e ELSE q[c]]

\* The signer is one of those its own request asks for.
Valid(n, r) == r.asks.min \in 1..r.asks.len /\ Wants(n, r.asks, r.signer)

\* sign, up to the entry the signature is put in; none when it is refused
Places(n, r) ==
    LET p == Live(n)
        m == Opener(n, p, r)
    IN IF r.offer \in Range(Remembered(tombs[n])) \/ ~Valid(n, r) THEN {}
       ELSE IF r.offer \in DOMAIN p THEN {p}
       ELSE IF m # NoKey /\ HasRoom(p, m) THEN {Opened(p, r, m)} ELSE {}

Signatures(p, r) == p[r.offer].sigs \cup {r.signer}

\* The entry is complete by the list of the request that opened it.
Complete(n, p, r) ==
    LET asks == p[r.offer].asks
    IN Cardinality({j \in Signatures(p, r) : Wants(n, asks, j)}) >= asks.min

Closed(n, d, s) == /\ Len(over[n]) < MaxClosed
                   /\ tombs' = [tombs EXCEPT ![n] = Append(s, d)]
                   /\ over' = [over EXCEPT ![n] = Append(@, d)]

SignRefused(n, r) ==
    /\ Places(n, r) = {}
    /\ pool' = [pool EXCEPT ![n] = Live(n)]
    /\ tombs' = [tombs EXCEPT ![n] = Remembered(@)]
    /\ UNCHANGED <<now, sent, queue, seen, chain, done, over, from>>

Sign(n, r) ==
    \E p \in Places(n, r) :
        /\ ~Complete(n, p, r)
        /\ pool' = [pool EXCEPT ![n] = [p EXCEPT ![r.offer].sigs = Signatures(p, r)]]
        /\ tombs' = [tombs EXCEPT ![n] = Remembered(@)]
        /\ UNCHANGED <<now, sent, queue, seen, chain, done, over, from>>

\* The envelope carries every signature of the entry, and is submitted later.
SignCompletes(n, r) ==
    \E p \in Places(n, r) :
        /\ Complete(n, p, r)
        /\ pool' = [pool EXCEPT ![n] = Drop(p, {r.offer})]
        /\ Closed(n, r.offer, Remembered(tombs[n]))
        /\ sent' = sent \cup {[offer |-> r.offer, signers |-> Signatures(p, r)]}
        /\ UNCHANGED <<now, queue, seen, chain, done, from>>

\* Nothing is pruned, and a refusal that arrives before its offer is lost.
Decline(n, d, k) ==
    /\ d \in DOMAIN pool[n]
    /\ Wants(n, pool[n][d].asks, k) \/ (k \in Accounts(n) /\ pool[n][d].initiator = k)
    /\ pool' = [pool EXCEPT ![n] = Drop(@, {d})]
    /\ Closed(n, d, tombs[n])
    /\ UNCHANGED <<now, sent, queue, seen, chain, done, from>>

-----------------------------------------------------------------------------
(* The mempool *)

\* authorises: an envelope its own parties did not sign is not queued
Authorises(e) == Cardinality(e.signers \cap e.offer.parties) >= e.offer.need

Push(n, e) ==
    /\ e \in sent /\ Authorises(e)
    /\ e \notin Range(queue[n]) \cup Range(seen[n]) /\ Len(queue[n]) < MaxQueue
    /\ queue' = [queue EXCEPT ![n] = Append(@, e)]
    /\ UNCHANGED <<now, pool, tombs, sent, seen, chain, done, over, from>>

\* proposable_batch: of the front of its queue a proposer takes what the bond gate
\* would admit now, which may be any of it; a block of nothing is left out.
Decide(n) ==
    /\ done[n] = Len(chain) /\ Len(chain) < MaxBlocks
    /\ LET front == Range(SubSeq(queue[n], 1, Min({MaxBatch, Len(queue[n])})))
       IN \E B \in SUBSET {e \in front : Authorises(e)} : B # {} /\ chain' = Append(chain, B)
    /\ UNCHANGED <<now, pool, tombs, sent, queue, seen, done, over, from>>

Without(q, B) == FoldLeft(LAMBDA r, e : IF e \in B THEN r ELSE Append(r, e), <<>>, q)

\* A hash that is already remembered keeps its place.
Noted(s, e) ==
    LET all == Append(s, e)
    IN IF e \in Range(s) THEN s ELSE IF Len(all) > SeenCap THEN Tail(all) ELSE all

\* remove_committed: a set has no order, so a block is remembered in any
Commit(n) ==
    LET B == chain[done[n] + 1]
    IN /\ done[n] < Len(chain)
       /\ done' = [done EXCEPT ![n] = @ + 1]
       /\ queue' = [queue EXCEPT ![n] = Without(@, B)]
       /\ \E s \in SetToSeqs(B) : seen' = [seen EXCEPT ![n] = FoldLeft(Noted, @, s)]
       /\ UNCHANGED <<now, pool, tombs, sent, chain, over, from>>

\* Nothing here is on disk: a node that starts again remembers none of it.
Restart(n) ==
    /\ pool' = [pool EXCEPT ![n] = <<>>] /\ tombs' = [tombs EXCEPT ![n] = <<>>]
    /\ queue' = [queue EXCEPT ![n] = <<>>] /\ seen' = [seen EXCEPT ![n] = <<>>]
    /\ over' = [over EXCEPT ![n] = <<>>] /\ from' = [from EXCEPT ![n] = done[n]]
    /\ UNCHANGED <<now, sent, chain, done>>

Tick ==
    /\ now < MaxTime
    /\ now' = now + 1
    /\ UNCHANGED <<pool, tombs, sent, queue, seen, chain, done, over, from>>

-----------------------------------------------------------------------------
Init ==
    /\ now = 0
    /\ pool = [n \in Nodes |-> <<>>] /\ tombs = [n \in Nodes |-> <<>>]
    /\ sent = {}
    /\ queue = [n \in Nodes |-> <<>>] /\ seen = [n \in Nodes |-> <<>>]
    /\ chain = <<>> /\ done = [n \in Nodes |-> 0]
    /\ over = [n \in Nodes |-> <<>>] /\ from = [n \in Nodes |-> 0]

Next ==
    \/ \E n \in Doors, r \in Requests : SignRefused(n, r) \/ Sign(n, r) \/ SignCompletes(n, r)
    \/ \E n \in Doors, r \in Refusals : Decline(n, r[1], r[2])
    \/ \E n \in MayRestart : Restart(n)
    \/ \E n \in Nodes : Decide(n) \/ Commit(n) \/ \E e \in sent : Push(n, e)
    \/ Tick

Spec == Init /\ [][Next]_vars

-----------------------------------------------------------------------------
(* Properties *)

TypeOK ==
    /\ now \in 0..MaxTime
    /\ \A n \in Nodes :
          /\ DOMAIN pool[n] \subseteq Offers /\ Range(pool[n]) \subseteq Entry
          /\ tombs[n] \in Seq(Offers) /\ over[n] \in Seq(Offers)
          /\ queue[n] \in Seq(Envelope) /\ seen[n] \in Seq(Envelope)
          /\ done[n] \in 0..Len(chain)
    /\ sent \subseteq Envelope

Applied(n) == UNION {chain[i] : i \in from[n] + 1..done[n]}

\* what n applied since it first applied e
LaterThan(n, e) ==
    LET first == Min({i \in from[n] + 1..done[n] : e \in chain[i]})
    IN (UNION {chain[i] : i \in first..done[n]}) \ {e}

Since(s, d) == Len(s) - Max({0} \cup {i \in DOMAIN s : s[i] = d})

\* While a node runs, what is over stays over, however late or often its requests
\* arrive and whoever they ask for: an offer it completed or declined since it
\* started is not open there again before MaxTombstones others were closed, and an
\* envelope it applied since then is not queued again before SeenCap others were
\* (pending.rs tombstones, mempool.rs seen).  They count from the first time: an
\* envelope committed once more while it is remembered keeps its place in seen, and
\* is forgotten as early as if it had not been.  Of what a node closed or applied
\* before it was restarted nothing is promised.
OverStaysOver ==
    \A n \in Nodes :
        /\ \A d \in DOMAIN pool[n] \cap Range(over[n]) : Since(over[n], d) >= MaxTombstones
        /\ \A e \in Range(queue[n]) \cap Applied(n) : Cardinality(LaterThan(n, e)) >= SeenCap

\* The pool never outgrows its cap, and what fresh keys opened on one member's
\* invitations stays within theirs, whoever a full pool takes room from.
RoomIsKept ==
    /\ TypeOK
    /\ \A n \in Nodes : /\ Cardinality(DOMAIN pool[n]) <= MaxEntries
                        /\ \A m \in Keys : Cardinality(Invited(pool[n], m)) <= MaxInvited
=============================================================================
