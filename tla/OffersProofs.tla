------------------------------ MODULE OffersProofs ------------------------------
(***************************************************************************)
(* What the pool of offers and the mempool keep for every instance: the    *)
(* room of the pool, and that what is over stays over while it runs.       *)
(***************************************************************************)
EXTENDS Offers, Sums, SequenceTheorems

-----------------------------------------------------------------------------
(* The entries of a pool *)

Pools == UNION {[D -> Entry] : D \in {D \in SUBSET Offers : IsFiniteSet(D)}}

\* A pool that keeps to its caps.
Roomy(p) == /\ p \in Pools
            /\ Cardinality(DOMAIN p) <= MaxEntries
            /\ \A m \in Keys : Cardinality(Invited(p, m)) <= MaxInvited

LEMMA PoolTypes ==
    ASSUME NEW p \in Pools
    PROVE  /\ p \in [DOMAIN p -> Entry] /\ DOMAIN p \in SUBSET Offers /\ IsFiniteSet(DOMAIN p)
           /\ \A d \in DOMAIN p : p[d] \in Entry
BY DEF Pools

LEMMA EmptyPool == Roomy(<<>>) /\ DOMAIN <<>> = {}
<1>1. DOMAIN <<>> = {} /\ <<>> \in [{} -> Entry]
  OBVIOUS
<1>2. <<>> \in Pools
  BY <1>1, FS_EmptySet DEF Pools
<1>3. \A m \in Keys : Invited(<<>>, m) = {}
  BY <1>1 DEF Invited, HeldBy
<1>4. 0 <= MaxEntries /\ 0 <= MaxInvited
  BY OffersAssumption
<1>5. Cardinality(DOMAIN <<>>) <= MaxEntries
  BY <1>1, <1>4, FS_EmptySet
<1>6. \A m \in Keys : Cardinality(Invited(<<>>, m)) <= MaxInvited
  BY <1>3, <1>4, FS_EmptySet
<1> QED  BY <1>1, <1>2, <1>5, <1>6 DEF Roomy

\* An entry taken out makes room.
LEMMA DropIsRoomy ==
    ASSUME NEW p, Roomy(p), NEW D
    PROVE  /\ Roomy(Drop(p, D)) /\ DOMAIN Drop(p, D) = DOMAIN p \ D
           /\ \A d \in DOMAIN p \ D : Drop(p, D)[d] = p[d]
           /\ \A m \in Keys : HeldBy(Drop(p, D), m) \subseteq HeldBy(p, m)
           /\ \A m \in Keys : Invited(Drop(p, D), m) \subseteq Invited(p, m)
<1> DEFINE q == Drop(p, D)
<1>1. DOMAIN q = DOMAIN p \ D /\ \A d \in DOMAIN p \ D : q[d] = p[d]
  BY DEF Drop
<1>2. p \in Pools /\ IsFiniteSet(DOMAIN p)
  BY PoolTypes DEF Roomy
<1>3. IsFiniteSet(DOMAIN q) /\ Cardinality(DOMAIN q) <= Cardinality(DOMAIN p)
  BY <1>1, <1>2, FS_Subset
<1>4. q \in Pools
  <2>1. q \in [DOMAIN p \ D -> Entry] /\ DOMAIN p \ D \in SUBSET Offers
    BY <1>2, PoolTypes DEF Drop
  <2> QED  BY <1>1, <1>3, <2>1 DEF Pools
<1> HIDE DEF q
<1>5. \A m \in Keys : HeldBy(q, m) \subseteq HeldBy(p, m) /\ Invited(q, m) \subseteq Invited(p, m)
  BY <1>1 DEF Invited, HeldBy
<1>6. ASSUME NEW m \in Keys
      PROVE  Cardinality(Invited(q, m)) <= MaxInvited
  <2>1. Invited(p, m) \in SUBSET DOMAIN p /\ Cardinality(Invited(p, m)) <= MaxInvited
    BY DEF Invited, HeldBy, Roomy
  <2>2. IsFiniteSet(Invited(p, m))
    BY <1>2, <2>1, FS_Subset
  <2>3. IsFiniteSet(Invited(q, m)) /\ Cardinality(Invited(q, m)) <= Cardinality(Invited(p, m))
    BY <1>5, <2>2, FS_Subset
  <2> QED  BY <2>1, <2>2, <2>3, OffersAssumption, FS_CardinalityType
<1>7. Cardinality(DOMAIN q) <= MaxEntries
  <2>1. Cardinality(DOMAIN p) <= MaxEntries
    BY DEF Roomy
  <2> QED  BY <1>2, <1>3, <2>1, OffersAssumption, FS_CardinalityType
<1>8. Roomy(q)
  BY <1>4, <1>6, <1>7 DEF Roomy
<1> QED  BY <1>1, <1>5, <1>8 DEF q

\* c was opened after d, or with it and comes first by its digest.
Newer(p, c, d) == p[c].at > p[d].at \/ (p[c].at = p[d].at /\ c.id < d.id)

Newest(p, t) == {d \in t : \A c \in t : c = d \/ Newer(p, d, c)}

\* Of some entries one is the newest: digests differ.
LEMMA NewestExists ==
    ASSUME NEW p \in Pools, NEW S \in SUBSET DOMAIN p, S # {}
    PROVE  Newest(p, S) # {}
<1> DEFINE P == {t \in SUBSET S : t # {} => Newest(p, t) # {}}
<1>1. IsFiniteSet(S)
  BY PoolTypes, FS_Subset
<1>2. \A d \in S : d \in Offers /\ d.id \in Nat /\ p[d].at \in Nat
  BY PoolTypes, OffersAssumption DEF Entry, Transactions
<1>3. \A c, d \in S : c.id = d.id => c = d
  BY <1>2, OffersAssumption
<1>4. ASSUME NEW t \in SUBSET S, NEW x \in S \ t, t \in P
      PROVE  t \cup {x} \in P
  <2>1. CASE t = {}
    <3>1. x \in Newest(p, t \cup {x})
      BY <2>1 DEF Newest
    <3> QED  BY <3>1
  <2>2. CASE t # {}
    <3>1. PICK d \in t : \A c \in t : c = d \/ Newer(p, d, c)
      BY <1>4, <2>2 DEF Newest
    <3>2. Newer(p, d, x) \/ Newer(p, x, d)
      BY <1>2, <1>3 DEF Newer
    <3>3. CASE Newer(p, d, x)
      <4>1. d \in Newest(p, t \cup {x})
        BY <3>1, <3>3 DEF Newest
      <4> QED  BY <4>1
    <3>4. CASE Newer(p, x, d)
      <4>1. \A c \in t : Newer(p, x, c)
        BY <1>2, <3>1, <3>4 DEF Newer
      <4>2. x \in Newest(p, t \cup {x})
        BY <4>1 DEF Newest
      <4> QED  BY <4>2
    <3> QED  BY <3>2, <3>3, <3>4
  <2> QED  BY <2>1, <2>2
<1>5. S \in P
  <2>1. {} \in P
    OBVIOUS
  <2> HIDE DEF P
  <2> QED  BY <1>1, <1>4, <2>1, SetInduction
<1> QED  BY <1>5

\* What is taken from whoever is over their share is an entry of the pool.
LEMMA HogsAreEntries ==
    ASSUME NEW p \in Pools
    PROVE  Hogs(p) \subseteq DOMAIN p
<1> DEFINE greedy == {m \in Keys : Cardinality(HeldBy(p, m)) > Share}
           hog(m) == CHOOSE d \in HeldBy(p, m) : \A c \in HeldBy(p, m) : c = d \/ Newer(p, d, c)
<1>1. Hogs(p) = {hog(m) : m \in greedy}
  BY DEF Hogs, Newer
<1>2. ASSUME NEW m \in greedy
      PROVE  hog(m) \in DOMAIN p
  <2>1. HeldBy(p, m) \in SUBSET DOMAIN p
    BY DEF HeldBy
  <2>2. HeldBy(p, m) # {}
    <3>1. Cardinality(HeldBy(p, m)) > Share /\ Share \in Nat /\ Cardinality({}) = 0
      BY FS_EmptySet, OffersAssumption
    <3>2. ~(0 > Share)
      BY <3>1
    <3> QED  BY <3>1, <3>2
  <2>3. \E d \in HeldBy(p, m) : \A c \in HeldBy(p, m) : c = d \/ Newer(p, d, c)
    BY <2>1, <2>2, NewestExists DEF Newest
  <2> QED  BY <2>1, <2>3
<1> HIDE DEF hog, greedy
<1> QED  BY <1>1, <1>2

-----------------------------------------------------------------------------
(* An entry opened *)

LEMMA RequestTypes ==
    ASSUME NEW r \in Requests
    PROVE  /\ r.offer \in Offers /\ r.signer \in Keys /\ r.asks \in Asking
           /\ r.inviter \in Keys \cup {NoKey}
BY OffersAssumption

LEMMA OpenedIsRoomy ==
    ASSUME NEW p, Roomy(p), NEW r \in Requests, NEW d, d = r.offer, d \notin DOMAIN p, NEW m \in Keys,
           now \in Nat, HasRoom(p, m), r.signer # m => Cardinality(Invited(p, m)) < MaxInvited
    PROVE  /\ Roomy(Opened(p, r, m))
           /\ d \in DOMAIN Opened(p, r, m)
           /\ DOMAIN Opened(p, r, m) \subseteq DOMAIN p \cup {d}
<1> DEFINE k == r.signer
           q == IF Full(p) THEN Drop(p, Hogs(p)) ELSE p
           e == [asks |-> r.asks, sigs |-> {}, initiator |-> m, byKey |-> k # m, at |-> now]
           o == Opened(p, r, m)
<1>1. p \in Pools /\ IsFiniteSet(DOMAIN p) /\ Hogs(p) \subseteq DOMAIN p
  <2>1. p \in Pools /\ IsFiniteSet(DOMAIN p)
    BY PoolTypes DEF Roomy
  <2> QED  BY <2>1, HogsAreEntries
<1>2. /\ Roomy(q) /\ DOMAIN q \subseteq DOMAIN p
      /\ \A n \in Keys : Invited(q, n) \subseteq Invited(p, n)
  <2>1. CASE Full(p)
    <3>1. q = Drop(p, Hogs(p))
      BY <2>1
    <3>2. /\ Roomy(Drop(p, Hogs(p))) /\ DOMAIN Drop(p, Hogs(p)) = DOMAIN p \ Hogs(p)
          /\ \A n \in Keys : Invited(Drop(p, Hogs(p)), n) \subseteq Invited(p, n)
      BY DropIsRoomy, Zenon
    <3> HIDE DEF q
    <3> QED  BY <3>1, <3>2
  <2>2. CASE ~Full(p)
    <3>1. q = p
      BY <2>2
    <3> HIDE DEF q
    <3> QED  BY <3>1
  <2> QED  BY <2>1, <2>2
<1>3. Cardinality(DOMAIN q) < MaxEntries
  <2>1. Cardinality(DOMAIN p) \in Nat /\ MaxEntries \in Nat /\ Cardinality(DOMAIN p) <= MaxEntries
    BY <1>1, FS_CardinalityType, OffersAssumption DEF Roomy
  <2>2. CASE Full(p)
    <3>1. Hogs(p) # {} /\ DOMAIN q = DOMAIN p \ Hogs(p)
      BY <2>2, DropIsRoomy DEF HasRoom
    <3>2. DOMAIN q # DOMAIN p
      BY <1>1, <3>1
    <3>3. DOMAIN q \in SUBSET DOMAIN p
      BY <1>2
    <3> HIDE DEF q
    <3>4. /\ IsFiniteSet(DOMAIN q) /\ Cardinality(DOMAIN q) <= Cardinality(DOMAIN p)
          /\ Cardinality(DOMAIN q) # Cardinality(DOMAIN p)
      BY <1>1, <3>2, <3>3, FS_Subset
    <3>5. Cardinality(DOMAIN q) \in Nat
      BY <3>4, FS_CardinalityType
    <3> QED  BY <2>1, <3>4, <3>5
  <2>3. CASE ~Full(p)
    BY <2>1, <2>3 DEF Full
  <2> QED  BY <2>2, <2>3
<1>4. e \in Entry /\ d \in Offers
  BY RequestTypes DEF Entry
<1>5. o = [c \in DOMAIN q \cup {d} |-> IF c = d THEN e ELSE q[c]]
  BY DEF Opened
<1> HIDE DEF k, q, e, o
<1>6. q \in Pools /\ q \in [DOMAIN q -> Entry] /\ DOMAIN q \in SUBSET Offers /\ IsFiniteSet(DOMAIN q)
  BY <1>2, PoolTypes DEF Roomy
<1>7. /\ DOMAIN o = DOMAIN q \cup {d} /\ o[d] = e /\ d \notin DOMAIN q
      /\ \A c \in DOMAIN q : o[c] = q[c]
  BY <1>2, <1>5
<1>8. o \in Pools /\ Cardinality(DOMAIN o) <= MaxEntries
  <2>1. IsFiniteSet(DOMAIN o) /\ Cardinality(DOMAIN o) = Cardinality(DOMAIN q) + 1
    BY <1>6, <1>7, FS_AddElement
  <2>2. Cardinality(DOMAIN q) \in Nat /\ MaxEntries \in Nat
    BY <1>6, FS_CardinalityType, OffersAssumption
  <2>3. o \in [DOMAIN q \cup {d} -> Entry] /\ DOMAIN q \cup {d} \in SUBSET Offers
    BY <1>4, <1>5, <1>6
  <2>4. o \in Pools
    BY <1>7, <2>1, <2>3 DEF Pools
  <2> QED  BY <1>3, <2>1, <2>2, <2>4
<1>9. ASSUME NEW n \in Keys
      PROVE  Cardinality(Invited(o, n)) <= MaxInvited
  <2>1. Invited(q, n) \in SUBSET DOMAIN q /\ Invited(p, n) \in SUBSET DOMAIN p
    BY DEF Invited, HeldBy
  <2>2. IsFiniteSet(Invited(q, n)) /\ IsFiniteSet(Invited(p, n)) /\ MaxInvited \in Nat
    BY <1>1, <1>6, <2>1, FS_Subset, OffersAssumption
  <2>3. /\ Cardinality(Invited(q, n)) \in Nat /\ Cardinality(Invited(p, n)) \in Nat
        /\ Cardinality(Invited(q, n)) <= Cardinality(Invited(p, n))
        /\ Cardinality(Invited(q, n)) <= MaxInvited
    BY <1>2, <2>2, FS_Subset, FS_CardinalityType DEF Roomy
  <2>4. e.initiator = m /\ e.byKey = (k # m)
    BY DEF e
  <2>5. CASE n = m /\ k # m
    <3>1. Invited(o, n) = Invited(q, n) \cup {d}
      BY <1>7, <2>4, <2>5 DEF Invited, HeldBy
    <3>2. Cardinality(Invited(o, n)) <= Cardinality(Invited(q, n)) + 1
      <4>1. Cardinality(Invited(q, n) \cup {d}) = IF d \in Invited(q, n) THEN Cardinality(Invited(q, n))
                                                                      ELSE Cardinality(Invited(q, n)) + 1
        BY <2>2, FS_AddElement
      <4> QED  BY <2>3, <3>1, <4>1
    <3>3. Cardinality(Invited(p, n)) < MaxInvited
      BY <2>5 DEF k
    <3>4. Cardinality(Invited(o, n)) \in Nat
      BY <2>2, <3>1, FS_AddElement, FS_CardinalityType
    <3> QED  BY <2>2, <2>3, <3>2, <3>3, <3>4
  <2>6. CASE n # m \/ k = m
    <3>1. Invited(o, n) = Invited(q, n)
      BY <1>7, <2>4, <2>6 DEF Invited, HeldBy
    <3> QED  BY <2>3, <3>1
  <2> QED  BY <2>5, <2>6
<1> QED  BY <1>2, <1>7, <1>8, <1>9 DEF Roomy, o

\* A signature put in an entry changes what it holds, not whose it is.
LEMMA SignedIsRoomy ==
    ASSUME NEW p, Roomy(p), NEW d \in DOMAIN p, NEW S \in SUBSET Keys
    PROVE  Roomy([p EXCEPT ![d].sigs = S]) /\ DOMAIN [p EXCEPT ![d].sigs = S] = DOMAIN p
<1> DEFINE q == [p EXCEPT ![d].sigs = S]
<1>1. p \in Pools /\ p \in [DOMAIN p -> Entry] /\ DOMAIN p \in SUBSET Offers /\ IsFiniteSet(DOMAIN p)
  BY PoolTypes DEF Roomy
<1>2. DOMAIN q = DOMAIN p /\ q \in [DOMAIN p -> Entry]
  BY <1>1 DEF Entry
<1>3. \A c \in DOMAIN p : q[c].initiator = p[c].initiator /\ q[c].byKey = p[c].byKey
  BY <1>1 DEF Entry
<1> HIDE DEF q
<1>4. \A m \in Keys : Invited(q, m) = Invited(p, m)
  BY <1>2, <1>3 DEF Invited, HeldBy
<1>5. q \in Pools
  BY <1>1, <1>2 DEF Pools
<1> QED  BY <1>2, <1>4, <1>5 DEF Roomy, q

LEMMA LiveIsRoomy ==
    ASSUME NEW n, Roomy(pool[n])
    PROVE  Roomy(Live(n)) /\ DOMAIN Live(n) \subseteq DOMAIN pool[n]
<1> DEFINE D == {d \in DOMAIN pool[n] : pool[n][d].at + Ttl <= now}
<1>1. Live(n) = Drop(pool[n], D)
  BY DEF Live
<1> HIDE DEF D
<1>2. Roomy(Drop(pool[n], D)) /\ DOMAIN Drop(pool[n], D) = DOMAIN pool[n] \ D
  BY DropIsRoomy, Zenon
<1> QED  BY <1>1, <1>2

\* Who opens an entry is a member, and one whose invitations leave room when it
\* is opened on one of them.
LEMMA PlacesAreRoomy ==
    ASSUME NEW n \in Nodes, NEW r \in Requests, Roomy(pool[n]), now \in Nat, NEW p \in Places(n, r)
    PROVE  /\ Roomy(p) /\ r.offer \in DOMAIN p
           /\ DOMAIN p \subseteq DOMAIN pool[n] \cup {r.offer}
           /\ r.offer \notin Range(Remembered(tombs[n]))
<1> DEFINE l == Live(n)
           m == Opener(n, l, r)
           d == r.offer
<1>1. Roomy(l) /\ DOMAIN l \subseteq DOMAIN pool[n]
  BY LiveIsRoomy
<1> HIDE DEF l, m, d
<1>2. /\ d \notin Range(Remembered(tombs[n]))
      /\ \/ d \in DOMAIN l /\ p = l
         \/ d \notin DOMAIN l /\ m # NoKey /\ HasRoom(l, m) /\ p = Opened(l, r, m)
  BY DEF Places, l, m, d
<1>3. m # NoKey => m \in Keys /\ (r.signer # m => Cardinality(Invited(l, m)) < MaxInvited)
  BY RequestTypes DEF Opener, m
<1>4. CASE d \in DOMAIN l /\ p = l
  BY <1>1, <1>2, <1>4 DEF d
<1>5. CASE d \notin DOMAIN l /\ m # NoKey /\ HasRoom(l, m) /\ p = Opened(l, r, m)
  <2>1. Roomy(p) /\ d \in DOMAIN p /\ DOMAIN p \subseteq DOMAIN l \cup {d}
    BY <1>1, <1>3, <1>5, OpenedIsRoomy DEF d
  <2> QED  BY <1>1, <1>2, <2>1 DEF d
<1> QED  BY <1>2, <1>4, <1>5 DEF d

-----------------------------------------------------------------------------
(* The tombstones *)

\* What is remembered of the offers closed is their last, MaxTombstones of them
\* if there were as many.
Recent(t, o) ==
    /\ t \in Seq(Offers) /\ o \in Seq(Offers)
    /\ Len(t) <= Len(o)
    /\ Len(t) >= MaxTombstones \/ Len(t) = Len(o)
    /\ \A i \in 1..Len(t) : t[i] = o[Len(o) - Len(t) + i]

\* An offer in the pool was last closed MaxTombstones others ago, if at all.
Reopened(p, o) ==
    \A d \in DOMAIN p : \A i \in 1..Len(o) : o[i] = d => Len(o) - i >= MaxTombstones

LEMMA RememberedIsRecent ==
    ASSUME NEW t, NEW o, Recent(t, o)
    PROVE  Recent(Remembered(t), o)
<1> DEFINE m == Len(t) - MaxTombstones
           r == SubSeq(t, m + 1, Len(t))
<1>1. /\ t \in Seq(Offers) /\ o \in Seq(Offers) /\ Len(t) \in Nat /\ Len(o) \in Nat /\ MaxTombstones \in Nat
      /\ Len(t) <= Len(o)
      /\ \A i \in 1..Len(t) : t[i] \in Offers /\ t[i] = o[Len(o) - Len(t) + i]
  BY OffersAssumption, LenProperties DEF Recent
<1>2. CASE Len(t) > MaxTombstones
  <2>1. m \in Nat /\ m + 1 \in Int /\ \A i \in m + 1..Len(t) : t[i] \in Offers
    BY <1>1, <1>2
  <2>2. Remembered(t) = r
    BY <1>2 DEF Remembered
  <2> HIDE DEF r
  <2>3. /\ r \in Seq(Offers)
        /\ Len(r) = IF m + 1 <= Len(t) THEN Len(t) - (m + 1) + 1 ELSE 0
        /\ \A i \in 1..Len(t) - (m + 1) + 1 : r[i] = t[m + 1 + i - 1]
    BY <1>1, <2>1, SubSeqProperties DEF r
  <2>4. Len(r) = MaxTombstones
    BY <1>1, <1>2, <2>3
  <2>5. ASSUME NEW i \in 1..Len(r)
        PROVE  r[i] = o[Len(o) - Len(r) + i]
    <3>1. r[i] = t[m + i] /\ m + i \in 1..Len(t)
      BY <1>1, <1>2, <2>3, <2>4
    <3>2. t[m + i] = o[Len(o) - Len(t) + (m + i)]
      BY <1>1, <3>1
    <3>3. Len(o) - Len(t) + (m + i) = Len(o) - Len(r) + i
      BY <1>1, <2>4
    <3> QED  BY <3>1, <3>2, <3>3
  <2> QED  BY <1>1, <1>2, <2>2, <2>3, <2>4, <2>5 DEF Recent
<1>3. CASE ~(Len(t) > MaxTombstones)
  BY <1>3 DEF Remembered
<1> QED  BY <1>2, <1>3

LEMMA ClosedIsRecent ==
    ASSUME NEW t, NEW o, Recent(t, o), NEW d \in Offers
    PROVE  Recent(Append(t, d), Append(o, d))
<1> DEFINE u == Append(t, d)
           q == Append(o, d)
<1>1. /\ t \in Seq(Offers) /\ o \in Seq(Offers) /\ Len(t) \in Nat /\ Len(o) \in Nat /\ MaxTombstones \in Nat
      /\ Len(t) <= Len(o)
  BY OffersAssumption, LenProperties DEF Recent
<1>2. /\ u \in Seq(Offers) /\ Len(u) = Len(t) + 1 /\ u[Len(t) + 1] = d
      /\ \A i \in 1..Len(t) : u[i] = t[i]
      /\ q \in Seq(Offers) /\ Len(q) = Len(o) + 1 /\ q[Len(o) + 1] = d
      /\ \A i \in 1..Len(o) : q[i] = o[i]
  BY <1>1, AppendProperties
<1> HIDE DEF u, q
<1>3. ASSUME NEW i \in 1..Len(u)
      PROVE  u[i] = q[Len(q) - Len(u) + i]
  <2>1. Len(q) - Len(u) + i = Len(o) - Len(t) + i
    BY <1>1, <1>2
  <2>2. CASE i = Len(t) + 1
    <3>1. Len(o) - Len(t) + i = Len(o) + 1
      BY <1>1, <2>2
    <3> QED  BY <1>2, <2>1, <2>2, <3>1
  <2>3. CASE i # Len(t) + 1
    <3>1. i \in 1..Len(t) /\ Len(o) - Len(t) + i \in 1..Len(o)
      BY <1>1, <1>2, <2>3
    <3> QED  BY <1>2, <2>1, <3>1 DEF Recent
  <2> QED  BY <2>2, <2>3
<1>4. Len(u) <= Len(q) /\ (Len(u) >= MaxTombstones \/ Len(u) = Len(q))
  BY <1>1, <1>2 DEF Recent
<1>5. Recent(u, q)
  BY <1>2, <1>3, <1>4 DEF Recent
<1> QED  BY <1>5 DEF u, q

\* An entry is opened only when it is none of those remembered.
LEMMA OpenedIsOld ==
    ASSUME NEW t, NEW o, Recent(t, o), NEW p, Reopened(p, o), NEW d, d \notin Range(t),
           NEW q, DOMAIN q \subseteq DOMAIN p \cup {d}
    PROVE  Reopened(q, o)
<1>1. /\ t \in Seq(Offers) /\ o \in Seq(Offers) /\ Len(t) \in Nat /\ Len(o) \in Nat /\ MaxTombstones \in Nat
      /\ Len(t) <= Len(o)
  BY OffersAssumption, LenProperties DEF Recent
<1>2. ASSUME NEW i \in 1..Len(o), o[i] = d
      PROVE  Len(o) - i >= MaxTombstones
  <2> DEFINE j == i - (Len(o) - Len(t))
  <2>1. j \notin 1..Len(t)
    <3>1. ASSUME j \in 1..Len(t)
          PROVE  FALSE
      <4>1. Len(o) - Len(t) + j = i
        BY <1>1
      <4>2. t[j] = o[Len(o) - Len(t) + j]
        BY <3>1 DEF Recent
      <4>3. t[j] = d
        BY <1>2, <4>1, <4>2
      <4>4. j \in DOMAIN t
        BY <1>1, <3>1, LenProperties
      <4> QED  BY <4>3, <4>4 DEF Range
    <3> QED  BY <3>1
  <2>2. i <= Len(o) - Len(t)
    BY <1>1, <2>1
  <2>3. Len(t) >= MaxTombstones \/ Len(t) = Len(o)
    BY DEF Recent
  <2> QED  BY <1>1, <2>2, <2>3
<1> QED  BY <1>2 DEF Reopened

\* The offer closed leaves the pool, and each of the others is one older.
LEMMA ClosedIsOver ==
    ASSUME NEW o \in Seq(Offers), NEW p, Reopened(p, o), NEW d \in Offers,
           NEW q, DOMAIN q \subseteq DOMAIN p \ {d}
    PROVE  Reopened(q, Append(o, d))
<1>1. /\ Len(o) \in Nat /\ Len(Append(o, d)) = Len(o) + 1 /\ Append(o, d)[Len(o) + 1] = d
      /\ \A i \in 1..Len(o) : Append(o, d)[i] = o[i]
  BY AppendProperties, LenProperties
<1>2. ASSUME NEW c \in DOMAIN q, NEW i \in 1..Len(o) + 1, Append(o, d)[i] = c
      PROVE  Len(o) + 1 - i >= MaxTombstones
  <2>1. i # Len(o) + 1
    BY <1>1, <1>2
  <2>2. i \in 1..Len(o)
    BY <1>1, <2>1
  <2>3. Len(o) - i >= MaxTombstones
    BY <1>1, <1>2, <2>2 DEF Reopened
  <2>4. MaxTombstones \in Nat
    BY OffersAssumption
  <2> QED  BY <1>1, <2>2, <2>3, <2>4
<1> QED  BY <1>1, <1>2 DEF Reopened

-----------------------------------------------------------------------------
(* Folds, one element after another *)

LEMMA NotedType ==
    ASSUME NEW s \in Seq(Envelope), NEW e \in Envelope
    PROVE  Noted(s, e) \in Seq(Envelope)
<1>1. Append(s, e) \in Seq(Envelope) /\ Append(s, e) # <<>>
  BY AppendProperties
<1>2. Tail(Append(s, e)) \in Seq(Envelope)
  BY <1>1, HeadTailProperties
<1> QED  BY <1>1, <1>2 DEF Noted

NotedOneByOne(t, s, q, n) ==
    /\ t[0] = s
    /\ \A k \in 1..n : t[k] = Noted(t[k - 1], q[k])

LEMMA BlockIsNoted ==
    ASSUME NEW n \in Nat, NEW q \in [1..n -> Envelope], NEW s \in Seq(Envelope)
    PROVE  \E t \in [0..n -> Seq(Envelope)] : NotedOneByOne(t, s, q, n) /\ FoldLeft(Noted, s, q) = t[n]
<1> DEFINE V == Seq(Envelope)
           G == [k \in 1..n |-> [v \in V |-> Noted(v, q[k])]]
           Eq(f) == f = [r \in SUBSET (1..n) |-> IF r = {} THEN s
                                               ELSE Noted(f[r \ {Max(r)}], q[Max(r)])]
           it == CHOOSE f : Eq(f)
<1>1. G \in [1..n -> [V -> V]]
  BY NotedType
<1>2. PICK f \in [SUBSET (1..n) -> V] : Folds(f, s, G, n)
  <2> HIDE DEF G
  <2> QED  BY <1>1, FoldExists
<1>3. ASSUME NEW r \in SUBSET (1..n)
      PROVE  f[r] = IF r = {} THEN s ELSE Noted(f[r \ {Max(r)}], q[Max(r)])
  <2>1. r # {} => Max(r) \in 1..n /\ r \ {Max(r)} \in SUBSET (1..n)
    BY TopIsIn DEF Picks, Tops
  <2> QED  BY <1>2, <2>1 DEF Folds
<1>4. Eq(f)
  BY <1>2, <1>3
<1>5. Eq(it)
  <2> HIDE DEF Eq
  <2> QED  BY <1>4
<1>6. FoldLeft(Noted, s, q) = it[1..n]
  BY DEF FoldLeft, MapThenFoldSet
<1> HIDE DEF it
<1> DEFINE t == [k \in 0..n |-> it[1..k]]
<1>7. t[0] = s
  BY <1>5
<1>8. ASSUME NEW k \in 1..n
      PROVE  t[k] = Noted(t[k - 1], q[k])
  <2>1. 1..k \in SUBSET (1..n) /\ 1..k # {} /\ k \in 0..n /\ k - 1 \in 0..n
    <3>1. k \in 1..k /\ k \in 0..n /\ k - 1 \in 0..n
      BY <1>8
    <3>2. \A i \in 1..k : i \in 1..n
      BY <1>8
    <3> QED  BY <3>1, <3>2
  <2>2. it[1..k] = Noted(it[(1..k) \ {Max(1..k)}], q[Max(1..k)])
    BY <1>5, <2>1
  <2>3. Max(1..k) = k /\ (1..k) \ {Max(1..k)} = 1..(k - 1)
    BY <1>8, TopIsIn
  <2>4. it[1..k] = Noted(it[1..(k - 1)], q[k])
    BY <2>2, <2>3
  <2> QED  BY <1>8, <2>1, <2>4
<1>9. t \in [0..n -> V]
  <2> DEFINE P == {k \in Nat : k <= n => t[k] \in V}
  <2>1. 0 \in P
    BY <1>7
  <2>2. ASSUME NEW k \in Nat, k \in P
        PROVE  k + 1 \in P
    <3>1. SUFFICES ASSUME k + 1 <= n
                   PROVE  t[k + 1] \in V
      OBVIOUS
    <3>2. k + 1 \in 1..n /\ (k + 1) - 1 = k /\ t[k] \in V
      BY <2>2, <3>1
    <3>3. t[k + 1] = Noted(t[k], q[k + 1]) /\ q[k + 1] \in Envelope
      BY <1>8, <3>2
    <3> HIDE DEF t
    <3> QED  BY <3>2, <3>3, NotedType
  <2>3. Nat \subseteq P
    <3> HIDE DEF P
    <3> QED  BY <2>1, <2>2, NumberInduction
  <2>4. \A k \in 0..n : t[k] \in V
    <3> HIDE DEF t
    <3> QED  BY <2>3
  <2> QED  BY <2>4
<1>10. NotedOneByOne(t, s, q, n)
  BY <1>7, <1>8 DEF NotedOneByOne
<1>11. FoldLeft(Noted, s, q) = t[n]
  BY <1>6
<1> QED  BY <1>9, <1>10, <1>11

\* Nothing of the block is left in the queue, and nothing new is in it.
LEMMA WithoutIsOutside ==
    ASSUME NEW q \in Seq(Envelope), NEW B
    PROVE  Without(q, B) \in Seq(Envelope) /\ Range(Without(q, B)) \subseteq Range(q) \ B
<1> DEFINE n == Len(q)
           R == Range(q) \ B
           V == Seq(Envelope)
           Step(v, e) == IF e \in B THEN v ELSE Append(v, e)
           G == [k \in 1..n |-> [v \in V |-> Step(v, q[k])]]
           Eq(f) == f = [r \in SUBSET (1..n) |-> IF r = {} THEN <<>>
                                               ELSE Step(f[r \ {Max(r)}], q[Max(r)])]
           it == CHOOSE f : Eq(f)
<1>1. n \in Nat /\ DOMAIN q = 1..n /\ \A k \in 1..n : q[k] \in Envelope /\ q[k] \in Range(q)
  BY LenProperties DEF Range
<1>2. G \in [1..n -> [V -> V]]
  BY <1>1, AppendProperties
<1>3. PICK f \in [SUBSET (1..n) -> V] : Folds(f, <<>>, G, n)
  <2> HIDE DEF G
  <2>1. <<>> \in V
    BY EmptySeq
  <2> QED  BY <1>1, <1>2, <2>1, FoldExists
<1>4. ASSUME NEW r \in SUBSET (1..n)
      PROVE  f[r] = IF r = {} THEN <<>> ELSE Step(f[r \ {Max(r)}], q[Max(r)])
  <2>1. r # {} => Max(r) \in 1..n /\ r \ {Max(r)} \in SUBSET (1..n)
    BY <1>1, TopIsIn DEF Picks, Tops
  <2> HIDE DEF Step
  <2> QED  BY <1>3, <2>1 DEF Folds
<1>5. Eq(f)
  <2> HIDE DEF Step
  <2> QED  BY <1>3, <1>4
<1>6. Eq(it)
  <2> HIDE DEF Eq
  <2> QED  BY <1>5
<1>7. Without(q, B) = it[1..n]
  BY <1>1 DEF Without, FoldLeft, MapThenFoldSet
<1> HIDE DEF it
<1> DEFINE P == {k \in Nat : k <= n => it[1..k] \in V /\ Range(it[1..k]) \subseteq R}
<1>8. 0 \in P
  <2>1. it[1..0] = <<>> /\ <<>> \in V /\ Range(<<>>) = {}
    BY <1>6, EmptySeq DEF Range
  <2> QED  BY <2>1
<1>9. ASSUME NEW k \in Nat, k \in P
      PROVE  k + 1 \in P
  <2>1. SUFFICES ASSUME k + 1 <= n
                 PROVE  it[1..(k + 1)] \in V /\ Range(it[1..(k + 1)]) \subseteq R
    OBVIOUS
  <2>2. k + 1 \in 1..n /\ (k + 1) - 1 = k /\ 1..(k + 1) \in SUBSET (1..n) /\ 1..(k + 1) # {}
    <3>1. k + 1 \in 1..n /\ (k + 1) - 1 = k /\ k + 1 \in 1..(k + 1)
      BY <1>1, <2>1
    <3>2. \A i \in 1..(k + 1) : i \in 1..n
      BY <1>1, <2>1
    <3> QED  BY <3>1, <3>2
  <2>3. it[1..(k + 1)] = Step(it[1..k], q[k + 1])
    <3>1. it[1..(k + 1)] = Step(it[(1..(k + 1)) \ {Max(1..(k + 1))}], q[Max(1..(k + 1))])
      BY <1>6, <2>2
    <3> HIDE DEF Step
    <3> QED  BY <1>1, <2>2, <3>1, TopIsIn
  <2>4. /\ it[1..k] \in V /\ Range(it[1..k]) \subseteq R
        /\ q[k + 1] \in Envelope /\ q[k + 1] \in Range(q)
    BY <1>1, <1>9, <2>1, <2>2
  <2> DEFINE v == it[1..k]
             e == q[k + 1]
  <2>5. /\ Append(v, e) \in V
        /\ Range(Append(v, e)) \subseteq Range(v) \cup {e}
    <3> HIDE DEF v, e
    <3>1. v \in V /\ e \in Envelope
      BY <2>4 DEF v, e
    <3>2. /\ Append(v, e) \in V /\ Len(v) \in Nat /\ DOMAIN v = 1..Len(v)
          /\ DOMAIN Append(v, e) = 1..(Len(v) + 1)
          /\ \A i \in 1..Len(v) : Append(v, e)[i] = v[i]
          /\ Append(v, e)[Len(v) + 1] = e
      BY <3>1, AppendProperties, LenProperties
    <3>3. ASSUME NEW i \in 1..(Len(v) + 1)
          PROVE  Append(v, e)[i] \in Range(v) \cup {e}
      <4>1. i \in 1..Len(v) \/ i = Len(v) + 1
        BY <3>2
      <4> QED  BY <3>2, <4>1 DEF Range
    <3> QED  BY <3>2, <3>3 DEF Range
  <2> QED  BY <2>3, <2>4, <2>5
<1>10. n \in P
  <2> HIDE DEF P
  <2> QED  BY <1>1, <1>8, <1>9, NumberInduction
<1> QED  BY <1>1, <1>7, <1>10

-----------------------------------------------------------------------------
(* What seen recalls *)

\* s recalls what is in A, all but T: what is not in it any more has SeenCap
\* others in L, which holds what came after each.
Recalls(s, A, L, T) ==
    /\ s \in Seq(Envelope) /\ Len(s) <= SeenCap
    /\ \A i \in 1..Len(s) : s[i] \in A
    /\ \A i \in 1..Len(s) : \A j \in 1..Len(s) : i < j => s[i] # s[j] /\ s[j] \in L[s[i]]
    /\ \A e \in A \ T : e \in Range(s) \/ Cardinality(L[e]) >= SeenCap

AllFinite(A, L) == \A e \in A : IsFiniteSet(L[e])

\* x comes after everything else.
Latest(x, A, L) == \A e \in A : e # x => x \in L[e]

\* What is pushed out leaves SeenCap others behind it.
LEMMA PushedOut ==
    ASSUME NEW n \in Nat, NEW a \in Seq(Envelope), Len(a) = n + 1, NEW F, IsFiniteSet(F),
           \A i \in 1..Len(a) : \A j \in 1..Len(a) : i < j => a[i] # a[j],
           \A j \in 2..Len(a) : a[j] \in F
    PROVE  /\ Tail(a) \in Seq(Envelope) /\ Len(Tail(a)) = n
           /\ \A i \in 1..n : Tail(a)[i] = a[i + 1]
           /\ Cardinality(F) >= n
<1> DEFINE r == Tail(a)
           f == [i \in 1..n |-> a[i + 1]]
<1>1. a # <<>>
  BY EmptySeq
<1>2. r \in Seq(Envelope) /\ Len(r) = n /\ \A i \in 1..n : r[i] = a[i + 1]
  BY <1>1, HeadTailProperties
<1>3. f \in Injection(1..n, F)
  <2>1. \A i \in 1..n : a[i + 1] \in F
    BY <1>2
  <2>2. \A i, j \in 1..n : f[i] = f[j] => i = j
    BY <1>2
  <2>3. f \in [1..n -> F] /\ DOMAIN f = 1..n
    BY <2>1
  <2> HIDE DEF f
  <2> QED  BY <2>2, <2>3 DEF Injection, IsInjective
<1> HIDE DEF f
<1>4. Cardinality(1..n) <= Cardinality(F) /\ Cardinality(1..n) = n
  BY <1>3, FS_Injection, FS_Interval
<1>5. Cardinality(F) \in Nat
  BY FS_CardinalityType
<1> QED  BY <1>2, <1>4, <1>5

LEMMA NotedRecalls ==
    ASSUME NEW s, NEW A, NEW L, NEW T, Recalls(s, A, L, T), AllFinite(A, L),
           NEW x \in Envelope, x \in A, Latest(x, A, L)
    PROVE  Recalls(Noted(s, x), A, L, T \ {x})
<1> DEFINE all == Append(s, x)
           n == Len(s)
<1>1. s \in Seq(Envelope) /\ n \in Nat /\ n <= SeenCap /\ SeenCap \in Nat /\ DOMAIN s = 1..n
  BY LenProperties, OffersAssumption DEF Recalls
<1>2. CASE x \in Range(s)
  BY <1>2 DEF Noted, Recalls
<1>3. CASE x \notin Range(s)
  <2>1. /\ all \in Seq(Envelope) /\ Len(all) = n + 1 /\ all[n + 1] = x
        /\ \A i \in 1..n : all[i] = s[i]
    BY <1>1, AppendProperties
  <2>2. DOMAIN all = 1..(n + 1)
    BY <2>1, LenProperties
  <2>3. Noted(s, x) = IF Len(all) > SeenCap THEN Tail(all) ELSE all
    BY <1>3 DEF Noted
  <2> HIDE DEF all
  <2>4. \A i \in 1..(n + 1) : all[i] \in A
    <3>1. \A i \in 1..n : all[i] \in A
      BY <2>1 DEF Recalls
    <3> QED  BY <1>1, <2>1, <3>1
  <2>5. ASSUME NEW i \in 1..(n + 1), NEW j \in 1..(n + 1), i < j
        PROVE  all[i] # all[j] /\ all[j] \in L[all[i]]
    <3>1. i \in 1..n
      BY <1>1, <2>5
    <3>2. CASE j = n + 1
      <4>1. all[i] = s[i] /\ all[j] = x /\ s[i] \in A /\ s[i] # x
        BY <1>1, <1>3, <2>1, <3>1, <3>2 DEF Recalls, Range
      <4> QED  BY <4>1 DEF Latest
    <3>3. CASE j # n + 1
      <4>1. j \in 1..n
        BY <1>1, <3>3
      <4> QED  BY <2>1, <2>5, <3>1, <4>1 DEF Recalls
    <3> QED  BY <3>2, <3>3
  <2>6. ASSUME NEW e \in A \ (T \ {x})
        PROVE  e \in Range(all) \/ Cardinality(L[e]) >= SeenCap
    <3>1. CASE e = x
      <4>1. n + 1 \in DOMAIN all
        BY <1>1, <2>2
      <4> QED  BY <2>1, <3>1, <4>1 DEF Range
    <3>2. CASE e \in Range(s)
      <4>1. PICK i \in 1..n : s[i] = e
        BY <1>1, <3>2 DEF Range
      <4>2. i \in DOMAIN all /\ all[i] = e
        BY <1>1, <2>1, <2>2, <4>1
      <4> QED  BY <4>2 DEF Range
    <3>3. CASE e # x /\ e \notin Range(s)
      BY <3>3 DEF Recalls
    <3> QED  BY <3>1, <3>2, <3>3
  <2>7. CASE Len(all) > SeenCap
    <3> DEFINE r == Tail(all)
               F == L[all[1]]
    <3>1. n = SeenCap /\ 1 \in 1..(n + 1)
      <4>1. n + 1 > SeenCap
        BY <2>1, <2>7
      <4>2. n \in Nat /\ SeenCap \in Nat /\ n <= SeenCap
        BY <1>1
      <4> HIDE DEF n
      <4> QED  BY <4>1, <4>2
    <3>2. IsFiniteSet(F)
      BY <2>4, <3>1 DEF AllFinite
    <3>3. \A j \in 2..Len(all) : all[j] \in F
      BY <1>1, <2>1, <2>5, <3>1
    <3>4. \A i \in 1..Len(all) : \A j \in 1..Len(all) : i < j => all[i] # all[j]
      BY <2>1, <2>5
    <3> HIDE DEF F
    <3>5. /\ r \in Seq(Envelope) /\ Len(r) = n /\ \A i \in 1..n : r[i] = all[i + 1]
          /\ Cardinality(F) >= n
      BY <1>1, <2>1, <3>2, <3>3, <3>4, PushedOut
    <3> HIDE DEF r
    <3>6. \A i \in 1..n : r[i] \in A
      BY <1>1, <2>4, <3>5
    <3>7. \A i \in 1..n : \A j \in 1..n : i < j => r[i] # r[j] /\ r[j] \in L[r[i]]
      <4>1. ASSUME NEW i \in 1..n, NEW j \in 1..n, i < j
            PROVE  r[i] # r[j] /\ r[j] \in L[r[i]]
        <5>1. i + 1 \in 1..(n + 1) /\ j + 1 \in 1..(n + 1) /\ i + 1 < j + 1
          BY <1>1, <4>1
        <5> QED  BY <2>5, <3>5, <5>1
      <4> QED  BY <4>1
    <3>8. ASSUME NEW e \in A \ (T \ {x})
          PROVE  e \in Range(r) \/ Cardinality(L[e]) >= SeenCap
      <4>1. CASE e \in Range(all)
        <5>1. PICK i \in 1..(n + 1) : all[i] = e
          BY <2>2, <4>1 DEF Range
        <5>2. CASE i = 1
          BY <3>1, <3>5, <5>1, <5>2 DEF F
        <5>3. CASE i # 1
          <6>1. i - 1 \in 1..n /\ (i - 1) + 1 = i
            BY <1>1, <5>3
          <6>2. i - 1 \in DOMAIN r /\ r[i - 1] = e
            BY <3>5, <5>1, <6>1, LenProperties
          <6> QED  BY <6>2 DEF Range
        <5> QED  BY <5>2, <5>3
      <4>2. CASE e \notin Range(all)
        BY <2>6, <4>2
      <4> QED  BY <4>1, <4>2
    <3>9. Noted(s, x) = r
      BY <2>3, <2>7 DEF r
    <3>10. Len(r) <= SeenCap
      BY <1>1, <3>5
    <3>11. Recalls(r, A, L, T \ {x})
      BY <3>5, <3>6, <3>7, <3>8, <3>10 DEF Recalls
    <3> QED  BY <3>9, <3>11
  <2>8. CASE ~(Len(all) > SeenCap)
    <3>1. Noted(s, x) = all /\ Len(all) <= SeenCap
      BY <1>1, <2>1, <2>3, <2>8
    <3> QED  BY <2>1, <2>4, <2>5, <2>6, <3>1 DEF Recalls
  <2> QED  BY <2>7, <2>8
<1> QED  BY <1>2, <1>3

\* A block is remembered as a whole, in any order.
LEMMA BlockRecalls ==
    ASSUME NEW s, NEW A, NEW L, NEW B \in SUBSET Envelope, IsFiniteSet(B), B \subseteq A,
           Recalls(s, A, L, B), AllFinite(A, L), \A x \in B : Latest(x, A, L),
           NEW q \in SetToSeqs(B)
    PROVE  Recalls(FoldLeft(Noted, s, q), A, L, {})
<1> DEFINE n == Cardinality(B)
           Ahead(k) == {q[j] : j \in 1..k}
<1>1. n \in Nat /\ q \in [1..n -> B] /\ DOMAIN q = 1..n /\ \A i, j \in 1..n : i # j => q[i] # q[j]
  BY FS_CardinalityType DEF SetToSeqs
<1>2. Ahead(n) = B
  <2>1. q \in Injection(1..n, B)
    BY <1>1 DEF Injection, IsInjective
  <2>2. q \in Surjection(1..n, B)
    BY <1>1, <2>1, FS_Injection, FS_Interval
  <2> QED  BY <1>1, <2>2 DEF Surjection
<1>3. s \in Seq(Envelope) /\ q \in [1..n -> Envelope]
  BY <1>1 DEF Recalls
<1>4. PICK t \in [0..n -> Seq(Envelope)] : NotedOneByOne(t, s, q, n) /\ FoldLeft(Noted, s, q) = t[n]
  BY <1>1, <1>3, BlockIsNoted
<1> DEFINE P == {k \in Nat : k <= n => Recalls(t[k], A, L, B \ Ahead(k))}
<1>5. 0 \in P
  <2>1. Ahead(0) = {} /\ B \ {} = B /\ t[0] = s
    BY <1>4 DEF NotedOneByOne
  <2> HIDE DEF Ahead
  <2> QED  BY <2>1
<1>6. ASSUME NEW k \in Nat, k \in P
      PROVE  k + 1 \in P
  <2>1. SUFFICES ASSUME k + 1 <= n
                 PROVE  Recalls(t[k + 1], A, L, B \ Ahead(k + 1))
    OBVIOUS
  <2>2. k + 1 \in 1..n /\ (k + 1) - 1 = k /\ Recalls(t[k], A, L, B \ Ahead(k))
    BY <1>1, <1>6, <2>1
  <2>3. q[k + 1] \in B /\ t[k + 1] = Noted(t[k], q[k + 1])
    BY <1>1, <1>4, <2>2 DEF NotedOneByOne
  <2>4. Ahead(k + 1) = Ahead(k) \cup {q[k + 1]}
    <3>1. \A j : j \in 1..(k + 1) <=> j \in 1..k \/ j = k + 1
      OBVIOUS
    <3> QED  BY <3>1
  <2>5. (B \ Ahead(k)) \ {q[k + 1]} = B \ Ahead(k + 1)
    BY <2>4
  <2> HIDE DEF Ahead
  <2>6. q[k + 1] \in Envelope /\ q[k + 1] \in A /\ Latest(q[k + 1], A, L)
    BY <2>3
  <2>7. Recalls(Noted(t[k], q[k + 1]), A, L, (B \ Ahead(k)) \ {q[k + 1]})
    BY <2>2, <2>6, NotedRecalls
  <2> QED  BY <2>3, <2>5, <2>7
<1>7. n \in P
  <2> HIDE DEF P
  <2> QED  BY <1>1, <1>5, <1>6, NumberInduction
<1>8. B \ Ahead(n) = {}
  BY <1>2
<1>9. Recalls(t[n], A, L, B \ Ahead(n))
  <2> HIDE DEF Ahead, n
  <2> QED  BY <1>1, <1>7
<1> HIDE DEF Ahead, n
<1> QED  BY <1>4, <1>8, <1>9

-----------------------------------------------------------------------------
(* What a node has applied, and what came after each envelope *)

Blocks == {B \in SUBSET Envelope : IsFiniteSet(B)}

AppliedBy(ch, f, d) == UNION {ch[i] : i \in f + 1..d}
With(ch, f, d, e) == {i \in f + 1..d : e \in ch[i]}
LaterBy(ch, f, d, e) == (UNION {ch[i] : i \in Min(With(ch, f, d, e))..d}) \ {e}
LaterOf(ch, f, d) == [e \in AppliedBy(ch, f, d) |-> LaterBy(ch, f, d, e)]

LEMMA FirstIs ==
    ASSUME NEW ch, NEW f \in Nat, NEW d \in Nat, NEW e, e \in AppliedBy(ch, f, d)
    PROVE  /\ Min(With(ch, f, d, e)) \in f + 1..d
           /\ e \in ch[Min(With(ch, f, d, e))]
           /\ \A i \in With(ch, f, d, e) : Min(With(ch, f, d, e)) <= i
<1>1. With(ch, f, d, e) # {}
  BY DEF With, AppliedBy
<1>2. With(ch, f, d, e) \subseteq f + 1..d /\ \A i \in With(ch, f, d, e) : e \in ch[i]
  BY DEF With
<1>3. f + 1..d \subseteq Nat
  OBVIOUS
<1>4. /\ Min(With(ch, f, d, e)) \in With(ch, f, d, e)
      /\ \A i \in With(ch, f, d, e) : Min(With(ch, f, d, e)) <= i
  BY <1>1, <1>2, <1>3, MinIsIn
<1> QED  BY <1>2, <1>4

LEMMA LaterIsFinite ==
    ASSUME NEW ch \in Seq(Blocks), NEW f \in Nat, NEW d \in Nat, d <= Len(ch)
    PROVE  /\ AppliedBy(ch, f, d) \subseteq Envelope
           /\ AllFinite(AppliedBy(ch, f, d), LaterOf(ch, f, d))
<1>1. Len(ch) \in Nat /\ \A i \in 1..Len(ch) : ch[i] \in Blocks
  BY LenProperties
<1>2. \A i \in f + 1..d : ch[i] \in SUBSET Envelope
  BY <1>1 DEF Blocks
<1>3. ASSUME NEW e \in AppliedBy(ch, f, d)
      PROVE  IsFiniteSet(LaterBy(ch, f, d, e))
  <2> DEFINE m == Min(With(ch, f, d, e))
             g == [i \in m..d |-> ch[i]]
             T == {ch[i] : i \in m..d}
  <2>1. m \in f + 1..d
    BY FirstIs
  <2> HIDE DEF m
  <2>2. m \in Int /\ IsFiniteSet(m..d) /\ \A i \in m..d : IsFiniteSet(ch[i])
    <3>1. m \in Nat /\ m >= 1 /\ \A i \in m..d : i \in 1..Len(ch)
      BY <1>1, <2>1
    <3> QED  BY <1>1, <3>1, FS_Interval DEF Blocks
  <2>3. g \in Surjection(m..d, T)
    BY DEF Surjection
  <2>4. \A B \in T : IsFiniteSet(B)
    BY <2>2
  <2> HIDE DEF g, T
  <2>5. IsFiniteSet(UNION T)
    BY <2>2, <2>3, <2>4, FS_Surjection, FS_UNION
  <2>6. LaterBy(ch, f, d, e) = (UNION T) \ {e}
    BY DEF LaterBy, T, m
  <2> QED  BY <2>5, <2>6, FS_RemoveElement
<1> QED  BY <1>2, <1>3 DEF AppliedBy, AllFinite, LaterOf

\* One more block: what came after an envelope still does, and all of the block too.
LEMMA LaterGrows ==
    ASSUME NEW ch, NEW f \in Nat, NEW d \in Nat, f <= d
    PROVE  /\ AppliedBy(ch, f, d + 1) = AppliedBy(ch, f, d) \cup ch[d + 1]
           /\ \A e \in AppliedBy(ch, f, d) : LaterBy(ch, f, d, e) \subseteq LaterBy(ch, f, d + 1, e)
           /\ \A e \in AppliedBy(ch, f, d + 1) : \A x \in ch[d + 1] : e # x => x \in LaterBy(ch, f, d + 1, e)
<1>1. \A i : i \in f + 1..(d + 1) <=> i \in f + 1..d \/ i = d + 1
  OBVIOUS
<1>2. AppliedBy(ch, f, d + 1) = AppliedBy(ch, f, d) \cup ch[d + 1]
  BY <1>1 DEF AppliedBy
<1>3. ASSUME NEW e \in AppliedBy(ch, f, d)
      PROVE  LaterBy(ch, f, d, e) \subseteq LaterBy(ch, f, d + 1, e)
  <2> DEFINE m == Min(With(ch, f, d, e))
             k == Min(With(ch, f, d + 1, e))
  <2>1. m \in f + 1..d /\ e \in ch[m]
    BY FirstIs
  <2>2. e \in AppliedBy(ch, f, d + 1)
    BY <1>2
  <2>3. k \in f + 1..(d + 1) /\ \A i \in With(ch, f, d + 1, e) : k <= i
    <3>1. d + 1 \in Nat
      OBVIOUS
    <3> QED  BY <2>2, <3>1, FirstIs
  <2>4. m \in With(ch, f, d + 1, e)
    BY <1>1, <2>1 DEF With
  <2>5. k <= m
    BY <2>3, <2>4
  <2> HIDE DEF m, k
  <2>6. \A i \in m..d : i \in k..(d + 1)
    BY <2>1, <2>3, <2>5
  <2> QED  BY <2>6 DEF LaterBy, m, k
<1>4. ASSUME NEW e \in AppliedBy(ch, f, d + 1), NEW x \in ch[d + 1], e # x
      PROVE  x \in LaterBy(ch, f, d + 1, e)
  <2> DEFINE k == Min(With(ch, f, d + 1, e))
  <2>1. d + 1 \in Nat
    OBVIOUS
  <2>2. k \in f + 1..(d + 1)
    BY <2>1, FirstIs
  <2> HIDE DEF k
  <2>3. d + 1 \in k..(d + 1)
    BY <2>2
  <2> QED  BY <1>4, <2>3 DEF LaterBy, k
<1> QED  BY <1>2, <1>3, <1>4

\* A block decided but not applied changes neither.
LEMMA DecidedIsNotApplied ==
    ASSUME NEW ch, NEW g, NEW f \in Nat, NEW d \in Nat, \A i \in 1..d : g[i] = ch[i]
    PROVE  AppliedBy(g, f, d) = AppliedBy(ch, f, d) /\ LaterOf(g, f, d) = LaterOf(ch, f, d)
<1>1. \A i \in f + 1..d : g[i] = ch[i]
  OBVIOUS
<1>2. AppliedBy(g, f, d) = AppliedBy(ch, f, d)
  BY <1>1 DEF AppliedBy
<1>3. ASSUME NEW e \in AppliedBy(ch, f, d)
      PROVE  LaterBy(g, f, d, e) = LaterBy(ch, f, d, e)
  <2> DEFINE m == Min(With(ch, f, d, e))
  <2>1. With(g, f, d, e) = With(ch, f, d, e)
    BY <1>1 DEF With
  <2>2. m \in f + 1..d
    BY FirstIs
  <2> HIDE DEF m
  <2>3. \A i \in m..d : g[i] = ch[i]
    BY <2>2
  <2> QED  BY <2>1, <2>3 DEF LaterBy, m
<1> QED  BY <1>2, <1>3 DEF LaterOf

-----------------------------------------------------------------------------
(* A queue and what it must not take again *)

\* What is queued though it was applied has SeenCap others behind it.
Aged(q, A, L) == \A e \in Range(q) \cap A : Cardinality(L[e]) >= SeenCap

Settled(q, s, ch, f, d) ==
    /\ q \in Seq(Envelope)
    /\ Recalls(s, AppliedBy(ch, f, d), LaterOf(ch, f, d), {})
    /\ Aged(q, AppliedBy(ch, f, d), LaterOf(ch, f, d))

LEMMA SettledStart ==
    ASSUME NEW ch, NEW f \in Nat
    PROVE  Settled(<<>>, <<>>, ch, f, f)
<1>1. AppliedBy(ch, f, f) = {}
  <2>1. f + 1..f = {}
    OBVIOUS
  <2> QED  BY <2>1 DEF AppliedBy
<1>2. <<>> \in Seq(Envelope) /\ Len(<<>>) = 0 /\ SeenCap \in Nat
  BY EmptySeq, OffersAssumption
<1>3. Recalls(<<>>, {}, LaterOf(ch, f, f), {})
  BY <1>2 DEF Recalls
<1> QED  BY <1>1, <1>2, <1>3 DEF Settled, Aged

\* What is pushed is not remembered: it was never applied, or is forgotten.
LEMMA SettledPush ==
    ASSUME NEW q, NEW s, NEW ch, NEW f, NEW d, Settled(q, s, ch, f, d),
           NEW e \in Envelope, e \notin Range(s)
    PROVE  Settled(Append(q, e), s, ch, f, d)
<1> DEFINE A == AppliedBy(ch, f, d)
           L == LaterOf(ch, f, d)
           r == Append(q, e)
<1> HIDE DEF A, L
<1>1. q \in Seq(Envelope) /\ Recalls(s, A, L, {}) /\ Aged(q, A, L)
  BY DEF Settled, A, L
<1>2. /\ r \in Seq(Envelope) /\ Len(q) \in Nat /\ DOMAIN q = 1..Len(q) /\ DOMAIN r = 1..(Len(q) + 1)
      /\ r[Len(q) + 1] = e /\ \A i \in 1..Len(q) : r[i] = q[i]
  BY <1>1, AppendProperties, LenProperties
<1> HIDE DEF r
<1>3. Range(r) \subseteq Range(q) \cup {e}
  <2>1. ASSUME NEW i \in 1..(Len(q) + 1)
        PROVE  r[i] \in Range(q) \cup {e}
    <3>1. i \in 1..Len(q) \/ i = Len(q) + 1
      BY <1>2
    <3> QED  BY <1>2, <3>1 DEF Range
  <2> QED  BY <1>2, <2>1 DEF Range
<1>4. e \in A => Cardinality(L[e]) >= SeenCap
  BY <1>1 DEF Recalls
<1>5. Aged(r, A, L)
  BY <1>1, <1>3, <1>4 DEF Aged
<1> QED  BY <1>1, <1>2, <1>5 DEF Settled, A, L, r

LEMMA SettledDecide ==
    ASSUME NEW q, NEW s, NEW ch, NEW g, NEW f \in Nat, NEW d \in Nat, Settled(q, s, ch, f, d),
           \A i \in 1..d : g[i] = ch[i]
    PROVE  Settled(q, s, g, f, d)
<1>1. AppliedBy(g, f, d) = AppliedBy(ch, f, d) /\ LaterOf(g, f, d) = LaterOf(ch, f, d)
  BY DecidedIsNotApplied
<1> QED  BY <1>1 DEF Settled

\* A block applied leaves the queue and is remembered, and what was remembered
\* or forgotten has its envelopes behind it.
LEMMA SettledCommit ==
    ASSUME NEW q, NEW s, NEW ch \in Seq(Blocks), NEW f \in Nat, NEW d \in Nat, f <= d, d + 1 <= Len(ch),
           Settled(q, s, ch, f, d), NEW x \in SetToSeqs(ch[d + 1])
    PROVE  Settled(Without(q, ch[d + 1]), FoldLeft(Noted, s, x), ch, f, d + 1)
<1> DEFINE A == AppliedBy(ch, f, d)
           L == LaterOf(ch, f, d)
           A1 == AppliedBy(ch, f, d + 1)
           L1 == LaterOf(ch, f, d + 1)
           B == ch[d + 1]
<1>1. d + 1 \in 1..Len(ch) /\ B \in Blocks
  BY LenProperties
<1>2. AllFinite(A1, L1)
  <2>1. d + 1 \in Nat
    OBVIOUS
  <2> QED  BY <2>1, LaterIsFinite
<1>3. A1 = A \cup B
  BY LaterGrows
<1>4. \A e \in A : L[e] \subseteq L1[e]
  BY <1>3, LaterGrows DEF LaterOf
<1>5. \A y \in B : Latest(y, A1, L1)
  BY LaterGrows DEF LaterOf, Latest
<1>6. q \in Seq(Envelope) /\ Recalls(s, A, L, {}) /\ Aged(q, A, L)
  BY DEF Settled
<1>7. AllFinite(A, L)
  BY LaterIsFinite
<1> HIDE DEF A, L, A1, L1, B
<1>8. ASSUME NEW e \in A, Cardinality(L[e]) >= SeenCap
      PROVE  Cardinality(L1[e]) >= SeenCap
  <2> DEFINE F == L[e]
             G == L1[e]
  <2>1. F \in SUBSET G /\ IsFiniteSet(G)
    BY <1>2, <1>3, <1>4 DEF AllFinite
  <2>2. Cardinality(F) >= SeenCap
    BY <1>8
  <2> HIDE DEF F, G
  <2>3. Cardinality(F) <= Cardinality(G) /\ IsFiniteSet(F)
    BY <2>1, FS_Subset
  <2>4. Cardinality(G) >= SeenCap
    <3>1. Cardinality(F) \in Nat /\ Cardinality(G) \in Nat
      BY <2>1, <2>3, FS_CardinalityType
    <3>2. SeenCap \in Nat
      BY OffersAssumption
    <3> QED  BY <2>2, <2>3, <3>1, <3>2
  <2> QED  BY <2>4 DEF G
<1>9. Recalls(s, A1, L1, B)
  <2>1. \A i \in 1..Len(s) : s[i] \in A1
    BY <1>3, <1>6 DEF Recalls
  <2>2. \A i \in 1..Len(s) : \A j \in 1..Len(s) : i < j => s[i] # s[j] /\ s[j] \in L1[s[i]]
    <3>1. \A i \in 1..Len(s) : \A j \in 1..Len(s) : i < j => s[i] # s[j] /\ s[j] \in L[s[i]]
      BY <1>6 DEF Recalls
    <3>2. \A i \in 1..Len(s) : s[i] \in A
      BY <1>6 DEF Recalls
    <3> QED  BY <1>4, <3>1, <3>2
  <2>3. \A e \in A1 \ B : e \in Range(s) \/ Cardinality(L1[e]) >= SeenCap
    BY <1>3, <1>6, <1>8 DEF Recalls
  <2>4. s \in Seq(Envelope) /\ Len(s) <= SeenCap
    BY <1>6 DEF Recalls
  <2> QED  BY <2>1, <2>2, <2>3, <2>4 DEF Recalls
<1>10. Recalls(FoldLeft(Noted, s, x), A1, L1, {})
  <2>1. B \in SUBSET Envelope /\ IsFiniteSet(B) /\ B \subseteq A1 /\ x \in SetToSeqs(B)
    BY <1>1, <1>3 DEF Blocks, B
  <2> QED  BY <1>2, <1>5, <1>9, <2>1, BlockRecalls
<1>11. Without(q, B) \in Seq(Envelope) /\ Range(Without(q, B)) \subseteq Range(q) \ B
  BY <1>6, WithoutIsOutside
<1>12. Aged(Without(q, B), A1, L1)
  <2>1. ASSUME NEW e \in Range(Without(q, B)) \cap A1
        PROVE  Cardinality(L1[e]) >= SeenCap
    <3>1. e \in Range(q) \cap A
      BY <1>3, <1>11, <2>1
    <3> QED  BY <1>6, <1>8, <3>1 DEF Aged
  <2> QED  BY <2>1 DEF Aged
<1> QED  BY <1>10, <1>11, <1>12 DEF Settled, A1, L1, B

-----------------------------------------------------------------------------
(* The inductive invariant *)

NodeTypes ==
    /\ now \in 0..MaxTime /\ sent \subseteq Envelope /\ chain \in Seq(Blocks)
    /\ pool \in [Nodes -> Pools]
    /\ tombs \in [Nodes -> Seq(Offers)] /\ over \in [Nodes -> Seq(Offers)]
    /\ queue \in [Nodes -> Seq(Envelope)] /\ seen \in [Nodes -> Seq(Envelope)]
    /\ done \in [Nodes -> Nat] /\ from \in [Nodes -> Nat]

\* The pool of a node, and the offers it closed.
PoolKept(p, t, o) == Roomy(p) /\ Recent(t, o) /\ Reopened(p, o)

\* Its mempool, and the blocks it applied.
QueueKept(q, s, ch, f, d) == f <= d /\ d <= Len(ch) /\ Settled(q, s, ch, f, d)

NodesKept ==
    /\ NodeTypes
    /\ \A n \in Nodes : PoolKept(pool[n], tombs[n], over[n])
    /\ \A n \in Nodes : QueueKept(queue[n], seen[n], chain, from[n], done[n])

\* What a step of one node leaves there: its pool, tombstones and history, its
\* queue, what it has seen, and the blocks it started from and has applied.
NodeLeft(n, p, t, o, q, s, f, d) ==
    /\ PoolKept(p, t, o) /\ f \in Nat /\ d \in Nat /\ QueueKept(q, s, chain, f, d)
    /\ pool' = [pool EXCEPT ![n] = p] /\ tombs' = [tombs EXCEPT ![n] = t] /\ over' = [over EXCEPT ![n] = o]
    /\ queue' = [queue EXCEPT ![n] = q] /\ seen' = [seen EXCEPT ![n] = s]
    /\ from' = [from EXCEPT ![n] = f] /\ done' = [done EXCEPT ![n] = d]
    /\ now' = now /\ chain' = chain /\ sent' \subseteq Envelope

\* The others are as they were.
LEMMA NodeChange ==
    ASSUME NodesKept, NEW n \in Nodes, NEW p, NEW t, NEW o, NEW q, NEW s, NEW f, NEW d,
           NodeLeft(n, p, t, o, q, s, f, d)
    PROVE  NodesKept'
<1> USE DEF NodeLeft
<1>1. /\ p \in Pools /\ t \in Seq(Offers) /\ o \in Seq(Offers)
      /\ q \in Seq(Envelope) /\ s \in Seq(Envelope)
  BY DEF PoolKept, Roomy, Recent, QueueKept, Settled, Recalls
<1>2. NodeTypes'
  BY <1>1 DEF NodesKept, NodeTypes
<1>3. ASSUME NEW c \in Nodes
      PROVE  /\ PoolKept(pool'[c], tombs'[c], over'[c])
             /\ QueueKept(queue'[c], seen'[c], chain, from'[c], done'[c])
  <2>1. PoolKept(pool[c], tombs[c], over[c]) /\ QueueKept(queue[c], seen[c], chain, from[c], done[c])
    BY DEF NodesKept
  <2>2. CASE c = n
    <3>1. /\ pool'[c] = p /\ tombs'[c] = t /\ over'[c] = o
          /\ queue'[c] = q /\ seen'[c] = s /\ from'[c] = f /\ done'[c] = d
      BY <2>2 DEF NodesKept, NodeTypes
    <3> QED  BY <3>1
  <2>3. CASE c # n
    <3>1. /\ pool'[c] = pool[c] /\ tombs'[c] = tombs[c] /\ over'[c] = over[c]
          /\ queue'[c] = queue[c] /\ seen'[c] = seen[c] /\ from'[c] = from[c] /\ done'[c] = done[c]
      BY <2>3 DEF NodesKept, NodeTypes
    <3> QED  BY <2>1, <3>1
  <2> QED  BY <2>2, <2>3
<1> QED  BY <1>2, <1>3 DEF NodesKept

\* What a request may do to the pool of a node.
LEMMA PoolChange ==
    ASSUME NodesKept, NEW n \in Nodes,
           NEW p, NEW t, NEW o, PoolKept(p, t, o),
           pool' = [pool EXCEPT ![n] = p], tombs' = [tombs EXCEPT ![n] = t], over' = [over EXCEPT ![n] = o],
           UNCHANGED <<now, queue, seen, chain, done, from>>, sent' \subseteq Envelope
    PROVE  NodesKept'
<1>1. /\ queue' = [queue EXCEPT ![n] = queue[n]] /\ seen' = [seen EXCEPT ![n] = seen[n]]
      /\ from' = [from EXCEPT ![n] = from[n]] /\ done' = [done EXCEPT ![n] = done[n]]
      /\ from[n] \in Nat /\ done[n] \in Nat
  BY DEF NodesKept, NodeTypes
<1>2. QueueKept(queue[n], seen[n], chain, from[n], done[n])
  BY DEF NodesKept
<1> DEFINE q == queue[n]
           s == seen[n]
           f == from[n]
           d == done[n]
<1> HIDE DEF q, s, f, d
<1>3. NodeLeft(n, p, t, o, q, s, f, d)
  BY <1>1, <1>2 DEF NodeLeft, q, s, f, d
<1> QED  BY <1>3, NodeChange, Zenon

\* What a push, a commit may do to its mempool.
LEMMA QueueChange ==
    ASSUME NodesKept, NEW n \in Nodes,
           NEW q, NEW s, NEW d \in Nat, QueueKept(q, s, chain, from[n], d),
           queue' = [queue EXCEPT ![n] = q], seen' = [seen EXCEPT ![n] = s], done' = [done EXCEPT ![n] = d],
           UNCHANGED <<now, pool, tombs, sent, chain, over, from>>
    PROVE  NodesKept'
<1>1. /\ pool' = [pool EXCEPT ![n] = pool[n]] /\ tombs' = [tombs EXCEPT ![n] = tombs[n]]
      /\ over' = [over EXCEPT ![n] = over[n]] /\ from' = [from EXCEPT ![n] = from[n]]
      /\ from[n] \in Nat /\ sent' \subseteq Envelope
  BY DEF NodesKept, NodeTypes
<1>2. PoolKept(pool[n], tombs[n], over[n])
  BY DEF NodesKept
<1> DEFINE p == pool[n]
           t == tombs[n]
           o == over[n]
           f == from[n]
<1> HIDE DEF p, t, o, f
<1>3. NodeLeft(n, p, t, o, q, s, f, d)
  BY <1>1, <1>2 DEF NodeLeft, p, t, o, f
<1> QED  BY <1>3, NodeChange, Zenon

LEMMA InitKept == Init => NodesKept
<1> SUFFICES ASSUME Init PROVE NodesKept
  OBVIOUS
<1>1. <<>> \in Seq(Offers) /\ <<>> \in Seq(Envelope) /\ <<>> \in Seq(Blocks) /\ Len(<<>>) = 0
  BY EmptySeq
<1>2. Roomy(<<>>) /\ <<>> \in Pools /\ DOMAIN <<>> = {}
  BY EmptyPool DEF Roomy
<1>3. NodeTypes
  <2>1. MaxTime \in Nat
    BY OffersAssumption
  <2> QED  BY <1>1, <1>2, <2>1 DEF Init, NodeTypes
<1>4. PoolKept(<<>>, <<>>, <<>>)
  BY <1>1, <1>2 DEF PoolKept, Recent, Reopened
<1>5. QueueKept(<<>>, <<>>, chain, 0, 0)
  <2>1. Settled(<<>>, <<>>, chain, 0, 0)
    BY SettledStart
  <2> QED  BY <1>1, <2>1 DEF Init, QueueKept
<1> QED  BY <1>3, <1>4, <1>5 DEF Init, NodesKept

-----------------------------------------------------------------------------
(* The requests *)

LEMMA SignRefusedKeeps ==
    ASSUME NodesKept, NEW n \in Nodes, NEW r, SignRefused(n, r)
    PROVE  NodesKept'
<1>1. Roomy(pool[n]) /\ Recent(tombs[n], over[n]) /\ Reopened(pool[n], over[n])
  BY DEF NodesKept, PoolKept
<1>2. Roomy(Live(n)) /\ DOMAIN Live(n) \subseteq DOMAIN pool[n]
  BY <1>1, LiveIsRoomy
<1>3. Recent(Remembered(tombs[n]), over[n])
  BY <1>1, RememberedIsRecent
<1>4. PoolKept(Live(n), Remembered(tombs[n]), over[n])
  BY <1>1, <1>2, <1>3 DEF PoolKept, Reopened
<1>5. /\ pool' = [pool EXCEPT ![n] = Live(n)] /\ tombs' = [tombs EXCEPT ![n] = Remembered(tombs[n])]
      /\ over' = [over EXCEPT ![n] = over[n]] /\ sent' \subseteq Envelope
      /\ UNCHANGED <<now, queue, seen, chain, done, from>>
  BY DEF SignRefused, NodesKept, NodeTypes
<1> QED  BY <1>4, <1>5, PoolChange

LEMMA SignKeeps ==
    ASSUME NodesKept, NEW n \in Nodes, NEW r \in Requests, Sign(n, r)
    PROVE  NodesKept'
<1> DEFINE d == r.offer
<1>1. PICK p \in Places(n, r) :
          /\ pool' = [pool EXCEPT ![n] = [p EXCEPT ![d].sigs = Signatures(p, r)]]
          /\ tombs' = [tombs EXCEPT ![n] = Remembered(tombs[n])]
          /\ UNCHANGED <<now, sent, queue, seen, chain, done, over, from>>
  BY DEF Sign, NodesKept, NodeTypes
<1>2. Roomy(pool[n]) /\ Recent(tombs[n], over[n]) /\ Reopened(pool[n], over[n]) /\ now \in Nat
  BY DEF NodesKept, NodeTypes, PoolKept
<1>3. /\ Roomy(p) /\ d \in DOMAIN p /\ DOMAIN p \subseteq DOMAIN pool[n] \cup {d}
      /\ d \notin Range(Remembered(tombs[n]))
  BY <1>2, PlacesAreRoomy
<1>4. Signatures(p, r) \in SUBSET Keys /\ d \in Offers
  <2>1. p[d] \in Entry
    BY <1>3, PoolTypes DEF Roomy
  <2> QED  BY <2>1, RequestTypes DEF Entry, Signatures
<1> DEFINE S == Signatures(p, r)
           w == [p EXCEPT ![d].sigs = S]
<1> HIDE DEF S
<1>5. Roomy(w) /\ DOMAIN w = DOMAIN p
  BY <1>3, <1>4, SignedIsRoomy DEF S
<1> HIDE DEF w
<1>6. Recent(Remembered(tombs[n]), over[n])
  BY <1>2, RememberedIsRecent
<1>7. Reopened(w, over[n])
  BY <1>2, <1>3, <1>5, <1>6, OpenedIsOld
<1>8. PoolKept(w, Remembered(tombs[n]), over[n])
  BY <1>5, <1>6, <1>7 DEF PoolKept
<1>9. pool' = [pool EXCEPT ![n] = w]
  BY <1>1 DEF w, S
<1>10. over' = [over EXCEPT ![n] = over[n]] /\ sent' \subseteq Envelope
  BY <1>1 DEF NodesKept, NodeTypes
<1> QED  BY <1>1, <1>8, <1>9, <1>10, PoolChange

LEMMA SignCompletesKeeps ==
    ASSUME NodesKept, NEW n \in Nodes, NEW r \in Requests, SignCompletes(n, r)
    PROVE  NodesKept'
<1> DEFINE d == r.offer
<1>1. PICK p \in Places(n, r) :
          /\ pool' = [pool EXCEPT ![n] = Drop(p, {d})]
          /\ tombs' = [tombs EXCEPT ![n] = Append(Remembered(tombs[n]), d)]
          /\ over' = [over EXCEPT ![n] = Append(over[n], d)]
          /\ sent' = sent \cup {[offer |-> d, signers |-> Signatures(p, r)]}
          /\ UNCHANGED <<now, queue, seen, chain, done, from>>
  BY DEF SignCompletes, Closed, NodesKept, NodeTypes
<1>2. Roomy(pool[n]) /\ Recent(tombs[n], over[n]) /\ Reopened(pool[n], over[n]) /\ now \in Nat
  BY DEF NodesKept, NodeTypes, PoolKept
<1>3. Roomy(p) /\ d \in DOMAIN p /\ DOMAIN p \subseteq DOMAIN pool[n] \cup {d}
  BY <1>2, PlacesAreRoomy
<1>4. sent' \subseteq Envelope
  <2>1. p[d] \in Entry
    BY <1>3, PoolTypes DEF Roomy
  <2>2. [offer |-> d, signers |-> Signatures(p, r)] \in Envelope
    BY <2>1, RequestTypes DEF Entry, Signatures, Envelope
  <2> QED  BY <1>1, <2>2 DEF NodesKept, NodeTypes
<1>5. Roomy(Drop(p, {d})) /\ DOMAIN Drop(p, {d}) = DOMAIN p \ {d}
  BY <1>3, DropIsRoomy
<1> DEFINE w == Drop(p, {d})
<1> HIDE DEF w
<1>6. Recent(Remembered(tombs[n]), over[n]) /\ over[n] \in Seq(Offers) /\ d \in Offers
  BY <1>2, RememberedIsRecent, RequestTypes DEF Recent
<1>7. Recent(Append(Remembered(tombs[n]), d), Append(over[n], d))
  BY <1>6, ClosedIsRecent
<1>8. Reopened(w, Append(over[n], d))
  <2>1. DOMAIN w \subseteq DOMAIN pool[n] \ {d}
    BY <1>3, <1>5 DEF w
  <2> QED  BY <1>2, <1>6, <2>1, ClosedIsOver
<1>9. PoolKept(w, Append(Remembered(tombs[n]), d), Append(over[n], d))
  BY <1>5, <1>7, <1>8 DEF PoolKept, w
<1>10. pool' = [pool EXCEPT ![n] = w]
  BY <1>1 DEF w
<1> QED  BY <1>1, <1>4, <1>9, <1>10, PoolChange

LEMMA DeclineKeeps ==
    ASSUME NodesKept, NEW n \in Nodes, NEW d \in Offers, NEW k, Decline(n, d, k)
    PROVE  NodesKept'
<1>1. /\ pool' = [pool EXCEPT ![n] = Drop(pool[n], {d})]
      /\ tombs' = [tombs EXCEPT ![n] = Append(tombs[n], d)]
      /\ over' = [over EXCEPT ![n] = Append(over[n], d)]
      /\ UNCHANGED <<now, queue, seen, chain, done, from>> /\ sent' \subseteq Envelope
  BY DEF Decline, Closed, NodesKept, NodeTypes
<1>2. Roomy(pool[n]) /\ Recent(tombs[n], over[n]) /\ Reopened(pool[n], over[n]) /\ over[n] \in Seq(Offers)
  BY DEF NodesKept, PoolKept, Recent
<1>3. Roomy(Drop(pool[n], {d})) /\ DOMAIN Drop(pool[n], {d}) = DOMAIN pool[n] \ {d}
  BY <1>2, DropIsRoomy
<1> DEFINE r == Drop(pool[n], {d})
<1> HIDE DEF r
<1>4. Recent(Append(tombs[n], d), Append(over[n], d))
  BY <1>2, ClosedIsRecent
<1>5. Reopened(r, Append(over[n], d))
  BY <1>2, <1>3, ClosedIsOver DEF r
<1>6. PoolKept(r, Append(tombs[n], d), Append(over[n], d))
  BY <1>3, <1>4, <1>5 DEF PoolKept, r
<1>7. pool' = [pool EXCEPT ![n] = r]
  BY <1>1 DEF r
<1> QED  BY <1>1, <1>6, <1>7, PoolChange

-----------------------------------------------------------------------------
(* The mempool, restarts and the clock *)

LEMMA PushKeeps ==
    ASSUME NodesKept, NEW n \in Nodes, NEW e \in sent, Push(n, e)
    PROVE  NodesKept'
<1>1. /\ queue' = [queue EXCEPT ![n] = Append(queue[n], e)] /\ e \in Envelope /\ e \notin Range(seen[n])
      /\ UNCHANGED <<now, pool, tombs, sent, seen, chain, done, over, from>>
  BY DEF Push, NodesKept, NodeTypes
<1>2. QueueKept(queue[n], seen[n], chain, from[n], done[n]) /\ done[n] \in Nat
  BY DEF NodesKept, NodeTypes
<1>3. Settled(Append(queue[n], e), seen[n], chain, from[n], done[n])
  BY <1>1, <1>2, SettledPush DEF QueueKept
<1> DEFINE r == Append(queue[n], e)
<1> HIDE DEF r
<1>4. QueueKept(r, seen[n], chain, from[n], done[n])
  BY <1>2, <1>3 DEF QueueKept, r
<1>5. seen' = [seen EXCEPT ![n] = seen[n]] /\ done' = [done EXCEPT ![n] = done[n]] /\ queue' = [queue EXCEPT ![n] = r]
  BY <1>1 DEF NodesKept, NodeTypes, r
<1> DEFINE s == seen[n]
           d == done[n]
<1> HIDE DEF s, d
<1>6. /\ seen' = [seen EXCEPT ![n] = s] /\ done' = [done EXCEPT ![n] = d]
      /\ d \in Nat /\ QueueKept(r, s, chain, from[n], d)
  BY <1>2, <1>4, <1>5 DEF s, d
<1>7. UNCHANGED <<now, pool, tombs, sent, chain, over, from>>
  BY <1>1
<1> QED  BY <1>5, <1>6, <1>7, QueueChange, Zenon

LEMMA DecideKeeps ==
    ASSUME NodesKept, NEW n \in Nodes, Decide(n)
    PROVE  NodesKept'
<1> DEFINE m == Min({MaxBatch, Len(queue[n])})
           front == SubSeq(queue[n], 1, m)
<1>1. PICK B \in SUBSET Range(front) :
          chain' = Append(chain, B) /\ UNCHANGED <<now, pool, tombs, sent, queue, seen, done, over, from>>
  BY DEF Decide
<1>2. NodeTypes /\ queue[n] \in Seq(Envelope) /\ Len(queue[n]) \in Nat /\ chain \in Seq(Blocks) /\ Len(chain) \in Nat
  BY LenProperties DEF NodesKept, NodeTypes
<1>3. m \in Nat /\ m <= Len(queue[n])
  <2> DEFINE S == {MaxBatch, Len(queue[n])}
  <2>1. S \subseteq Nat /\ S # {}
    BY <1>2, OffersAssumption
  <2>2. Len(queue[n]) \in S
    OBVIOUS
  <2> HIDE DEF S
  <2>3. Min(S) \in S /\ \A i \in S : Min(S) <= i
    BY <2>1, MinIsIn
  <2> QED  BY <2>1, <2>2, <2>3 DEF S
<1> HIDE DEF m
<1>4. front \in Seq(Envelope)
  <2>1. \A i \in 1..m : queue[n][i] \in Envelope
    BY <1>2, <1>3, LenProperties
  <2>2. 1 \in Int /\ m \in Int
    BY <1>3
  <2> QED  BY <2>1, <2>2, SubSeqProperties
<1> HIDE DEF front
<1>5. B \in Blocks
  <2>1. Len(front) \in Nat /\ DOMAIN front = 1..Len(front) /\ \A i \in DOMAIN front : front[i] \in Envelope
    BY <1>4, LenProperties
  <2> DEFINE R == Range(front)
  <2>2. front \in Surjection(1..Len(front), R)
    BY <1>4, <2>1 DEF Surjection, Range
  <2>3. IsFiniteSet(1..Len(front))
    BY <2>1, FS_Interval
  <2>4. IsFiniteSet(B)
    <3> HIDE DEF R
    <3>1. IsFiniteSet(R)
      BY <2>2, <2>3, FS_Surjection
    <3>2. B \in SUBSET R
      BY <1>1 DEF R
    <3> QED  BY <3>1, <3>2, FS_Subset
  <2>5. B \subseteq Envelope
    BY <1>1, <2>1 DEF Range
  <2> QED  BY <2>4, <2>5 DEF Blocks
<1> DEFINE g == Append(chain, B)
<1>6. g \in Seq(Blocks) /\ Len(g) = Len(chain) + 1 /\ \A i \in 1..Len(chain) : g[i] = chain[i]
  BY <1>2, <1>5, AppendProperties
<1> HIDE DEF g
<1>7. ASSUME NEW c \in Nodes
      PROVE  QueueKept(queue[c], seen[c], g, from[c], done[c])
  <2>1. /\ from[c] \in Nat /\ done[c] \in Nat /\ from[c] <= done[c] /\ done[c] <= Len(chain)
        /\ Settled(queue[c], seen[c], chain, from[c], done[c])
    BY DEF NodesKept, NodeTypes, QueueKept
  <2>2. \A i \in 1..done[c] : g[i] = chain[i]
    BY <1>2, <1>6, <2>1
  <2>3. Settled(queue[c], seen[c], g, from[c], done[c])
    BY <2>1, <2>2, SettledDecide
  <2> QED  BY <1>2, <1>6, <2>1, <2>3 DEF QueueKept
<1>8. chain' = g
  BY <1>1 DEF g
<1>9. NodeTypes'
  BY <1>1, <1>2, <1>6, <1>8 DEF NodeTypes
<1>10. \A c \in Nodes : PoolKept(pool[c], tombs[c], over[c])
  BY DEF NodesKept
<1> QED  BY <1>1, <1>7, <1>8, <1>9, <1>10 DEF NodesKept

LEMMA CommitKeeps ==
    ASSUME NodesKept, NEW n \in Nodes, Commit(n)
    PROVE  NodesKept'
<1> DEFINE d == done[n]
           B == chain[d + 1]
<1>1. PICK x \in SetToSeqs(B) : seen' = [seen EXCEPT ![n] = FoldLeft(Noted, seen[n], x)]
  BY DEF Commit, NodesKept, NodeTypes
<1>2. /\ d < Len(chain) /\ done' = [done EXCEPT ![n] = d + 1] /\ queue' = [queue EXCEPT ![n] = Without(queue[n], B)]
      /\ UNCHANGED <<now, pool, tombs, sent, chain, over, from>>
  BY DEF Commit, NodesKept, NodeTypes
<1>3. /\ d \in Nat /\ from[n] \in Nat /\ chain \in Seq(Blocks) /\ Len(chain) \in Nat
      /\ QueueKept(queue[n], seen[n], chain, from[n], d)
  BY LenProperties DEF NodesKept, NodeTypes
<1> HIDE DEF d
<1>4. from[n] <= d /\ d + 1 <= Len(chain) /\ d + 1 \in Nat /\ Settled(queue[n], seen[n], chain, from[n], d)
  BY <1>2, <1>3 DEF QueueKept
<1>5. Settled(Without(queue[n], B), FoldLeft(Noted, seen[n], x), chain, from[n], d + 1)
  BY <1>1, <1>3, <1>4, SettledCommit
<1> DEFINE q == Without(queue[n], B)
           s == FoldLeft(Noted, seen[n], x)
<1> HIDE DEF q, s, B
<1>6. QueueKept(q, s, chain, from[n], d + 1)
  BY <1>3, <1>4, <1>5 DEF QueueKept, q, s
<1>7. queue' = [queue EXCEPT ![n] = q] /\ seen' = [seen EXCEPT ![n] = s]
  BY <1>1, <1>2 DEF q, s
<1> QED  BY <1>2, <1>4, <1>6, <1>7, QueueChange

LEMMA RestartKeeps ==
    ASSUME NodesKept, NEW n \in Nodes, Restart(n)
    PROVE  NodesKept'
<1>1. done[n] \in Nat /\ QueueKept(queue[n], seen[n], chain, from[n], done[n])
  BY DEF NodesKept, NodeTypes
<1>2. PoolKept(<<>>, <<>>, <<>>)
  <2>1. <<>> \in Seq(Offers) /\ Len(<<>>) = 0
    BY EmptySeq
  <2>2. Roomy(<<>>) /\ DOMAIN <<>> = {}
    BY EmptyPool
  <2> QED  BY <2>1, <2>2 DEF PoolKept, Recent, Reopened
<1>3. QueueKept(<<>>, <<>>, chain, done[n], done[n])
  BY <1>1, SettledStart DEF QueueKept
<1>4. /\ pool' = [pool EXCEPT ![n] = <<>>] /\ tombs' = [tombs EXCEPT ![n] = <<>>] /\ over' = [over EXCEPT ![n] = <<>>]
      /\ queue' = [queue EXCEPT ![n] = <<>>] /\ seen' = [seen EXCEPT ![n] = <<>>]
      /\ from' = [from EXCEPT ![n] = done[n]] /\ done' = [done EXCEPT ![n] = done[n]]
      /\ now' = now /\ chain' = chain /\ sent' \subseteq Envelope
  BY DEF Restart, NodesKept, NodeTypes
<1>5. NodeLeft(n, <<>>, <<>>, <<>>, <<>>, <<>>, done[n], done[n])
  BY <1>1, <1>2, <1>3, <1>4 DEF NodeLeft
<1> QED  BY <1>5, NodeChange, Zenon

LEMMA NextKeeps == NodesKept /\ [Next]_vars => NodesKept'
<1> SUFFICES ASSUME NodesKept, [Next]_vars PROVE NodesKept'
  OBVIOUS
<1>1. \A r \in Refusals : r[1] \in Offers /\ r[2] \in Keys
  BY OffersAssumption
<1>2. Doors \subseteq Nodes /\ MayRestart \subseteq Nodes
  BY OffersAssumption
<1>3. ASSUME NEW n \in Doors, NEW r \in Requests, SignRefused(n, r)
      PROVE  NodesKept'
  BY <1>2, <1>3, SignRefusedKeeps
<1>4. ASSUME NEW n \in Doors, NEW r \in Requests, Sign(n, r)
      PROVE  NodesKept'
  BY <1>1, <1>2, <1>4, SignKeeps
<1>5. ASSUME NEW n \in Doors, NEW r \in Requests, SignCompletes(n, r)
      PROVE  NodesKept'
  BY <1>1, <1>2, <1>5, SignCompletesKeeps
<1>6. ASSUME NEW n \in Doors, NEW r \in Refusals, Decline(n, r[1], r[2])
      PROVE  NodesKept'
  BY <1>1, <1>2, <1>6, DeclineKeeps
<1>7. ASSUME NEW n \in MayRestart, Restart(n)
      PROVE  NodesKept'
  BY <1>2, <1>7, RestartKeeps
<1>8. ASSUME NEW n \in Nodes, NEW e \in sent, Push(n, e)
      PROVE  NodesKept'
  BY <1>8, PushKeeps
<1>9. ASSUME Tick
      PROVE  NodesKept'
  <2>1. now' \in 0..MaxTime
    BY <1>9, OffersAssumption DEF Tick, NodesKept, NodeTypes
  <2> QED  BY <1>9, <2>1 DEF Tick, NodesKept, NodeTypes
<1>10. CASE UNCHANGED vars
  BY <1>10 DEF vars, NodesKept, NodeTypes
<1> QED  BY <1>3, <1>4, <1>5, <1>6, <1>7, <1>8, <1>9, <1>10, DecideKeeps, CommitKeeps DEF Next

LEMMA AlwaysKept == Spec => []NodesKept
BY InitKept, NextKeeps, PTL DEF Spec

-----------------------------------------------------------------------------
(* The theorems *)

\* The pool of every node keeps to its cap, and what fresh keys opened on one
\* member's invitations to theirs, however full it is when a request arrives
\* (pending.rs, sign).
THEOREM RoomIsKeptAlways == Spec => []RoomIsKept
<1>1. NodesKept => RoomIsKept
  <2> SUFFICES ASSUME NodesKept PROVE RoomIsKept
    OBVIOUS
  <2>1. ASSUME NEW n \in Nodes
        PROVE  /\ DOMAIN pool[n] \subseteq Offers /\ Range(pool[n]) \subseteq Entry
               /\ tombs[n] \in Seq(Offers) /\ over[n] \in Seq(Offers)
               /\ queue[n] \in Seq(Envelope) /\ seen[n] \in Seq(Envelope)
               /\ done[n] \in 0..Len(chain)
               /\ Roomy(pool[n])
    <3>1. pool[n] \in Pools /\ Roomy(pool[n]) /\ done[n] \in Nat /\ done[n] <= Len(chain) /\ Len(chain) \in Nat
      BY LenProperties DEF NodesKept, NodeTypes, PoolKept, QueueKept
    <3>2. DOMAIN pool[n] \subseteq Offers /\ \A d \in DOMAIN pool[n] : pool[n][d] \in Entry
      BY <3>1, PoolTypes
    <3> QED  BY <3>1, <3>2 DEF NodesKept, NodeTypes, Range
  <2>2. TypeOK
    BY <2>1 DEF TypeOK, NodesKept, NodeTypes
  <2> QED  BY <2>1, <2>2 DEF RoomIsKept, Roomy
<1> QED  BY <1>1, AlwaysKept, PTL

LEMMA SinceIsOld ==
    ASSUME NEW o \in Seq(Offers), NEW p, Reopened(p, o), NEW d \in DOMAIN p \cap Range(o)
    PROVE  Since(o, d) >= MaxTombstones
<1> DEFINE S == {i \in DOMAIN o : o[i] = d}
<1>1. Len(o) \in Nat /\ DOMAIN o = 1..Len(o) /\ IsFiniteSet(1..Len(o))
  BY LenProperties, FS_Interval
<1>2. S # {} /\ S \in SUBSET (1..Len(o))
  BY <1>1 DEF Range
<1> DEFINE U == {0} \cup S
<1>3. Max(U) \in S
  <2>1. U \subseteq 0..Len(o) /\ U # {}
    BY <1>1, <1>2
  <2>2. S # {} /\ \A i \in S : i > 0
    BY <1>1, <1>2
  <2> HIDE DEF S
  <2>3. Max(U) \in U /\ \A i \in U : i <= Max(U)
    <3> HIDE DEF U
    <3> QED  BY <1>1, <2>1, MaxIsIn
  <2>4. Max(U) # 0
    <3>1. PICK i \in S : i > 0
      BY <2>2
    <3>2. i \in U /\ i \in 1..Len(o)
      BY <1>2, <3>1
    <3> HIDE DEF U
    <3>3. i <= Max(U)
      BY <2>3, <3>2
    <3> QED  BY <1>1, <3>1, <3>2, <3>3
  <2> QED  BY <2>3, <2>4
<1>4. Max(U) \in 1..Len(o) /\ o[Max(U)] = d
  BY <1>1, <1>3
<1>5. Since(o, d) = Len(o) - Max(U)
  BY DEF Since
<1> HIDE DEF U
<1> QED  BY <1>4, <1>5 DEF Reopened

\* While a node runs, an offer it closed is open there again only after
\* MaxTombstones others, and an envelope it applied is queued again only after
\* SeenCap others (pending.rs, tombstones; mempool.rs, remove_committed), for
\* whatever the network repeats, whoever a request asks for and however the clock
\* runs.  Of what came before its last restart it says nothing: none of this is on
\* disk.
THEOREM OverStaysOverAlways == Spec => []OverStaysOver
<1>1. NodesKept => OverStaysOver
  <2> SUFFICES ASSUME NodesKept, NEW n \in Nodes
               PROVE  /\ \A d \in DOMAIN pool[n] \cap Range(over[n]) : Since(over[n], d) >= MaxTombstones
                      /\ \A e \in Range(queue[n]) \cap Applied(n) : Cardinality(LaterThan(n, e)) >= SeenCap
    BY DEF OverStaysOver
  <2>1. /\ over[n] \in Seq(Offers) /\ Reopened(pool[n], over[n])
        /\ Settled(queue[n], seen[n], chain, from[n], done[n])
    BY DEF NodesKept, NodeTypes, PoolKept, QueueKept
  <2>2. \A d \in DOMAIN pool[n] \cap Range(over[n]) : Since(over[n], d) >= MaxTombstones
    BY <2>1, SinceIsOld
  <2>3. Applied(n) = AppliedBy(chain, from[n], done[n])
    BY DEF Applied, AppliedBy
  <2>4. \A e \in Applied(n) : LaterThan(n, e) = LaterOf(chain, from[n], done[n])[e]
    BY <2>3 DEF LaterThan, LaterOf, LaterBy, With
  <2>5. \A e \in Range(queue[n]) \cap Applied(n) : Cardinality(LaterThan(n, e)) >= SeenCap
    BY <2>1, <2>3, <2>4 DEF Settled, Aged
  <2> QED  BY <2>2, <2>5
<1> QED  BY <1>1, AlwaysKept, PTL
=============================================================================
