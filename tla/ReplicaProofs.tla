---------------------------- MODULE ReplicaProofs ----------------------------
(***************************************************************************)
(* Proofs about Replica: its type invariant, that no trace of a refused    *)
(* block is ever durable, whatever faults occur, and that without failed   *)
(* writes a running node's ledger is always the decided chain's.           *)
(***************************************************************************)
EXTENDS Replica, FiniteSetTheorems, SequenceTheorems, WellFoundedInduction, TLAPS

-----------------------------------------------------------------------------
(* Frame files: the heights of the frames their operations return are       *)
(* heights of the frames they were given.                                   *)

\* A non-empty set of naturals has a least member.
LEMMA LeastExists ==
    ASSUME NEW S \in SUBSET Nat, S # {}
    PROVE  \E x \in S : \A y \in S : x <= y
<1>1. IsWellFoundedOn(OpToRel(<, Nat), Nat)
  BY NatLessThanWellFounded
<1>2. PICK x \in S : \A y \in S : ~(<<y, x>> \in OpToRel(<, Nat))
  BY <1>1, WFMin
<1>3. \A y \in S : ~(y < x)
  BY <1>2 DEF OpToRel
<1> QED  BY <1>3

\* Least is what its name says.
LEMMA LeastIsLeast ==
    ASSUME NEW S \in SUBSET Nat, S # {}
    PROVE  Least(S) \in S /\ \A y \in S : Least(S) <= y
BY LeastExists DEF Least

\* A bounded non-empty set of naturals has a greatest member.
LEMMA GreatestExists ==
    ASSUME NEW S \in SUBSET Nat, S # {}, NEW n \in Nat, \A x \in S : x <= n
    PROVE  \E x \in S : \A y \in S : y <= x
<1> DEFINE below == {k \in Nat : n - k \in S}
<1>1. PICK z \in S : TRUE
  OBVIOUS
<1>2. n - z \in below
  BY <1>1
<1>3. PICK k \in below : \A j \in below : k <= j
  BY <1>2, LeastExists
<1>4. \A y \in S : y <= n - k
  <2> TAKE y \in S
  <2>1. n - y \in Nat /\ n - (n - y) = y
    OBVIOUS
  <2>2. k <= n - y
    BY <2>1, <1>3
  <2> QED  BY <2>2
<1> QED  BY <1>3, <1>4

\* In a finite set of positions every rank is taken, so Nth is defined.
LEMMA NthIsMember ==
    ASSUME NEW N \in Nat, NEW S \in SUBSET (1..N), NEW n \in 1..Cardinality(S)
    PROVE  Nth(S, n) \in S
<1> DEFINE upTo(i) == {j \in S : j <= i}
           rank == [i \in S |-> Rank(S, i)]
           T == 1..Cardinality(S)
<1>1. IsFiniteSet(S) /\ Cardinality(S) \in Nat
  <2>1. IsFiniteSet(1..N)
    BY FS_Interval
  <2>2. IsFiniteSet(S)
    BY <2>1, FS_Subset
  <2> QED  BY <2>2, FS_CardinalityType
<1>2. \A i \in S : Rank(S, i) \in T
  <2> TAKE i \in S
  <2>1. IsFiniteSet(upTo(i)) /\ Cardinality(upTo(i)) <= Cardinality(S)
    BY <1>1, FS_Subset
  <2>2. Cardinality(upTo(i)) \in Nat /\ Cardinality(upTo(i)) # 0
    BY <2>1, FS_CardinalityType, FS_EmptySet
  <2> QED  BY <1>1, <2>1, <2>2 DEF Rank
<1>3. \A i, j \in S : i < j => Rank(S, i) # Rank(S, j)
  <2> SUFFICES ASSUME NEW i \in S, NEW j \in S, i < j  PROVE Rank(S, i) # Rank(S, j)
    OBVIOUS
  <2> i \in Nat /\ j \in Nat /\ S \subseteq Nat
    OBVIOUS
  <2>1. \A x \in upTo(i) : x \in upTo(j)
    OBVIOUS
  <2>4. j \in upTo(j) /\ j \notin upTo(i)
    OBVIOUS
  <2>2. IsFiniteSet(upTo(j))
    BY <1>1, FS_Subset
  <2>3. Cardinality(upTo(j)) # Cardinality(upTo(i))
    BY <2>1, <2>2, <2>4, FS_Subset
  <2> QED  BY <2>3 DEF Rank
<1>4. \A i, j \in S : Rank(S, i) = Rank(S, j) => i = j
  BY <1>3
<1>5. rank \in Injection(S, T)
  BY <1>2, <1>4 DEF Injection, IsInjective
<1>6. IsFiniteSet(T) /\ Cardinality(T) = Cardinality(S)
  BY <1>1, FS_Interval
<1>7. rank \in Surjection(S, T)
  BY <1>5, <1>6, FS_Injection
<1>8. \E i \in S : Rank(S, i) = n
  BY <1>7 DEF Surjection
<1> QED  BY <1>8 DEF Nth

-----------------------------------------------------------------------------
\* Files whose frames are of heights in S and carry items in X.
FramesOver(S, X) == [height : S, item : X, mark : Marks]
FilesOver(S, X) == Seq(FramesOver(S, X))

\* A file's frames, one by one.
LEMMA FramesOfFile ==
    ASSUME NEW S, NEW X, NEW file \in FilesOver(S, X)
    PROVE  /\ Len(file) \in Nat /\ DOMAIN file = 1..Len(file)
           /\ \A i \in 1..Len(file) : file[i] \in FramesOver(S, X) /\ file[i].height \in S
<1>1. Len(file) \in Nat /\ DOMAIN file = 1..Len(file)
  BY DEF FilesOver
<1>2. \A i \in 1..Len(file) : file[i] \in FramesOver(S, X)
  BY ElementOfSeq DEF FilesOver
<1> QED  BY <1>1, <1>2 DEF FramesOver

\* A file whose frames' heights all lie in S is a file over S.
LEMMA FileNarrowed ==
    ASSUME NEW T, NEW S, NEW X, NEW file \in FilesOver(T, X),
           \A i \in 1..Len(file) : file[i].height \in S
    PROVE  file \in FilesOver(S, X)
<1> DEFINE F == FramesOver(S, X)
<1>1. Len(file) \in Nat /\ file = [i \in 1..Len(file) |-> file[i]]
  BY LenProperties DEF FilesOver
<1>2. \A i \in 1..Len(file) : file[i] \in F
  BY FramesOfFile DEF FramesOver
<1> HIDE DEF F
<1>3. file \in Seq(F)
  BY <1>1, <1>2, IsASeq
<1> QED  BY <1>3 DEF FilesOver, F

\* The positions a reader looks at are positions of the file.
LEMMA PositionsInFile ==
    ASSUME NEW S, NEW X, NEW file \in FilesOver(S, X)
    PROVE  /\ Readable(file) \in Nat /\ Readable(file) <= Len(file)
           /\ Intact(file) \subseteq 1..Len(file)
           /\ Unreadable(file) \subseteq 1..Len(file)
<1>2. Len(file) \in Nat /\ DOMAIN file = 1..Len(file)
  BY DEF FilesOver
<1>1. Readable(file) \in Nat /\ Readable(file) <= Len(file)
  <2>1. CASE PartialAt(file) = {}
    BY <1>2, <2>1 DEF Readable
  <2>2. CASE PartialAt(file) # {}
    <3>1. PartialAt(file) \in SUBSET (1..Len(file))
      BY <1>2 DEF PartialAt
    <3>2. Least(PartialAt(file)) \in PartialAt(file)
      BY <1>2, <2>2, <3>1, LeastIsLeast
    <3> QED  BY <1>2, <2>2, <3>1, <3>2 DEF Readable
  <2> QED  BY <2>1, <2>2
<1>3. 1..Readable(file) \subseteq 1..Len(file)
  BY <1>1, <1>2
<1>4. Intact(file) \subseteq 1..Len(file)
  BY <1>3 DEF Intact
<1>5. Swallowing(file) \subseteq 1..Len(file)
  BY <1>1, <1>2 DEF Swallowing
<1> QED  BY <1>1, <1>3, <1>4, <1>5 DEF Unreadable

\* The heights a reader finds are heights of frames.
LEMMA HeightsOver ==
    ASSUME NEW S, NEW X, NEW file \in FilesOver(S, X)
    PROVE  Heights(file) \subseteq S
<1>1. Intact(file) \subseteq 1..Len(file)
  BY PositionsInFile
<1> QED  BY <1>1, FramesOfFile DEF Heights

\* The heights of a file are bounded.
LEMMA HeightsBounded ==
    ASSUME NEW X, NEW file \in FilesOver(Nat, X)
    PROVE  \E b \in Nat : \A i \in 1..Len(file) : file[i].height <= b
<1> DEFINE Bounded(n) == \E b \in Nat : \A i \in 1..n : file[i].height <= b
           bad == {n \in 0..Len(file) : ~Bounded(n)}
<1>1. Len(file) \in Nat /\ \A i \in 1..Len(file) : file[i].height \in Nat
  BY FramesOfFile
<1>2. \A n \in 0..Len(file) : n \in bad <=> ~Bounded(n)
  OBVIOUS
<1>3. bad \in SUBSET Nat /\ bad \subseteq 0..Len(file)
  <2> HIDE DEF Bounded
  <2> QED  BY <1>1
<1>4. Bounded(0)
  <2>1. \A i \in 1..0 : file[i].height <= 0
    OBVIOUS
  <2> QED  BY <2>1
<1>5. ASSUME NEW n \in 1..Len(file), Bounded(n - 1)
      PROVE  Bounded(n)
  <2>1. PICK b \in Nat : \A i \in 1..(n - 1) : file[i].height <= b
    BY <1>5
  <2>2. file[n].height \in Nat
    BY <1>1
  <2> DEFINE c == b + file[n].height
  <2>3. c \in Nat
    BY <2>2
  <2>4. \A i \in 1..n : file[i].height <= c
    <3> TAKE i \in 1..n
    <3>1. CASE i = n
      BY <3>1, <2>2
    <3>2. CASE i # n
      <4>1. i \in 1..(n - 1) /\ i \in 1..Len(file)
        BY <3>2, <1>1
      <4>2. file[i].height <= b /\ file[i].height \in Nat
        BY <4>1, <2>1, <1>1
      <4> QED  BY <4>2, <2>2
    <3> QED  BY <3>1, <3>2
  <2> QED  BY <2>3, <2>4
<1>6. Bounded(Len(file))
  <2> SUFFICES ASSUME ~Bounded(Len(file))  PROVE FALSE
    OBVIOUS
  <2> HIDE DEF bad, Bounded
  <2>1. bad # {}
    BY <1>1, <1>2
  <2>2. PICK n \in bad : \A m \in bad : n <= m
    BY <1>3, <2>1, LeastExists
  <2>3. n \in 0..Len(file) /\ ~Bounded(n) /\ n # 0
    BY <1>2, <1>3, <1>4, <2>2
  <2>4. n \in 1..Len(file) /\ n - 1 \in 0..Len(file) /\ ~(n <= n - 1)
    BY <1>1, <2>3
  <2>5. Bounded(n - 1)
    BY <1>2, <2>2, <2>4
  <2> QED  BY <1>5, <2>3, <2>4, <2>5
<1> QED  BY <1>6

\* So the last height a file reaches, above a given one, is defined.
LEMMA HighestExists ==
    ASSUME NEW X, NEW file \in FilesOver(Nat, X), NEW h \in Nat
    PROVE  \E x \in Heights(file) \cup {h} : \A y \in Heights(file) \cup {h} : y <= x
<1>1. PICK b \in Nat : \A i \in 1..Len(file) : file[i].height <= b
  BY HeightsBounded
<1>2. \A i \in 1..Len(file) : file[i].height \in Nat
  BY FramesOfFile
<1>3. Intact(file) \subseteq 1..Len(file)
  BY PositionsInFile
<1>4. Heights(file) \cup {h} \in SUBSET Nat
  BY HeightsOver
<1>5. \A x \in Heights(file) \cup {h} : x <= b + h
  BY <1>1, <1>2, <1>3 DEF Heights
<1>6. b + h \in Nat /\ Heights(file) \cup {h} # {}
  OBVIOUS
<1> HIDE DEF Heights
<1> DEFINE H == Heights(file) \cup {h}
           c == b + h
<1>7. H \in SUBSET Nat /\ H # {} /\ c \in Nat /\ \A x \in H : x <= c
  BY <1>4, <1>5, <1>6
<1> HIDE DEF H, c
<1>8. \E x \in H : \A y \in H : y <= x
  BY <1>7, GreatestExists
<1> QED  BY <1>8 DEF H

\* Appending a frame, or a part of it, brings in no other height.
LEMMA AppendOver ==
    ASSUME NEW S, NEW X, NEW file \in FilesOver(S, X), NEW h \in S, NEW x \in X,
           NEW m \in Marks, NEW marks \in SUBSET Marks
    PROVE  /\ Append(file, Frame(h, x, m)) \in FilesOver(S, X)
           /\ AppendedPartly(file, Frame(h, x, m), marks) \subseteq FilesOver(S, X)
<1>1. Append(file, Frame(h, x, m)) \in FilesOver(S, X)
  <2>1. Frame(h, x, m) \in FramesOver(S, X)
    BY DEF Frame, FramesOver
  <2> QED  BY <2>1, AppendProperties DEF FilesOver
<1>2. \A k \in marks : Append(file, [Frame(h, x, m) EXCEPT !.mark = k]) \in FilesOver(S, X)
  <2> TAKE k \in marks
  <2>1. [Frame(h, x, m) EXCEPT !.mark = k] \in FramesOver(S, X)
    BY DEF Frame, FramesOver
  <2> QED  BY <2>1, AppendProperties DEF FilesOver
<1> QED  BY <1>1, <1>2 DEF AppendedPartly

\* A frame gone bad keeps its height.
LEMMA RotOver ==
    ASSUME NEW S, NEW X, NEW file \in FilesOver(S, X), NEW i \in DOMAIN file
    PROVE  [file EXCEPT ![i].mark = "rot"] \in FilesOver(S, X)
<1>1. i \in 1..Len(file) /\ file[i] \in FramesOver(S, X)
  BY FramesOfFile
<1>2. [file[i] EXCEPT !.mark = "rot"] \in FramesOver(S, X)
  BY <1>1 DEF FramesOver, Marks
<1> QED  BY <1>1, <1>2, ExceptSeq DEF FilesOver

\* What open leaves of the log is a prefix of it.
LEMMA QuarantinedOver ==
    ASSUME NEW S, NEW X, NEW file \in FilesOver(S, X), NEW h
    PROVE  Quarantined(file, h) \in FilesOver(S, X)
<1>1. CASE Unrecoverable(file, h) = {}
  BY <1>1 DEF Quarantined
<1>2. CASE Unrecoverable(file, h) # {}
  <2>1. Unrecoverable(file, h) \in SUBSET (1..Len(file))
    BY PositionsInFile DEF Unrecoverable
  <2>2. Len(file) \in Nat /\ 1..Len(file) \subseteq Nat
    BY DEF FilesOver
  <2>3. Least(Unrecoverable(file, h)) \in 1..Len(file)
    BY <1>2, <2>1, <2>2, LeastIsLeast
  <2>4. SubSeq(file, 1, Least(Unrecoverable(file, h)) - 1) \in FilesOver(S, X)
    BY <2>2, <2>3, FramesOfFile, SubSeqProperties DEF FilesOver
  <2> QED  BY <1>2, <2>4 DEF Quarantined
<1> QED  BY <1>1, <1>2

\* Compaction keeps some of the frames, each with its height.
LEMMA CompactedOver ==
    ASSUME NEW S, NEW X, NEW file \in FilesOver(S, X), NEW k
    PROVE  Compacted(file, k) \in FilesOver(S, X)
<1> DEFINE kept == Kept(file, k)
           framed(f) == IF f.mark = "torn" THEN [f EXCEPT !.mark = "rot"] ELSE f
<1>1. kept \in SUBSET (1..Len(file)) /\ Len(file) \in Nat
  <2>1. Intact(file) \subseteq 1..Len(file) /\ Unreadable(file) \subseteq 1..Len(file)
    BY PositionsInFile
  <2> QED  BY <2>1, FramesOfFile DEF Kept
<1>2. Cardinality(kept) \in Nat
  <2>1. IsFiniteSet(1..Len(file))
    BY <1>1, FS_Interval
  <2>2. IsFiniteSet(kept)
    BY <1>1, <2>1, FS_Subset
  <2> QED  BY <2>2, FS_CardinalityType
<1>3. \A n \in 1..Cardinality(kept) : Nth(kept, n) \in 1..Len(file)
  BY <1>1, NthIsMember
<1>4. \A i \in 1..Len(file) : framed(file[i]) \in FramesOver(S, X)
  BY FramesOfFile DEF FramesOver, Marks
<1>5. \A n \in 1..Cardinality(kept) : framed(file[Nth(kept, n)]) \in FramesOver(S, X)
  BY <1>3, <1>4
<1>6. Compacted(file, k) = [n \in 1..Cardinality(kept) |-> framed(file[Nth(kept, n)])]
  BY DEF Compacted
<1> HIDE DEF kept, framed
<1> QED  BY <1>2, <1>5, <1>6, IsASeq DEF FilesOver

-----------------------------------------------------------------------------
(* Files every frame of which was written as a whole: on a disk that         *)
(* completes or omits each write there are no others.                        *)

Whole(file) == \A i \in 1..Len(file) : file[i].mark = "whole"

\* A reader gets every frame of such a file, and nothing is quarantined.
LEMMA WholeIsIntact ==
    ASSUME NEW X, NEW file \in FilesOver(Nat, X), Whole(file)
    PROVE  /\ Intact(file) = 1..Len(file) /\ Unreadable(file) = {}
           /\ \A h : Quarantined(file, h) = file
           /\ Heights(file) = {file[i].height : i \in 1..Len(file)}
<1>1. Len(file) \in Nat /\ DOMAIN file = 1..Len(file)
  BY FramesOfFile
<1>2. PartialAt(file) = {}
  BY <1>1 DEF PartialAt, Whole, Partial
<1>3. Readable(file) = Len(file)
  BY <1>2 DEF Readable
<1>4. Intact(file) = 1..Len(file)
  BY <1>3 DEF Intact, Whole
<1>5. Swallowing(file) = {}
  <2>1. ~(Readable(file) + 1 < Len(file))
    BY <1>1, <1>3
  <2> QED  BY <2>1 DEF Swallowing
<1>6. Unreadable(file) = {}
  BY <1>3, <1>5 DEF Unreadable, Whole
<1>7. \A h : Quarantined(file, h) = file
  BY <1>6 DEF Unrecoverable, Quarantined
<1> QED  BY <1>4, <1>6, <1>7 DEF Heights

LEMMA WholeAppended ==
    ASSUME NEW X, NEW file \in FilesOver(Nat, X), Whole(file), NEW h \in Nat, NEW x \in X
    PROVE  /\ Whole(Append(file, Frame(h, x, "whole")))
           /\ Heights(Append(file, Frame(h, x, "whole"))) = Heights(file) \cup {h}
<1> DEFINE f == Frame(h, x, "whole")
           g == Append(file, f)
           n == Len(file)
<1>1. g \in FilesOver(Nat, X)
  BY AppendOver DEF Marks
<1>2. f.mark = "whole" /\ f.height = h
  BY DEF Frame
<1>3. n \in Nat /\ Len(g) = n + 1 /\ g[n + 1] = f /\ \A i \in 1..n : g[i] = file[i]
  BY AppendProperties, LenProperties DEF FilesOver
<1> HIDE DEF f, g, n
<1>4. \A i : i \in 1..(n + 1) <=> i \in 1..n \/ i = n + 1
  BY <1>3
<1>5. Whole(g)
  BY <1>2, <1>3, <1>4 DEF Whole, n
<1>6. Heights(g) = {g[i].height : i \in 1..(n + 1)} /\ Heights(file) = {file[i].height : i \in 1..n}
  BY <1>1, <1>3, <1>5, WholeIsIntact DEF n
<1>7. Heights(g) = Heights(file) \cup {h}
  BY <1>2, <1>3, <1>4, <1>6
<1> QED  BY <1>5, <1>7 DEF f, g

\* Every member of a set of positions has its rank.
LEMMA RankIsNth ==
    ASSUME NEW N \in Nat, NEW S \in SUBSET (1..N), NEW i \in S
    PROVE  \E n \in 1..Cardinality(S) : Nth(S, n) = i
<1> DEFINE upTo(j) == {k \in S : k <= j}
           n == Rank(S, i)
<1>1. IsFiniteSet(S)
  <2>1. IsFiniteSet(1..N)
    BY FS_Interval
  <2> QED  BY <2>1, FS_Subset
<1>2. n \in 1..Cardinality(S)
  <2>1. IsFiniteSet(upTo(i)) /\ Cardinality(upTo(i)) <= Cardinality(S)
    BY <1>1, FS_Subset
  <2>2. Cardinality(upTo(i)) \in Nat /\ Cardinality(upTo(i)) # 0
    BY <2>1, FS_CardinalityType, FS_EmptySet
  <2> QED  BY <1>1, <2>1, <2>2, FS_CardinalityType DEF Rank
<1>3. ASSUME NEW a \in S, NEW b \in S, a < b
      PROVE  Rank(S, a) # Rank(S, b)
  <2>1. a \in Nat /\ b \in Nat /\ \A x \in S : x \in Nat
    OBVIOUS
  <2>2. \A x \in upTo(a) : x \in upTo(b)
    BY <1>3, <2>1
  <2>3. b \in upTo(b) /\ b \notin upTo(a)
    BY <1>3, <2>1
  <2>4. IsFiniteSet(upTo(b))
    BY <1>1, FS_Subset
  <2>5. Cardinality(upTo(b)) # Cardinality(upTo(a))
    BY <2>2, <2>3, <2>4, FS_Subset
  <2> QED  BY <2>5 DEF Rank
<1>4. \A a, b \in S : Rank(S, a) = Rank(S, b) => a = b
  <2>1. \A a, b \in S : a < b \/ b < a \/ a = b
    OBVIOUS
  <2> QED  BY <1>3, <2>1
<1>5. Nth(S, n) = i
  BY <1>4 DEF Nth
<1> QED  BY <1>2, <1>5

\* Compaction drops the frames below the cut, and those alone.
LEMMA WholeCompacted ==
    ASSUME NEW X, NEW file \in FilesOver(Nat, X), Whole(file), NEW k
    PROVE  /\ Whole(Compacted(file, k))
           /\ Heights(Compacted(file, k)) = {h \in Heights(file) : h >= k}
<1> DEFINE kept == Kept(file, k)
           framed(f) == IF f.mark = "torn" THEN [f EXCEPT !.mark = "rot"] ELSE f
           m == Cardinality(kept)
           g == Compacted(file, k)
<1>1. Len(file) \in Nat /\ Heights(file) = {file[i].height : i \in 1..Len(file)}
  BY WholeIsIntact, FramesOfFile
<1>2. kept = {i \in 1..Len(file) : file[i].height >= k}
  BY WholeIsIntact DEF Kept
<1>3. kept \in SUBSET (1..Len(file))
  BY <1>2
<1> HIDE DEF kept
<1>4. m \in Nat
  <2>1. IsFiniteSet(1..Len(file))
    BY <1>1, FS_Interval
  <2>2. IsFiniteSet(kept)
    BY <1>3, <2>1, FS_Subset
  <2> QED  BY <2>2, FS_CardinalityType
<1>5. \A n \in 1..m : Nth(kept, n) \in kept
  BY <1>1, <1>3, NthIsMember
<1>6. \A i \in kept : \E n \in 1..m : Nth(kept, n) = i
  BY <1>1, <1>3, RankIsNth
<1>7. \A i \in kept : framed(file[i]) = file[i] /\ file[i].mark = "whole"
  BY <1>3 DEF Whole
<1>8. g = [n \in 1..m |-> framed(file[Nth(kept, n)])]
  BY DEF Compacted, kept
<1>9. g \in FilesOver(Nat, X)
  BY CompactedOver
<1> HIDE DEF framed, g, m
<1>10. \A n \in 1..m : g[n] = file[Nth(kept, n)]
  BY <1>5, <1>7, <1>8
<1>11. Len(g) = m
  <2>1. DOMAIN g = 1..Len(g) /\ Len(g) \in Nat
    BY <1>9, FramesOfFile
  <2>2. DOMAIN g = 1..m
    BY <1>8
  <2> DEFINE l == Len(g)
  <2> HIDE DEF l
  <2>3. l \in Nat /\ 1..l = 1..m
    BY <2>1, <2>2 DEF l
  <2>4. l = m
    <3>1. l <= m
      <4>1. l = 0 \/ l \in 1..l
        BY <2>3
      <4>2. l = 0 \/ l \in 1..m
        BY <2>3, <4>1, Zenon
      <4> QED  BY <1>4, <4>2
    <3>2. m <= l
      <4>1. m = 0 \/ m \in 1..m
        BY <1>4
      <4>2. m = 0 \/ m \in 1..l
        BY <2>3, <4>1, Zenon
      <4> QED  BY <2>3, <4>2
    <3> QED  BY <1>4, <2>3, <3>1, <3>2
  <2> QED  BY <2>4 DEF l
<1>12. Whole(g)
  BY <1>5, <1>7, <1>10, <1>11 DEF Whole
<1>13. Heights(g) = {g[n].height : n \in 1..m}
  BY <1>9, <1>11, <1>12, WholeIsIntact
<1>14. Heights(g) = {file[i].height : i \in kept}
  BY <1>5, <1>6, <1>10, <1>13
<1>15. Heights(g) = {h \in Heights(file) : h >= k}
  BY <1>1, <1>2, <1>14
<1> QED  BY <1>12, <1>15 DEF g

-----------------------------------------------------------------------------
(* The state of a node *)

\* Where the commit of the current height stands relative to the chain: what is
\* logged, applied or snapshotted was decided, and the ledger is as long as the
\* height it is about to become, or is, the ledger of.
Counts ==
    /\ \A i \in 1..Len(wal) : wal[i].height \in 1..Len(decided)
    /\ snap.led.n = snap.height /\ snap.height <= Len(decided)
    /\ height <= Len(decided) /\ led.n <= Len(decided) /\ prior <= Len(decided)
    /\ pc \notin {"down", "refused"} => round >= 1
    /\ pc \in {"cert", "apply", "log"} => round \in 1..Len(decided)
    /\ pc = "log" => led.n = round
    /\ pc \in {"vset", "kset", "snap", "prunewal", "prunecerts", "ack"} =>
          led.n = height /\ height \in 1..Len(decided)

TypeInv == TypeOK /\ Counts

\* The log's frames, as the lemmas on frame files speak of them.
LEMMA LogIsOverDecided ==
    ASSUME TypeInv
    PROVE  /\ wal \in FilesOver(Nat, {"block"})
           /\ wal \in FilesOver(1..Len(decided), {"block"})
           /\ Len(decided) \in Nat
<1>1. wal \in FilesOver(Nat, {"block"}) /\ Len(decided) \in Nat
  BY DEF TypeInv, TypeOK, Frames, FilesOver, FramesOver
<1>2. wal \in FilesOver(1..Len(decided), {"block"})
  BY <1>1, FileNarrowed DEF TypeInv, Counts
<1> QED  BY <1>1, <1>2

\* What replay reaches is a decided height, or the snapshot's.
LEMMA ReplayTopIsDecided ==
    ASSUME TypeInv, NEW log \in FilesOver(1..Len(decided), {"block"})
    PROVE  /\ ReplayTop(log) \in Heights(log) \cup {snap.height}
           /\ ReplayTop(log) \in Nat /\ ReplayTop(log) >= snap.height
           /\ ReplayTop(log) <= Len(decided)
<1>1. Len(decided) \in Nat /\ snap.height \in Nat
  BY DEF TypeInv, TypeOK
<1>2. log \in FilesOver(Nat, {"block"})
  <2>1. FramesOver(1..Len(decided), {"block"}) \subseteq FramesOver(Nat, {"block"})
    BY <1>1 DEF FramesOver
  <2> QED  BY <2>1, SeqMonotonic DEF FilesOver
<1>3. \E h \in Heights(log) \cup {snap.height} : \A g \in Heights(log) \cup {snap.height} : g <= h
  BY <1>1, <1>2, HighestExists
<1>4. /\ ReplayTop(log) \in Heights(log) \cup {snap.height}
      /\ \A g \in Heights(log) \cup {snap.height} : g <= ReplayTop(log)
  BY <1>3 DEF ReplayTop
<1>5. Heights(log) \subseteq 1..Len(decided)
  BY HeightsOver
<1> QED  BY <1>1, <1>4, <1>5 DEF TypeInv, Counts

-----------------------------------------------------------------------------
\* Every decided height leaves a validator set with its keys.
LEMMA LiveIsState ==
    ASSUME TypeInv, NEW n \in Nat, n <= Len(decided)
    PROVE  /\ Live(n) \in ValidatorState /\ Live(n).who \in SUBSET Validators
           /\ KeysOf(Live(n)) \in KeyMaps
<1>1. Live(n) \in ValidatorState
  <2>1. CASE n = 0
    BY <2>1, ReplicaAssumption DEF Live
  <2>2. CASE n # 0
    <3>1. n \in 1..Len(decided) /\ decided \in Seq([live : ValidatorState, time : Nat])
      BY <2>2 DEF TypeInv, TypeOK
    <3>2. decided[n] \in [live : ValidatorState, time : Nat]
      BY <3>1, ElementOfSeq
    <3> QED  BY <2>2, <3>2 DEF Live
  <2> QED  BY <2>1, <2>2
<1>2. Live(n).who \in SUBSET Validators /\ Live(n).key \in [Validators -> ConsensusKeys]
  BY <1>1 DEF ValidatorState
<1>3. KeysOf(Live(n)) \in [Live(n).who -> ConsensusKeys]
  BY <1>2 DEF KeysOf
<1> QED  BY <1>1, <1>2, <1>3 DEF KeyMaps

\* A history put together from a journal is a history of the journal's items.
LEMMA ResumedIsHistory ==
    ASSUME NEW X, NEW journal \in FilesOver(Nat, X), NEW baseline \in X, snap.height \in Nat
    PROVE  Resumed(baseline, journal) \in History(X)
<1> DEFINE above == {i \in 1..Readable(journal) : journal[i].height > snap.height}
           entry(n) == Entry(journal[Nth(above, n)].height, journal[Nth(above, n)].item)
           E == [height : Nat, item : X]
           both(n) == IF n = 1 THEN Entry(snap.height, baseline) ELSE entry(n - 1)
<1>1. Len(journal) \in Nat /\ 1..Readable(journal) \subseteq 1..Len(journal)
  BY PositionsInFile, FramesOfFile
<1>2. above \in SUBSET (1..Len(journal))
  BY <1>1
<1>3. Cardinality(above) \in Nat
  <2>1. IsFiniteSet(1..Len(journal))
    BY <1>1, FS_Interval
  <2>2. IsFiniteSet(above)
    BY <1>2, <2>1, FS_Subset
  <2> QED  BY <2>2, FS_CardinalityType
<1>4. \A n \in 1..Cardinality(above) : Nth(above, n) \in 1..Len(journal)
  BY <1>1, <1>2, NthIsMember
<1>5. \A i \in 1..Len(journal) : Entry(journal[i].height, journal[i].item) \in E
  BY FramesOfFile DEF FramesOver, Entry
<1>6. \A n \in 1..Cardinality(above) : entry(n) \in E
  BY <1>4, <1>5
<1>7. Entry(snap.height, baseline) \in E
  BY DEF Entry
<1>8. Resumed(baseline, journal) = [n \in 1..Cardinality(above) + 1 |-> both(n)]
  BY DEF Resumed
<1> DEFINE m == Cardinality(above) + 1
<1>9. m \in Nat /\ \A n \in 1..m : n = 1 \/ n - 1 \in 1..Cardinality(above)
  <2> HIDE DEF above
  <2> QED  BY <1>3
<1> HIDE DEF entry, E
<1>10. \A n \in 1..m : both(n) \in E
  BY <1>6, <1>7, <1>9
<1> HIDE DEF both, m
<1>11. [n \in 1..m |-> both(n)] \in Seq(E)
  BY <1>9, <1>10, IsASeq
<1> QED  BY <1>8, <1>11 DEF History, E, m

\* Nothing is wrong before the first start.
LEMMA TypeInit == Init => TypeInv
<1> SUFFICES ASSUME Init  PROVE TypeInv
  OBVIOUS
<1>1. TypeOK
  BY DEF Init, TypeOK, Frames, History, MemoryLedger, Ledger, Steps
<1>2. Counts
  <2>1. Len(wal) = 0 /\ Len(decided) = 0
    BY DEF Init
  <2> QED  BY <2>1 DEF Init, Counts, Ledger
<1> QED  BY <1>1, <1>2 DEF TypeInv

-----------------------------------------------------------------------------
\* Files and histories stay what they are when a frame or an entry is added.
LEMMA FrameAdded ==
    ASSUME NEW X, NEW file \in Frames(X), NEW h \in Nat, NEW x \in X, NEW m \in Marks,
           NEW marks \in SUBSET Marks
    PROVE  /\ Append(file, Frame(h, x, m)) \in Frames(X)
           /\ AppendedPartly(file, Frame(h, x, m), marks) \subseteq Frames(X)
<1>1. file \in FilesOver(Nat, X)
  BY DEF Frames, FilesOver, FramesOver
<1>2. /\ Append(file, Frame(h, x, m)) \in FilesOver(Nat, X)
      /\ AppendedPartly(file, Frame(h, x, m), marks) \subseteq FilesOver(Nat, X)
  BY <1>1, AppendOver
<1> QED  BY <1>2 DEF Frames, FilesOver, FramesOver

LEMMA EntryAdded ==
    ASSUME NEW X, NEW hist \in History(X), NEW h \in Nat, NEW x \in X
    PROVE  Append(hist, Entry(h, x)) \in History(X)
<1>1. Entry(h, x) \in [height : Nat, item : X]
  BY DEF Entry
<1> QED  BY <1>1, AppendProperties DEF History

\* The log after a block has been appended, whole or in part.
LEMMA BlockAdded ==
    ASSUME TypeInv, NEW h \in 1..Len(decided), NEW m \in Marks
    PROVE  \A i \in 1..Len(Append(wal, Frame(h, "block", m))) :
               Append(wal, Frame(h, "block", m))[i].height \in 1..Len(decided)
<1>1. wal \in FilesOver(1..Len(decided), {"block"})
  BY LogIsOverDecided
<1>2. Append(wal, Frame(h, "block", m)) \in FilesOver(1..Len(decided), {"block"})
  BY <1>1, AppendOver
<1> QED  BY <1>2, FramesOfFile

LEMMA TypeDecide == ASSUME TypeInv, Decide  PROVE TypeInv'
<1>1. PICK live \in ValidatorStates, t \in Times :
          decided' = Append(decided, [live |-> live, time |-> t])
  BY DEF Decide
<1>2. [live |-> live, time |-> t] \in [live : ValidatorState, time : Nat]
  BY ReplicaAssumption
<1>3. decided \in Seq([live : ValidatorState, time : Nat])
  BY DEF TypeInv, TypeOK
<1>4. decided' \in Seq([live : ValidatorState, time : Nat]) /\ Len(decided') = Len(decided) + 1
  BY <1>1, <1>2, <1>3, AppendProperties
<1>5. UNCHANGED <<disk, pc, process, promises, budgets>>
  BY DEF Decide
<1>6. TypeOK'
  BY <1>4, <1>5 DEF TypeInv, TypeOK, disk, process, promises, budgets
<1>7. Counts'
  <2>1. Len(decided) \in Nat /\ Len(decided') = Len(decided) + 1
    BY <1>3, <1>4, LenProperties
  <2>2. snap.height \in Nat /\ height \in Nat /\ led.n \in Nat /\ prior \in Nat
    BY DEF TypeInv, TypeOK, MemoryLedger
  <2>3. \A x \in 1..Len(decided) : x \in 1..Len(decided')
    BY <2>1
  <2>4. \A x \in Nat : x <= Len(decided) => x <= Len(decided')
    BY <2>1
  <2> QED  BY <2>2, <2>3, <2>4, <1>5 DEF TypeInv, Counts, disk, process
<1> QED  BY <1>6, <1>7 DEF TypeInv

LEMMA TypeStopped ==
    ASSUME TypeInv, Stopped
    PROVE  /\ led' \in MemoryLedger /\ led'.n = 0 /\ prior' = 0 /\ height' = 0
           /\ appHash' \in MemoryLedger /\ lastTime' \in Nat
           /\ vhist' \in History(SUBSET Validators) /\ khist' \in History(KeyMaps)
           /\ blocks' \subseteq Nat /\ pairs' \subseteq Nat /\ round' \in Nat
BY DEF Stopped, Ledger, MemoryLedger, History

LEMMA TypeStart == ASSUME TypeInv, Start  PROVE TypeInv'
<1> DEFINE log == Quarantined(wal, snap.height)
           top == ReplayTop(log)
<1>1. /\ log \in FilesOver(Nat, {"block"}) /\ log \in FilesOver(1..Len(decided), {"block"})
      /\ Len(decided) \in Nat /\ snap.height \in Nat
  BY LogIsOverDecided, QuarantinedOver DEF TypeInv, TypeOK
<1>2. top \in Nat /\ top >= snap.height /\ top <= Len(decided)
  BY <1>1, ReplayTopIsDecided
<1>3. wal' = log /\ outcome' = "none" /\ UNCHANGED <<decided, certs, vjournal, kjournal, snap, acked, before, budgets>>
  BY DEF Start
<1>4. log \in Frames({"block"}) /\ \A i \in 1..Len(log) : log[i].height \in 1..Len(decided)
  BY <1>1, FramesOfFile DEF Frames, FilesOver, FramesOver
<1> HIDE DEF top
<1>5. CASE OpenRefused(log)
  <2>1. pc' = "refused" /\ UNCHANGED process
    BY <1>5 DEF Start
  <2>2. TypeOK'
    BY <1>3, <1>4, <2>1 DEF TypeInv, TypeOK, process, budgets, Steps
  <2>3. Counts'
    BY <1>3, <1>4, <2>1 DEF TypeInv, Counts, process
  <2> QED  BY <2>2, <2>3 DEF TypeInv
<1>6. CASE ~OpenRefused(log)
  <2>1. /\ pc' = "idle" /\ led' = [n |-> snap.led.n + (top - snap.height), pure |-> snap.led.pure]
        /\ prior' = 0 /\ height' = top /\ appHash' = led'
        /\ lastTime' = IF top > snap.height THEN decided[top].time ELSE 0
        /\ vhist' = Resumed(Live(snap.led.n).who, vjournal)
        /\ khist' = Resumed(KeysOf(Live(snap.led.n)), kjournal)
        /\ blocks' = Heights(log) /\ pairs' = Heights(certs) /\ round' = top + 1
    BY <1>6 DEF Start, Indexed, top
  <2>2. snap.led \in MemoryLedger /\ snap.led.n = snap.height /\ snap.height <= Len(decided)
    BY DEF TypeInv, TypeOK, Counts
  <2>3. led' \in MemoryLedger /\ led'.n = top
    <3>1. snap.height + (top - snap.height) = top
      BY <1>1, <1>2
    <3> QED  BY <1>2, <2>1, <2>2, <3>1 DEF MemoryLedger
  <2>4. lastTime' \in Nat
    <3>1. decided \in Seq([live : ValidatorState, time : Nat])
      BY DEF TypeInv, TypeOK
    <3>2. top > snap.height => top \in 1..Len(decided)
      BY <1>1, <1>2
    <3>3. top > snap.height => decided[top] \in [live : ValidatorState, time : Nat]
      BY <3>1, <3>2, ElementOfSeq
    <3> QED  BY <2>1, <3>3
  <2>5. vhist' \in History(SUBSET Validators) /\ khist' \in History(KeyMaps)
    <3>1. vjournal \in FilesOver(Nat, SUBSET Validators) /\ kjournal \in FilesOver(Nat, KeyMaps)
      BY DEF TypeInv, TypeOK, Frames, FilesOver, FramesOver
    <3>2. Live(snap.led.n).who \in SUBSET Validators /\ KeysOf(Live(snap.led.n)) \in KeyMaps
      BY <1>1, <2>2, LiveIsState
    <3> QED  BY <1>1, <2>1, <3>1, <3>2, ResumedIsHistory
  <2>6. blocks' \subseteq Nat /\ pairs' \subseteq Nat
    <3>1. certs \in FilesOver(Nat, {"cert"})
      BY DEF TypeInv, TypeOK, Frames, FilesOver, FramesOver
    <3> QED  BY <1>1, <2>1, <3>1, HeightsOver
  <2> HIDE DEF log
  <2>7. TypeOK'
    BY <1>2, <1>3, <1>4, <2>1, <2>3, <2>4, <2>5, <2>6 DEF TypeInv, TypeOK, budgets, Steps
  <2>8. Counts'
    BY <1>2, <1>3, <1>4, <2>1, <2>2, <2>3 DEF Counts
  <2> QED  BY <2>7, <2>8 DEF TypeInv
<1> QED  BY <1>5, <1>6

-----------------------------------------------------------------------------
\* The steps of a commit that only move on, or change one thing besides.
LEMMA TypeBegin == ASSUME TypeInv, Begin \/ Reject  PROVE TypeInv'
<1>1. round \in 1..Len(decided) /\ UNCHANGED <<decided, disk, process, acked, budgets>>
  <2>1. round \in Nat /\ Len(decided) \in Nat /\ round <= Len(decided)
    BY DEF Begin, Reject, TypeInv, TypeOK
  <2>2. round # 0
    BY DEF Begin, Reject, TypeInv, Counts
  <2> QED  BY <2>1, <2>2 DEF Begin, Reject
<1>2. TypeOK'
  BY <1>1 DEF Begin, Reject, TypeInv, TypeOK, disk, process, budgets, Steps
<1>3. Counts'
  BY <1>1 DEF Begin, Reject, TypeInv, Counts, disk, process
<1> QED  BY <1>2, <1>3 DEF TypeInv

LEMMA TypeWriteCertificate == ASSUME TypeInv, WriteCertificate  PROVE TypeInv'
<1>1. round \in Nat
  BY DEF TypeInv, TypeOK
<1>2. certs' \in Frames({"cert"})
  <2>1. certs \in Frames({"cert"}) /\ "whole" \in Marks /\ {} \in SUBSET Marks
    BY DEF TypeInv, TypeOK, Marks
  <2> QED  BY <1>1, <2>1, FrameAdded DEF WriteCertificate
<1>3. TypeOK'
  BY <1>1, <1>2 DEF WriteCertificate, TypeInv, TypeOK, promises, budgets, Steps
<1>4. Counts'
  BY DEF WriteCertificate, TypeInv, Counts
<1> QED  BY <1>3, <1>4 DEF TypeInv

LEMMA TypeApply == ASSUME TypeInv, Apply  PROVE TypeInv'
<1>1. PICK harmless \in BOOLEAN : led' = [n |-> round, pure |-> led.pure /\ harmless]
  BY DEF Apply
<1>2. led' \in MemoryLedger /\ prior' \in Nat /\ round \in Nat /\ led.pure \in BOOLEAN
  BY <1>1 DEF Apply, TypeInv, TypeOK, MemoryLedger
<1>3. TypeOK'
  BY <1>2 DEF Apply, TypeInv, TypeOK, disk, budgets, Steps
<1>4. Counts'
  BY <1>1 DEF Apply, TypeInv, Counts, disk
<1> QED  BY <1>3, <1>4 DEF TypeInv

LEMMA TypeLogBlock == ASSUME TypeInv, LogBlock  PROVE TypeInv'
<1>1. /\ round \in Nat /\ round \in 1..Len(decided) /\ "whole" \in Marks /\ {} \in SUBSET Marks
      /\ wal \in Frames({"block"})
      /\ wal' = Append(wal, Frame(round, "block", "whole"))
  BY DEF LogBlock, BlockFrame, TypeInv, TypeOK, Counts, Marks
<1>2. wal' \in Frames({"block"})
  BY <1>1, FrameAdded
<1>3. \A i \in 1..Len(wal') : wal'[i].height \in 1..Len(decided)
  BY <1>1, BlockAdded
<1>4. decided[round].time \in Nat
  <2>1. decided[round] \in [live : ValidatorState, time : Nat]
    BY <1>1, ElementOfSeq DEF TypeInv, TypeOK
  <2> QED  BY <2>1
<1>5. TypeOK'
  BY <1>1, <1>2, <1>4 DEF LogBlock, TypeInv, TypeOK, promises, budgets, Steps
<1>6. Counts'
  BY <1>1, <1>3 DEF LogBlock, TypeInv, Counts
<1> QED  BY <1>5, <1>6 DEF TypeInv

\* What a commit journals is of the right kind.
LEMMA TypeJournalled ==
    ASSUME TypeInv
    PROVE  /\ height \in Nat /\ {} \in SUBSET Marks /\ "whole" \in Marks
           /\ Live(height).who \in SUBSET Validators /\ KeysOf(Live(height)) \in KeyMaps
<1>1. height \in Nat /\ height <= Len(decided)
  BY DEF TypeInv, TypeOK, Counts
<1> QED  BY <1>1, LiveIsState DEF Marks

LEMMA TypeJournals ==
    ASSUME TypeInv, JournalSet \/ JournalKeys
    PROVE  TypeInv'
<1>1. vhist' \in History(SUBSET Validators) /\ vjournal' \in Frames(SUBSET Validators)
  <2>1. vhist \in History(SUBSET Validators) /\ vjournal \in Frames(SUBSET Validators)
    BY DEF TypeInv, TypeOK
  <2>2. CASE JournalSet
    <3>1. /\ Append(vhist, Entry(height, Live(height).who)) \in History(SUBSET Validators)
          /\ Append(vjournal, Frame(height, Live(height).who, "whole"))
                \in Frames(SUBSET Validators)
      BY <2>1, TypeJournalled, EntryAdded, FrameAdded
    <3> QED  BY <2>1, <2>2, <3>1 DEF JournalSet
  <2>3. CASE JournalKeys
    BY <2>1, <2>3 DEF JournalKeys
  <2> QED  BY <2>2, <2>3
<1>2. khist' \in History(KeyMaps) /\ kjournal' \in Frames(KeyMaps)
  <2>1. khist \in History(KeyMaps) /\ kjournal \in Frames(KeyMaps)
    BY DEF TypeInv, TypeOK
  <2>2. CASE JournalKeys
    <3>1. /\ Append(khist, Entry(height, KeysOf(Live(height)))) \in History(KeyMaps)
          /\ Append(kjournal, Frame(height, KeysOf(Live(height)), "whole")) \in Frames(KeyMaps)
      BY <2>1, TypeJournalled, EntryAdded, FrameAdded
    <3> QED  BY <2>1, <2>2, <3>1 DEF JournalKeys
  <2>3. CASE JournalSet
    BY <2>1, <2>3 DEF JournalSet
  <2> QED  BY <2>2, <2>3
<1>3. /\ pc \in {"vset", "kset"} /\ pc' \in {"kset", "snap", "ack"}
      /\ UNCHANGED <<decided, wal, certs, snap, led, prior, height, appHash, lastTime,
                     blocks, pairs, round, promises, budgets>>
  BY DEF JournalSet, JournalKeys
<1>4. TypeOK'
  BY <1>1, <1>2, <1>3 DEF TypeInv, TypeOK, promises, budgets, Steps
<1>5. Counts'
  BY <1>3 DEF TypeInv, Counts
<1> QED  BY <1>4, <1>5 DEF TypeInv

LEMMA TypeWriteSnapshot == ASSUME TypeInv, WriteSnapshot  PROVE TypeInv'
<1>1. snap' = [height |-> height, led |-> led]
  BY DEF WriteSnapshot, Snapshot
<1>2. TypeOK'
  BY <1>1 DEF WriteSnapshot, TypeInv, TypeOK, process, promises, budgets, Steps
<1>3. Counts'
  BY <1>1 DEF WriteSnapshot, TypeInv, TypeOK, Counts, process
<1> QED  BY <1>2, <1>3 DEF TypeInv

\* The log after a compaction.
LEMMA LogCompacted ==
    ASSUME TypeInv, NEW k
    PROVE  /\ Compacted(wal, k) \in Frames({"block"})
           /\ Heights(Compacted(wal, k)) \subseteq Nat
           /\ \A i \in 1..Len(Compacted(wal, k)) : Compacted(wal, k)[i].height \in 1..Len(decided)
<1>1. Compacted(wal, k) \in FilesOver(Nat, {"block"}) /\ Compacted(wal, k) \in FilesOver(1..Len(decided), {"block"})
  BY LogIsOverDecided, CompactedOver
<1>2. Heights(Compacted(wal, k)) \subseteq Nat
  BY <1>1, HeightsOver
<1>3. \A i \in 1..Len(Compacted(wal, k)) : Compacted(wal, k)[i].height \in 1..Len(decided)
  BY <1>1, FramesOfFile
<1> QED  BY <1>1, <1>2, <1>3 DEF Frames, FilesOver, FramesOver

LEMMA TypePruneWal == ASSUME TypeInv, PruneWal  PROVE TypeInv'
<1>1. /\ pc = "prunewal" /\ pc' \in {"ack", "prunecerts"}
      /\ UNCHANGED <<decided, certs, vjournal, kjournal, snap, led, prior, height, appHash, lastTime,
                     vhist, khist, pairs, round, promises, budgets>>
      /\ \/ UNCHANGED <<wal, blocks>>
         \/ wal' = Compacted(wal, KeepFrom) /\ blocks' = Heights(wal')
  BY DEF PruneWal, Indexed
<1>2. /\ wal' \in Frames({"block"}) /\ blocks' \subseteq Nat
      /\ \A i \in 1..Len(wal') : wal'[i].height \in 1..Len(decided)
  <2>1. CASE UNCHANGED <<wal, blocks>>
    BY <2>1 DEF TypeInv, TypeOK, Counts
  <2>2. CASE wal' = Compacted(wal, KeepFrom) /\ blocks' = Heights(wal')
    BY <2>2, LogCompacted
  <2> QED  BY <1>1, <2>1, <2>2
<1>3. TypeOK'
  BY <1>1, <1>2 DEF TypeInv, TypeOK, promises, budgets, Steps
<1>4. Counts'
  BY <1>1, <1>2 DEF TypeInv, Counts
<1> QED  BY <1>3, <1>4 DEF TypeInv

LEMMA TypePruneCertificates == ASSUME TypeInv, PruneCertificates  PROVE TypeInv'
<1>1. certs' \in Frames({"cert"}) /\ Heights(certs') \subseteq Nat
  <2>1. certs \in FilesOver(Nat, {"cert"})
    BY DEF TypeInv, TypeOK, Frames, FilesOver, FramesOver
  <2>2. certs' \in FilesOver(Nat, {"cert"})
    BY <2>1, CompactedOver DEF PruneCertificates
  <2> QED  BY <2>2, HeightsOver DEF Frames, FilesOver, FramesOver
<1>2. TypeOK'
  BY <1>1 DEF PruneCertificates, TypeInv, TypeOK, promises, budgets, Steps
<1>3. Counts'
  BY DEF PruneCertificates, TypeInv, Counts
<1> QED  BY <1>2, <1>3 DEF TypeInv

LEMMA TypeAcknowledge == ASSUME TypeInv, Acknowledge  PROVE TypeInv'
<1>1. TypeOK'
  BY DEF Acknowledge, TypeInv, TypeOK, disk, budgets, Steps
<1>2. Counts'
  BY DEF Acknowledge, TypeInv, TypeOK, Counts, disk
<1> QED  BY <1>1, <1>2 DEF TypeInv

-----------------------------------------------------------------------------
\* Whatever an interrupted write leaves is a data directory of the same kind,
\* whose log holds only decided heights.
LEMMA TypeInterrupted ==
    ASSUME TypeInv, NEW marks \in SUBSET Marks, Interrupted(marks)
    PROVE  /\ wal' \in Frames({"block"}) /\ certs' \in Frames({"cert"})
           /\ vjournal' \in Frames(SUBSET Validators) /\ kjournal' \in Frames(KeyMaps)
           /\ snap' \in [height : Nat, led : MemoryLedger]
           /\ \A i \in 1..Len(wal') : wal'[i].height \in 1..Len(decided)
           /\ snap'.led.n = snap'.height /\ snap'.height <= Len(decided)
<1> USE DEF Interrupted
<1>1. /\ wal \in Frames({"block"}) /\ certs \in Frames({"cert"})
      /\ vjournal \in Frames(SUBSET Validators) /\ kjournal \in Frames(KeyMaps)
      /\ snap \in [height : Nat, led : MemoryLedger]
      /\ \A i \in 1..Len(wal) : wal[i].height \in 1..Len(decided)
      /\ snap.led.n = snap.height /\ snap.height <= Len(decided)
      /\ round \in Nat
  BY DEF TypeInv, TypeOK, Counts
<1>2. CASE pc = "cert"
  <2>1. AppendedPartly(certs, Frame(round, "cert", "whole"), marks) \subseteq Frames({"cert"})
    BY <1>1, FrameAdded, TypeJournalled
  <2> QED  BY <1>1, <1>2, <2>1
<1>3. CASE pc = "log"
  <2>1. AppendedPartly(wal, BlockFrame, marks) \subseteq Frames({"block"})
    BY <1>1, FrameAdded, TypeJournalled DEF BlockFrame
  <2>2. round \in 1..Len(decided)
    BY <1>3 DEF TypeInv, Counts
  <2>3. \A m \in marks : [BlockFrame EXCEPT !.mark = m] = Frame(round, "block", m)
    BY DEF BlockFrame, Frame
  <2>4. \A i \in 1..Len(wal') : wal'[i].height \in 1..Len(decided)
    <3>1. wal' \in AppendedPartly(wal, BlockFrame, marks)
      BY <1>3
    <3>2. \/ wal' = wal
          \/ \E m \in marks : wal' = Append(wal, Frame(round, "block", m))
      BY <2>3, <3>1 DEF AppendedPartly
    <3>3. CASE wal' = wal
      BY <1>1, <3>3
    <3>4. CASE \E m \in marks : wal' = Append(wal, Frame(round, "block", m))
      <4>1. PICK m \in marks : wal' = Append(wal, Frame(round, "block", m))
        BY <3>4
      <4>2. m \in Marks
        OBVIOUS
      <4> QED  BY <2>2, <4>1, <4>2, BlockAdded
    <3> QED  BY <3>2, <3>3, <3>4
  <2>5. wal' \in Frames({"block"}) /\ UNCHANGED <<certs, vjournal, kjournal, snap>>
    BY <1>3, <2>1
  <2> QED  BY <1>1, <2>4, <2>5
<1>4. CASE pc = "vset" /\ SetChanged
  <2>1. AppendedPartly(vjournal, Frame(height, Live(height).who, "whole"), marks)
          \subseteq Frames(SUBSET Validators)
    BY <1>1, FrameAdded, TypeJournalled
  <2> QED  BY <1>1, <1>4, <2>1
<1>5. CASE pc = "kset" /\ Rotated
  <2>1. AppendedPartly(kjournal, Frame(height, KeysOf(Live(height)), "whole"), marks)
          \subseteq Frames(KeyMaps)
    BY <1>1, FrameAdded, TypeJournalled
  <2> QED  BY <1>1, <1>5, <2>1
<1>6. CASE pc = "snap"
  <2>1. Snapshot \in [height : Nat, led : MemoryLedger] /\ Snapshot.led.n = Snapshot.height /\ Snapshot.height <= Len(decided)
    BY <1>6 DEF Snapshot, TypeInv, TypeOK, Counts
  <2> QED  BY <1>1, <1>6, <2>1
<1>7. CASE /\ pc \notin {"cert", "log", "snap"} /\ ~(pc = "vset" /\ SetChanged) /\ ~(pc = "kset" /\ Rotated)
  BY <1>1, <1>7 DEF disk
<1> QED  BY <1>2, <1>3, <1>4, <1>5, <1>6, <1>7

LEMMA TypeCrash == ASSUME TypeInv, Crash  PROVE TypeInv'
<1>1. TearMarks \in SUBSET Marks
  BY ReplicaAssumption DEF Partial, Marks
<1>2. Stopped /\ Interrupted(TearMarks) /\ pc' = "down" /\ crashes' = crashes + 1 /\ outcome' = "none"
      /\ UNCHANGED <<decided, acked, before, ioErrors, rots, imports>>
  BY DEF Crash
<1>3. /\ wal' \in Frames({"block"}) /\ certs' \in Frames({"cert"})
      /\ vjournal' \in Frames(SUBSET Validators) /\ kjournal' \in Frames(KeyMaps)
      /\ snap' \in [height : Nat, led : MemoryLedger]
      /\ \A i \in 1..Len(wal') : wal'[i].height \in 1..Len(decided)
      /\ snap'.led.n = snap'.height /\ snap'.height <= Len(decided)
  BY <1>1, <1>2, TypeInterrupted
<1>4. Len(decided) \in Nat
  BY LogIsOverDecided
<1>5. TypeOK'
  BY <1>2, <1>3, TypeStopped DEF TypeInv, TypeOK, Steps
<1>6. Counts'
  BY <1>2, <1>3, <1>4, TypeStopped DEF Counts
<1> QED  BY <1>5, <1>6 DEF TypeInv

LEMMA TypeExit == ASSUME TypeInv, Exit  PROVE TypeInv'
<1>1. Stopped /\ pc' = "down" /\ crashes' = crashes + 1 /\ outcome' = "none"
      /\ UNCHANGED <<decided, disk, acked, before, ioErrors, rots, imports>>
  BY DEF Exit
<1>2. Len(decided) \in Nat
  BY LogIsOverDecided
<1>3. TypeOK'
  BY <1>1, TypeStopped DEF TypeInv, TypeOK, Steps, disk
<1>4. Counts'
  BY <1>1, <1>2, TypeStopped DEF TypeInv, Counts, disk
<1> QED  BY <1>3, <1>4 DEF TypeInv

LEMMA TypeWriteFails == ASSUME TypeInv, WriteFails  PROVE TypeInv'
<1>1. TearMarks \cup {"whole"} \in SUBSET Marks
  BY ReplicaAssumption DEF Partial, Marks
<1>2. /\ Interrupted(TearMarks \cup {"whole"})
      /\ vhist' = IF pc = "vset" THEN Append(vhist, Entry(height, Live(height).who)) ELSE vhist
      /\ khist' = IF pc = "kset" THEN Append(khist, Entry(height, KeysOf(Live(height)))) ELSE khist
      /\ Writing /\ pc' = "idle" /\ outcome' = "err" /\ ioErrors' = ioErrors + 1
      /\ UNCHANGED <<decided, led, prior, height, appHash, lastTime, blocks, pairs, round,
                     acked, before, crashes, rots, imports>>
  BY DEF WriteFails
<1>3. /\ wal' \in Frames({"block"}) /\ certs' \in Frames({"cert"})
      /\ vjournal' \in Frames(SUBSET Validators) /\ kjournal' \in Frames(KeyMaps)
      /\ snap' \in [height : Nat, led : MemoryLedger]
      /\ \A i \in 1..Len(wal') : wal'[i].height \in 1..Len(decided)
      /\ snap'.led.n = snap'.height /\ snap'.height <= Len(decided)
  BY <1>1, <1>2, TypeInterrupted
<1>4. vhist' \in History(SUBSET Validators) /\ khist' \in History(KeyMaps)
  BY <1>2, TypeJournalled, EntryAdded DEF TypeInv, TypeOK
<1>5. TypeOK'
  BY <1>2, <1>3, <1>4 DEF TypeInv, TypeOK, Steps
<1>6. Counts'
  <2>1. pc \notin {"down", "refused"}
    BY <1>2 DEF Writing
  <2> QED  BY <1>2, <1>3, <2>1 DEF TypeInv, Counts
<1> QED  BY <1>5, <1>6 DEF TypeInv

LEMMA TypeRot == ASSUME TypeInv, Rot  PROVE TypeInv'
<1>1. /\ wal \in FilesOver(Nat, {"block"}) /\ wal \in FilesOver(1..Len(decided), {"block"})
      /\ certs \in FilesOver(Nat, {"cert"})
  BY LogIsOverDecided DEF TypeInv, TypeOK, Frames, FilesOver, FramesOver
<1>2. /\ \/ UNCHANGED wal
         \/ \E i \in Intact(wal) : wal' = RotFrame(wal, i)
      /\ \/ UNCHANGED certs
         \/ \E i \in Intact(certs) : certs' = RotFrame(certs, i)
      /\ UNCHANGED <<decided, vjournal, kjournal, snap, pc, process, promises, crashes, ioErrors, imports>>
      /\ rots' = rots + 1
  BY DEF Rot
<1>3. wal' \in FilesOver(Nat, {"block"}) /\ wal' \in FilesOver(1..Len(decided), {"block"})
  <2>1. Intact(wal) \subseteq DOMAIN wal
    BY <1>1, PositionsInFile, FramesOfFile
  <2> QED  BY <1>1, <1>2, <2>1, RotOver DEF RotFrame
<1>4. certs' \in FilesOver(Nat, {"cert"})
  <2>1. Intact(certs) \subseteq DOMAIN certs
    BY <1>1, PositionsInFile, FramesOfFile
  <2> QED  BY <1>1, <1>2, <2>1, RotOver DEF RotFrame
<1>5. /\ wal' \in Frames({"block"}) /\ certs' \in Frames({"cert"})
      /\ \A i \in 1..Len(wal') : wal'[i].height \in 1..Len(decided)
  BY <1>3, <1>4, FramesOfFile DEF Frames, FilesOver, FramesOver
<1>6. TypeOK'
  BY <1>2, <1>5 DEF TypeInv, TypeOK, process, promises
<1>7. Counts'
  BY <1>2, <1>5 DEF TypeInv, Counts, process
<1> QED  BY <1>6, <1>7 DEF TypeInv

LEMMA TypeImport == ASSUME TypeInv, NEW h \in 1..MaxHeight, ImportSnapshot(h)  PROVE TypeInv'
<1>1. h \in Nat
  BY ReplicaAssumption
<1>2. /\ wal' = Quarantined(wal, snap.height) /\ h < Len(decided)
      /\ snap' = [height |-> h, led |-> Ledger(h)] \/ snap' = snap
      /\ imports' = imports + 1
      /\ UNCHANGED <<decided, certs, vjournal, kjournal, pc, process, promises, crashes, ioErrors, rots>>
  BY DEF ImportSnapshot
<1>3. wal' \in FilesOver(Nat, {"block"}) /\ wal' \in FilesOver(1..Len(decided), {"block"})
  BY <1>2, LogIsOverDecided, QuarantinedOver
<1>4. /\ wal' \in Frames({"block"})
      /\ \A i \in 1..Len(wal') : wal'[i].height \in 1..Len(decided)
  BY <1>3, FramesOfFile DEF Frames, FilesOver, FramesOver
<1>5. /\ snap' \in [height : Nat, led : MemoryLedger]
      /\ snap'.led.n = snap'.height /\ snap'.height <= Len(decided)
  <2>1. Len(decided) \in Nat
    BY LogIsOverDecided
  <2>2. CASE snap' = snap
    BY <2>2 DEF TypeInv, TypeOK, Counts
  <2>3. CASE snap' = [height |-> h, led |-> Ledger(h)]
    <3>1. Ledger(h) \in MemoryLedger /\ Ledger(h).n = h /\ h <= Len(decided)
      BY <1>1, <1>2, <2>1 DEF Ledger, MemoryLedger
    <3> QED  BY <1>1, <2>3, <3>1
  <2> QED  BY <1>2, <2>2, <2>3
<1>6. TypeOK'
  BY <1>2, <1>4, <1>5 DEF TypeInv, TypeOK, process, promises
<1>7. Counts'
  BY <1>2, <1>4, <1>5 DEF TypeInv, Counts, process
<1> QED  BY <1>6, <1>7 DEF TypeInv

-----------------------------------------------------------------------------
LEMMA TypeStep == TypeInv /\ [Next]_vars => TypeInv'
<1> SUFFICES ASSUME TypeInv, [Next]_vars  PROVE TypeInv'
  OBVIOUS
<1>1. CASE Decide
  BY <1>1, TypeDecide
<1>2. CASE Start
  BY <1>2, TypeStart
<1>3. CASE Commit
  BY <1>3, TypeBegin, TypeWriteCertificate, TypeApply, TypeLogBlock, TypeJournals, TypeWriteSnapshot,
     TypePruneWal, TypePruneCertificates, TypeAcknowledge DEF Commit
<1>4. CASE Crash \/ Exit \/ WriteFails \/ Rot
  BY <1>4, TypeCrash, TypeExit, TypeWriteFails, TypeRot
<1>5. CASE \E h \in 1..MaxHeight : ImportSnapshot(h)
  BY <1>5, TypeImport
<1>6. CASE UNCHANGED vars
  BY <1>6 DEF vars, disk, process, promises, budgets, TypeInv, TypeOK, Counts
<1> QED  BY <1>1, <1>2, <1>3, <1>4, <1>5, <1>6 DEF Next

\* Every variable always holds a value of its kind; what makes that inductive
\* is that no height is logged, applied or snapshotted before it is decided.
THEOREM TypeCorrect == Spec => [](TypeOK /\ Counts)
<1>1. Init => TypeInv
  BY TypeInit
<1>2. TypeInv /\ [Next]_vars => TypeInv'
  BY TypeStep
<1>3. TypeInv => TypeOK /\ Counts
  BY DEF TypeInv
<1> QED  BY <1>1, <1>2, <1>3, PTL DEF Spec

-----------------------------------------------------------------------------
(***************************************************************************)
(* A refused block leaves no trace, whatever crashes, tears, rots, fails   *)
(* or is imported.  Inductive with: the ledger of a running node has no    *)
(* refused block below its height, the block about to be logged passed the *)
(* audit, and a commit never skips a height.                               *)
(***************************************************************************)
Traceless ==
    /\ \A i \in 1..Len(wal) : wal[i].height \notin Poison
    /\ 1..snap.height \cap Poison = {}
    /\ Running => 1..height \cap Poison = {}
    /\ pc = "log" => round \notin Poison
    /\ pc \notin {"down", "refused"} => round <= height + 1

\* The log as a file over the heights that are not refused.
LEMMA LogIsTraceless ==
    ASSUME TypeInv, Traceless
    PROVE  wal \in FilesOver(Nat \ Poison, {"block"})
<1>1. wal \in FilesOver(Nat, {"block"})
  BY LogIsOverDecided
<1>2. \A i \in 1..Len(wal) : wal[i].height \in Nat \ Poison
  BY <1>1, FramesOfFile DEF Traceless
<1> DEFINE S == Nat \ Poison
<1> HIDE DEF S
<1>3. wal \in FilesOver(S, {"block"})
  BY <1>1, <1>2, FileNarrowed DEF S
<1> QED  BY <1>3 DEF S

LEMMA TracelessInterrupted ==
    ASSUME TypeInv, Traceless, NEW marks \in SUBSET Marks, Interrupted(marks)
    PROVE  /\ \A i \in 1..Len(wal') : wal'[i].height \notin Poison
           /\ 1..snap'.height \cap Poison = {}
<1> USE DEF Interrupted
<1>1. (\A i \in 1..Len(wal) : wal[i].height \notin Poison) /\ 1..snap.height \cap Poison = {}
  BY DEF Traceless
<1>2. CASE pc = "log"
  <2>1. round \in Nat \ Poison
    BY <1>2 DEF TypeInv, TypeOK, Traceless
  <2>2. wal' \in AppendedPartly(wal, Frame(round, "block", "whole"), marks) /\ snap' = snap
    BY <1>2 DEF BlockFrame
  <2>3. wal' \in FilesOver(Nat \ Poison, {"block"})
    BY <2>1, <2>2, LogIsTraceless, AppendOver, TypeJournalled
  <2> QED  BY <1>1, <2>2, <2>3, FramesOfFile
<1>3. CASE pc = "snap"
  <2>1. 1..height \cap Poison = {} /\ wal' = wal /\ snap' \in {snap, Snapshot}
    BY <1>3 DEF Traceless, Running
  <2> QED  BY <1>1, <2>1 DEF Snapshot
<1>4. CASE pc \notin {"log", "snap"}
  BY <1>1, <1>4 DEF disk
<1> QED  BY <1>2, <1>3, <1>4

LEMMA TracelessStart == ASSUME TypeInv, Traceless, Start  PROVE Traceless'
<1> DEFINE log == Quarantined(wal, snap.height)
           top == ReplayTop(log)
<1>1. log \in FilesOver(Nat \ Poison, {"block"}) /\ log \in FilesOver(1..Len(decided), {"block"})
  BY LogIsTraceless, LogIsOverDecided, QuarantinedOver
<1>2. /\ snap.height \in Nat /\ top \in Nat /\ top >= snap.height
  BY <1>1, ReplayTopIsDecided DEF TypeInv, TypeOK
<1>3. wal' = log /\ UNCHANGED snap
  BY DEF Start
<1>4. \A i \in 1..Len(wal') : wal'[i].height \notin Poison
  BY <1>1, <1>3, FramesOfFile
<1> HIDE DEF top
<1>5. CASE OpenRefused(log)
  <2>1. pc' = "refused"
    BY <1>5 DEF Start
  <2> QED  BY <1>3, <1>4, <2>1 DEF Traceless, Running
<1>6. CASE ~OpenRefused(log)
  <2>1. pc' = "idle" /\ height' = top /\ round' = top + 1
    BY <1>6 DEF Start, top
  <2>2. (snap.height + 1)..top \cap Poison = {} /\ 1..snap.height \cap Poison = {}
    BY <1>6 DEF OpenRefused, Traceless, top
  <2>3. 1..top \cap Poison = {}
    BY <1>2, <2>2
  <2> QED  BY <1>2, <1>3, <1>4, <2>1, <2>2, <2>3 DEF Traceless, Running
<1> QED  BY <1>5, <1>6

LEMMA TracelessCommit == ASSUME TypeInv, Traceless, Commit  PROVE Traceless'
<1> height \in Nat /\ round \in Nat
  BY DEF TypeInv, TypeOK
<1>1. CASE Begin \/ Reject \/ WriteCertificate
  BY <1>1 DEF Begin, Reject, WriteCertificate, Traceless, Running, disk, process
<1>2. CASE Apply
  BY <1>2 DEF Apply, AuditRefuses, Traceless, Running, disk
<1>3. CASE LogBlock
  <2>1. /\ wal' = Append(wal, Frame(round, "block", "whole")) /\ height' = round /\ pc' = "vset"
        /\ round' = round /\ snap' = snap /\ round \in Nat \ Poison /\ round <= height + 1
        /\ 1..height \cap Poison = {} /\ 1..snap.height \cap Poison = {}
    BY <1>3 DEF LogBlock, BlockFrame, Traceless, Running
  <2>2. wal' \in FilesOver(Nat \ Poison, {"block"})
    BY <2>1, LogIsTraceless, AppendOver, TypeJournalled
  <2>3. \A i \in 1..Len(wal') : wal'[i].height \notin Poison
    BY <2>2, FramesOfFile
  <2>4. 1..round \cap Poison = {}
    BY <2>1
  <2> QED  BY <2>1, <2>3, <2>4 DEF Traceless, Running
<1>4. CASE JournalSet \/ JournalKeys
  BY <1>4 DEF JournalSet, JournalKeys, Traceless, Running
<1>5. CASE WriteSnapshot
  BY <1>5 DEF WriteSnapshot, Snapshot, Traceless, Running, process
<1>6. CASE PruneWal
  <2>1. /\ wal' = wal \/ wal' = Compacted(wal, KeepFrom)
        /\ pc = "prunewal" /\ pc' \in {"ack", "prunecerts"} /\ UNCHANGED <<snap, height, round>>
    BY <1>6 DEF PruneWal
  <2>2. wal' \in FilesOver(Nat \ Poison, {"block"})
    BY <2>1, LogIsTraceless, CompactedOver
  <2>3. \A i \in 1..Len(wal') : wal'[i].height \notin Poison
    BY <2>2, FramesOfFile
  <2> QED  BY <2>1, <2>3 DEF Traceless, Running
<1>7. CASE PruneCertificates \/ Acknowledge
  BY <1>7 DEF PruneCertificates, Acknowledge, Traceless, Running, disk
<1> QED  BY <1>1, <1>2, <1>3, <1>4, <1>5, <1>6, <1>7 DEF Commit

LEMMA TracelessFaults ==
    ASSUME TypeInv, Traceless, Crash \/ Exit \/ WriteFails \/ Rot \/ \E h \in 1..MaxHeight : ImportSnapshot(h)
    PROVE  Traceless'
<1>1. CASE Crash
  <2>1. TearMarks \in SUBSET Marks /\ Interrupted(TearMarks) /\ pc' = "down"
    BY <1>1, ReplicaAssumption DEF Crash, Partial, Marks
  <2> QED  BY <2>1, TracelessInterrupted DEF Traceless, Running
<1>2. CASE Exit
  BY <1>2 DEF Exit, Traceless, Running, disk
<1>3. CASE WriteFails
  <2>1. /\ TearMarks \cup {"whole"} \in SUBSET Marks /\ Interrupted(TearMarks \cup {"whole"})
        /\ pc' = "idle" /\ UNCHANGED <<height, round>> /\ Writing
    BY <1>3, ReplicaAssumption DEF WriteFails, Partial, Marks
  <2> QED  BY <2>1, TracelessInterrupted DEF Traceless, Running, Writing
<1>4. CASE Rot
  <2>1. /\ wal' = wal \/ \E i \in Intact(wal) : wal' = RotFrame(wal, i)
        /\ UNCHANGED <<snap, pc>> /\ pc = "down"
    BY <1>4 DEF Rot
  <2>2. Intact(wal) \subseteq DOMAIN wal
    BY LogIsTraceless, PositionsInFile, FramesOfFile
  <2>3. wal' \in FilesOver(Nat \ Poison, {"block"})
    BY <2>1, <2>2, LogIsTraceless, RotOver DEF RotFrame
  <2>4. \A i \in 1..Len(wal') : wal'[i].height \notin Poison
    BY <2>3, FramesOfFile
  <2> QED  BY <2>1, <2>4 DEF Traceless, Running
<1>5. ASSUME NEW h \in 1..MaxHeight, ImportSnapshot(h)  PROVE Traceless'
  <2>1. /\ wal' = Quarantined(wal, snap.height) /\ UNCHANGED pc /\ pc = "down"
        /\ snap' = snap \/ snap' = [height |-> h, led |-> Ledger(h)]
        /\ 1..h \cap Poison = {}
    BY <1>5 DEF ImportSnapshot
  <2>2. wal' \in FilesOver(Nat \ Poison, {"block"})
    BY <2>1, LogIsTraceless, QuarantinedOver
  <2>3. \A i \in 1..Len(wal') : wal'[i].height \notin Poison
    BY <2>2, FramesOfFile
  <2>4. 1..snap'.height \cap Poison = {}
    BY <2>1 DEF Traceless
  <2> QED  BY <2>1, <2>3, <2>4 DEF Traceless, Running
<1> QED  BY <1>1, <1>2, <1>3, <1>4, <1>5

LEMMA TracelessAlways == Spec => [](TypeInv /\ Traceless)
<1>1. Init => TypeInv /\ Traceless
  <2> SUFFICES ASSUME Init  PROVE Traceless
    BY TypeInit
  <2>1. Len(wal) = 0 /\ snap.height = 0 /\ pc = "down"
    BY DEF Init
  <2> QED  BY <2>1 DEF Traceless, Running
<1>2. TypeInv /\ Traceless /\ [Next]_vars => (TypeInv /\ Traceless)'
  <2> SUFFICES ASSUME TypeInv, Traceless, [Next]_vars  PROVE Traceless'
    BY TypeStep
  <2>1. CASE Decide
    BY <2>1 DEF Decide, Traceless, Running, disk, process
  <2>2. CASE Start
    BY <2>2, TracelessStart
  <2>3. CASE Commit
    BY <2>3, TracelessCommit
  <2>4. CASE Crash \/ Exit \/ WriteFails \/ Rot \/ \E h \in 1..MaxHeight : ImportSnapshot(h)
    BY <2>4, TracelessFaults
  <2>5. CASE UNCHANGED vars
    BY <2>5 DEF vars, disk, process, Traceless, Running
  <2> QED  BY <2>1, <2>2, <2>3, <2>4, <2>5 DEF Next
<1> QED  BY <1>1, <1>2, PTL DEF Spec

\* A block the audit refuses never reaches the log or a snapshot, so no restart
\* takes it back in: for every fault the model knows, in any number.
THEOREM HaltLeavesNoTraceAlways == Spec => []HaltLeavesNoTrace
<1>1. TypeInv /\ Traceless => HaltLeavesNoTrace
  <2> SUFFICES ASSUME TypeInv, Traceless  PROVE HaltLeavesNoTrace
    OBVIOUS
  <2>1. Heights(wal) \subseteq Nat \ Poison
    BY LogIsTraceless, HeightsOver
  <2> QED  BY <2>1 DEF HaltLeavesNoTrace, Traceless
<1> QED  BY <1>1, TracelessAlways, PTL

-----------------------------------------------------------------------------
(***************************************************************************)
(* Until a write fails under it, a running node's ledger is the decided    *)
(* chain's.  Inductive with: every snapshot is the chain's ledger of its   *)
(* height, the cached commitment is the ledger's at the height, and before *)
(* a block is logged consensus is exactly one height ahead.                *)
(***************************************************************************)
Chained ==
    /\ OnTheChain
    /\ ioErrors = 0 =>
          /\ snap.led = Ledger(snap.height)
          /\ Running => appHash = Ledger(height)
          /\ pc \in {"idle", "cert", "apply", "log"} => round = height + 1

\* Only a failed write is counted as one.
LEMMA FailuresCounted ==
    ASSUME TypeInv, [Next]_vars
    PROVE  ioErrors' = ioErrors \/ WriteFails
<1>1. CASE Decide \/ Start
  BY <1>1 DEF Decide, Start, budgets
<1>2. CASE Commit
  BY <1>2 DEF Commit, Begin, Reject, WriteCertificate, Apply, LogBlock, JournalSet, JournalKeys,
              WriteSnapshot, PruneWal, PruneCertificates, Acknowledge, budgets
<1>3. CASE Crash \/ Exit \/ Rot \/ \E h \in 1..MaxHeight : ImportSnapshot(h)
  BY <1>3 DEF Crash, Exit, Rot, ImportSnapshot
<1>4. CASE UNCHANGED vars
  BY <1>4 DEF vars, budgets
<1> QED  BY <1>1, <1>2, <1>3, <1>4 DEF Next

\* Every step of a node whose writes have not failed keeps the chain.
LEMMA ChainedStep ==
    ASSUME ioErrors = 0, ~WriteFails, TypeInv, Chained, [Next]_vars
    PROVE  Chained'
<1> height \in Nat /\ round \in Nat /\ ioErrors \in Nat
  BY DEF TypeInv, TypeOK
<1> USE DEF Running
<1>1. CASE Decide
  BY <1>1 DEF Decide, Chained, OnTheChain, disk, process
<1>2. CASE Start
  <2> DEFINE log == Quarantined(wal, snap.height)
             top == ReplayTop(log)
  <2>1. snap.height \in Nat /\ top \in Nat
    BY LogIsOverDecided, QuarantinedOver, ReplayTopIsDecided DEF TypeInv, TypeOK
  <2> HIDE DEF top
  <2>2. CASE OpenRefused(log)
    BY <1>2, <2>2 DEF Start, Chained, OnTheChain
  <2>3. CASE ~OpenRefused(log)
    <3>1. /\ pc' = "idle" /\ led' = [n |-> snap.led.n + (top - snap.height), pure |-> snap.led.pure]
          /\ height' = top /\ appHash' = led' /\ round' = top + 1 /\ UNCHANGED snap
      BY <1>2, <2>3 DEF Start, top
    <3>2. led' = Ledger(top)
      <4>1. snap.height + (top - snap.height) = top
        BY <2>1
      <4>2. snap.led.n = snap.height /\ snap.led.pure = TRUE
        BY DEF Chained, Ledger
      <4> QED  BY <3>1, <4>1, <4>2 DEF Ledger
    <3> QED  BY <3>1, <3>2 DEF Chained, OnTheChain
  <2> QED  BY <2>2, <2>3
<1>3. CASE Begin \/ Reject \/ WriteCertificate
  BY <1>3 DEF Begin, Reject, WriteCertificate, Chained, OnTheChain, disk, process
<1>4. CASE Apply
  <2>1. PICK harmless \in {TRUE, led.n = round - 1} :
            led' = [n |-> round, pure |-> led.pure /\ harmless]
    BY <1>4 DEF Apply
  <2>2. pc = "apply" /\ led = Ledger(height) /\ round = height + 1
    BY <1>4 DEF Apply, Chained, OnTheChain
  <2>3. led.n = round - 1 /\ led.pure = TRUE
    BY <2>2 DEF Ledger
  <2>4. harmless = TRUE
    BY <2>3
  <2>5. led' = Ledger(height + 1)
    BY <2>1, <2>2, <2>3, <2>4 DEF Ledger
  <2>6. pc' \in {"halted", "log"} /\ UNCHANGED <<height, round, appHash, snap>>
    BY <1>4 DEF Apply, disk
  <2> QED  BY <2>2, <2>5, <2>6 DEF Chained, OnTheChain
<1>5. CASE LogBlock
  BY <1>5 DEF LogBlock, Chained, OnTheChain
<1>6. CASE JournalSet \/ JournalKeys
  BY <1>6 DEF JournalSet, JournalKeys, Chained, OnTheChain
<1>7. CASE WriteSnapshot
  BY <1>7 DEF WriteSnapshot, Snapshot, Chained, OnTheChain, process
<1>8. CASE PruneWal \/ PruneCertificates
  BY <1>8 DEF PruneWal, PruneCertificates, Chained, OnTheChain
<1>9. CASE Acknowledge
  BY <1>9 DEF Acknowledge, Chained, OnTheChain, disk
<1>10. CASE Crash
  <2>1. Interrupted(TearMarks) /\ pc' = "down" /\ pc \notin {"down", "refused"}
    BY <1>10 DEF Crash
  <2>2. snap' = snap \/ (pc = "snap" /\ snap' = Snapshot)
    BY <2>1 DEF Interrupted, disk
  <2> QED  BY <2>1, <2>2 DEF Chained, OnTheChain, Snapshot
<1>11. CASE Exit
  BY <1>11 DEF Exit, Chained, OnTheChain, disk
<1>12. CASE Rot
  BY <1>12 DEF Rot, Chained, OnTheChain, process
<1>13. ASSUME NEW h \in 1..MaxHeight, ImportSnapshot(h)  PROVE Chained'
  <2>1. pc = "down" /\ pc' = pc /\ (snap' = snap \/ snap' = [height |-> h, led |-> Ledger(h)])
    BY <1>13 DEF ImportSnapshot
  <2> QED  BY <2>1 DEF Chained, OnTheChain
<1>14. CASE UNCHANGED vars
  BY <1>14 DEF vars, disk, process, Chained, OnTheChain
<1> QED  BY <1>1, <1>2, <1>3, <1>4, <1>5, <1>6, <1>7, <1>8, <1>9, <1>10, <1>11, <1>12, <1>13, <1>14
         DEF Next, Commit

LEMMA ChainedAlways == Spec => [](TypeInv /\ Chained)
<1>1. Init => TypeInv /\ Chained
  <2> SUFFICES ASSUME Init  PROVE Chained
    BY TypeInit
  <2> QED  BY DEF Init, Chained, OnTheChain, Running
<1>2. TypeInv /\ Chained /\ [Next]_vars => (TypeInv /\ Chained)'
  <2> SUFFICES ASSUME TypeInv, Chained, [Next]_vars  PROVE Chained'
    BY TypeStep
  <2>1. CASE ioErrors' # 0
    BY <2>1 DEF Chained, OnTheChain
  <2>2. CASE ioErrors' = 0
    <3>1. ~WriteFails
      BY <2>2 DEF WriteFails, TypeInv, TypeOK
    <3> QED  BY <2>2, <3>1, FailuresCounted, ChainedStep
  <2> QED  BY <2>1, <2>2
<1> QED  BY <1>1, <1>2, PTL DEF Spec

\* However a node crashed, tore, pruned, lost or imported parts of its store, a
\* ledger it runs on is the decided blocks up to its height, each applied once,
\* until a write fails under a process that goes on running.
THEOREM OnTheChainAlways == Spec => []OnTheChain
<1>1. Chained => OnTheChain
  BY DEF Chained
<1> QED  BY <1>1, ChainedAlways, PTL

-----------------------------------------------------------------------------
(***************************************************************************)
(* On a disk that completes or omits each write, nothing reported as       *)
(* committed is lost, the directory can always be opened and what is       *)
(* advertised is there.  Inductive with: every frame is whole, the log     *)
(* holds every height above the snapshot up to its top, and a started      *)
(* node's height and block index are the log's.  Crashes may come between  *)
(* any two writes, and snapshots from peers while the node is stopped.     *)
(***************************************************************************)
CleanDisk == TearMarks = {} /\ MaxIoErrors = 0 /\ MaxRot = 0

\* t is the highest of the heights H of a log and s, that of the snapshot.
Reaches(H, s, t) == t \in H \cup {s} /\ s <= t /\ \A g \in H : g <= t

\* What the log and the snapshot give on a restart: no gap, and nothing below a.
Held(H, s, t, a) == Reaches(H, s, t) /\ a <= t /\ (s + 1)..t \subseteq H

\* Until a snapshot is imported the log has no gap at all.
Unbroken(H, t) == (t # 0 => t \in H) /\ \A g \in H : g..t \subseteq H

Stored ==
    /\ Whole(wal) /\ Whole(vjournal) /\ Whole(kjournal)
    /\ pc # "refused" /\ ioErrors = 0 /\ imports <= MaxImports
    /\ Held(Heights(wal), snap.height, ReplayTop(wal), acked)
    /\ imports = 0 => Unbroken(Heights(wal), ReplayTop(wal))
    /\ pc # "down" => height = ReplayTop(wal) /\ blocks = Heights(wal)
    /\ pc \in {"prunewal", "prunecerts"} => snap.height = height

LEMMA ReachesIsTop ==
    ASSUME NEW log, Heights(log) \subseteq Nat, snap.height \in Nat,
           NEW t, Reaches(Heights(log), snap.height, t)
    PROVE  ReplayTop(log) = t
<1> DEFINE hs == Heights(log) \cup {snap.height}
<1>1. t \in hs /\ \A g \in hs : g <= t
  BY DEF Reaches
<1>2. ReplayTop(log) = CHOOSE h \in hs : \A g \in hs : g <= h
  BY DEF ReplayTop
<1>3. \A h \in hs : h \in Nat
  OBVIOUS
<1> HIDE DEF hs
<1>4. ReplayTop(log) \in hs /\ \A g \in hs : g <= ReplayTop(log)
  BY <1>1, <1>2
<1> QED  BY <1>1, <1>3, <1>4

LEMMA LogHeights ==
    ASSUME TypeInv
    PROVE  Heights(wal) \subseteq Nat /\ snap.height \in Nat /\ height \in Nat /\ acked \in Nat
BY LogIsOverDecided, HeightsOver DEF TypeInv, TypeOK

\* How the next state is stored, put together from its log and snapshot.
LEMMA StoredNext ==
    ASSUME TypeInv', NEW H, NEW s, NEW t, Heights(wal') = H, snap'.height = s, Held(H, s, t, acked'),
           Whole(wal'), Whole(vjournal'), Whole(kjournal'),
           pc' # "refused", ioErrors' = 0, imports' <= MaxImports, imports' = 0 => Unbroken(H, t),
           pc' # "down" => height' = t /\ blocks' = H,
           pc' \in {"prunewal", "prunecerts"} => s = height'
    PROVE  Stored' /\ ReplayTop(wal)' = t
<1>1. (Heights(wal) \subseteq Nat /\ snap.height \in Nat)'
  BY LogHeights, PTL
<1>2. (ReplayTop(wal))' = t
  <2>1. Reaches(Heights(wal'), snap'.height, t)
    BY DEF Held
  <2> DEFINE hs == Heights(wal') \cup {snap'.height}
  <2>2. t \in hs /\ \A g \in hs : g <= t
    BY <2>1 DEF Reaches
  <2>3. (ReplayTop(wal))' = CHOOSE h \in hs : \A g \in hs : g <= h
    BY DEF ReplayTop
  <2>4. \A h \in hs : h \in Nat
    BY <1>1
  <2> HIDE DEF hs
  <2>5. (ReplayTop(wal))' \in hs /\ \A g \in hs : g <= (ReplayTop(wal))'
    BY <2>2, <2>3
  <2> QED  BY <2>2, <2>4, <2>5
<1> QED  BY <1>2 DEF Stored

\* A step that leaves log and snapshot alone.
LEMMA SameStore ==
    ASSUME TypeInv, TypeInv', Stored, UNCHANGED <<wal, snap, acked, ioErrors, imports>>,
           Whole(vjournal'), Whole(kjournal'), pc' # "refused",
           pc' # "down" => pc # "down" /\ UNCHANGED <<height, blocks>>,
           pc' \in {"prunewal", "prunecerts"} => pc \in {"prunewal", "prunecerts"}
    PROVE  Stored'
<1> DEFINE H == Heights(wal)
           s == snap.height
           t == ReplayTop(wal)
<1>1. /\ Held(H, s, t, acked) /\ Whole(wal) /\ ioErrors = 0 /\ imports <= MaxImports
      /\ imports = 0 => Unbroken(H, t)
      /\ pc # "down" => height = t /\ blocks = H
      /\ pc \in {"prunewal", "prunecerts"} => s = height
  BY DEF Stored
<1>2. Heights(wal') = H /\ snap'.height = s
  OBVIOUS
<1> HIDE DEF H, s, t
<1> QED  BY <1>1, <1>2, StoredNext

-----------------------------------------------------------------------------
(* The steps of a commit *)

LEMMA StoredCommit ==
    ASSUME CleanDisk, TypeInv, TypeInv', Chained, Stored, Commit
    PROVE  Stored'
<1> DEFINE H == Heights(wal)
           s == snap.height
           t == ReplayTop(wal)
<1>1. /\ Held(H, s, t, acked) /\ Whole(wal) /\ ioErrors = 0 /\ imports <= MaxImports
      /\ imports = 0 => Unbroken(H, t)
      /\ pc # "down" => height = t /\ blocks = H
      /\ pc \in {"prunewal", "prunecerts"} => s = height
      /\ Whole(vjournal) /\ Whole(kjournal)
  BY DEF Stored
<1>2. H \subseteq Nat /\ s \in Nat /\ height \in Nat /\ acked \in Nat /\ wal \in FilesOver(Nat, {"block"})
  BY LogHeights, LogIsOverDecided
<1>3. CASE Begin \/ Reject \/ WriteCertificate \/ Apply \/ PruneCertificates
  BY <1>1, <1>3, SameStore DEF Begin, Reject, WriteCertificate, Apply, PruneCertificates,
     disk, process, budgets, promises
<1>4. CASE JournalSet \/ JournalKeys
  <2>1. Whole(vjournal') /\ Whole(kjournal')
    <3>1. /\ vjournal \in FilesOver(Nat, SUBSET Validators) /\ kjournal \in FilesOver(Nat, KeyMaps)
      BY DEF TypeInv, TypeOK, Frames, FilesOver, FramesOver
    <3>2. Whole(Append(vjournal, Frame(height, Live(height).who, "whole")))
      BY <1>1, <3>1, TypeJournalled, WholeAppended
    <3>3. Whole(Append(kjournal, Frame(height, KeysOf(Live(height)), "whole")))
      BY <1>1, <3>1, TypeJournalled, WholeAppended
    <3> QED  BY <1>1, <1>4, <3>2, <3>3 DEF JournalSet, JournalKeys
  <2> QED  BY <1>4, <2>1, SameStore DEF JournalSet, JournalKeys, budgets, promises
<1>5. CASE LogBlock
  <2>1. /\ wal' = Append(wal, Frame(round, "block", "whole")) /\ pc = "log" /\ pc' = "vset"
        /\ blocks' = blocks \cup {round} /\ height' = round
        /\ UNCHANGED <<snap, vjournal, kjournal, acked, ioErrors, imports>>
    BY <1>5 DEF LogBlock, BlockFrame, promises, budgets
  <2>2. round = height + 1 /\ height = t /\ blocks = H /\ round \in Nat
    BY <1>1, <1>2, <2>1 DEF Chained
  <2>3. Whole(wal') /\ Heights(wal') = H \cup {round}
    BY <1>1, <1>2, <2>1, <2>2, WholeAppended
  <2> HIDE DEF H, s, t
  <2>4. Held(H \cup {round}, s, round, acked)
    <3>1. \A g \in H : g <= t /\ g \in Nat
      BY <1>1, <1>2 DEF Held, Reaches
    <3>2. s <= t /\ acked <= t /\ (s + 1)..t \subseteq H
      BY <1>1 DEF Held, Reaches
    <3>3. \A x \in (s + 1)..round : x \in (s + 1)..t \/ x = round
      BY <1>2, <2>2
    <3> QED  BY <1>2, <2>2, <3>1, <3>2, <3>3 DEF Held, Reaches
  <2>5. Unbroken(H, t) => Unbroken(H \cup {round}, round)
    <3>1. \A g \in H : \A x \in g..round : x \in g..t \/ x = round
      BY <1>2, <2>2
    <3>2. \A x \in round..round : x = round
      BY <2>2
    <3> QED  BY <3>1, <3>2 DEF Unbroken
  <2>6. snap'.height = s /\ acked' = acked
    BY <2>1 DEF s
  <2> QED  BY <1>1, <2>1, <2>2, <2>3, <2>4, <2>5, <2>6, StoredNext
<1>6. CASE WriteSnapshot
  <2>1. /\ snap' = [height |-> height, led |-> led] /\ pc = "snap" /\ pc' = "prunewal"
        /\ UNCHANGED <<wal, vjournal, kjournal, height, blocks, acked, ioErrors, imports>>
    BY <1>6 DEF WriteSnapshot, Snapshot, process, promises, budgets
  <2>2. height = t /\ blocks = H
    BY <1>1, <2>1
  <2>3. Heights(wal') = H /\ snap'.height = t
    BY <2>1, <2>2
  <2> HIDE DEF H, s, t
  <2>4. Held(H, t, t, acked)
    <3>1. (t + 1)..t = {}
      BY <1>2, <2>2
    <3> QED  BY <1>1, <1>2, <2>2, <3>1 DEF Held, Reaches
  <2> QED  BY <1>1, <2>1, <2>2, <2>3, <2>4, StoredNext
<1>7. CASE PruneWal
  <2> DEFINE k == KeepFrom
             K == {h \in H : h >= k}
  <2>1. pc = "prunewal" /\ UNCHANGED <<snap, vjournal, kjournal, height, acked, ioErrors, imports>>
    BY <1>7 DEF PruneWal, promises, budgets
  <2>2. CASE pc' = "ack" /\ UNCHANGED <<wal, blocks>>
    BY <1>1, <2>1, <2>2, SameStore
  <2>3. CASE wal' = Compacted(wal, k) /\ blocks' = Heights(wal') /\ pc' = "prunecerts"
    <3>1. height = t /\ s = t
      BY <1>1, <2>1
    <3>2. k \in Nat /\ k <= height
      <4>1. height >= 1
        BY <1>2, <2>1 DEF TypeInv, Counts
      <4>2. PruneMargin \in Nat /\ SnapshotInterval \in Nat
        BY ReplicaAssumption
      <4> QED  BY <1>2, <4>1, <4>2 DEF KeepFrom
    <3>3. Whole(wal') /\ Heights(wal') = K
      BY <1>1, <1>2, <2>3, WholeCompacted
    <3> HIDE DEF k, t, s, H
    <3>4. Held(K, s, t, acked)
      <4>1. (t + 1)..t = {}
        BY <1>2, <3>1
      <4> QED  BY <1>1, <1>2, <3>1, <4>1 DEF Held, Reaches
    <3>5. Unbroken(H, t) => Unbroken(K, t)
      <4>1. \A g \in K : \A x \in g..t : x >= k
        BY <1>2, <3>2
      <4> QED  BY <3>1, <3>2, <4>1 DEF Unbroken
    <3>6. snap'.height = s
      BY <2>1 DEF s
    <3> HIDE DEF K
    <3> QED  BY <1>1, <2>1, <2>3, <3>1, <3>3, <3>4, <3>5, <3>6, StoredNext
  <2> QED  BY <1>7, <2>2, <2>3 DEF PruneWal, Indexed
<1>8. CASE Acknowledge
  <2>1. /\ acked' = (IF acked >= height THEN acked ELSE height) /\ pc = "ack" /\ pc' = "idle"
        /\ UNCHANGED <<wal, snap, vjournal, kjournal, height, blocks, ioErrors, imports>>
    BY <1>8 DEF Acknowledge, disk, budgets
  <2>2. height = t /\ blocks = H /\ Heights(wal') = H /\ snap'.height = s
    BY <1>1, <2>1
  <2> HIDE DEF H, s, t
  <2>3. Held(H, s, t, acked')
    BY <1>1, <1>2, <2>1, <2>2 DEF Held
  <2> QED  BY <1>1, <2>1, <2>2, <2>3, StoredNext
<1> QED  BY <1>3, <1>4, <1>5, <1>6, <1>7, <1>8 DEF Commit

-----------------------------------------------------------------------------
(* A start, a stop and an import *)

LEMMA StoredStart ==
    ASSUME CleanDisk, TypeInv, TypeInv', Traceless, Chained, Stored, Start
    PROVE  Stored' /\ pc = "down" /\ pc' = "idle" /\ height' = ReplayTop(wal)
<1> DEFINE H == Heights(wal)
           s == snap.height
           t == ReplayTop(wal)
<1>1. /\ Held(H, s, t, acked) /\ Whole(wal) /\ Whole(vjournal) /\ Whole(kjournal)
      /\ ioErrors = 0 /\ imports <= MaxImports
      /\ imports = 0 => Unbroken(H, t)
  BY DEF Stored
<1>2. /\ wal \in FilesOver(Nat, {"block"})
      /\ vjournal \in FilesOver(Nat, SUBSET Validators) /\ kjournal \in FilesOver(Nat, KeyMaps)
  BY LogIsOverDecided DEF TypeInv, TypeOK, Frames, FilesOver, FramesOver
<1>3. Quarantined(wal, snap.height) = wal /\ JournalsReadable
  BY <1>1, <1>2, WholeIsIntact DEF JournalsReadable
<1>4. ReplayContiguous(wal)
  BY <1>1 DEF Held, ReplayContiguous
<1>5. H \cap Poison = {}
  <2>1. H \subseteq Nat \ Poison
    BY LogIsTraceless, HeightsOver
  <2> QED  BY <2>1
<1>6. snap.led = Ledger(snap.height)
  BY <1>1 DEF Chained
<1>7. ~OpenRefused(wal)
  BY <1>1, <1>3, <1>4, <1>5, <1>6 DEF OpenRefused, Held
<1>8. /\ wal' = wal /\ pc' = "idle" /\ height' = t /\ blocks' = H
      /\ UNCHANGED <<snap, vjournal, kjournal, acked, ioErrors, imports>>
  BY <1>3, <1>7 DEF Start, Indexed, budgets
<1>9. Heights(wal') = H /\ snap'.height = s
  BY <1>8
<1>10. pc = "down" /\ height' = ReplayTop(wal)
  BY <1>8 DEF Start
<1> HIDE DEF H, s, t
<1>11. Stored'
  BY <1>1, <1>8, <1>9, StoredNext
<1> QED  BY <1>8, <1>10, <1>11

\* An append that a stop cut short left nothing.
LEMMA StoredCrash ==
    ASSUME CleanDisk, TypeInv, TypeInv', Stored, Crash
    PROVE  Stored' /\ (ReplayTop(wal))' = ReplayTop(wal)
<1> DEFINE H == Heights(wal)
           s == snap.height
           t == ReplayTop(wal)
<1>1. /\ Held(H, s, t, acked) /\ Whole(wal) /\ Whole(vjournal) /\ Whole(kjournal)
      /\ ioErrors = 0 /\ imports <= MaxImports
      /\ imports = 0 => Unbroken(H, t)
      /\ pc # "down" => height = t
  BY DEF Stored
<1>2. /\ Interrupted({}) /\ pc # "down" /\ pc' = "down" /\ UNCHANGED <<acked, ioErrors, imports>>
  BY DEF Crash, CleanDisk
<1>3. \A file, f : AppendedPartly(file, f, {}) = {file}
  BY DEF AppendedPartly
<1>4. /\ UNCHANGED <<wal, vjournal, kjournal>>
      /\ snap' = snap \/ snap' = Snapshot
  BY <1>2, <1>3 DEF Interrupted, disk
<1>5. CASE snap' = snap
  <2>1. Stored'
    BY <1>1, <1>2, <1>4, <1>5, SameStore
  <2>2. (ReplayTop(wal))' = ReplayTop(wal)
    BY <1>4, <1>5 DEF ReplayTop
  <2> QED  BY <2>1, <2>2
<1>6. CASE snap' = Snapshot
  <2>1. Heights(wal') = H /\ snap'.height = t /\ H \subseteq Nat /\ t \in Nat
    BY <1>1, <1>2, <1>4, <1>6, LogHeights DEF Snapshot
  <2> HIDE DEF H, s, t
  <2>2. Held(H, t, t, acked)
    <3>1. (t + 1)..t = {}
      BY <2>1
    <3> QED  BY <1>1, <2>1, <3>1 DEF Held, Reaches
  <2>3. Stored' /\ (ReplayTop(wal))' = t
    BY <1>1, <1>2, <1>4, <2>1, <2>2, StoredNext
  <2> QED  BY <2>3 DEF t
<1> QED  BY <1>4, <1>5, <1>6

LEMMA StoredImport ==
    ASSUME CleanDisk, TypeInv, TypeInv', Stored, NEW h \in 1..MaxHeight, ImportSnapshot(h)
    PROVE  Stored'
<1> DEFINE H == Heights(wal)
           s == snap.height
           t == ReplayTop(wal)
<1>1. /\ Held(H, s, t, acked) /\ Whole(wal) /\ Whole(vjournal) /\ Whole(kjournal)
      /\ ioErrors = 0 /\ imports <= MaxImports
  BY DEF Stored
<1>2. /\ H \subseteq Nat /\ s \in Nat /\ acked \in Nat /\ wal \in FilesOver(Nat, {"block"}) /\ h \in Nat
      /\ imports \in Nat /\ MaxImports \in Nat
  <2>1. H \subseteq Nat /\ s \in Nat /\ acked \in Nat
    BY LogHeights
  <2>2. wal \in FilesOver(Nat, {"block"})
    BY LogIsOverDecided
  <2>3. MaxImports \in Nat
    BY ReplicaAssumption
  <2>4. imports \in Nat
    BY DEF TypeInv, TypeOK
  <2>5. h \in Nat
    OBVIOUS
  <2> QED  BY <2>1, <2>2, <2>3, <2>4, <2>5
<1>3. Quarantined(wal, snap.height) = wal
  BY <1>1, <1>2, WholeIsIntact
<1>4. /\ wal' = wal /\ pc = "down" /\ pc' = "down" /\ h > s /\ imports < MaxImports /\ imports' = imports + 1
      /\ UNCHANGED <<vjournal, kjournal, acked, ioErrors>>
      /\ IF \A g \in H : g < h THEN snap' = [height |-> h, led |-> Ledger(h)] ELSE UNCHANGED snap
  BY <1>3 DEF ImportSnapshot, process, promises
<1>5. Heights(wal') = H /\ imports' # 0 /\ imports' <= MaxImports
  BY <1>2, <1>4
<1>6. CASE \A g \in H : g < h
  <2>1. snap'.height = h
    BY <1>4, <1>6
  <2> HIDE DEF H, s, t
  <2>2. Held(H, h, h, acked)
    <3>1. (h + 1)..h = {}
      BY <1>2
    <3>2. t < h /\ t \in Nat
      BY <1>1, <1>2, <1>4, <1>6 DEF Held, Reaches
    <3>3. acked <= h
      BY <1>1, <1>2, <3>2 DEF Held
    <3>4. \A g \in H : g <= h
      BY <1>2, <1>6
    <3> QED  BY <1>2, <3>1, <3>3, <3>4 DEF Held, Reaches
  <2> QED  BY <1>1, <1>4, <1>5, <2>1, <2>2, StoredNext
<1>7. CASE ~(\A g \in H : g < h)
  <2>1. snap'.height = s
    BY <1>4, <1>7
  <2> HIDE DEF H, s, t
  <2> QED  BY <1>1, <1>4, <1>5, <2>1, StoredNext
<1> QED  BY <1>6, <1>7

LEMMA StoredStep ==
    ASSUME CleanDisk, TypeInv, TypeInv', Traceless, Chained, Stored, [Next]_vars
    PROVE  Stored'
<1>1. Whole(vjournal) /\ Whole(kjournal) /\ pc # "refused"
  BY DEF Stored
<1>2. CASE Decide
  BY <1>1, <1>2, SameStore DEF Decide, disk, process, promises, budgets
<1>3. CASE Start
  BY <1>3, StoredStart
<1>4. CASE Commit
  BY <1>4, StoredCommit
<1>5. CASE Crash
  BY <1>5, StoredCrash
<1>6. CASE Exit
  BY <1>1, <1>6, SameStore DEF Exit, disk
<1>7. ~WriteFails /\ ~Rot
  <2>1. ioErrors \in Nat /\ rots \in Nat
    BY DEF TypeInv, TypeOK
  <2> QED  BY <2>1 DEF CleanDisk, WriteFails, Rot
<1>8. CASE \E h \in 1..MaxHeight : ImportSnapshot(h)
  BY <1>8, StoredImport
<1>9. CASE UNCHANGED vars
  BY <1>1, <1>9, SameStore DEF vars, disk, process, promises, budgets
<1> QED  BY <1>2, <1>3, <1>4, <1>5, <1>6, <1>7, <1>8, <1>9 DEF Next

LEMMA EmptyReplaysNothing ==
    ASSUME Init
    PROVE  Whole(<<>>) /\ Heights(wal) = {} /\ ReplayTop(wal) = 0
<1>1. wal = <<>> /\ Len(<<>>) = 0 /\ snap.height = 0
  BY DEF Init
<1>2. Whole(<<>>)
  BY <1>1 DEF Whole
<1>3. Heights(wal) = {}
  <2>1. TypeInv
    BY TypeInit
  <2>2. wal \in FilesOver(Nat, {"block"})
    BY <2>1, LogIsOverDecided
  <2>3. Heights(wal) = {wal[i].height : i \in 1..Len(wal)}
    BY <1>1, <1>2, <2>2, WholeIsIntact
  <2> QED  BY <1>1, <2>3
<1>4. Reaches({}, 0, 0)
  BY DEF Reaches
<1>5. ReplayTop(wal) = 0
  <2>1. Heights(wal) \subseteq Nat /\ snap.height \in Nat /\ Reaches(Heights(wal), snap.height, 0)
    <3>1. Reaches(Heights(wal), snap.height, 0)
      BY <1>1, <1>3, <1>4, Zenon
    <3>2. Heights(wal) \subseteq Nat /\ snap.height \in Nat
      BY <1>1, <1>3
    <3> QED  BY <3>1, <3>2
  <2> QED  BY <2>1, ReachesIsTop
<1> QED  BY <1>2, <1>3, <1>5

LEMMA StoredInit == Init => Stored
<1> SUFFICES ASSUME Init PROVE Stored
  OBVIOUS
<1>1. /\ wal = <<>> /\ vjournal = <<>> /\ kjournal = <<>> /\ snap.height = 0
      /\ pc = "down" /\ acked = 0 /\ ioErrors = 0 /\ imports = 0
  BY DEF Init
<1>2. Held({}, 0, 0, 0) /\ Unbroken({}, 0)
  <2>1. (0 + 1)..0 = {} /\ 0 <= 0
    OBVIOUS
  <2>2. Held({}, 0, 0, 0)
    BY <2>1 DEF Reaches, Held
  <2>3. Unbroken({}, 0)
    BY DEF Unbroken
  <2> QED  BY <2>2, <2>3
<1>3. Held(Heights(wal), snap.height, ReplayTop(wal), acked) /\ Unbroken(Heights(wal), ReplayTop(wal))
  BY <1>1, <1>2, EmptyReplaysNothing
<1>4. Whole(wal) /\ Whole(vjournal) /\ Whole(kjournal)
  BY <1>1, EmptyReplaysNothing
<1>5. imports <= MaxImports
  BY <1>1, ReplicaAssumption
<1> QED  BY <1>1, <1>3, <1>4, <1>5 DEF Stored

LEMMA StoredAlways ==
    ASSUME CleanDisk
    PROVE  Spec => []Stored
<1>1. TypeInv /\ TypeInv' /\ Traceless /\ Chained /\ Stored /\ [Next]_vars => Stored'
  BY StoredStep
<1> QED  BY <1>1, StoredInit, TracelessAlways, ChainedAlways, PTL DEF Spec

\* A block commit_decided returned Ok for is part of every later ledger of the
\* node, whichever two writes a crash comes between, and whatever is pruned or
\* imported (replica.rs commit_block_with_certificate, open).
THEOREM AckedSurvivesAlways ==
    ASSUME CleanDisk
    PROVE  Spec => []AckedSurvives
<1>1. TypeInv /\ Stored => AckedSurvives
  <2> SUFFICES ASSUME TypeInv, Stored, Running PROVE height >= acked
    BY DEF AckedSurvives
  <2>1. height = ReplayTop(wal) /\ acked <= ReplayTop(wal) /\ height \in Nat /\ acked \in Nat
    BY LogHeights DEF Stored, Running, Held
  <2> QED  BY <2>1
<1> QED  BY <1>1, StoredAlways, ChainedAlways, PTL

\* Nor does it leave a directory the node cannot be started from.
THEOREM NeverRefusedAlways ==
    ASSUME CleanDisk
    PROVE  Spec => []NeverRefused
<1>1. Stored => NeverRefused
  BY DEF Stored, NeverRefused
<1> QED  BY <1>1, StoredAlways, PTL

\* Every height from the one a node advertises up to its own can be served,
\* through every compaction, as long as no snapshot was imported
\* (replica.rs history_min_height, store.rs compact).
THEOREM AdvertisedIsServedAlways ==
    ASSUME CleanDisk, MaxImports = 0
    PROVE  Spec => []AdvertisedIsServed
<1>1. TypeInv /\ Stored => AdvertisedIsServed
  <2> SUFFICES ASSUME TypeInv, Stored, Running PROVE HistoryMinHeight..height \subseteq blocks \cap Heights(wal)
    BY DEF AdvertisedIsServed
  <2> DEFINE H == Heights(wal)
  <2>1. imports = 0
    BY DEF Stored, TypeInv, TypeOK
  <2>2. /\ H \subseteq Nat /\ height \in Nat /\ blocks = H
        /\ (height # 0 => height \in H) /\ \A g \in H : g..height \subseteq H
    BY <2>1, LogHeights DEF Stored, Running, Unbroken
  <2> HIDE DEF H
  <2>3. CASE H = {}
    <3>1. height = 0 /\ HistoryMinHeight = 1
      BY <2>2, <2>3 DEF HistoryMinHeight
    <3>2. HistoryMinHeight..height = {}
      BY <3>1
    <3> QED  BY <3>2
  <2>4. CASE H # {}
    <3>1. HistoryMinHeight = Least(H) /\ Least(H) \in H
      BY <2>2, <2>4, LeastIsLeast DEF HistoryMinHeight
    <3> QED  BY <2>2, <3>1 DEF H
  <2> QED  BY <2>3, <2>4
<1> QED  BY <1>1, StoredAlways, ChainedAlways, PTL
-----------------------------------------------------------------------------
(***************************************************************************)
(* The store is a durable log (DurableLog.tla): on the same disk, with     *)
(* nothing imported and no block the audit refuses, every step of a node   *)
(* is one of the log's, or leaves it as it was.  The writes between two    *)
(* logged blocks (certificate, journals, snapshot, the two compactions)    *)
(* are such stutters, whichever of them a crash falls on.                  *)
(***************************************************************************)
Unhalted == Len(decided) <= MaxHeight /\ pc # "halted"

LEMMA UnhaltedAlways ==
    ASSUME Poison = {}
    PROVE  Spec => []Unhalted
<1>1. Init => Unhalted
  <2> SUFFICES ASSUME Init  PROVE Unhalted
    OBVIOUS
  <2> QED  BY ReplicaAssumption DEF Init, Unhalted
<1>2. TypeInv /\ Unhalted /\ [Next]_vars => Unhalted'
  <2> SUFFICES ASSUME TypeInv, Unhalted, [Next]_vars  PROVE Unhalted'
    OBVIOUS
  <2>1. CASE Decide
    <3>1. decided \in Seq([live : ValidatorState, time : Nat]) /\ Len(decided) < MaxHeight /\ pc' = pc
      BY <2>1 DEF Decide, TypeInv, TypeOK
    <3>2. Len(decided') = Len(decided) + 1
      BY <2>1, <3>1 DEF Decide
    <3>3. Len(decided) \in Nat /\ MaxHeight \in Nat
      BY <3>1, ReplicaAssumption
    <3> QED  BY <3>1, <3>2, <3>3 DEF Unhalted
  <2>2. CASE Start
    BY <2>2 DEF Start, Unhalted
  <2>3. CASE Commit
    BY <2>3 DEF Commit, Begin, Reject, WriteCertificate, Apply, AuditRefuses, LogBlock, JournalSet,
       JournalKeys, WriteSnapshot, PruneWal, PruneCertificates, Acknowledge, Unhalted
  <2>4. CASE Crash \/ Exit \/ WriteFails \/ Rot \/ \E h \in 1..MaxHeight : ImportSnapshot(h)
    BY <2>4 DEF Crash, Exit, WriteFails, Rot, ImportSnapshot, Unhalted
  <2>5. CASE UNCHANGED vars
    BY <2>5 DEF vars, Unhalted
  <2> QED  BY <2>1, <2>2, <2>3, <2>4, <2>5 DEF Next
<1> QED  BY <1>1, <1>2, TracelessAlways, PTL DEF Spec

LEMMA LogCommit ==
    ASSUME TypeInv, TypeInv', Chained, Unhalted, Unhalted', Stored, Stored', Commit
    PROVE  [Log!Next]_(Log!vars)
<1>1. pc \notin {"down", "refused", "halted"}
  BY DEF Commit, Begin, Reject, WriteCertificate, Apply, LogBlock, JournalSet, JournalKeys,
         WriteSnapshot, PruneWal, PruneCertificates, Acknowledge
<1>2. height = ReplayTop(wal) /\ ioErrors = 0 /\ height \in Nat /\ acked \in Nat /\ round \in Nat
  BY <1>1 DEF Stored, TypeInv, TypeOK
<1>3. pc' # "down" => height' = (ReplayTop(wal))'
  BY DEF Stored
<1>4. CASE LogBlock
  <2>1. /\ pc = "log" /\ pc' = "vset" /\ height' = round /\ acked' = acked
    BY <1>4 DEF LogBlock, promises
  <2>2. round = height + 1 /\ round <= Len(decided)
    <3>1. round \in 1..Len(decided) /\ Len(decided) \in Nat
      BY <2>1, LogIsOverDecided DEF TypeInv, Counts
    <3>2. round = height + 1
      BY <1>1, <1>2, <2>1 DEF Chained
    <3> QED  BY <3>1, <3>2
  <2>3. height < MaxHeight
    <3>1. Len(decided) <= MaxHeight /\ Len(decided) \in Nat /\ MaxHeight \in Nat
      BY LogIsOverDecided, ReplicaAssumption DEF Unhalted
    <3> QED  BY <1>2, <2>2, <3>1
  <2>4. Running /\ Running'
    BY <2>1 DEF Running
  <2>5. (ReplayTop(wal))' = height + 1 /\ height' = height + 1
    BY <1>3, <2>1, <2>2
  <2>6. Log!Extend
    BY <2>1, <2>3, <2>4, <2>5 DEF Log!Extend
  <2> QED  BY <2>6 DEF Log!Next
<1>5. CASE Acknowledge
  <2>1. /\ acked' = (IF acked >= height THEN acked ELSE height) /\ pc' = "idle" /\ height' = height
    BY <1>5 DEF Acknowledge
  <2>2. Running /\ Running' /\ (ReplayTop(wal))' = ReplayTop(wal)
    BY <1>1, <1>2, <1>3, <2>1 DEF Running
  <2>3. CASE acked >= height
    BY <2>1, <2>2, <2>3 DEF Log!vars
  <2>4. CASE ~(acked >= height)
    <3>1. acked < height /\ acked' = height
      BY <1>2, <2>1, <2>4
    <3>2. Log!Promise
      BY <2>1, <2>2, <3>1 DEF Log!Promise
    <3> QED  BY <3>2 DEF Log!Next
  <2> QED  BY <2>3, <2>4
<1>6. CASE ~LogBlock /\ ~Acknowledge
  <2>1. height' = height /\ acked' = acked
    BY <1>6 DEF Commit, Begin, Reject, WriteCertificate, Apply, JournalSet, JournalKeys,
           WriteSnapshot, PruneWal, PruneCertificates, process, promises
  <2>2. pc' \notin {"down", "refused", "halted"}
    BY <1>1, <1>6 DEF Commit, Begin, Reject, WriteCertificate, Apply, JournalSet, JournalKeys,
           WriteSnapshot, PruneWal, PruneCertificates, Unhalted
  <2>3. Running /\ Running' /\ (ReplayTop(wal))' = ReplayTop(wal)
    BY <1>1, <1>2, <1>3, <2>1, <2>2 DEF Running
  <2> QED  BY <2>1, <2>3 DEF Log!vars
<1> QED  BY <1>4, <1>5, <1>6

\* Every fault-free step of the node is a step of the log or leaves it alone: a
\* logged block and the ledger grow in one step, a restart resumes at the last
\* logged block, and what commit_decided reported stays (replica.rs, store.rs).
THEOREM StoreIsADurableLog ==
    ASSUME CleanDisk, MaxImports = 0, Poison = {}
    PROVE  Spec => Log!Init /\ [][Log!Next]_(Log!vars)
<1> DEFINE Inv == TypeInv /\ Traceless /\ Chained /\ Unhalted /\ Stored
<1>1. Init => Log!Init
  <2> SUFFICES ASSUME Init  PROVE Log!Init
    OBVIOUS
  <2>1. TypeInv /\ Stored /\ snap.height = 0 /\ wal = <<>> /\ pc = "down" /\ height = 0 /\ acked = 0
    BY TypeInit, StoredInit DEF Init
  <2>2. ReplayTop(wal) = 0
    BY EmptyReplaysNothing
  <2> QED  BY <2>1, <2>2 DEF Log!Init, Running
<1>2. Inv /\ Inv' /\ [Next]_vars => [Log!Next]_(Log!vars)
  <2> SUFFICES ASSUME Inv, Inv', [Next]_vars  PROVE [Log!Next]_(Log!vars)
    OBVIOUS
  <2>1. CASE Decide \/ UNCHANGED vars
    <3>1. UNCHANGED <<wal, snap, pc, height, acked>>
      BY <2>1 DEF Decide, vars, disk, process, promises
    <3> QED  BY <3>1 DEF Log!vars, Running, ReplayTop
  <2>2. CASE Start
    <3>1. pc = "down" /\ pc' = "idle" /\ height' = ReplayTop(wal) /\ acked' = acked
      BY <2>2, StoredStart DEF Start
    <3>2. (ReplayTop(wal))' = height'
      BY <3>1 DEF Stored
    <3>3. Log!Recover
      BY <3>1, <3>2 DEF Log!Recover, Running
    <3> QED  BY <3>3 DEF Log!Next
  <2>3. CASE Commit
    BY <2>3, LogCommit
  <2>4. CASE Crash
    <3>1. pc \notin {"down", "refused"} /\ pc' = "down" /\ height' = 0 /\ acked' = acked
      BY <2>4 DEF Crash, Stopped
    <3>2. (ReplayTop(wal))' = ReplayTop(wal)
      BY <2>4, StoredCrash
    <3>3. Log!Stop
      BY <3>1, <3>2 DEF Log!Stop, Running, Unhalted
    <3> QED  BY <3>3 DEF Log!Next
  <2>5. ~Exit /\ ~WriteFails /\ ~Rot
    <3>1. ioErrors \in Nat /\ rots \in Nat
      BY DEF TypeInv, TypeOK
    <3> QED  BY <3>1 DEF CleanDisk, WriteFails, Rot, Exit, Unhalted
  <2>6. \A h \in 1..MaxHeight : ~ImportSnapshot(h)
    <3>1. imports \in Nat
      BY DEF TypeInv, TypeOK
    <3> QED  BY <3>1 DEF ImportSnapshot
  <2> QED  BY <2>1, <2>2, <2>3, <2>4, <2>5, <2>6 DEF Next
<1> QED  BY <1>1, <1>2, TracelessAlways, ChainedAlways, UnhaltedAlways, StoredAlways, PTL DEF Spec
=============================================================================
