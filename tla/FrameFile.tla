------------------------------ MODULE FrameFile ------------------------------
(***************************************************************************)
(* The append-only frame files of a node's data directory                  *)
(* (crates/node/src/store.rs): wal.bin, certificates.bin, validators.bin   *)
(* and keys.bin all share the frame [len: u32][sha256: 32][payload].       *)
(*                                                                         *)
(* A file is a sequence of frames, a frame a height, what it carries and a *)
(* mark saying what the disk made of it:                                   *)
(*   "whole"  length, digest and payload are there and agree;              *)
(*   "rot"    the digest fails, the length still says where it ends;       *)
(*   "torn"   the length is there, the payload is not all there;           *)
(*   "stub"   not even the length and the digest are all there.            *)
(*                                                                         *)
(* A file is opened in append mode, so what is written after a torn or a   *)
(* stub frame lands behind its bytes.  A reader then takes the frame to    *)
(* extend into what follows: the digest fails, and the reader is no longer *)
(* at a frame boundary for the rest of the file.  (The model leaves out    *)
(* the coincidence of a digest whose bytes spell a length that leads back  *)
(* to a boundary.)                                                         *)
(***************************************************************************)
EXTENDS Naturals, Sequences, FiniteSets

Marks == {"whole", "rot", "torn", "stub"}
Partial == {"torn", "stub"}

Frame(h, x, m) == [height |-> h, item |-> x, mark |-> m]

\* The least element of a non-empty set of naturals.
Least(S) == CHOOSE x \in S : \A y \in S : x <= y

PartialAt(file) == {i \in DOMAIN file : file[i].mark \in Partial}

\* How many frames a reader steps over one by one: up to the first frame
\* that does not end where its header says.
Readable(file) == IF PartialAt(file) = {} THEN Len(file) ELSE Least(PartialAt(file)) - 1

(***************************************************************************)
(* walk_frames_raw: the positions it returns with a payload, and those it  *)
(* returns without one.  A torn frame at the very end of the file is not   *)
(* returned at all; with anything behind it, it is an unreadable frame.  A *)
(* stub claims a length no file holds: the walk ends silently.             *)
(***************************************************************************)
Intact(file) == {i \in 1..Readable(file) : file[i].mark = "whole"}

Swallowing(file) ==
    LET n == Readable(file) + 1
    IN {i \in {n} : n < Len(file) /\ file[n].mark = "torn"}

Unreadable(file) == {i \in 1..Readable(file) : file[i].mark = "rot"} \cup Swallowing(file)

Heights(file) == {file[i].height : i \in Intact(file)}

(***************************************************************************)
(* index_wal: an unreadable frame is still needed unless the first readable *)
(* frame after it, whose height bounds its own from above, shows that the  *)
(* snapshot already covers it.                                             *)
(***************************************************************************)
Needed(file, snapshotHeight, i) ==
    LET after == {j \in Intact(file) : j > i}
    IN after = {} \/ file[Least(after)].height > snapshotHeight + 1

Unrecoverable(file, snapshotHeight) ==
    {i \in Unreadable(file) : Needed(file, snapshotHeight, i)}

\* quarantine_tail: what Store::open leaves of the log: all of it, or the part
\* before the first frame that is unreadable and needed.
Quarantined(file, snapshotHeight) ==
    LET bad == Unrecoverable(file, snapshotHeight)
    IN IF bad = {} THEN file ELSE SubSeq(file, 1, Least(bad) - 1)

(***************************************************************************)
(* Store::compact: frames below keepFrom go; an unreadable frame is kept,  *)
(* cut where its own length says it ends, which gives it a boundary again; *)
(* a torn tail and whatever lies out of the walk's reach are dropped.      *)
(***************************************************************************)
Kept(file, keepFrom) ==
    {i \in Intact(file) : file[i].height >= keepFrom} \cup Unreadable(file)

\* The n-th smallest member of a finite set of naturals.
Rank(S, i) == Cardinality({j \in S : j <= i})
Nth(S, n) == CHOOSE i \in S : Rank(S, i) = n

Compacted(file, keepFrom) ==
    LET framed(f) == IF f.mark = "torn" THEN [f EXCEPT !.mark = "rot"] ELSE f
        kept == Kept(file, keepFrom)
    IN [n \in 1..Cardinality(kept) |-> framed(file[Nth(kept, n)])]

\* The states a crash or a failed write may leave of an append of one frame.
AppendedPartly(file, f, marks) == {file} \cup {Append(file, [f EXCEPT !.mark = m]) : m \in marks}
=============================================================================
