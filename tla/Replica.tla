------------------------------- MODULE Replica -------------------------------
(***************************************************************************)
(* One validator's durable state machine: how a decided block is committed *)
(* (crates/node/src/replica.rs, serve/core.rs commit_decided, the Decided  *)
(* handler of engine_malachite.rs), what is on disk between two writes     *)
(* (store.rs) and what the node comes back with (Replica::open).           *)
(*                                                                         *)
(* Consensus is external: it decides one block per height, the same for    *)
(* every validator, and asks this node to commit the block of the height   *)
(* it is at.  The transition function is deterministic, so a ledger is     *)
(* represented by the number of decided blocks applied to it, and by       *)
(* whether it is what those blocks, each applied once and in order, give.  *)
(***************************************************************************)
EXTENDS FrameFile

CONSTANTS
    Validators,        \* members that may hold voting power
    ConsensusKeys,     \* the keys they sign votes with
    ValidatorStates,   \* the validator sets, with keys, a block may leave
    Genesis,           \* the one the genesis file names
    Times,             \* timestamps a block may carry
    Poison,            \* heights whose block the audit refuses
    SnapshotInterval,  \* EDET_SNAPSHOT_INTERVAL, 0 = never
    PruneMargin,       \* prune_margin_blocks
    TearMarks,         \* what an interrupted append may leave behind
    MaxHeight, MaxCrashes, MaxIoErrors, MaxRot, MaxImports  \* bounds

ValidatorState == [who : (SUBSET Validators) \ {{}}, key : [Validators -> ConsensusKeys]]

ASSUME ReplicaAssumption ==
    /\ ValidatorStates \subseteq ValidatorState
    /\ Genesis \in ValidatorState
    /\ Times \subseteq Nat \ {0}
    /\ SnapshotInterval \in Nat
    /\ PruneMargin \in Nat
    /\ TearMarks \subseteq Partial
    /\ MaxHeight \in Nat /\ MaxCrashes \in Nat /\ MaxIoErrors \in Nat
    /\ MaxRot \in Nat /\ MaxImports \in Nat

VARIABLES
    decided,    \* external: the blocks consensus has decided, by height
    \* ---- the data directory
    wal,        \* wal.bin
    certs,      \* certificates.bin
    vjournal,   \* validators.bin
    kjournal,   \* keys.bin
    snap,       \* snapshot.bin; height 0 stands for no file
    \* ---- the process
    pc,         \* where the commit of the current height is
    led,        \* the in-memory ledger
    prior,      \* blocks applied before this commit's (validators_before)
    height,     \* Replica::height
    appHash,    \* the cached commitment
    lastTime,   \* last_time_secs
    vhist,      \* validator_history
    khist,      \* validator_key_history
    blocks,     \* block_index: heights find_block answers
    pairs,      \* cert_index: heights find_certificate answers
    round,      \* the height consensus asks this node for
    \* ---- what was promised
    acked,      \* highest height commit_decided ever returned Ok for
    outcome,    \* how the last commit ended
    before,     \* the ledger it started from
    \* ---- spent fault budgets
    crashes, ioErrors, rots, imports

disk == <<wal, certs, vjournal, kjournal, snap>>
process == <<led, prior, height, appHash, lastTime, vhist, khist, blocks, pairs, round>>
promises == <<acked, outcome, before>>
budgets == <<crashes, ioErrors, rots, imports>>
vars == <<decided, disk, pc, process, promises, budgets>>

\* The ledger that the first n decided blocks give, each applied once.
Ledger(n) == [n |-> n, pure |-> TRUE]

\* The validator set, with its keys, after n decided blocks.
Live(n) == IF n = 0 THEN Genesis ELSE decided[n].live

\* validator_key_snapshot
KeysOf(live) == [v \in live.who |-> live.key[v]]

Entry(h, x) == [height |-> h, item |-> x]

-----------------------------------------------------------------------------
(***************************************************************************)
(* Replica::open: the ledger is the snapshot with every logged block above *)
(* it replayed, each one required to be the next height, to build on the   *)
(* ledger it is replayed on and to pass the audit.                         *)
(***************************************************************************)
ReplayTop(log) == LET hs == Heights(log) \cup {snap.height}
                  IN CHOOSE h \in hs : \A g \in hs : g <= h

ReplayContiguousOffByOne(log) == snap.height..ReplayTop(log) \subseteq Heights(log)   \* mutant
ReplayContiguous(log) == (snap.height + 1)..ReplayTop(log) \subseteq Heights(log)

\* walk_frames makes an unreadable journal frame an error of the open itself.
JournalsReadable == Unreadable(vjournal) = {} /\ Unreadable(kjournal) = {}

OpenRefused(log) ==
    \/ ~JournalsReadable
    \/ ~ReplayContiguous(log)
    \/ ReplayTop(log) > snap.height /\ snap.led # Ledger(snap.height)   \* AppHashMismatch
    \/ (snap.height + 1)..ReplayTop(log) \cap Poison # {}  \* the audit

\* The history a journal adds to the baseline the resumed state gives.
Resumed(baseline, journal) ==
    LET above == {i \in 1..Readable(journal) : journal[i].height > snap.height}
        entry(n) == Entry(journal[Nth(above, n)].height, journal[Nth(above, n)].item)
    IN [n \in 1..Cardinality(above) + 1 |->
           IF n = 1 THEN Entry(snap.height, baseline) ELSE entry(n - 1)]

\* index_wal: the heights find_block answers for.
IndexedStale(log) == blocks   \* mutant: the index is not rebuilt
Indexed(log) == Heights(log)

Stopped ==
    /\ led' = Ledger(0) /\ prior' = 0 /\ height' = 0 /\ appHash' = Ledger(0)
    /\ lastTime' = 0 /\ vhist' = <<>> /\ khist' = <<>>
    /\ blocks' = {} /\ pairs' = {} /\ round' = 0

Start ==
    /\ pc = "down"
    /\ LET log == Quarantined(wal, snap.height)
           top == ReplayTop(log)
       IN /\ wal' = log
          /\ IF OpenRefused(log)
             THEN pc' = "refused" /\ UNCHANGED process
             ELSE /\ pc' = "idle"
                  /\ led' = [n |-> snap.led.n + (top - snap.height), pure |-> snap.led.pure]
                  /\ prior' = 0
                  /\ height' = top
                  /\ appHash' = led'
                  /\ lastTime' = IF top > snap.height THEN decided[top].time ELSE 0
                  /\ vhist' = Resumed(Live(snap.led.n).who, vjournal)
                  /\ khist' = Resumed(KeysOf(Live(snap.led.n)), kjournal)
                  /\ blocks' = Indexed(log)
                  /\ pairs' = Heights(certs)
                  /\ round' = top + 1      \* ConsensusReady
    /\ outcome' = "none"
    /\ UNCHANGED <<decided, certs, vjournal, kjournal, snap, acked, before, budgets>>

-----------------------------------------------------------------------------
(***************************************************************************)
(* The commit of one decided block, one action per durable write.          *)
(***************************************************************************)
\* external: consensus settles the value of the next height.
Decide ==
    /\ Len(decided) < MaxHeight
    /\ \E live \in ValidatorStates, t \in Times :
          /\ \A i \in DOMAIN decided : decided[i].time <= t
          /\ decided' = Append(decided, [live |-> live, time |-> t])
    /\ UNCHANGED <<disk, pc, process, promises, budgets>>

AcceptableStrictly == lastTime < decided[round].time /\ appHash = Ledger(round - 1)   \* mutant

\* The checks commit_block_with_certificate makes before it writes anything.
Acceptable ==
    /\ lastTime <= decided[round].time
    /\ appHash = Ledger(round - 1)

Begin ==
    /\ pc = "idle" /\ round <= Len(decided)
    /\ Acceptable
    /\ pc' = "cert" /\ outcome' = "none" /\ before' = led
    /\ UNCHANGED <<decided, disk, process, acked, budgets>>

\* Any error other than a violated invariant: restart() asks consensus for the
\* height of the certificate again.
Reject ==
    /\ pc = "idle" /\ round <= Len(decided)
    /\ ~Acceptable
    /\ outcome' = "err" /\ before' = led
    /\ UNCHANGED <<decided, disk, pc, process, acked, budgets>>

WriteCertificate ==
    /\ pc = "cert"
    /\ certs' = Append(certs, Frame(round, "cert", "whole"))
    /\ pairs' = pairs \cup {round}
    /\ pc' = "apply"
    /\ UNCHANGED <<decided, wal, vjournal, kjournal, snap, led, prior, height, appHash,
                   lastTime, vhist, khist, blocks, round, promises, budgets>>

AuditSkipped == FALSE   \* mutant
AuditRefuses == round \in Poison

\* apply_block_to, in place, then the audit: a violation halts the replica with
\* nothing of the block on disk but its certificate.  A block applied on top of
\* itself may change nothing (its transactions are replays) or something (one
\* refused the first time, and forgotten, may succeed now).
Apply ==
    /\ pc = "apply"
    /\ prior' = led.n
    /\ \E harmless \in {TRUE, led.n = round - 1} :
          led' = [n |-> round, pure |-> led.pure /\ harmless]
    /\ pc' = IF AuditRefuses THEN "halted" ELSE "log"
    /\ outcome' = IF AuditRefuses THEN "halt" ELSE outcome
    /\ UNCHANGED <<decided, disk, height, appHash, lastTime, vhist, khist, blocks, pairs,
                   round, acked, before, budgets>>

BlockFrameUnsynced == Frame(round, "block", "torn")   \* mutant: Ok before the bytes are down
BlockFrame == Frame(round, "block", "whole")

LogBlock ==
    /\ pc = "log"
    /\ wal' = Append(wal, BlockFrame)
    /\ blocks' = blocks \cup {round}
    /\ height' = round
    /\ lastTime' = decided[round].time
    /\ appHash' = led
    /\ pc' = "vset"
    /\ UNCHANGED <<decided, certs, vjournal, kjournal, snap, led, prior, vhist, khist, pairs,
                   round, promises, budgets>>

SetChanged == Live(height).who # Live(prior).who

JournalSet ==
    /\ pc = "vset"
    /\ IF SetChanged
       THEN /\ vhist' = Append(vhist, Entry(height, Live(height).who))
            /\ vjournal' = Append(vjournal, Frame(height, Live(height).who, "whole"))
       ELSE UNCHANGED <<vhist, vjournal>>
    /\ pc' = "kset"
    /\ UNCHANGED <<decided, wal, certs, kjournal, snap, led, prior, height, appHash, lastTime,
                   khist, blocks, pairs, round, promises, budgets>>

\* Only a validator both before and after the block can have rotated in it.
Rotated == \E v \in Live(prior).who \cap Live(height).who :
              Live(prior).key[v] # Live(height).key[v]

JournalKeys ==
    /\ pc = "kset"
    /\ IF Rotated
       THEN /\ khist' = Append(khist, Entry(height, KeysOf(Live(height))))
            /\ kjournal' = Append(kjournal, Frame(height, KeysOf(Live(height)), "whole"))
       ELSE UNCHANGED <<khist, kjournal>>
    /\ pc' = IF SnapshotInterval > 0 /\ height % SnapshotInterval = 0 THEN "snap" ELSE "ack"
    /\ UNCHANGED <<decided, wal, certs, vjournal, snap, led, prior, height, appHash, lastTime,
                   vhist, blocks, pairs, round, promises, budgets>>

SnapshotUnlabelled == [led |-> led]   \* mutant: written without its height
SnapshotAhead == [height |-> height + 1, led |-> led]   \* mutant
Snapshot == [height |-> height, led |-> led]

WriteSnapshot ==
    /\ pc = "snap"
    /\ snap' = Snapshot
    /\ pc' = "prunewal"
    /\ UNCHANGED <<decided, wal, certs, vjournal, kjournal, process, promises, budgets>>

\* The margin, never less than two snapshot intervals, and never height 0.
KeepFrom ==
    LET margin == IF PruneMargin >= 2 * SnapshotInterval THEN PruneMargin ELSE 2 * SnapshotInterval
    IN IF height > margin + 1 THEN height - margin ELSE 1

\* prune_below does nothing when the index starts at or above the cut, and
\* leaves the certificates alone when the log itself had nothing to drop.
PruneWal ==
    /\ pc = "prunewal"
    /\ IF (\A h \in blocks : h >= KeepFrom) \/ Compacted(wal, KeepFrom) = wal
       THEN pc' = "ack" /\ UNCHANGED <<wal, blocks>>
       ELSE /\ wal' = Compacted(wal, KeepFrom)
            /\ blocks' = Indexed(wal')
            /\ pc' = "prunecerts"
    /\ UNCHANGED <<decided, certs, vjournal, kjournal, snap, led, prior, height, appHash, lastTime,
                   vhist, khist, pairs, round, promises, budgets>>

PruneCertificates ==
    /\ pc = "prunecerts"
    /\ certs' = Compacted(certs, KeepFrom)
    /\ pairs' = IF certs' = certs THEN pairs ELSE Heights(certs')
    /\ pc' = "ack"
    /\ UNCHANGED <<decided, wal, vjournal, kjournal, snap, led, prior, height, appHash, lastTime,
                   vhist, khist, blocks, round, promises, budgets>>

\* commit_decided returns Ok and consensus starts the next height.
Acknowledge ==
    /\ pc = "ack"
    /\ acked' = IF acked >= height THEN acked ELSE height
    /\ outcome' = "ok"
    /\ round' = height + 1
    /\ pc' = "idle"
    /\ UNCHANGED <<decided, disk, led, prior, height, appHash, lastTime, vhist, khist, blocks,
                   pairs, before, budgets>>

-----------------------------------------------------------------------------
(***************************************************************************)
(* What the machine under the node does to it.                             *)
(***************************************************************************)
\* What the write in progress may have left on disk, other than completing.
Interrupted(marks) ==
    CASE pc = "cert" ->
           /\ certs' \in AppendedPartly(certs, Frame(round, "cert", "whole"), marks)
           /\ UNCHANGED <<wal, vjournal, kjournal, snap>>
      [] pc = "log" ->
           /\ wal' \in AppendedPartly(wal, BlockFrame, marks)
           /\ UNCHANGED <<certs, vjournal, kjournal, snap>>
      [] pc = "vset" /\ SetChanged ->
           /\ vjournal' \in AppendedPartly(vjournal, Frame(height, Live(height).who, "whole"), marks)
           /\ UNCHANGED <<wal, certs, kjournal, snap>>
      [] pc = "kset" /\ Rotated ->
           /\ kjournal' \in AppendedPartly(kjournal, Frame(height, KeysOf(Live(height)), "whole"), marks)
           /\ UNCHANGED <<wal, certs, vjournal, snap>>
      [] pc = "snap" ->
           /\ snap' \in {snap, Snapshot}
           /\ UNCHANGED <<wal, certs, vjournal, kjournal>>
      [] OTHER -> UNCHANGED disk

Crash ==
    /\ pc \notin {"down", "refused"} /\ crashes < MaxCrashes
    /\ Interrupted(TearMarks)
    /\ pc' = "down" /\ crashes' = crashes + 1
    /\ Stopped
    /\ outcome' = "none"
    /\ UNCHANGED <<decided, acked, before, ioErrors, rots, imports>>

\* A halted replica ends run(): the process exits and is started again, to find
\* the same block waiting.  Each round adds an orphan certificate, so MaxCrashes
\* bounds these stops too.
Exit ==
    /\ pc = "halted" /\ crashes < MaxCrashes
    /\ pc' = "down" /\ crashes' = crashes + 1
    /\ Stopped
    /\ outcome' = "none"
    /\ UNCHANGED <<decided, disk, acked, before, ioErrors, rots, imports>>

Writing ==
    \/ pc \in {"cert", "log", "snap", "prunewal", "prunecerts"}
    \/ pc = "vset" /\ SetChanged
    \/ pc = "kset" /\ Rotated

\* A full disk or a failing sync.  The frame may be whole in the file and the
\* write still have failed.  The histories are pushed before their write.
WriteFails ==
    /\ Writing /\ ioErrors < MaxIoErrors
    /\ Interrupted(TearMarks \cup {"whole"})
    /\ vhist' = IF pc = "vset" THEN Append(vhist, Entry(height, Live(height).who)) ELSE vhist
    /\ khist' = IF pc = "kset" THEN Append(khist, Entry(height, KeysOf(Live(height)))) ELSE khist
    /\ pc' = "idle" /\ outcome' = "err" /\ ioErrors' = ioErrors + 1
    /\ UNCHANGED <<decided, led, prior, height, appHash, lastTime, blocks, pairs, round,
                   acked, before, crashes, rots, imports>>

RotFrame(file, i) == [file EXCEPT ![i].mark = "rot"]

\* One bit flips in the payload of a frame of the log or of a certificate.
Rot ==
    /\ pc = "down" /\ rots < MaxRot
    /\ \/ \E i \in Intact(wal) : wal' = RotFrame(wal, i) /\ UNCHANGED certs
       \/ \E i \in Intact(certs) : certs' = RotFrame(certs, i) /\ UNCHANGED wal
    /\ rots' = rots + 1
    /\ UNCHANGED <<decided, vjournal, kjournal, snap, pc, process, promises, crashes, ioErrors, imports>>

\* import_snapshot, on a stopped node: a peer's ledger at h with the certified
\* block above it, refused when this home is already at h or beyond.  No peer is
\* past a block the audit refuses.
ImportSnapshot(h) ==
    /\ pc = "down" /\ imports < MaxImports
    /\ h < Len(decided) /\ h > snap.height /\ 1..h \cap Poison = {}
    /\ wal' = Quarantined(wal, snap.height)
    /\ IF \A g \in Heights(wal') : g < h
       THEN snap' = [height |-> h, led |-> Ledger(h)]
       ELSE UNCHANGED snap
    /\ imports' = imports + 1
    /\ UNCHANGED <<decided, certs, vjournal, kjournal, pc, process, promises, crashes, ioErrors, rots>>

-----------------------------------------------------------------------------
Init ==
    /\ decided = <<>>
    /\ wal = <<>> /\ certs = <<>> /\ vjournal = <<>> /\ kjournal = <<>>
    /\ snap = [height |-> 0, led |-> Ledger(0)]
    /\ pc = "down"
    /\ led = Ledger(0) /\ prior = 0 /\ height = 0 /\ appHash = Ledger(0) /\ lastTime = 0
    /\ vhist = <<>> /\ khist = <<>> /\ blocks = {} /\ pairs = {} /\ round = 0
    /\ acked = 0 /\ outcome = "none" /\ before = Ledger(0)
    /\ crashes = 0 /\ ioErrors = 0 /\ rots = 0 /\ imports = 0

Commit ==
    \/ Begin \/ Reject \/ WriteCertificate \/ Apply \/ LogBlock \/ JournalSet \/ JournalKeys
    \/ WriteSnapshot \/ PruneWal \/ PruneCertificates \/ Acknowledge

Next ==
    \/ Decide \/ Start \/ Commit
    \/ Crash \/ Exit \/ WriteFails \/ Rot
    \/ \E h \in 1..MaxHeight : ImportSnapshot(h)

Spec == Init /\ [][Next]_vars

\* Consensus keeps deciding, the process runs, and a stopped process is started
\* again by its supervisor.  No fault is ever owed.
Fairness == WF_vars(Decide) /\ WF_vars(Start) /\ WF_vars(Commit)
FairSpec == Spec /\ Fairness
-----------------------------------------------------------------------------
(***************************************************************************)
(* Properties.                                                             *)
(***************************************************************************)
MemoryLedger == [n : Nat, pure : BOOLEAN]
Frames(X) == Seq([height : Nat, item : X, mark : Marks])
KeyMaps == UNION {[S -> ConsensusKeys] : S \in SUBSET Validators}
History(X) == Seq([height : Nat, item : X])
Steps == {"down", "refused", "halted", "idle", "cert", "apply", "log", "vset", "kset",
          "snap", "prunewal", "prunecerts", "ack"}

\* Every variable holds a value of its kind.
TypeOK ==
    /\ decided \in Seq([live : ValidatorState, time : Nat])
    /\ wal \in Frames({"block"}) /\ certs \in Frames({"cert"})
    /\ vjournal \in Frames(SUBSET Validators) /\ kjournal \in Frames(KeyMaps)
    /\ snap \in [height : Nat, led : MemoryLedger]
    /\ pc \in Steps
    /\ led \in MemoryLedger /\ prior \in Nat /\ height \in Nat
    /\ appHash \in MemoryLedger /\ lastTime \in Nat
    /\ vhist \in History(SUBSET Validators) /\ khist \in History(KeyMaps)
    /\ blocks \subseteq Nat /\ pairs \subseteq Nat /\ round \in Nat
    /\ acked \in Nat /\ outcome \in {"none", "ok", "err", "halt"} /\ before \in MemoryLedger
    /\ crashes \in Nat /\ ioErrors \in Nat /\ rots \in Nat /\ imports \in Nat

Running == pc \notin {"down", "refused", "halted"}

\* Whatever tears, rots, is pruned, imported or interrupted, a running node's
\* ledger is the decided blocks up to its height, each applied once: it never
\* resumes from a state no other node holds (quarantine_tail, Replica::open).
\* A write that failed under it breaks this: the block it was to log stays
\* applied, and is applied again when it is retried.
OnTheChain ==
    ioErrors = 0 =>
        /\ Running /\ pc # "log" => led = Ledger(height)
        /\ pc = "log" => led = Ledger(height + 1)

\* A block the audit refuses is in no log and under no snapshot, so no restart
\* can take it back in (commit_block_unchecked appends after the audit).
HaltLeavesNoTrace ==
    /\ Heights(wal) \cap Poison = {}
    /\ 1..snap.height \cap Poison = {}

\* A block commit_decided returned Ok for is part of every later ledger of this
\* node: no crash between two of its writes loses it.
AckedSurvives == Running => height >= acked

\* No crash leaves a data directory the node cannot be started from.
NeverRefused == pc # "refused"

HistoryMinHeight == IF blocks = {} THEN 1 ELSE Least(blocks)

\* history_min_height tells the truth: every height from the one this node
\* advertises up to its own can be served.
AdvertisedIsServed == Running => HistoryMinHeight..height \subseteq blocks \cap Heights(wal)

\* validators_at at this node's height is the validator set of its ledger: the
\* set certificates are checked against is the one consensus is running.
At(hist, h, none) ==
    LET upTo == {i \in DOMAIN hist : hist[i].height <= h}
    IN IF upTo = {} THEN none ELSE hist[CHOOSE i \in upTo : \A j \in upTo : j <= i].item

ValidatorsAtTip == pc = "idle" => At(vhist, height, {}) = Live(height).who

\* keys_at, with build's fallback to the member's current key, names for every
\* validator of this node's height the key it signs with.
KeysAtTip ==
    LET known == At(khist, height, <<>>)
    IN pc = "idle" => \A v \in Live(height).who \cap DOMAIN known : known[v] = Live(height).key[v]

\* Once a node has committed a height, consensus moves past it there.
MovesPastCommitted == \A h \in 1..MaxHeight : (height = h) ~> (round > h)

\* Consensus gets past every height it decides on this node.
CatchesUp == <>(round = MaxHeight + 1)

\* On a disk that completes or omits each write, the whole of replica.rs and
\* store.rs is a durable log: the logged block and the ledger grow in one step,
\* a restart resumes at the last logged block, and what was acknowledged stays.
Log == INSTANCE DurableLog WITH
    Limit <- MaxHeight, up <- Running, tip <- height, stored <- ReplayTop(wal), promised <- acked

Durable == Log!Spec
=============================================================================
