# edet: a TLA+ verification development

edet is a mutual-credit ledger replicated by a BFT consensus engine. Members
promise each other amounts; a promise may be *insured* by reserving flow in a
graph of stakes that starts at underwriters; every epoch boundary runs decay,
expiry, netting and retirement with nobody asking. Each validator applies
decided blocks to one deterministic state and keeps that state on disk.

This directory holds TLA+ modules translated from the code under
`src/crates/`, TLC configurations that check them on small instances, and
proofs of their main invariants for every instance. `PROJECT.json` maps each
definition to the lines it models and lists runs, mutants, findings, hazards
and theorems.

To repeat a check: `tlc -config ReplicaCrash.cfg MCReplica.tla` (module and
configuration of a run are in `PROJECT.json`); `tlapm ReplicaProofs.tla`.

## 1. Inventory

What the system consists of, what each part keeps, what it does, and what makes
it right. "Hard" is what a test would hardly reach.

### The node (`crates/node`)

**Replica and store** (`replica.rs`, `store.rs`, `serve/core.rs
commit_decided`, the `Decided` handler and `import_snapshot` of
`engine_malachite.rs`).
State: the ledger in memory, height, cached app hash, last block time, the
histories of validator sets and of consensus keys, two indexes; on disk four
append-only frame files (`wal.bin`, `certificates.bin`, `validators.bin`,
`keys.bin`) and `snapshot.bin`.
Operations: open (quarantine, replay, audit), commit a decided block (up to
eight writes in order), snapshot, prune, serve history, import a peer's snapshot.
Hard: a crash between any two writes, a torn append with later appends behind
it, a flipped bit, a write that fails in a process that goes on.
Right when: what it acknowledged survives; it can always be started; it is
never on a ledger that no other node has; a block the audit refused is durable
nowhere; what it advertises it can serve, with certificates; the validator set
and keys it answers are those of its ledger; consensus always gets past a height.

**Block validity and mempool** (`block.rs`, `mempool.rs`). State: a capped
queue, a capped list of committed hashes. Operations: push, batch, remove what
a block committed; monotonic and plausible timestamps. Hard: the caps (a
committed transaction is queued again after its hash was evicted). Right when:
a committed transaction is not queued again while it is remembered, and an
honest proposer's block is accepted by every honest validator.

**Engine adapter** (`engine_malachite.rs`). State: values pending for the
height (persisted), streams of proposal parts under caps. Operations:
ConsensusReady, StartedRound, GetValue, ReceivedProposalPart, Decided,
ProcessSyncedValue, restart. Hard: parts lost, duplicated and reordered; the
lock released and a sleep between snapshot and proposal; a restart that offers
persisted values. Right when: every value voted for is valid against the ledger
it will be applied to, no correct node's block is called invalid, and a decision on a value
the node does not hold does not leave it behind.

**Serving layer** (`serve/*`). State: seen signatures by expiry, token
buckets, sessions, the core under one lock. Hard: what an eviction at a cap
readmits. Right when: a credential is used once within its window.

**Pending offers** (`view/src/pending.rs`). State: half-signed transactions,
tombstones. Operations: open, sign, decline, sweep, merge of gossip. Hard: late
gossip against a decline, caps. Right when: a declined or completed offer never
comes back while it is remembered, whoever a late request says has to sign it, and the
pool keeps to its shares.

### The state machine (`crates/state`, `crates/kernel`)

**Ledger** (`apply.rs`, `state.rs`, `loss.rs`, `cascade.rs discharge_hop`).
State: the rows of the book, each with amounts, dates, status and the flow it
holds; per-member caches of debt and open default; stakes and what is reserved
on them; supplies and what is committed through them. Operations: accept,
settle, cure, extend, transfer, declare_supply; at every epoch boundary decay,
expiry with substitution of insured losses, netting of rings of defaults and
pruning. Hard: long sequences of legal calls (part payment of a claim already
divided between underwriters, one of them its creditor), rounding and dust, the
order of the sweep. Right when: caches agree with the book and holds with what
is owed; every set of members owes at most the cut into it; nobody's position
falls without their consent.

**Flows** (`kernel/src/flow.rs`). Pure: capacity (max flow), reserve, release,
decompose, decay. Right when capacity is the minimum cut and release is the
exact inverse of reserve.

**Identity** (`apply.rs`, `state.rs`). State: accounts, their keys and the index
over them, guardians and a pending rotation, consensus keys, the validator set,
who sponsored whom. Operations: seat, exit, register_guardians,
rotate_request / veto / finalize, set_consensus_key, the enactment of Suspend,
Unsuspend and ValidatorPower, retirement of empty rows. Hard: a rotation that
waits a whole window while everything else goes on. Right when: a key speaks
for one member; keys change only with authority; the validator floor stands.

**Bond gate** (`apply.rs apply_with_cache, bond_gate, refund`, `bond.rs`).
State: applied ids by expiry, bonds by release epoch, free allowance, seat
slots, a memo of reaches. Hard: id recorded before the handler, forgotten on
some refusals; a stale memo. Right when: no transaction is applied twice, a refusal keeps
a charge exactly when it keeps the id, bonds come back on their day or are taken by a
sanction that was earned, and no bill depends on the memo.

**Governance, parameters, seed, redenomination** (`apply.rs propose, assent`,
`params.rs`, `seed.rs`, `state.rs rescale`). Hard: a vote recorded by an assent
that is then refused; conditions that held when a text was proposed and not when it
is enacted; a rescale of every amount in one pass. Right when: the external seed
grows within its rate, the ledger stays writable, the validator set changes only
with the higher bar, and a suspended majority can come back as long as somebody is left
who can pay for the question.

**Sale and cascade** (`cascade.rs`, `kernel/src/cascade.rs`). State: listings,
approvals. Hard: several old rows merged into one successor under a budget and a
measured room. Right when: bystanders lose no claim or date, and no insurance of what
moves; the amounts add up; nobody is drained beyond what a supporter's stake allows.

**Arbitration** (`apply.rs arb_attest, arb_award`). Hard: the row the panel
judges may have been paid, moved, split or subrogated by the time the award falls
due. Right when: a panel awards once, and no more than was agreed.

**Audit and its cache** (`invariants.rs`). Runs after every block; a violation
halts every node. Hard: what the cache lets it skip.

**Root, journal, codec, types** are data layout; **swarm, civitas, wallet,
paper** are drivers, clients and prose and are no part of a node.

How they interact: the serving layer fills the mempool; the engine asks it for
a batch, has peers screen the value, and hands a decided block to the replica
under the core's lock; the replica has the state machine apply it, audits,
writes. Within the state machine `begin_block` runs before every transaction
and does the boundary's work if the time has passed into another epoch; the bond
gate admits each transaction, and a handler changes identity and ledger.

## 2. Plan

Done, most important behaviour first:

1. `FrameFile`, `Replica`, `DurableLog` (abstract) and their proofs.
2. `StakeGraph`, `Ledger`; arbitration and re-denomination in `Ledger`.
3. `Identity` and its proofs.
4. `Gate`: replay ids, bonds, allowances, refunds, seats, the reach memo.
5. `Sale`, which extends `Ledger` with netting and the support cascade.
6. `Engine`: block validity, pending values, the undecided cache, restart.
7. `Governance`: proposals, their enactment, the seed.
8. `Offers`: the pool of half-signed offers composed with the mempool.

Left, in this order:

1. The audit's incremental cache against `Audit` and `CutBound`.
2. Reassembly of streamed parts and its caps; the serving layer's replay store.
3. The flow solver as functions, against the definitions of `StakeGraph`.

## 3. Modules

| module | what it is |
|---|---|
| `FrameFile` | frames of `store.rs`: what a reader makes of torn, stub and rotten frames, quarantine, compaction |
| `Replica` | one validator: disk, process, commit one write at a time, faults |
| `DurableLog` | what `Replica` promises: a log that is extended, promised, lost by nobody |
| `ReplicaProofs` | lemmas and theorems |
| `Sums` | lemmas about the sums and folds of the community modules, for the proofs below |
| `StakeGraph` | flows, cuts, holds, the division of a hold |
| `Ledger` | the book, transactions, panels, the epoch boundary, re-denomination; uses `StakeGraph` |
| `BookProofs` | lemmas: how a hold divides, what each operation on a book, its defaults, rings, panels and scales do to rows, caches, holds and positions, and so what each step of the ledger keeps |
| `LedgerProofs` | a sale step by step; the invariants of the ledger and of sales; theorems |
| `Sale` | netting and the support cascade; extends `Ledger`, whose actions stay in its next-state relation; theorems in `LedgerProofs` |
| `Identity` | accounts, keys, guardians, validators; theorems in `ConsensusProofs` |
| `Gate`, `GateProofs` | what a transaction passes before and after its handler, uses `StakeGraph`; theorems |
| `Governance`, `GovernanceProofs` | proposals, assents, enactment, seed rate; theorems |
| `Engine` | the application side of consensus on several nodes |
| `ConsensusProofs` | theorems about `Identity` and `Engine`: who may vote, and what is voted on |
| `Offers`, `OffersProofs` | pending offers and the mempool on several nodes; theorems |
| `MC*` | instances for TLC |

### Replica

Each durable write is an action, because a crash may fall between any two:
`Begin` (the checks), `WriteCertificate`, `Apply` (apply and audit, in memory),
`LogBlock`, `JournalSet`, `JournalKeys`, `WriteSnapshot`, `PruneWal`,
`PruneCertificates`, `Acknowledge`; `pc` is the position in
`commit_block_unchecked`. A commit holds the core's lock throughout, so nothing
else of the node runs between two of its steps and one `pc` is enough.
`Start` is `Store::open` and `Replica::open` in one step, since they only read
(quarantine writes the shortened log back). Faults are `Crash` (which leaves
anything `Interrupted` allows of the write in progress, and empties memory),
`Exit` (the halted process ends), `WriteFails` (the process goes on, `restart` asks
consensus for the certificate's height), `Rot` (one bit), `ImportSnapshot`.

The transition function is deterministic, so a ledger is the *number* of decided
blocks applied, and whether it is what they give, each once and in order
(`pure`). Validator set and keys after a block are chosen when it is decided.
An append is whole, absent, torn in the payload or torn in the header
(`Marks`); a frame appended behind a torn one is swallowed by it, as in
`walk_frames_raw`. Snapshot and compaction go through a temporary file and a
rename, so they are atomic. Consensus is external: one value per height, the
same for all, asked of this node at its round. `acked`, `outcome`, `before` and
the fault counters are history.

### StakeGraph, Ledger and Sale

One action per transaction, guards in the order of the handler's refusals;
amounts are minor units. `book` is one record (rows, caches, stakes,
reservations, what panels were agreed and charged) because a handler passes through
several intermediate books, which are the operators `Discharged`, `Reheld`, `Moved`,
`Substituted`, `Netted`, `Rescaled`. The epoch boundary is ONE action, as
`begin_block` is: decay, expiry in id order, up to `MaxRings` rings each found as
`find_ring` does, awards that have come due, pruning.

A hold is what `Held` of `flow.rs` keeps: an amount for each arc and each supply.
The solver is replaced by its specification: `Cut` is the minimum cut and
`Reservations` takes ANY feasible flow of the amount, so what holds here holds for
whatever flow Dinic's algorithm returns. `Decomposed`, `Allocated` and `Shrunk` are
the route order and the exact largest-remainder rule of `flow.rs` and `loss.rs`,
with the arc-by-arc fallback for a hold that is no flow. A standalone
`MarkExpired` is not an action: `NothingOverdue` shows the sweep leaves it nothing.
`signers` is a history variable; the views drop it from the state TLC
remembers, which is sound because no next step depends on it and step
properties are evaluated on the generated step.

A re-denomination floors each arc and each supply of each hold, shaves the holds
(`Shaved`), and reads the caches back, as `rescale` does.

A sale has a set of outcomes, since each reservation it takes is any flow; each
step of the cascade maps what has been done to the set of what may be done next.
`sold` is history.

### Identity

Each field of a member is a function on ids; a row that does not exist has status
"none". Seating happens inside a trade (`resolve`, `seat_pair`); the trade, the
vote behind a sanction, and the rest of the state that can keep a row from
being retired (`busy`) are chosen freely, so the invariants hold whatever those
components do. `asked` records the guardians whose signatures carried the
standing request. A list in which a guardian is named twice is accepted, as the
code compares the threshold with the names it was given.

### Gate

`Apply` is `apply_with_cache` from the replay record to the refund: window and
record, the charge (`Due`: an allowance, a bond, a seat slot, nothing, or nobody who
can pay), the handler, and one of `Refused`, `Unauthorised`, `Rejected`,
`Taken`. Seven kinds of transaction stand for what the gate can tell apart: free
and charged ones, one that seats a row, one that lowers a supply, one that leaves,
the permissionless forfeit. The handler is reduced to its effect on what the gate
reads. `Screen` is the ingress's and the proposer's use of the same memo;
`Restart` empties it. `took`, `burnt` and `denials` are history. Members here are
numbered from 1 and known by one key.

`BeginBlock` may advance several epochs, and is `begin_block` whole and in its order:
the denials of each epoch that closes are counted, stakes fade, the sweep's crank
takes the bonds of every saturated member (`Sanctioned`, `Forfeiting`; `sweep_cranks`,
`apply.rs:696-705`) into the reserve (`Reserve`), empty rows retire, and only then are
the bonds that are due handed back (`Released`, `state.rs:393`). The order matters: released
first, the bond of a saturated member that is due on that day would escape the sanction.
The crank sent as a transaction (`Forfeit`) uses the same operators.

### Governance

`Propose`; then an assent is one of three actions, because the code writes the vote
before the last refusals: `Assent` (short of the bar), `AssentRefused`
(recorded, then refused by an arm of the enactment), `AssentEnacts`. Supplies,
exits and consensus keys move by themselves. `year` is history: what the seed was
when the epoch opened, and what has been admitted since. Credit on a supply and
debts of a member are left open, so both may be withdrawn at any time.

A proposal costs a bond, a reinstatement too, and the gate asks it of an active
signer (`bond_gate`, `apply.rs:963-965`): a member under a sanction has no allowance, seat
slot or headroom. So `Propose` asks for an active author or for an active co-signer that
can pay (`MayPay`): one with a supply, or with a supply behind it that still stands
(`Backing`, a constant: stakes are `Ledger`'s). What a bond takes out of a budget is
`Gate`'s question; an active author may be short of it there, and tries again.

### Engine

One action per handler of `run`: `GetValue`, `ReceivedProposal` (a complete value,
screened), `ProcessSyncedValue`, `StartedRound` (hands back), `Decided`; plus
`Crash` and `Restart` with `undecided.bin`. A block is its height, time, author
and the state it names. Consensus is external and promises only this: one
decision for a height, on a block a correct node built and a quorum called valid;
and a node never gets a decision it called invalid. Blocks are delivered in any
order, any number of times, at any clock reading within `Drift`. A diverged node's
blocks (`Foreign`) may arrive too.

### Offers

`sign` is `SignRefused`, `Sign` or `SignCompletes` by what it does; `Decline`,
`Push`, `Decide` (a proposer's batch), `Commit` (`remove_committed`), `Restart`,
`Tick`. Requests arrive from a set that only grows, so any may be late, repeated or
lost. An envelope's commit may give a newcomer an account, which changes whom the
pool recognises.

A signature covers the digest of the transaction (`pending.rs:276-278`), while the list
of parties that have to sign it, how many of them, and the invitation belong to the
request and are signed by nobody. So each request brings a list of its own (`asks`): the
signer must be on it (`Valid`, line 331), and an entry keeps the list of the
request that opened it (`Opened`, 394-404), by which it is complete and may be declined.
An entry opened with a shorter list completes early; the mempool's door then asks who
really has to sign (`Authorises`), and leaves the envelope out, while its digest is
tombstoned. `Decide` is `proposable_batch`: any part of the front of the queue
that is still authorised, since the bond gate may hold any of it back. `over` and `from`
are history, and say what a node closed and applied *since it started*: pool, tombstones,
queue and hashes are in memory only (`core.rs:316-323`), so `Restart` empties all of it and the
histories with it.

## 4. Runs

| run | shows | expected |
|---|---|---|
| `replica_crash` | whole disk writes, two crashes anywhere: `AckedSurvives`, `NeverRefused`, `AdvertisedIsServed`, `CatchesUp`, and `Replica` implements `DurableLog` | holds |
| `replica_faults` | torn appends, one failed write, one flipped bit, an import, a refused block, two crashes: `OnTheChain`, `HaltLeavesNoTrace` | holds |
| `ledger_loss` | two underwriters, a panel, insured default, part payments, transfers (also one its lender has not signed), withdrawal, decay, substitution, cure, award, a halving of the unit: `Audit`, `CutBound`, `PanelsAwardOnce`, `InsuranceKept`, `HoldsNeverMove` | holds |
| `ledger_rings` | three debts in a ring, guardians: `NothingOverdue`, `ConsentToLoss` | holds |
| `ledger_halt` | `AuditedCuts` on a hold with four routes that is halved and paid in part | violated |
| `sale` | sales between all other transactions: `SaleAudit`, `OthersAreWhole`, `SaleIsExact`, `DrainIsCapped` | holds |
| `identity` | keys, rotations, sanctions, retirement: `OneKeyOneMember`, `RotationIsAuthorised`, `QuorumStands`, `NobodyNamedIsGone` | holds |
| `gate` | signed and stripped copies of seven envelopes over four epochs, with the crank at each boundary: `GateAudit`, `OnceAndNotLater`, `BondsReturn`, `SaturationIsEarned`, `CacheNeverDecides`, `RefusalsArePriced` | holds |
| `governance` | sanctions, seats, bond, unit and seed under withdrawals and exits: `SeedRateHolds`, `LedgerStaysWritable`, `OrderTakesTheHigherBar`, `MajorityReturns` | holds |
| `governance_banked` | `NothingIsBanked` | violated |
| `engine` | blocks, commits and clocks in any order, one crash: `HonestIsNeverRefused`, `HandedBackWouldPass`, `CatchesUp` | holds |
| `offers` | late, repeated and lost requests with differing lists, every cap, restarts in between: `OverStaysOver`, `RoomIsKept` | holds |

With two workers each takes two and a half minutes at most. `Audit`, `SaleAudit`, `GateAudit`,
`LedgerStaysWritable` and `RoomIsKept`
include their module's type invariant.

### What the violated ones show

* *ledger_halt* (`loss.rs:365`): a claim of 8 takes four routes, two of them through
  relay 3. Halving floors supplies and arcs apart: three claims of 1, one unit on each
  of four arcs, and the arc out of the relay has no source behind it any more. The
  arcs still deliver the claims, so nothing is shaved, and the audit passes. But the hold is
  not a flow: when 2 of 3 are paid, `decompose` refuses it and each arc is rounded by
  itself, to nothing, while one unit stays claimed of a supply. Nothing is reserved
  then, the stakes decay at the next boundary, and the debtor owes 1 against a cut
  of 0. `AuditedCuts` is the family `invariants.rs:631-636` reads after each block, and all
  insured debtors are one of its sets, so that block stops every node. With larger
  figures the rounding loses a unit. The comment at `state.rs:1353-1357` says of the arcs
  left high that settlement gives them back exactly as it took them.

  The shave itself (`state.rs:1396`) has a second way out of the bound, which the audit's
  family misses at first. It takes the excess off the largest claim, whichever
  underwriter it is on: if 1 is paid before the halving, 0 loses a claim that its arc
  carries, and 1 keeps one whose arc is free and decays. The set {0, 2, 3, 4} then owes more
  than its cut, so `CutBound` in place of `AuditedCuts` is violated in as many steps; {4}, the
  only set the audit reads there, does not, and the bound stays broken undetected. It
  is noticed when 0, which nothing commits now, lowers its supply: with {0} among the
  `SignerSets` that is a step too, and {4} owes 2 against a cut of 1.
* *governance_banked* (`apply.rs:2570`): an assent whose enactment is refused (the
  validator floor, a member no longer active or keyed) is reported as failed and
  stays counted; the proposal stands above its bar, and the voter cannot assent
  again. The comment at `apply.rs:2519` says every rejection comes first.

### Known divergences without a run

Met while modelling. Where a definition is named, it states what a comment of the
code says, and it does not hold of the code; those definitions are kept in the
modules and listed in no configuration.

*Node.*
* A journal append behind a torn one makes every later open an error
  (`store.rs:434`; the comment at 430-431 expects the tail to be ignored):
  `NeverRefused` fails as soon as appends may tear.
* A crash between the log append and the journal append loses that block's change
  of validators, since open does not rebuild the histories from what it replays
  (`replica.rs:744`): `Replica.ValidatorsAtTip`.
* A validator that leaves, changes its key and rejoins is answered with the old one
  (`replica.rs:554`): `Replica.KeysAtTip`.
* A failed journal or snapshot write is an error after the height has advanced,
  and consensus is restarted at a height already committed, without end
  (`engine_malachite.rs:1439`): `Replica.MovesPastCommitted`.
* The store promises that a restart does not lose a value the node already voted for.
  `undecided.bin` is truncated before it is written (`store.rs:609`), and carries one
  height while the values held may be of several, of which the reader keeps that
  height's only (`engine_malachite.rs:1126`): a crash can lose a value answered as
  valid. One between the commit and the next write can also hand back a value
  that no longer follows, so `HandedBackWouldPass` is claimed without crashes.
* A proposer whose clock goes back by more than the allowed skew still proposes its
  parent's time, which others then find implausible; the bound is `Drift`.
* A full pool takes the newest entry of whoever is over its share, where the comment
  says oldest first (`pending.rs:371-372`, `382-383`). A refusal that arrives before
  its offer is lost. An offer that names a newcomer by key can no longer complete once
  that key has got an account elsewhere.
* A proposer takes the front of its queue and then drops what the gate would not admit
  (`core.rs:487-499`), so what cannot be paid for yet stays in front and holds up the rest.
* Tombstones and remembered hashes are in memory only (`core.rs:316-323`). After a restart a
  declined offer may be opened again by late gossip, and completed with the signatures
  gossip carries, which `pending.rs:178-187` promises to refuse. `OverStaysOver` is
  therefore claimed since the node's last start.
* Whoever opens an entry chooses whom it waits for (`pending.rs:394-404`): one opened with a
  shorter list than the transaction needs completes early, its envelope is refused at the
  mempool's door, and its digest is tombstoned, so the offer is over on that node with
  nothing sent.
* `serve/core.rs:415-417` says `apply` refuses an id not yet issued before it records
  anything; `apply.rs:198-200` says that it does not, and it does not.

*Ledger.*
* A panel's agreed cap and amount are not re-denominated with the claim
  (`state.rs:1210-1215` against `types.rs:124-125` and `apply.rs:2087`): an award may
  exceed what was agreed by the scale. `Ledger.AwardsAreAgreed` fails across a
  re-denomination, `PanelsAwardOnce` is the same on one unit.
* `open_default` is rescaled by itself and can then differ from a recount by a
  rounding (`state.rs:1218`; `types.rs:149-150` says it is kept so as not to drift).
* What a sale leaves with the seller asks for its hold after the successor has taken one
  on the buyer (`cascade.rs:469`). `apply.rs:1184-1186` says that this reservation cannot
  fail, since decay and withdrawal respect what is reserved; but they say nothing of
  the successor's flow, one unit of which may stand in the way of two of the old
  hold's. The remainder is then left uninsured (`apply.rs:1230`). `OthersAreWhole` allows
  for that (`Bared`) and claims the insurance of all that moves.
* Netting writes a stake that no creditor signed (`cascade.rs:325` against 335-337).
  `ConsentToLoss` shows that nobody's position falls by it, but for the dust it forgives.
* The amount of a seed amendment that is open during a re-denomination stays in the
  old unit.

*Identity, Governance.*
* `set_consensus_key` does not look at keys a pending rotation has asked for, and
  finalizing asks nothing again (`apply.rs:1369`): a key may end as both, which
  `invariants.rs:313-317` refuses on every node.
  `Identity.ConsensusKeyIsNoMemberKey`.
* A list may name a guardian twice, and its threshold then be out of reach
  (`apply.rs:1255`).
* The comment at `apply.rs:2306-2318` says that letting the sanctioned propose and vote on
  reinstatement undoes the deadlock, and that a majority of the seed cannot be held
  suspended. The proposal has to be paid for by an active member with reach
  (`apply.rs:963-965`; `tests/governance.rs:689-693` has 3 pay for 1, "since a suspended
  budget is zero"). If the coalition that suspended the rest was the last of those, and has
  left or lowered its supply, nobody can pay and the majority stays suspended. TLC finds
  it in seven steps if `MajorityReturns` drops its last disjunct: 3 leaves, 1 suspends 2 and
  lowers its supply to nothing.
* A proposal that reaches its bar because the seed shrank is not looked at until
  somebody assents again.

Other hazards the models pass over because they were not reached or hold nothing back:
`last_time_secs` restarts at 0 when the snapshot is the tip (`replica.rs:392`); a
substitution leg refused by a checked add (`loss.rs:267`) needs 64-bit amounts; the
arc-by-arc division of a hold that is no flow (`loss.rs:365`) is in `Shrunk`; `ledger_halt`
takes it, and no reachable state of `ledger_loss` does.

### Bounds, and why they are enough

* *Replica*: with a snapshot every two heights the margin is four, so six is the
  first height whose pruning drops anything, after two snapshots whose pruning
  does not; two crashes allow one in the first commit after a recovery. With faults,
  three heights: the poisoned one, one below the snapshot and one at it.
  Timestamps are constant (one value), since they only reach `Acceptable`.
  `MaxCrashes`, `MaxIoErrors`, `MaxRot`, `MaxImports`, `MaxHeight` bound each kind of
  event.
* *Ledger*: four members are two underwriters, a debtor and a lender, with one
  underwriter, backed by the other, able to be the successor. {2, 3} sign what debtor and
  lender agree on, {1, 2} what debtor and successor do without the lender, so a transfer that
  only the measured capacity allows takes place, also onto arcs of the old hold.
  Suspension is left out (`MaySuspend`); Three make the smallest ring of
  more than two; five, with a relay that is also the creditor, give the four routes of
  `ledger_halt`. Amounts up to 4 with dust 1 meet each rounding case: closed by
  dust, a remainder of one, a part payment that divides unevenly. Constants are
  scaled, keeping their order: maturity 1 (30 in the code), insured
  horizon 1 or 2 (365), retention 0 or 1 (365), rings of 3 (8), 1 or 2 rings an
  epoch (64); decay is the code's 977/1000, or 1/2 where a few epochs must show
  it. The unit is halved, which is exact in the code's floating point, so that flooring
  is its only rounding. `Deals` and `Panels` bound the trades offered, `MaxRows`
  the rows when a trade is accepted, `MaxEpoch` the boundaries. Two
  epochs are: due, expired and divided; then paid, netted, awarded or pruned.
* *Sale*: an underwriter, a seller, its buyer, and a third member that lends to the
  seller and borrows from it; three listings, two of them mutual. Three loans give the
  seller two creditors and a debt to its buyer to net. `Explored` bounds the run: every
  step out of a book that has room for a sale is checked, also what follows a sale
  that left two live rows and nobody suspended, and a larger outcome is not followed
  further. No boundary falls in the run: what a boundary does to a book is `ledger_loss`'s
  question, and a sale only
  writes the book.
* *Identity*: two founders and one id still to be given; five keys: one for each
  founder, a founder's consensus key, and two fresh. The second guardian list
  can only be registered once its members exist. Scaled: guardian minimum 1
  (2), veto floor 1 (30), longest window 2 (10000), one key an account (8),
  retention 1 (365). `Offers`, `Ballots`, `SignerSets` and `MaxEpoch` are bounds. The
  theorems have no such bounds.
* *Gate*: an underwriter, one member it backs, and a fresh key; seven envelopes,
  two of them also in a copy stripped of a signature. The reach is 3 and a bond 1,
  so the allowance, the headroom, its last unit and its exhaustion all occur.
  Four epochs are: bonded, denied twice in a row, then handed back or forfeited, by the
  boundary or by the envelope that asks for it; a window ends inside them. A bond is due on
  the boundary at which its member is saturated, so the order of the two is felt. One id may be
  refused by a rule outside.
* *Governance*: two underwriters of equal weight, so neither carries the higher bar
  alone and one carries the lower; a third member is a validator, stands on 2's supply
  and may confer, or pay for a question, without one of its own. Eight texts cover each kind, at
  most three of them proposed besides reinstatements, one boundary. A text is open once at a
  time, and a reinstatement is asked for while there is something to undo (`Worth`).
* *Engine*: two validators with quorum 1, which lets consensus decide on what one
  node has called valid while the other has not seen it; two heights are a parent
  and a child; clocks differ by 1 and the skew is 1, its largest value at which the
  property is meant to hold; one crash; one foreign block, ahead of its parent.
* *Offers*: four offers against a share of 1 and two entries, two of them by an invited
  newcomer whose inviter has room for one; one tombstone, a queue of two, one remembered
  hash: every cap is one step from full, or binds. Of one offer 2 asks for both signatures and
  1 for its own alone, so it completes early or not by who opens it.
  Requests and restarts reach one node (`Doors`, `MayRestart`), the other only commits
  and pushes. Two blocks (the second pushes the first's hash out), one tick (which
  expires), three closings (the second pushes the first out of a full ring, the third may be
  of an offer opened again).

Deadlock is not checked in any run: the models stop at their bounds, and a
refused or halted node really stops.

### Fairness

* `replica_crash`: weak fairness of `Decide` (consensus, external, keeps deciding),
  `Start` (the supervisor restarts a stopped process) and `Commit` (the process
  runs; the commit loop never waits for anything but its own writes). The
  refinement to `DurableLog` includes that module's weak fairness.
* `engine`: weak fairness of `Restart` (the supervisor), `GetValue`, `Decided`
  (consensus asks and reports), of sync of a node's next height and of delivery of some
  block of that height (peers stream and answer requests again), and of `Decide`. No
  fairness of `StartedRound` is needed.
* `governance`: weak fairness of proposing a reinstatement and of voting on it. This is
  an assumption about members, not about the code: that they go on signing, and that
  while some active member can pay for a proposal, it co-signs the reinstatement a
  sanctioned one asks for (a vote costs nothing). When nobody is left who can pay, `Propose` is
  not enabled and
  fairness gives nothing: `MajorityReturns` then promises nothing either. The claim is that
  otherwise the code does not stand in the way.

Faults are owed nothing and are bounded, so a liveness claim means: after the last
fault.

## 5. Proofs

All are checked by TLAPS with no unproved step, for every value of the
constants that satisfies the module's named assumption (`ReplicaAssumption`,
`IdentityAssumption`, ...), which TLC evaluates in each run. The assumptions say
types, that faults are counted, and what the code itself refuses otherwise: that
founders' keys and consensus keys are distinct (`add_underwriter`,
`set_consensus_key`), that the bond unit is not zero (`unit_survives`,
`apply.rs:2335`), that an offer's digest identifies its transaction (not who is asked to
sign it). A theorem that needs more says
so in its own `ASSUME`. Each inductive invariant was checked by TLC on the module's
instance before it was proved.

*ReplicaProofs*

* `TypeCorrect`. `TypeOK` is not inductive: `decided[round]` needs `round` in
  the domain. `Counts` adds that whatever is logged, applied or
  snapshotted was decided.
* `HaltLeavesNoTraceAlways`, for any number of every fault. `Traceless` adds that
  a running ledger has no refused block below its height, that the block about to be
  logged passed the audit, and that a commit never skips a height. The work is in
  `Start`: the heights replayed are a subset of those in the log, whatever
  quarantine, compaction and tears made of it (`ReplicaProofs`).
* `OnTheChainAlways`: until a write fails under a running process,
  its ledger is the decided chain's. `Chained` adds the same of the snapshot and
  the cached app hash, and that consensus is one height ahead before a block is
  logged.
* `AckedSurvivesAlways`, `NeverRefusedAlways`, `AdvertisedIsServedAlways` on a disk
  that completes or omits each write (`CleanDisk`: no torn append, no failed write, no
  flipped bit), for any number of crashes. `Stored` is why: every frame is whole,
  the log holds every height between snapshot and top, what was acknowledged is at or
  below the top, and a started node's height and index are the log's. It is needed
  whole: compaction is safe because the snapshot it follows is at the tip, replay is
  contiguous because compaction kept to that, and an import is safe because it only
  replaces a snapshot when it lies above the whole log. The third takes
  `MaxImports = 0`: an import leaves a gap below the snapshot, and what the node then
  advertises is `index_wal`'s lowest height, which may lie below the gap. With torn
  appends the first two are false (section 4).
* `StoreIsADurableLog`: on the same disk, without imports and refused blocks, every
  step of `Replica` is a step of `DurableLog` or leaves it as it was. This is `Durable`
  without its fairness. A refused block is left out because the node it halts is
  stopped without losing its memory, which is no step of the log.

*ConsensusProofs*, about `Identity`

* `IdentityTypeCorrect`: types, and that `next_member` is above every id, so
  none is given twice.
* `OneKeyOneMemberAlways`: needs that a key waiting in a rotation is neither
  indexed nor waiting in another's; `key_is_claimed` keeps that true, which
  makes it safe that `rotate_finalize` asks nothing.
* `RotationIsAuthorisedAlways`: a step property, from the invariant that a standing
  request was signed by a threshold of the present guardians and the window is
  at least the floor.
* `NobodyNamedIsGoneEver`, `QuorumStandsAlways`: the floor is counted with the
  finite-set theorems.

*ConsensusProofs*, about `Engine`

* `EngineTypeCorrect`, `HonestIsNeverRefusedAlways`, `HandedBackWouldPassAlways`. The
  invariant: no height has two decisions, every height up to a node's own has one, and a
  built block is signed, carries a time of the clock's range, names the state of the
  block decided below it and is no earlier than that. The second takes `Drift <= Skew`,
  that is, that two correct clocks differ by at most `MAX_FUTURE_SKEW_SECS`; without it
  the statement is false, and the code relies on it.

*GovernanceProofs*

* `LedgerStaysWritableAlways` takes that genesis is writable (`GenesisIsWritable`):
  its validators are active, keyed and no fewer than the floor. `OrderTakesTheHigherBarAlways`
  and `SeedRateHoldsAlways` take nothing more. The last needs that what the epoch
  has admitted and what may still be admitted add up to the fraction of the seed it
  opened on; sums over members are treated in `Sums`.

*GateProofs*

* `OnceAndNotLaterAlways`: an id on record is kept for as long as its envelope's
  window is open, and what took effect or was charged is on record or out of window.
* `BondsReturnAlways`, `SaturationIsEarnedAlways`, from `Sound` of each row: its bonds
  are dated within the release span of the epoch, every epoch it counts is one in
  which its member was denied, and no seat outlives its row. The first is an action
  property: a step that takes from what a member has encumbered hands back bonds that are
  due, of a member the sanction does not reach, or forfeits all of them to the reserve. Of
  the boundary it needs the code's order: the row that `Released` sees has been swept, so
  one that is still saturated has nothing to release. The second adds that
  nobody has forfeited anything who was not denied in enough epochs in a row, at the
  boundary's crank or at anybody's.
* `GateAuditAlways`: what is committed and held for seats is a sum over seated rows,
  so each seating, billing, refund and retirement is followed through that sum.
* `CacheNeverDecidesAlways`: what a memo holds under the standing key is at most what
  the member reaches. `RefusalsArePricedAlways`: a step property.

*OffersProofs*

* `RoomIsKeptAlways`, from `NodesKept`: each pool keeps to its cap with entries under
  distinct digests, a list never exceeds its share, a tombstone ring its length.
* `OverStaysOverAlways`: ring positions and what was closed since move together. The
  attempt at this proof showed an earlier wording false, and TLC then gave the trace:
  an envelope committed by two blocks is noted once, at its first, so what others
  must push it out is counted from the first application since the node's start. It holds
  for any requests, whatever lists of signers they bring, and of a node since its last
  start; a restart forgets what was closed before it (section 4).

*LedgerProofs*, on the lemmas of *BookProofs*

Every transaction, the whole epoch boundary and any number of re-denominations, for any
members, arcs, deals and scales; `LedgerAssumption` and `MembersAssumption` (types, and
that members are finitely many) are all that is assumed.

* The invariant, `LedgerInv`: the book is `Good`. It has the types, with rows below the
  counter and owing no more than their original amount; no row is overdue; while the unit
  is the genesis unit, what panels have charged a member with, plus the most that the
  panels still open may award against it (`AtStake`, a sum over rows), is at most what it
  agreed to (`Covered`); and it is `Sound`: caches balance rows; a live insured row holds
  exactly what it owes, nothing of its own debtor's supply, and every other row holds
  nothing (`RowsSound`); what is reserved of an arc or committed of a supply is what the
  rows hold of it, and no more than there is (`Filled`).
* `AuditAlways`: `Audit`, the four parts of which follow from `Good`. None of them is
  inductive alone: a claim is divided by what its hold supplies, so the pieces add up to
  the claim only if the hold is exactly what it owes; a hold may be let go only if what is
  reserved covers it; and a re-denominated insured row owes what its hold delivers, so
  even its type rests on the hold.
  * Arcs and supplies are treated as one set of `Places`, a hold as a function on them
    (`At`), so reserving, releasing and dividing are one lemma each.
  * A payment or an award shrinks a hold by what the row loses: `allocate` gives out all
    of what there is and to nobody more than its weight, also in the order of its
    remainders, so every place of the rest stays natural.
  * A division hands each underwriter the routes that start at its supply. That a
    route runs from a supply to the creditor, takes what it takes from all its arcs, and
    that the routes add up to the hold is what the walks of `decompose` keep, step by step.
  * Between the first piece of a default and the last the books do not balance; `Short`
    says by how much, and the shares bring that to nothing (`SharesGiven`).
  * A first ring exists whenever a ring does, for the order of `find_ring`: no ring begins
    another (`NoRingBeginsAnother`), so the order of routes is total on rings.
  * A re-denomination floors capacities, supplies and holds separately. The floors of the
    parts are at most the floor of the whole, so holds still fit; shaving takes from
    holds only; rows then owe what their holds deliver, and caches are counted again.
* `PanelsAwardOnceAlways` follows from `Covered`, which is needed because the charge
  itself says nothing of the panels still open. A step either is `Onward` (no row's
  panel changes and new rows have none: payments, transfers, substitution, rings, decay),
  so the sum is term by term the same, or moves one term: an acceptance raises the sum
  and what is agreed by as much, an award closes its panel and charges at most that
  term, pruning drops terms. That the legs and pieces of a default carry no second
  copy of the panel is where the proof would fail if `subrogated_claim` kept it. Like the
  property, `Covered` is about the genesis unit: across a scale `AwardsAreAgreed` is
  false (section 4).
* `NothingOverdueAlways`: the sweep visits every due row (`Ascending` lists each
  once) and none that it, a ring or an award opens or touches afterwards is due; no
  transaction brings a date back; a scale floors the dust by the same ratio as a row, so
  what was no more than the dust stays so.
* `HoldsNeverMoveAlways`: an action property from the same invariant. `Later` carries
  `Still` (a row in both books takes no more of any place) through every step, also the
  first piece of a division: that a piece is no more than the hold it is cut from, arc by
  arc, is `PieceFits`, both for holds that decompose into routes and for those divided by
  nearest shares. A re-denomination is the one step that may raise a figure, so the
  property compares with the floor of the old hold in the new unit.
* `ConsentToLossAlways`: an action property. The position (`Net`) is what the rows owe a
  member, less what they owe of it, plus what panels charged to it; a row is worth what
  it owes, to its creditor and against its debtor (`WorthIs`).
  * A transaction changes positions through one row, or closes one and opens one, so it
    spares everyone but a member that its guard makes sign (`Spares`). A debt moved to
    another debtor leaves its creditor with the same figure on another row.
  * At the boundary nobody signs. In a default, each piece gives the creditor's claim to
    an underwriter, and the underwriter a debt to the creditor, of the same amount; between
    pieces `Owes` says what the creditor misses, and the shares bring it to nothing.
  * Round a ring each party is paid what it pays, except that a claim paid down to the dust
    is forgiven the rest. Debtors and creditors along a ring are distinct, so each party
    loses that of one claim only (`RingSpares`): at most `MaxRings * DustMinor` a boundary,
    which is the slack the property grants, and only a step that moves the epoch has it.
  * A re-denomination is excluded: figures in two units are not compared.
* `SaleAuditAlways`, `SaleBoundsAlways`: the same with sales between the transactions,
  and that every listing edge has its reverse. `SaleAssumption` adds that listings name
  members with natural weights. In the middle of a sale the book does not pass its audit:
  a successor's reservation is taken, and its row is not open yet. The cascade keeps
  `Midway` instead: what is reserved of a place is what the rows hold of it plus what is
  set aside for the claims assumed so far (`FilledBut`), and each of these holds exactly
  its amount and nothing of the buyer's own supply (`SlotSound`).
  * One original cleared (`RoutedKeeps`): its old hold is let go, the buyer's taken, the
    remainder of the seller's re-reserved, in this order; a slot that is joined adds
    amounts and holds together, so it stays sound.
  * The waterfill hands out naturals for every budget, and the loop's turns each keep
    `Midway`, whatever is still to drain, so nothing is asked of listings or approvals.
  * Booking visits every slot once (`InOrderLists`), and moves it from what is set aside to
    what the rows hold; when none is left, `FilledBut` is `Filled` again.
* `SaleIsExactAlways`, `OthersAreWholeAlways`, `DrainIsCappedAlways`: action properties,
  from the invariant `SaleInv` (that of the theorems above, and that nobody is their own
  supporter or approves themselves, `Apart`). They compare the book before a
  sale with the one after it, so each part of a sale is followed by what it does to three
  figures: what rows and slots together owe a creditor by a date, what of that is insured,
  and what a member owes.
  * Clearing part of a row (`Moves`) takes from its debtor what the slot of the same
    creditor gains, at the earlier of the two dates; a slot that is joined has one date,
    so nothing comes later. Rows that fall to the dust forgive it, once each, for a row
    is closed once: that is the slack of the properties.
  * Slots lie apart from rows until they are booked, and a booked slot is one new row of
    its amount, its date and its hold, insured; so slots may be counted as rows throughout.
  * Netting takes the same from the seller's rows to the buyer and from the amount; what
    is netted, cleared and left over is the amount at every turn of the cascade, since the
    waterfill gives out all of its budget or says what it could not.
  * A member is drained in one turn only (`visited`), by at most its share, and its share
    is at most its cap, which is the stake with a supporter it approved.

*Sums*: what a sum or fold of the community modules gives when an entry is changed,
added or dropped, for functions on any finite set, and what every step of a fold over a
sequence keeps. The library's induction theorems
take an operator and cannot be used, so these are proved by a smallest counterexample:
of the sizes at which a statement fails, take the least.

Only model-checked:

* `InsuranceKept`: `transfer` decides whether the creditor must sign by a minimal cut
  and then reserves a flow, so the property is the duality of the two.
* `CutBound`, also in `SaleAudit`: the same duality, and false in general. A
  re-denomination may leave a hold that is not a flow, and then the bound breaks, on a set
  the audit reads (`ledger_halt`) or on one that it does not (section 4). On one unit it
  needs each hold to decompose into routes.
* Liveness (`CatchesUp` of `Replica` and of `Engine`, `MajorityReturns`) and the
  fairness in `Durable`: out of the prover's reach.

## 6. Not modelled

`PROJECT.json` lists every component with its status. In the modelled parts:

* *Replica*: commits without a certificate (the in-process driver), event
  indexes, mmap, the retention rewrite of the validator history.
* *StakeGraph*: Dinic's algorithm and the path search; their result is any flow or cut
  the specification allows.
* *Ledger*, *Sale*: 64-bit overflow of a member's debt (`debt_after` refuses it; the
  audit bounds it); reputation counters, which no decision reads. A re-denomination
  of bonds, forfeits and seat holds is in no module.
* *Identity*: debts, bonds and supplies that hold an exit back, the sum of voting
  power. The vote behind a sanction is `Governance`'s.
* *Gate*: the handlers beyond what the gate sees of them; which of several rows named
  elsewhere may retire is left open.
* *Governance*: the ranges of parameters other than the two named, genesis files, the
  sum of voting power, the stakes a member's reach comes through and the budget a bond
  is taken from, re-denomination of the book (in `Ledger`).
* *Engine*: streamed parts and their caps, evidence, encoding, key handling and network
  configuration. A stream that is dropped is a value that never arrives.
* *Offers*: rate limits, bodies and hashes of envelopes, a first trade that is refused when
  it is applied, a batch of nothing.
* *Invariant audit*: its clauses are checked over every set of members (`CutBound`), where
  the code samples a family of sets (`AuditedCuts`); the cache that lets it skip work is not modelled.

Not modelled at all: state root, proofs, journal and codec (a state is its own
commitment), type declarations and constants, disclosure and JSON views (pure
functions of a state), sessions and token buckets (they only drop requests), the
simulations, the wallet and the paper.

Hashes and signatures are perfect: a digest identifies its bytes and a
signature is membership of a key in the set that signed.
