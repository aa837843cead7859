-------------------------------- MODULE Engine --------------------------------
(***************************************************************************)
(* The application side of consensus (crates/node/src/engine_malachite.rs  *)
(* run): building a value, screening values that are streamed or synced,   *)
(* handing them back when a round starts, committing what was decided, and *)
(* the cache of undecided blocks that outlives a crash.                    *)
(*                                                                         *)
(* Consensus itself is external: it decides, once for each height, a value *)
(* that a correct node built and that a quorum was told is valid, and it   *)
(* never delivers a decision the node called invalid.  A diverged node may *)
(* stream blocks too.  What was sent may be delayed, duplicated, reordered.*)
(***************************************************************************)
EXTENDS Naturals, FiniteSets, FiniteSetsExt

CONSTANTS
    Nodes, Quorum,       \* the correct validators, and how many of them a decision takes
    Skew,                \* MAX_FUTURE_SKEW_SECS
    Drift,               \* how far apart two clocks may be, readings going from 0 to Drift
    Foreign,             \* blocks of a diverged node
    MaxHeight, MaxBuilt, MaxCrashes   \* bounds; MaxBuilt is for each height

ASSUME EngineAssumption ==
    /\ IsFiniteSet(Nodes) /\ Quorum \in 1..Cardinality(Nodes)
    /\ {Skew, Drift, MaxHeight, MaxBuilt, MaxCrashes} \subseteq Nat
    /\ \A b \in Foreign : b.height \in Nat /\ (b.signed => b.by \notin Nodes)

VARIABLES
    height,     \* Replica::height of each node: its chain is that much of decided
    up,
    pending,    \* the blocks proposed or received and not yet decided
    cache,      \* undecided.bin: the height it was written for, and the blocks
    built,      \* what correct nodes have proposed
    valid,      \* what each node told consensus is valid
    invalid,    \* ... and what it told consensus is not, since it last started
    decided,    \* external: the decision of each height, once there is one
    crashes

engineVars == <<height, up, pending, cache, built, valid, invalid, decided, crashes>>

\* What names the state a block leaves behind.
Digest(b) == [height |-> b.height, time |-> b.time, by |-> b.by]

NoBlock == [height |-> 0, time |-> 0, by |-> 0]

Block(h, t, n, app) ==
    [height |-> h, time |-> t, by |-> n, app |-> app, signed |-> TRUE, sound |-> TRUE]

Genesis == Block(0, 0, 0, NoBlock)

\* The last block of n's chain.
Tip(n) == IF height[n] = 0 THEN Genesis ELSE CHOOSE b \in decided[height[n]] : TRUE

AfterNext(n) == height[n] + 2   \* mutant: the commit was already counted

\* The height consensus is started at, when it is ready and after a commit.
NextHeight(n) == height[n] + 1

Later(x, y) == IF x < y THEN y ELSE x

Clock == 0..Drift

-----------------------------------------------------------------------------
(* The screen *)

TimeIsMonotonic(b, tip) == b.time >= tip.time
TimeIsPlausible(b, clock) == b.time <= clock + Skew

Follows(n, b) == TimeIsMonotonic(b, Tip(n)) /\ b.app = Digest(Tip(n)) /\ b.sound

ScreenedAhead(n, b, clock) ==   \* mutant: a block is judged on a parent that is not its own
    b.signed /\ TimeIsPlausible(b, clock) /\ Follows(n, b)

\* What is about the parent is asked only of the next block.
Screen(n, b, clock) ==
    /\ b.signed /\ TimeIsPlausible(b, clock)
    /\ b.height = NextHeight(n) => Follows(n, b)

Written(h, blocks) == [height |-> h, blocks |-> blocks]

\* read_undecided, and the filter on what it returns
Reloaded(c) == {b \in c.blocks : b.height = c.height}

-----------------------------------------------------------------------------
(* The handlers of run *)

TimeUnclamped(n, clock) == clock   \* mutant: a clock that went back is believed

ProposedTime(n, clock) == Later(clock, Tip(n).time)

GetValue(n) ==
    \E clock \in Clock :
        LET b == Block(NextHeight(n), ProposedTime(n, clock), n, Digest(Tip(n)))
        IN /\ up[n] /\ height[n] < MaxHeight
           /\ b \notin built
           /\ Cardinality({c \in built : c.height = b.height}) < MaxBuilt
           /\ pending' = [pending EXCEPT ![n] = @ \cup {b}]
           /\ cache' = [cache EXCEPT ![n] = Written(b.height, pending[n] \cup {b})]
           /\ built' = built \cup {b}
           /\ valid' = [valid EXCEPT ![n] = @ \cup {b}]
           /\ UNCHANGED <<height, up, invalid, decided, crashes>>

\* A value is complete, streamed or synced: it is screened, kept if it is
\* valid, and answered.
Received(n, b) ==
    \E clock \in Clock :
        IF Screen(n, b, clock)
        THEN /\ pending' = [pending EXCEPT ![n] = @ \cup {b}]
             /\ cache' = [cache EXCEPT ![n] = Written(b.height, pending[n] \cup {b})]
             /\ valid' = [valid EXCEPT ![n] = @ \cup {b}]
             /\ UNCHANGED invalid
        ELSE /\ invalid' = [invalid EXCEPT ![n] = @ \cup {b}]
             /\ UNCHANGED <<pending, cache, valid>>

ReceivedProposal(n, b) ==
    /\ up[n]
    /\ Received(n, b)
    /\ UNCHANGED <<height, up, built, decided, crashes>>

\* Sync pipelines: a peer that is ahead hands over any height it has.
ProcessSyncedValue(n, h) ==
    /\ up[n] /\ height[n] < h
    /\ \E m \in Nodes : up[m] /\ h <= height[m]
    /\ \E b \in decided[h] : Received(n, b)
    /\ UNCHANGED <<height, up, built, decided, crashes>>

\* The values of the height that are held.
Offered(n) == {b \in pending[n] : b.height = NextHeight(n)}

\* They are handed back to consensus as valid.
StartedRound(n) ==
    /\ up[n] /\ height[n] < MaxHeight
    /\ valid' = [valid EXCEPT ![n] = @ \cup Offered(n)]
    /\ UNCHANGED <<height, up, pending, cache, built, invalid, decided, crashes>>

KeptPending(blocks) == blocks   \* mutant: a commit leaves pending as it was

\* What a commit leaves of pending.
AfterCommit(blocks) == {}

\* The certified value is looked up and committed, and what that made stale
\* goes.  A value that is not held or does not follow restarts the height.
Decided(n) ==
    \E b \in decided[NextHeight(n)] :
        /\ up[n] /\ b \notin invalid[n]
        /\ b \in pending[n] /\ Follows(n, b)
        /\ height' = [height EXCEPT ![n] = @ + 1]
        /\ \/ /\ pending' = [pending EXCEPT ![n] = AfterCommit(@)]
              /\ cache' = [cache EXCEPT ![n] = Written(b.height, AfterCommit(pending[n]))]
              /\ UNCHANGED <<up, invalid, crashes>>
           \/ /\ crashes < MaxCrashes   \* between the commit and persist_pending
              /\ up' = [up EXCEPT ![n] = FALSE]
              /\ pending' = [pending EXCEPT ![n] = {}]
              /\ invalid' = [invalid EXCEPT ![n] = {}]
              /\ crashes' = crashes + 1
              /\ UNCHANGED cache
        /\ UNCHANGED <<built, valid, decided>>

\* write_undecided truncates the file before it writes it.
Crash(n) ==
    /\ up[n] /\ crashes < MaxCrashes
    /\ up' = [up EXCEPT ![n] = FALSE]
    /\ pending' = [pending EXCEPT ![n] = {}]
    /\ invalid' = [invalid EXCEPT ![n] = {}]
    /\ crashes' = crashes + 1
    /\ cache' \in {cache, [cache EXCEPT ![n] = Written(0, {})]}
    /\ UNCHANGED <<height, built, valid, decided>>

Restart(n) ==
    /\ ~up[n]
    /\ up' = [up EXCEPT ![n] = TRUE]
    /\ pending' = [pending EXCEPT ![n] = Reloaded(cache[n])]
    /\ UNCHANGED <<height, cache, built, valid, invalid, decided, crashes>>

-----------------------------------------------------------------------------
(* External *)

Decide(b) ==
    /\ decided[b.height] = {}
    /\ Cardinality({n \in Nodes : height[n] = b.height - 1 /\ b \in valid[n]}) >= Quorum
    /\ decided' = [decided EXCEPT ![b.height] = {b}]
    /\ UNCHANGED <<height, up, pending, cache, built, valid, invalid, crashes>>

EngineInit ==
    /\ height = [n \in Nodes |-> 0]
    /\ up = [n \in Nodes |-> TRUE]
    /\ pending = [n \in Nodes |-> {}]
    /\ cache = [n \in Nodes |-> Written(0, {})]
    /\ built = {}
    /\ valid = [n \in Nodes |-> {}] /\ invalid = [n \in Nodes |-> {}]
    /\ decided = [h \in 1..MaxHeight + 1 |-> {}]
    /\ crashes = 0

EngineNext ==
    \/ \E n \in Nodes :
          \/ GetValue(n) \/ StartedRound(n) \/ Decided(n) \/ Crash(n) \/ Restart(n)
          \/ \E b \in built \cup Foreign : ReceivedProposal(n, b)
          \/ \E h \in 1..MaxHeight : ProcessSyncedValue(n, h)
    \/ \E b \in built : Decide(b)

\* A node that is down is started again; consensus asks for values, streams
\* them, decides, and syncs a node that is behind.
Fairness ==
    /\ \A n \in Nodes :
          /\ WF_engineVars(Restart(n)) /\ WF_engineVars(GetValue(n)) /\ WF_engineVars(Decided(n))
          /\ WF_engineVars(ProcessSyncedValue(n, NextHeight(n)))
          /\ WF_engineVars(\E b \in built : b.height = NextHeight(n) /\ ReceivedProposal(n, b))
    /\ WF_engineVars(\E b \in built : Decide(b))

EngineSpec == EngineInit /\ [][EngineNext]_engineVars
LiveSpec == EngineSpec /\ Fairness

-----------------------------------------------------------------------------
(* Properties *)

Blocks == built \cup Foreign

\* Every variable has its type, and a block a correct node built names the
\* state of the height before its own.
EngineTypeOK ==
    /\ crashes \in 0..MaxCrashes
    /\ \A n \in Nodes :
          /\ height[n] \in 0..MaxHeight /\ up[n] \in BOOLEAN
          /\ pending[n] \subseteq Blocks /\ cache[n].blocks \subseteq Blocks
          /\ valid[n] \subseteq Blocks /\ invalid[n] \subseteq Blocks
    /\ \A b \in built : b.height \in 1..MaxHeight /\ b.app.height = b.height - 1
    /\ \A h \in DOMAIN decided : Cardinality(decided[h]) <= 1

\* No node ever calls a correct node's block invalid, whatever order blocks
\* and commits arrive in and however far apart two clocks are: screen's answer
\* is a fail-stop, a node that gave it can never commit what a quorum decides.
HonestIsNeverRefused == \A n \in Nodes : invalid[n] \cap built = {}

\* What StartedRound hands back as valid would pass the screen that
\* reassemble_proposal_part and process_synced_value put in front of pending,
\* on the parent the node has now: a block let in before its parent was known
\* does not outlive the commit of that parent.  A crash that falls between the
\* commit and persist_pending does break this, so it is claimed of runs
\* without one.
HandedBackWouldPass ==
    crashes = 0 => \A n \in Nodes : \A b \in Offered(n) : Follows(n, b)

\* Every node commits every height: after a crash, after a decision on a value
\* it never held, and after blocks that came before their parents.
CatchesUp == \A n \in Nodes : <>(height[n] = MaxHeight)
=============================================================================
