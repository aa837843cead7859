----------------------------- MODULE DurableLog -----------------------------
(***************************************************************************)
(* What a validator's store promises (crates/node/src/replica.rs, store.rs *)
(* on a disk that completes or omits each write): a node holds a prefix of *)
(* the decided blocks, extends it one block at a time and durably, and is  *)
(* started again at the last block it stored, which is never before the    *)
(* last block it reported as committed.                                    *)
(***************************************************************************)
EXTENDS Naturals

CONSTANT Limit   \* bound on the length of the log

VARIABLES up, tip, stored, promised
vars == <<up, tip, stored, promised>>

Init == up = FALSE /\ tip = 0 /\ stored = 0 /\ promised = 0

\* A block becomes part of the ledger and of the log in one step.
Extend ==
    /\ up /\ tip < Limit
    /\ tip' = tip + 1 /\ stored' = tip + 1
    /\ UNCHANGED <<up, promised>>

\* The caller hears that everything up to the tip is committed.  It may never
\* hear of a block whose commit a stop cut short, though the block is there.
Promise ==
    /\ up /\ promised < tip
    /\ promised' = tip
    /\ UNCHANGED <<up, tip, stored>>

Stop == up /\ up' = FALSE /\ tip' = 0 /\ UNCHANGED <<stored, promised>>

Recover ==
    /\ ~up
    /\ up' = TRUE /\ tip' = stored
    /\ UNCHANGED <<stored, promised>>

Next == Extend \/ Promise \/ Stop \/ Recover

Spec ==
    /\ Init /\ [][Next]_vars
    /\ WF_vars(Extend) /\ WF_vars(Recover)

NothingPromisedIsLost == up => promised <= tip
=============================================================================
