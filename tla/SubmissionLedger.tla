-------------------------- MODULE SubmissionLedger --------------------------
(***************************************************************************)
(* What Backend Ingestion v1 promises to its clients, without threads,      *)
(* files or SQL: a ledger to which a bundle is added in one step, once,     *)
(* and only if no other bundle of the ledger contains one of its samples;   *)
(* every bundle of the ledger is acknowledged as new at most once.          *)
(***************************************************************************)
EXTENDS Naturals

CONSTANTS
    Bundles,     \* bundles that verify
    SamplesOf    \* the samples that a bundle contains

VARIABLES
    recorded,    \* the bundles of the ledger
    acks         \* how often each bundle was acknowledged as new

vars == <<recorded, acks>>

Init == recorded = {} /\ acks = [b \in Bundles |-> 0]

Record(b) ==
    /\ b \notin recorded
    /\ \A c \in recorded : SamplesOf[b] \cap SamplesOf[c] = {}
    /\ recorded' = recorded \cup {b}
    /\ UNCHANGED acks

Acknowledge(b) ==
    /\ b \in recorded
    /\ acks[b] = 0
    /\ acks' = [acks EXCEPT ![b] = 1]
    /\ UNCHANGED recorded

Next == \E b \in Bundles : Record(b) \/ Acknowledge(b)

Spec == Init /\ [][Next]_vars
=============================================================================
