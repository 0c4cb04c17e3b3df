---------------------------- MODULE HeaviestChain ----------------------------
(***************************************************************************)
(* What the relay promises, without the ring buffer, commitments, heights  *)
(* or batches: one main chain and some branches that are being submitted.  *)
(* The main chain moves only to a chain with strictly more work, and a     *)
(* branch that gets more work than the main chain becomes it at once.      *)
(***************************************************************************)
EXTENDS Integers, Sequences, SequencesExt

CONSTANTS
  Block,        \* chains, each named by its tip
  Work          \* their accumulated work

VARIABLES
  tip,          \* tip of the main chain
  branch        \* tips of the open branches, by key

Heavier(b) == Work[b] > Work[tip]

Drop(k) == branch' = [l \in DOMAIN branch \ {k} |-> branch[l]]

Init == tip = <<>> /\ branch = << >>

\* The main chain is extended, or replaced by a chain with more work.
Adopt == \E b \in Block : Heavier(b) /\ tip' = b /\ UNCHANGED branch

\* A branch, under whatever name, is opened at or above some block and is not
\* heavier, or grows.
Grow(k) ==
  \E b \in Block :
    /\ ~ Heavier(b)
    /\ k \in DOMAIN branch => IsStrictPrefix(branch[k], b)
    /\ branch' = [l \in DOMAIN branch \cup {k} |-> IF l = k THEN b ELSE branch[l]]
    /\ UNCHANGED tip

\* A branch that becomes heavier is the main chain and is no longer a branch.
Win(k) ==
  \E b \in Block :
    /\ Heavier(b)
    /\ IsStrictPrefix(branch[k], b)
    /\ tip' = b
    /\ Drop(k)

Abandon(k) == Drop(k) /\ UNCHANGED tip

Next ==
  \/ Adopt
  \/ \E k \in DOMAIN branch' : Grow(k)
  \/ \E k \in DOMAIN branch : Win(k) \/ Abandon(k)

Spec == Init /\ [][Next]_<<tip, branch>>
=============================================================================
