----------------------------- MODULE MCBtcRelay -----------------------------
(***************************************************************************)
(* Small instances of BtcRelay.  A label gives the difficulty of the       *)
(* header it names, and the work of a block is the sum over its path.      *)
(***************************************************************************)
EXTENDS BtcRelay, FiniteSets, TLC

CONSTANTS
  MaxDifficulty,\* difficulty of label l: l, but at most this
  MaxDepth,     \* bound: blocks above the checkpoint
  MaxHeaders,   \* bound: headers in one transaction
  MaxForks      \* bound: fork ids handed out

Headers == UNION {[1 .. n -> Label] : n \in 1 .. MaxDepth}

\* Overriding the checkpoint's work makes TLC tabulate the function.
Works ==
  LET work[b \in Headers \cup {<<>>}] ==
        IF b = <<>> THEN 0 ELSE work[Front(b)] + Min({Last(b), MaxDifficulty})
  IN  (<<>> :> 0) @@ work

\* The true committed headers, and forgeries of their height and work.
Candidates ==
  LET true == {[block_hash  |-> b,
                blockheight |-> InitHeight + Len(b),
                chain_work  |-> Works[b]] : b \in Headers \cup {<<>>}}
  IN  true \cup {[c EXCEPT !.blockheight = @ + 1] : c \in true}
           \cup {[c EXCEPT !.chain_work = @ + 3] : c \in true}

\* All linked vectors of headers, none, and vectors with a gap inside.
Batches ==
  {<<>>}
  \cup UNION {{[i \in 1 .. n |-> SubSeq(h, 1, Len(h) - n + i)] :
                 h \in {x \in Headers : Len(x) >= n}} : n \in 1 .. MaxHeaders}
  \cup {<<SubSeq(h, 1, 1), h>> : h \in {x \in Headers : Len(x) = 3}}

\* TLC evaluates the definitions above once, but those that a cfg puts in the
\* place of a constant at every use: hence one more name for each.
MCHeader    == Headers
MCChainWork == Works
MCCandidate == Candidates
MCBatch     == Batches

Symmetry == Permutations(Signer)

MCNext == Next /\ main_state'.fork_counter <= MaxForks

MCSpec == Init /\ [][MCNext]_vars
=============================================================================
