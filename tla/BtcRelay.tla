------------------------------ MODULE BtcRelay ------------------------------
(***************************************************************************)
(* The btc-relay program (btcrelay/programs/btc-relay): an on-chain light  *)
(* client of Bitcoin.  It keeps the commitments (hashes) of the last       *)
(* PRUNING_FACTOR main-chain headers in a ring buffer, and one account per *)
(* fork that is submitted over several transactions.                       *)
(*                                                                         *)
(* Every action is one instruction.  A Solana transaction is atomic, so an *)
(* instruction whose `require!' fails, or that panics, changes nothing: it *)
(* is simply not enabled.                                                  *)
(*                                                                         *)
(* Hashes are symbolic.  A block hash is the path of the block in the tree *)
(* of blocks that descend from the checkpoint the relay was initialised    *)
(* with: the checkpoint is <<>>, and a header is named by its own block    *)
(* hash, so that Front(header) is its reversed_prev_blockhash.  The        *)
(* commitment of a CommittedBlockHeader is that record itself: sha256 is   *)
(* taken to be injective.  Left out, because nothing reads them back:      *)
(* total_blocks, tip_block_hash and last_diff_adjustment of MainState, and *)
(* the emitted events.                                                     *)
(***************************************************************************)
EXTENDS Integers, Sequences, SequencesExt

CONSTANTS
  PRUNING_FACTOR,   \* slots of the ring buffer, and capacity of a fork account
  Label,            \* what tells apart the headers built on one parent
  Header,           \* the headers that pass the checks of verify_header
  ChainWork,        \* accumulated work at the checkpoint and at each header
  InitHeight,       \* block height of the checkpoint
  NoCommitment,     \* the all-zero commitment [0; 32]
  Candidate,        \* the CommittedBlockHeaders callers pass, forged ones too
  Batch,            \* the header vectors callers pass
  Signer            \* the accounts that sign transactions

Checkpoint == <<>>

BlockHash == Header \cup {Checkpoint}

CommittedBlockHeader ==
  [block_hash : BlockHash, blockheight : Nat, chain_work : Nat]

Commitment == CommittedBlockHeader \cup {NoCommitment}

ASSUME PruningAssumption == PRUNING_FACTOR \in Nat \ {0}

ASSUME InitHeightAssumption == InitHeight \in Nat

\* The headers form a tree rooted at the checkpoint.
ASSUME HeaderAssumption ==
  /\ Header \subseteq Seq(Label) \ {Checkpoint}
  /\ \A h \in Header : Front(h) \in BlockHash

\* Every header adds a positive difficulty to the work of its parent.
ASSUME ChainWorkAssumption ==
  /\ ChainWork \in [BlockHash -> Nat]
  /\ \A h \in Header : ChainWork[h] > ChainWork[Front(h)]

ASSUME InputAssumption ==
  /\ Candidate \subseteq CommittedBlockHeader
  /\ Batch \subseteq Seq(Header)

ASSUME NoCommitmentAssumption == NoCommitment \notin CommittedBlockHeader

-----------------------------------------------------------------------------
VARIABLES
  main_state,   \* the MainState account
  fork_state    \* the live ForkState accounts, by <<fork_id, signer>>

vars == <<main_state, fork_state>>

MainState ==
  [start_height      : Nat,
   block_height      : Nat,
   fork_counter      : Nat,
   tip_commit_hash   : CommittedBlockHeader,
   chain_work        : Nat,
   block_commitments : [0 .. PRUNING_FACTOR - 1 -> Commitment]]

\* `initialized' is the presence of the account and `length' the length of
\* block_commitments.
ForkState ==
  [start_height      : Nat,
   tip_commit_hash   : CommittedBlockHeader,
   block_commitments : Seq(CommittedBlockHeader)]

-----------------------------------------------------------------------------
(***************************************************************************)
(* The ring buffer of MainState (state.rs).                                *)
(***************************************************************************)

\* Mutant: > instead of >= where the buffer wraps around.
GetPositionOffByOne(m, height) ==
  IF m.start_height <= height
  THEN LET pos == height - m.start_height
       IN  IF pos > PRUNING_FACTOR THEN 0 ELSE pos
  ELSE PRUNING_FACTOR

\* PRUNING_FACTOR stands for "more than PRUNING_FACTOR blocks in the past".
GetPosition(m, height) ==
  IF m.start_height <= height
  THEN LET pos == height - m.start_height
       IN  IF pos >= PRUNING_FACTOR THEN 0 ELSE pos
  ELSE LET pos == m.start_height - height
       IN  IF pos >= PRUNING_FACTOR THEN PRUNING_FACTOR
                                    ELSE PRUNING_FACTOR - pos

\* Below PRUNING_FACTOR the u32 subtraction block_height - PRUNING_FACTOR
\* panics.  Every caller requires a commitment of its own to equal the result,
\* so the panic and the zero commitment are the same: the caller aborts.
GetCommitment(m, height) ==
  IF \/ height > m.block_height
     \/ m.block_height < PRUNING_FACTOR
     \/ height <= m.block_height - PRUNING_FACTOR
     \/ GetPosition(m, height) = PRUNING_FACTOR
  THEN NoCommitment
  ELSE m.block_commitments[GetPosition(m, height)]

\* Callers ignore the `false' returned for a height that is out of bounds.
StoreBlockCommitment(m, height, commitment) ==
  LET position == GetPosition(m, height)
  IN  IF position = PRUNING_FACTOR
      THEN m
      ELSE [m EXCEPT !.block_commitments[position] = commitment,
                     !.start_height = IF position = 0 THEN height ELSE @]

\* Mutant: a fork's first block is not written over the main chain's.
StoreBlockCommitmentsFromSecond(m, height, commitments) ==
  LET stored[i \in 0 .. Len(commitments)] ==
        IF i <= 1
        THEN m
        ELSE StoreBlockCommitment(stored[i-1], height + i, commitments[i])
  IN  stored[Len(commitments)]

\* The loops that store one commitment after another, from height + 1 on.
StoreBlockCommitments(m, height, commitments) ==
  LET stored[i \in 0 .. Len(commitments)] ==
        IF i = 0
        THEN m
        ELSE StoreBlockCommitment(stored[i-1], height + i, commitments[i])
  IN  stored[Len(commitments)]

-----------------------------------------------------------------------------
(***************************************************************************)
(* Headers (utils.rs).                                                     *)
(***************************************************************************)

Difficulty(header) == ChainWork[header] - ChainWork[Front(header)]

\* verify_header turns the committed header of the parent into that of header.
VerifyHeader(header, last) ==
  [block_hash  |-> header,
   blockheight |-> last.blockheight + 1,
   chain_work  |-> last.chain_work + Difficulty(header)]

\* The committed headers of the vector `data', built on the committed header c.
VerifyHeaders(data, c) ==
  LET last[i \in 0 .. Len(data)] ==
        IF i = 0 THEN c ELSE VerifyHeader(data[i], last[i-1])
  IN  [i \in 1 .. Len(data) |-> last[i]]

\* Mutant: the link of the first header to the committed one is not checked.
IsLinkedInside(data, c) ==
  \A i \in 2 .. Len(data) : Front(data[i]) = data[i-1]

\* Each header's previous block hash is the hash of the one before it.
IsLinked(data, c) ==
  \A i \in 1 .. Len(data) :
    Front(data[i]) = IF i = 1 THEN c.block_hash ELSE data[i-1]

\* Mutants: the longest chain wins; the last of the heaviest chains wins.
IsLonger(last, m) == last.blockheight > m.block_height
HasEnoughWork(last, m) == last.chain_work >= m.chain_work

\* gt_arr: "fork chain's work exceeded main chain's work".
HasMoreWork(last, m) == last.chain_work > m.chain_work

\* Mutant: the fork id is handed out again.
SameForkId(m) == m

UseForkId(m) == [m EXCEPT !.fork_counter = @ + 1]

\* "Update globals": the last committed header becomes the tip.
SetTip(m, height, last) ==
  [m EXCEPT !.block_height = height,
            !.chain_work = last.chain_work,
            !.tip_commit_hash = last]

-----------------------------------------------------------------------------
(***************************************************************************)
(* The instructions (lib.rs).                                              *)
(***************************************************************************)

CheckpointHeader ==
  [block_hash  |-> Checkpoint,
   blockheight |-> InitHeight,
   chain_work  |-> ChainWork[Checkpoint]]

\* `initialize' runs once and is the initial state.
Init ==
  /\ main_state =
       [start_height      |-> InitHeight,
        block_height      |-> InitHeight,
        fork_counter      |-> 0,
        tip_commit_hash   |-> CheckpointHeader,
        chain_work        |-> ChainWork[Checkpoint],
        block_commitments |-> [p \in 0 .. PRUNING_FACTOR - 1 |->
                                 IF p = 0 THEN CheckpointHeader
                                          ELSE NoCommitment]]
  /\ fork_state = << >>

\* submit_block_headers: headers on top of the current tip.
SubmitBlockHeaders(c) ==
  /\ c = GetCommitment(main_state, main_state.block_height)
  /\ \E data \in Batch \ {<<>>} :
       LET headers == VerifyHeaders(data, c)
           height  == main_state.block_height
       IN  /\ IsLinked(data, c)
           /\ main_state' =
                SetTip(StoreBlockCommitments(main_state, height, headers),
                       height + Len(data), Last(headers))
  /\ UNCHANGED fork_state

\* submit_short_fork_headers: a whole fork in one transaction, accepted only
\* if it has more work than the main chain.
SubmitShortForkHeaders(c) ==
  /\ c = GetCommitment(main_state, c.blockheight)
  /\ \E data \in Batch \ {<<>>} :
       LET headers == VerifyHeaders(data, c)
           height  == c.blockheight
           m       == StoreBlockCommitments(main_state, height, headers)
       IN  /\ IsLinked(data, c)
           /\ HasMoreWork(Last(headers), main_state)
           /\ main_state' =
                UseForkId(SetTip(m, height + Len(data), Last(headers)))
  /\ UNCHANGED fork_state

\* Mutant: the fork account grows without limit.
FitsAnyAccount(blocks) == TRUE

\* Beyond this, the index into the array of the fork account panics.
FitsForkAccount(blocks) == Len(blocks) <= PRUNING_FACTOR

\* The end of submit_fork_headers, for the fork account at key and the main
\* state m: store the headers in the fork, then make it the main chain and
\* close it if it has more work, or else keep it with its new tip.
AppendToFork(key, fork, m, c) ==
  \E data \in Batch \ {<<>>} :
    LET headers == VerifyHeaders(data, c)
        blocks  == fork.block_commitments \o headers
        tip     == Last(headers)
    IN  /\ IsLinked(data, c)
        /\ FitsForkAccount(blocks)
        /\ \/ /\ HasMoreWork(tip, m)
              /\ main_state' =
                   SetTip(StoreBlockCommitments(m, fork.start_height, blocks),
                          c.blockheight + Len(data), tip)
              /\ fork_state' = [k \in DOMAIN fork_state \ {key} |-> fork_state[k]]
           \/ /\ ~ HasMoreWork(tip, m)
              /\ main_state' = m
              /\ fork_state' =
                   [k \in DOMAIN fork_state \cup {key} |->
                      IF k = key
                      THEN [fork EXCEPT !.block_commitments = blocks,
                                        !.tip_commit_hash = tip]
                      ELSE fork_state[k]]

\* submit_fork_headers with init = true: c is the last common ancestor, the
\* account is created, and the fork id must be the next one of the counter.
OpenFork(signer, c) ==
  LET fork_id == main_state.fork_counter
      key     == <<fork_id, signer>>
  IN  /\ key \notin DOMAIN fork_state
      /\ c = GetCommitment(main_state, c.blockheight)
      /\ AppendToFork(key,
                      [start_height      |-> c.blockheight,
                       tip_commit_hash   |-> c,
                       block_commitments |-> <<>>],
                      UseForkId(main_state),
                      c)

\* Mutant: the fork goes on from any block of the main chain.
ExtendForkFromMain(key, c) ==
  /\ c = GetCommitment(main_state, c.blockheight)
  /\ AppendToFork(key, fork_state[key], main_state, c)

\* submit_fork_headers with init = false: c is the tip of the fork account.
ExtendFork(key, c) ==
  /\ c = fork_state[key].tip_commit_hash
  /\ AppendToFork(key, fork_state[key], main_state, c)

\* close_fork_account: the signer takes the rent of its fork account back.
CloseForkAccount(key) ==
  /\ fork_state' = [k \in DOMAIN fork_state \ {key} |-> fork_state[k]]
  /\ UNCHANGED main_state

Next ==
  \/ \E c \in Candidate : SubmitBlockHeaders(c)
  \/ \E c \in Candidate : SubmitShortForkHeaders(c)
  \/ \E signer \in Signer, c \in Candidate : OpenFork(signer, c)
  \/ \E key \in DOMAIN fork_state, c \in Candidate : ExtendFork(key, c)
  \/ \E key \in DOMAIN fork_state : CloseForkAccount(key)

Spec == Init /\ [][Next]_vars

\* Mutant: the tip is counted twice.
VerifyTransactionOneLess(c, confirmations) ==
  /\ c.blockheight <= main_state.block_height
  /\ main_state.block_height - c.blockheight + 2 >= confirmations
  /\ c = GetCommitment(main_state, c.blockheight)

\* verify_transaction, which changes nothing: whether a caller gets a
\* transaction of the block of c accepted with this many confirmations.  The
\* u32 subtraction panics when c is above the tip.
VerifyTransaction(c, confirmations) ==
  /\ c.blockheight <= main_state.block_height
  /\ main_state.block_height - c.blockheight + 1 >= confirmations
  /\ c = GetCommitment(main_state, c.blockheight)

-----------------------------------------------------------------------------
(***************************************************************************)
(* Properties.                                                             *)
(***************************************************************************)

\* Types of the two kinds of account.  A fork account never holds more than
\* PRUNING_FACTOR headers, the size of its array (state.rs:94).
TypeOK ==
  /\ main_state \in MainState
  /\ DOMAIN fork_state \subseteq Nat \X Signer
  /\ \A k \in DOMAIN fork_state :
       /\ fork_state[k] \in ForkState
       /\ Len(fork_state[k].block_commitments) \in 1 .. PRUNING_FACTOR

\* A committed header is genuine when its height and work are those of its
\* block: what the chain of verify_header calls is there to ensure.
IsGenuine(c) ==
  /\ c.blockheight = InitHeight + Len(c.block_hash)
  /\ c.chain_work = ChainWork[c.block_hash]

\* Everything ever committed is genuine, in the ring buffer, in the fork
\* accounts and at the tips: no forged height or work gets in through the
\* CommittedBlockHeader the caller supplies.  The height and work of the main
\* chain, updated apart from tip_commit_hash, are those of the same block.
CommitmentsGenuine ==
  /\ IsGenuine(main_state.tip_commit_hash)
  /\ main_state.block_height = main_state.tip_commit_hash.blockheight
  /\ main_state.chain_work = main_state.tip_commit_hash.chain_work
  /\ \A p \in 0 .. PRUNING_FACTOR - 1 :
       LET c == main_state.block_commitments[p]
       IN  c # NoCommitment => IsGenuine(c)
  /\ \A k \in DOMAIN fork_state :
       /\ IsGenuine(fork_state[k].tip_commit_hash)
       /\ \A i \in DOMAIN fork_state[k].block_commitments :
            IsGenuine(fork_state[k].block_commitments[i])

\* Shape of the ring buffer: slot 0 holds height start_height; slot p holds
\* height start_height + p, or a height of an earlier round, or nothing; the
\* slot of the tip holds the tip; and neither the tip nor the base of an open
\* fork is more than one round ahead, so that storing their successors never
\* skips a slot.
RingShape ==
  LET start   == main_state.start_height
      tipSlot == GetPosition(main_state, main_state.block_height)
  IN  /\ main_state.block_commitments[0] # NoCommitment
      /\ main_state.block_commitments[0].blockheight = start
      /\ \A p \in 1 .. PRUNING_FACTOR - 1 :
           LET c == main_state.block_commitments[p]
           IN  c # NoCommitment =>
                 \/ c.blockheight = start + p
                 \/ c.blockheight <= start + p - PRUNING_FACTOR
      /\ tipSlot # PRUNING_FACTOR =>
           main_state.block_commitments[tipSlot] = main_state.tip_commit_hash
      /\ main_state.block_height < start + PRUNING_FACTOR
      /\ \A k \in DOMAIN fork_state :
           fork_state[k].start_height < start + PRUNING_FACTOR

\* The headers of a fork account are a chain of blocks right above the base
\* height it stores, and end in its tip, although every transaction that
\* extends the fork only sees the tip commitment.
ForksAreBranches ==
  \A k \in DOMAIN fork_state :
    LET fork   == fork_state[k]
        blocks == fork.block_commitments
    IN  /\ fork.tip_commit_hash = Last(blocks)
        /\ \A i \in DOMAIN blocks :
             /\ blocks[i].blockheight = fork.start_height + i
             /\ i > 1 => Front(blocks[i].block_hash) = blocks[i-1].block_hash

\* An open fork never has more work than the main chain: as soon as it has, it
\* becomes the main chain (lib.rs:212-215), and the main chain never loses work.
ForksNotHeavier ==
  \A k \in DOMAIN fork_state :
    fork_state[k].tip_commit_hash.chain_work <= main_state.chain_work

\* A fork id is used once, whoever signs: the events of two forks cannot be
\* mixed up by their fork_id.
ForkIdsUnique ==
  \A k, l \in DOMAIN fork_state :
    /\ k[1] < main_state.fork_counter
    /\ k[1] = l[1] => k = l

TipHash == main_state.tip_commit_hash.block_hash

\* verify_transaction accepts only genuine headers, and its count of
\* confirmations is that of the chain of blocks, not of the numbers the caller
\* sent (lib.rs:372-381).
ConfirmationsReal ==
  \A c \in Candidate, n \in 1 .. PRUNING_FACTOR :
    VerifyTransaction(c, n) =>
      /\ IsGenuine(c)
      /\ Len(TipHash) - Len(c.block_hash) + 1 >= n

Window ==
  main_state.block_height - PRUNING_FACTOR + 1 .. main_state.block_height

\* What the window of readable heights commits to is the ancestry of the tip.
WindowIsAncestry ==
  \A h \in Window :
    LET c == GetCommitment(main_state, h)
    IN  c # NoCommitment /\ c.blockheight = h => IsPrefix(c.block_hash, TipHash)

\* The slots of the current round of the ring are written up to the tip, so
\* nothing of an earlier round comes back into the window if the tip is lowered.
RoundIsFilled ==
  \A p \in 0 .. PRUNING_FACTOR - 1 :
    LET height == main_state.start_height + p
        c      == main_state.block_commitments[p]
    IN  height <= main_state.block_height =>
          c # NoCommitment /\ c.blockheight = height

WindowIsSound == WindowIsAncestry /\ RoundIsFilled

\* The same, as the users of the relay rely on it: every header accepted by
\* verify_transaction is on the chain that leads to the current tip.
AcceptedOnMainChain ==
  \A c \in Candidate : VerifyTransaction(c, 1) => IsPrefix(c.block_hash, TipHash)

\* The block a fork account branched off from.
ForkBase(fork) == Front(fork.block_commitments[1].block_hash)

\* A step that makes a fork the main chain after its base has left the main
\* chain, contrary to state.rs:88 (start_height is the "Blockheight of last
\* block that is also in main chain").
MergesStaleFork ==
  \E k \in DOMAIN fork_state \ DOMAIN fork_state' :
    /\ main_state' # main_state
    /\ ~ IsPrefix(ForkBase(fork_state[k]), TipHash)

\* The window keeps following the ancestry of the tip through every extension,
\* short fork, fork and pruning: the only step that can break it is a merge of
\* a fork whose base is no longer in the main chain.
SoundnessLostOnlyByStaleMerge ==
  [][WindowIsSound /\ ~ MergesStaleFork => WindowIsSound']_vars

\* The behaviours without such a merge, where the window is always sound.
FreshSpec == Init /\ [][Next /\ ~ MergesStaleFork]_vars

\* The tip can be read back from the ring buffer, which submit_block_headers
\* needs to extend the chain (lib.rs:85).
TipRetrievable ==
  GetCommitment(main_state, main_state.block_height) = main_state.tip_commit_hash

\* The last PRUNING_FACTOR headers can all be read back (README.md "Storage").
\* It holds when all headers have the same difficulty, so that a heavier chain
\* is a longer one.
WindowComplete ==
  \A h \in Window :
    h >= InitHeight /\ main_state.block_height >= PRUNING_FACTOR =>
      LET c == GetCommitment(main_state, h)
      IN  c # NoCommitment /\ c.blockheight = h

Chain ==
  INSTANCE HeaviestChain WITH
    Block  <- BlockHash,
    Work   <- ChainWork,
    tip    <- TipHash,
    branch <- [k \in DOMAIN fork_state |-> fork_state[k].tip_commit_hash.block_hash]

\* The relay implements the rule that the heaviest chain wins: lib.rs:195-199
\* for short forks, lib.rs:306-341 for fork accounts, and submit_block_headers.
ImplementsHeaviestChain == Chain!Spec
=============================================================================
