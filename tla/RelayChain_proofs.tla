-------------------------- MODULE RelayChain_proofs --------------------------
(***************************************************************************)
(* The relay follows the heaviest chain, and can read back the end of it.  *)
(***************************************************************************)
EXTENDS BtcRelay_proofs

USE PruningAssumption

-----------------------------------------------------------------------------
(***************************************************************************)
(* The main chain, seen through its tip.                                   *)
(***************************************************************************)

\* The tip after the blocks cs above height h became the main chain.
LEMMA NewTip ==
  ASSUME NEW m \in MainState, MainInShape(m),
         NEW h \in Nat, h < m.start_height + PRUNING_FACTOR,
         NEW b, NEW cs, IsBranch(b, h, cs), Len(cs) >= 1,
         NEW r, r = SetTip(StoreBlockCommitments(m, h, cs), h + Len(cs), Last(cs))
  PROVE  r.tip_commit_hash = Last(cs) /\ r.block_height = h + Len(cs)
<1>1. /\ cs \in Seq(CommittedBlockHeader) /\ Len(cs) \in Nat
      /\ \A i \in 1 .. Len(cs) : cs[i].blockheight = h + i
  BY DEF IsBranch
<1>2. StoreBlockCommitments(m, h, cs) \in MainState
  BY <1>1, StoreAll DEF MainInShape
<1>3. Last(cs) \in CommittedBlockHeader
  BY <1>1 DEF Last
<1>4. h + Len(cs) \in Nat
  BY <1>1
<1> DEFINE x == StoreBlockCommitments(m, h, cs)
           last == Last(cs)
           height == h + Len(cs)
<1>5. r = SetTip(x, height, last) /\ x \in MainState /\ last \in CommittedBlockHeader
      /\ height \in Nat
  BY <1>2, <1>3, <1>4
<1> HIDE DEF x, last, height
<1>6. HasTip(r, x, height, last)
  BY <1>5, SetTipFields
<1> QED
  BY <1>6 DEF HasTip, last, height

\* What the code compares is the work of the blocks.
LEMMA WorkCompared ==
  ASSUME NEW m \in MainState, MainGenuine(m),
         NEW last \in CommittedBlockHeader, IsGenuine(last)
  PROVE  HasMoreWork(last, m) <=>
           ChainWork[last.block_hash] > ChainWork[m.tip_commit_hash.block_hash]
BY DEF HasMoreWork, MainGenuine, IsGenuine

-----------------------------------------------------------------------------
(***************************************************************************)
(* Every step that moves the main chain, and what the others do to it.     *)
(***************************************************************************)

\* The main state x gets the heavier branch cs on the block b of height h.  The
\* branch has come in at most PRUNING_FACTOR blocks, or starts in the window.
Advances(x, b, h, cs, y) ==
  /\ b \in BlockHash /\ h \in Nat /\ h < x.start_height + PRUNING_FACTOR
  /\ IsBranch(b, h, cs) /\ Len(cs) \in Nat /\ Len(cs) >= 1
  /\ Len(cs) <= PRUNING_FACTOR \/ h > x.block_height - PRUNING_FACTOR
  /\ HasMoreWork(Last(cs), x)
  /\ y = SetTip(StoreBlockCommitments(x, h, cs), h + Len(cs), Last(cs))

LEMMA SubmitAdvances ==
  ASSUME IInv, NEW c \in Candidate, SubmitBlockHeaders(c)
  PROVE  \E b, h, cs : /\ Advances(main_state, b, h, cs, main_state')
                       /\ h <= main_state.block_height
<1> DEFINE m == main_state
           h == m.block_height
<1>1. PICK data \in Batch \ {<<>>} :
        /\ IsLinked(data, c)
        /\ main_state' =
             SetTip(StoreBlockCommitments(m, h, VerifyHeaders(data, c)),
                    h + Len(data), Last(VerifyHeaders(data, c)))
  BY DEF SubmitBlockHeaders
<1> DEFINE headers == VerifyHeaders(data, c)
           r == main_state'
<1>2. m \in MainState /\ MainGenuine(m) /\ MainInShape(m)
  BY DEF IInv, IndInv
<1>3. /\ h \in Nat /\ m.start_height \in Nat /\ c = GetCommitment(m, h)
      /\ c \in CommittedBlockHeader
  BY <1>2, InputAssumption DEF MainState, SubmitBlockHeaders
<1>4. IsLinked(data, c)
  BY <1>1
<1> HIDE DEF m
<1>5. c = m.tip_commit_hash /\ c.blockheight = h /\ IsGenuine(c)
  BY <1>2, <1>3, ReadTip, ReadBack
<1>6. /\ IsBranch(c.block_hash, h, headers)
      /\ Len(headers) = Len(data) /\ Len(headers) >= 1
      /\ Last(headers).chain_work > c.chain_work
  BY <1>3, <1>4, <1>5, HeadersAreBranch
<1>7. c.block_hash \in BlockHash /\ h < m.start_height + PRUNING_FACTOR
  BY <1>2, <1>3 DEF CommittedBlockHeader, MainInShape
<1>8. HasMoreWork(Last(headers), m) /\ Len(headers) \in Nat
  <2>1. c.chain_work = m.chain_work
    BY <1>2, <1>5 DEF MainGenuine
  <2> QED
    BY <1>6, <2>1 DEF HasMoreWork, IsBranch
<1>9. r = SetTip(StoreBlockCommitments(m, h, headers), h + Len(headers), Last(headers))
  BY <1>1, <1>6
<1> HIDE DEF r
<1>10. Advances(m, c.block_hash, h, headers, r) /\ h <= m.block_height
  BY <1>3, <1>6, <1>7, <1>8, <1>9 DEF Advances, h
<1> QED
  BY <1>10 DEF m, r

\* submit_short_fork_headers hands out a fork id after all.
LEMMA ShortForkAdvances ==
  ASSUME IInv, NEW c \in Candidate, SubmitShortForkHeaders(c)
  PROVE  \E b, h, cs, y : /\ Advances(main_state, b, h, cs, y)
                          /\ main_state' = UseForkId(y)
                          /\ h <= main_state.block_height
<1> DEFINE m == main_state
           h == c.blockheight
<1>1. PICK data \in Batch \ {<<>>} :
        /\ IsLinked(data, c)
        /\ HasMoreWork(Last(VerifyHeaders(data, c)), m)
        /\ main_state' =
             UseForkId(SetTip(StoreBlockCommitments(m, h, VerifyHeaders(data, c)),
                              h + Len(data), Last(VerifyHeaders(data, c))))
  BY DEF SubmitShortForkHeaders
<1> DEFINE headers == VerifyHeaders(data, c)
           y == SetTip(StoreBlockCommitments(m, h, headers), h + Len(headers), Last(headers))
<1>2. m \in MainState /\ MainGenuine(m) /\ MainInShape(m)
  BY DEF IInv, IndInv
<1>3. c = GetCommitment(m, h) /\ c \in CommittedBlockHeader /\ h \in Nat
  BY InputAssumption DEF SubmitShortForkHeaders, CommittedBlockHeader
<1>4. IsLinked(data, c) /\ HasMoreWork(Last(headers), m)
  BY <1>1
<1>5. m.block_height \in Nat /\ m.start_height \in Nat
  BY <1>2 DEF MainState
<1> HIDE DEF m
<1>6. IsGenuine(c) /\ h <= m.block_height /\ h > m.block_height - PRUNING_FACTOR
  BY <1>2, <1>3, ReadBack
<1>7. /\ IsBranch(c.block_hash, h, headers)
      /\ Len(headers) = Len(data) /\ Len(headers) >= 1
  BY <1>3, <1>4, <1>6, HeadersAreBranch
<1>8. c.block_hash \in BlockHash /\ h < m.start_height + PRUNING_FACTOR
  BY <1>2, <1>3, <1>5, <1>6 DEF CommittedBlockHeader, MainInShape
<1>9. Len(headers) \in Nat
  BY <1>7 DEF IsBranch
<1>10. main_state' = UseForkId(y)
  BY <1>1, <1>7
<1> HIDE DEF h, headers
<1>11. Advances(m, c.block_hash, h, headers, y)
  BY <1>3, <1>4, <1>6, <1>7, <1>8, <1>9 DEF Advances
<1> QED
  BY <1>6, <1>10, <1>11 DEF m

\* The end of submit_fork_headers: the fork, continued to the tip, becomes the
\* main chain and is closed, or stays a fork with no more work than that.
ForkWins(key, m, b, h, cs) ==
  /\ Advances(m, b, h, cs, main_state')
  /\ fork_state' = [k \in DOMAIN fork_state \ {key} |-> fork_state[k]]

ForkWaits(key, m, h, tip) ==
  /\ ~ HasMoreWork(tip, m)
  /\ main_state' = m
  /\ DOMAIN fork_state' = DOMAIN fork_state \cup {key}
  /\ fork_state'[key].start_height = h
  /\ fork_state'[key].tip_commit_hash = tip
  /\ \A k \in DOMAIN fork_state : k # key => fork_state'[k] = fork_state[k]

LEMMA AppendOutcome ==
  ASSUME NEW m, IndInv(m, fork_state), NEW key, NEW f, NEW b, NEW c,
         CanAppend(f, b, m, c), AppendToFork(key, f, m, c)
  PROVE  \E cs, tip :
           /\ tip = Last(cs) /\ tip \in CommittedBlockHeader /\ IsGenuine(tip)
           /\ tip.block_hash \in BlockHash
           /\ IsStrictPrefix(c.block_hash, tip.block_hash)
           /\ ForkWins(key, m, b, f.start_height, cs) \/ ForkWaits(key, m, f.start_height, tip)
<1>1. PICK data \in Batch \ {<<>>} :
        LET headers == VerifyHeaders(data, c)
            blocks  == f.block_commitments \o headers
            tip     == Last(headers)
        IN  /\ IsLinked(data, c)
            /\ FitsForkAccount(blocks)
            /\ \/ /\ HasMoreWork(tip, m)
                  /\ main_state' =
                       SetTip(StoreBlockCommitments(m, f.start_height, blocks),
                              c.blockheight + Len(data), tip)
                  /\ fork_state' = [k \in DOMAIN fork_state \ {key} |-> fork_state[k]]
               \/ /\ ~ HasMoreWork(tip, m)
                  /\ main_state' = m
                  /\ fork_state' =
                       [k \in DOMAIN fork_state \cup {key} |->
                          IF k = key
                          THEN [f EXCEPT !.block_commitments = blocks,
                                         !.tip_commit_hash = tip]
                          ELSE fork_state[k]]
  BY DEF AppendToFork
<1> DEFINE headers == VerifyHeaders(data, c)
           blocks == f.block_commitments \o headers
           tip == Last(headers)
           h == f.start_height
<1>2. IsLinked(data, c) /\ FitsForkAccount(blocks)
  BY <1>1
<1>3. \/ /\ HasMoreWork(tip, m)
         /\ main_state' = SetTip(StoreBlockCommitments(m, h, blocks),
                                 c.blockheight + Len(data), tip)
         /\ fork_state' = [k \in DOMAIN fork_state \ {key} |-> fork_state[k]]
      \/ /\ ~ HasMoreWork(tip, m)
         /\ main_state' = m
         /\ fork_state' =
              [k \in DOMAIN fork_state \cup {key} |->
                 IF k = key
                 THEN [f EXCEPT !.block_commitments = blocks, !.tip_commit_hash = tip]
                 ELSE fork_state[k]]
  BY <1>1
<1>4. /\ IsBranch(b, h, blocks)
      /\ Len(blocks) \in Nat /\ Len(blocks) >= 1
      /\ Last(blocks) = tip
      /\ c.blockheight + Len(data) = h + Len(blocks)
      /\ tip \in CommittedBlockHeader
  <2>1. data \in Batch \ {<<>>} /\ IsContinued(f, b, c, data, headers)
    BY <1>2, AppendedBlocks
  <2> QED
    BY <2>1 DEF IsContinued
<1>5. /\ f \in ForkState /\ h \in Nat /\ b \in BlockHash
      /\ h < m.start_height + PRUNING_FACTOR
      /\ c \in CommittedBlockHeader /\ IsGenuine(c) /\ c.block_hash \in BlockHash
  BY DEF CanAppend, ForkState, CommittedBlockHeader
<1>6. /\ tip.block_hash \in BlockHash /\ IsGenuine(tip)
      /\ IsStrictPrefix(c.block_hash, tip.block_hash)
  <2>1. /\ IsBranch(c.block_hash, c.blockheight, headers) /\ Len(headers) >= 1
    BY <1>2, <1>5, HeadersAreBranch
  <2>2. c.blockheight \in Nat
    BY <1>5 DEF CommittedBlockHeader
  <2> HIDE DEF headers
  <2> QED
    BY <1>5, <2>1, <2>2, BranchTip
<1>7. Len(blocks) <= PRUNING_FACTOR
  BY <1>2 DEF FitsForkAccount
<1> HIDE DEF headers, blocks, tip, h
<1>8. ForkWins(key, m, b, h, blocks) \/ ForkWaits(key, m, h, tip)
  <2>1. CASE HasMoreWork(tip, m)
    <3>1. main_state' = SetTip(StoreBlockCommitments(m, h, blocks),
                               h + Len(blocks), Last(blocks))
      BY <1>3, <1>4, <2>1
    <3>2. Advances(m, b, h, blocks, main_state')
      BY <1>4, <1>5, <1>7, <2>1, <3>1 DEF Advances
    <3> QED
      BY <1>3, <2>1, <3>2 DEF ForkWins
  <2>2. CASE ~ HasMoreWork(tip, m)
    <3> DEFINE g == [f EXCEPT !.block_commitments = blocks, !.tip_commit_hash = tip]
    <3>1. g.tip_commit_hash = tip /\ g.start_height = h
      BY <1>5 DEF ForkState, h
    <3> HIDE DEF g
    <3>2. /\ main_state' = m
          /\ fork_state' = [k \in DOMAIN fork_state \cup {key} |->
                              IF k = key THEN g ELSE fork_state[k]]
      BY <1>3, <2>2 DEF g
    <3> QED
      BY <2>2, <3>1, <3>2 DEF ForkWaits
  <2> QED
    BY <2>1, <2>2
<1>9. tip = Last(blocks)
  BY <1>4
<1> QED
  BY <1>4, <1>6, <1>8, <1>9 DEF h

-----------------------------------------------------------------------------
(***************************************************************************)
(* The relay implements HeaviestChain.                                     *)
(***************************************************************************)

Branch == [k \in DOMAIN fork_state |-> fork_state[k].tip_commit_hash.block_hash]

\* A main state with the same tip: its fork counter may differ.
SameMain(m) ==
  /\ m \in MainState /\ MainGenuine(m) /\ MainInShape(m)
  /\ m.tip_commit_hash = main_state.tip_commit_hash

LEMMA AdvanceIsHeavier ==
  ASSUME NEW m, SameMain(m), NEW b, NEW h, NEW cs, NEW y, Advances(m, b, h, cs, y)
  PROVE  /\ y.tip_commit_hash = Last(cs)
         /\ Last(cs).block_hash \in BlockHash
         /\ Chain!Heavier(Last(cs).block_hash)
         /\ y \in MainState
<1>1. /\ m \in MainState /\ MainGenuine(m) /\ MainInShape(m)
      /\ m.tip_commit_hash = main_state.tip_commit_hash
  BY DEF SameMain
<1>2. /\ b \in BlockHash /\ h \in Nat /\ h < m.start_height + PRUNING_FACTOR
      /\ IsBranch(b, h, cs) /\ Len(cs) >= 1 /\ HasMoreWork(Last(cs), m)
      /\ y = SetTip(StoreBlockCommitments(m, h, cs), h + Len(cs), Last(cs))
  BY DEF Advances
<1>3. y.tip_commit_hash = Last(cs) /\ y \in MainState
  BY <1>1, <1>2, NewTip, Advance
<1>4. /\ Last(cs) \in CommittedBlockHeader /\ IsGenuine(Last(cs))
      /\ Last(cs).block_hash \in BlockHash
  BY <1>2, BranchTip
<1>5. ChainWork[Last(cs).block_hash] > ChainWork[TipHash]
  BY <1>1, <1>2, <1>4, WorkCompared DEF TipHash
<1> QED
  BY <1>3, <1>4, <1>5 DEF Chain!Heavier

LEMMA SubmitAdopts ==
  ASSUME IInv, NEW c \in Candidate, SubmitBlockHeaders(c) \/ SubmitShortForkHeaders(c)
  PROVE  Chain!Next
<1>1. SameMain(main_state)
  BY DEF SameMain, IInv, IndInv
<1>2. \E b \in BlockHash : Chain!Heavier(b) /\ TipHash' = b
  <2>1. CASE SubmitBlockHeaders(c)
    <3>1. PICK b, h, cs : Advances(main_state, b, h, cs, main_state')
      BY <2>1, SubmitAdvances
    <3> QED
      BY <1>1, <3>1, AdvanceIsHeavier DEF TipHash
  <2>2. CASE SubmitShortForkHeaders(c)
    <3>1. PICK b, h, cs, y : Advances(main_state, b, h, cs, y) /\ main_state' = UseForkId(y)
      BY <2>2, ShortForkAdvances
    <3>2. /\ y.tip_commit_hash = Last(cs) /\ y \in MainState
          /\ Last(cs).block_hash \in BlockHash /\ Chain!Heavier(Last(cs).block_hash)
      BY <1>1, <3>1, AdvanceIsHeavier
    <3>3. main_state'.tip_commit_hash = y.tip_commit_hash
      BY <3>1, <3>2, UseForkIdFields
    <3> QED
      BY <3>2, <3>3 DEF TipHash
  <2> QED
    BY <2>1, <2>2
<1>3. UNCHANGED Branch
  BY DEF SubmitBlockHeaders, SubmitShortForkHeaders, Branch
<1>4. Chain!Adopt
  BY <1>2, <1>3 DEF Chain!Adopt, Branch
<1> QED
  BY <1>4 DEF Chain!Next

\* A fork that grows, or wins, whether it is new or open.
LEMMA AppendGrowsOrWins ==
  ASSUME NEW m, IndInv(m, fork_state), SameMain(m),
         NEW key, NEW f, NEW b, NEW c, CanAppend(f, b, m, c), AppendToFork(key, f, m, c),
         key \in DOMAIN fork_state => c = fork_state[key].tip_commit_hash
  PROVE  Chain!Next
<1>1. PICK cs, tip :
        /\ tip = Last(cs) /\ tip \in CommittedBlockHeader /\ IsGenuine(tip)
        /\ tip.block_hash \in BlockHash
        /\ IsStrictPrefix(c.block_hash, tip.block_hash)
        /\ ForkWins(key, m, b, f.start_height, cs) \/ ForkWaits(key, m, f.start_height, tip)
  BY AppendOutcome
<1> DEFINE new == tip.block_hash
<1>2. new \in BlockHash
  BY <1>1
<1>3. key \in DOMAIN Branch => IsStrictPrefix(Branch[key], new)
  BY <1>1 DEF Branch
<1>4. CASE ForkWins(key, m, b, f.start_height, cs)
  <2>1. Advances(m, b, f.start_height, cs, main_state')
    BY <1>4 DEF ForkWins
  <2>2. TipHash' = new /\ Chain!Heavier(new)
    BY <1>1, <2>1, AdvanceIsHeavier DEF TipHash
  <2>3. Branch' = [k \in DOMAIN Branch \ {key} |-> Branch[k]]
    BY <1>4 DEF ForkWins, Branch
  <2> HIDE DEF new
  <2>4. CASE key \in DOMAIN Branch
    <3>1. Chain!Win(key)
      BY <1>2, <1>3, <2>2, <2>3, <2>4
         DEF Chain!Win, Chain!Drop, Branch, IsStrictPrefix, Chain!IsStrictPrefix,
             IsPrefix, Chain!IsPrefix
    <3> QED
      BY <2>4, <3>1 DEF Chain!Next, Branch
  <2>5. CASE key \notin DOMAIN Branch
    <3>1. Branch' = Branch
      BY <2>3, <2>5 DEF Branch
    <3>2. Chain!Adopt
      BY <1>2, <2>2, <3>1 DEF Chain!Adopt, Branch
    <3> QED
      BY <3>2 DEF Chain!Next
  <2> QED
    BY <2>4, <2>5
<1>5. CASE ForkWaits(key, m, f.start_height, tip)
  <2>1. /\ ~ HasMoreWork(tip, m) /\ main_state' = m
        /\ DOMAIN fork_state' = DOMAIN fork_state \cup {key}
        /\ fork_state'[key].tip_commit_hash = tip
        /\ \A k \in DOMAIN fork_state : k # key => fork_state'[k] = fork_state[k]
    BY <1>5 DEF ForkWaits
  <2>2. ~ Chain!Heavier(new)
    BY <1>1, <2>1, WorkCompared DEF SameMain, Chain!Heavier, TipHash
  <2>3. UNCHANGED TipHash
    BY <2>1 DEF SameMain, TipHash
  <2>4. /\ Branch' = [k \in DOMAIN Branch \cup {key} |-> IF k = key THEN new ELSE Branch[k]]
        /\ key \in DOMAIN Branch'
    BY <2>1 DEF Branch
  <2> HIDE DEF new
  <2>5. Chain!Grow(key)
    BY <1>2, <1>3, <2>2, <2>3, <2>4
       DEF Chain!Grow, Branch, IsStrictPrefix, Chain!IsStrictPrefix,
           IsPrefix, Chain!IsPrefix
  <2> QED
    BY <2>4, <2>5 DEF Chain!Next, Branch
<1> QED
  BY <1>1, <1>4, <1>5

\* The main chain moves only to a chain with strictly more work, and a fork
\* that gets more work becomes the main chain in that very instruction: the
\* relay, with its ring buffer, batches and fork accounts, is HeaviestChain.
THEOREM RelayFollowsHeaviestChain == Spec => ImplementsHeaviestChain
<1>1. Init => Chain!Init
  <2> SUFFICES ASSUME Init PROVE Chain!Init
    OBVIOUS
  <2>1. TipHash = <<>>
    BY DEF Init, TipHash, CheckpointHeader, Checkpoint
  <2>2. fork_state = << >> /\ DOMAIN << >> = {}
    BY DEF Init
  <2>3. Branch = << >>
    BY <2>2 DEF Branch
  <2> QED
    BY <2>1, <2>3 DEF Chain!Init, Branch
<1>2. IInv /\ [Next]_vars => [Chain!Next]_<<TipHash, Branch>>
  <2> SUFFICES ASSUME IInv, [Next]_vars PROVE [Chain!Next]_<<TipHash, Branch>>
    OBVIOUS
  <2>1. ASSUME NEW c \in Candidate, SubmitBlockHeaders(c) \/ SubmitShortForkHeaders(c)
        PROVE  Chain!Next
    BY <2>1, SubmitAdopts
  <2>2. ASSUME NEW signer \in Signer, NEW c \in Candidate, OpenFork(signer, c)
        PROVE  Chain!Next
    <3> DEFINE m == UseForkId(main_state)
               key == <<main_state.fork_counter, signer>>
               f == [start_height      |-> c.blockheight,
                     tip_commit_hash   |-> c,
                     block_commitments |-> <<>>]
    <3>1. /\ IndInv(m, fork_state) /\ key \notin DOMAIN fork_state
          /\ CanAppend(f, c.block_hash, m, c) /\ AppendToFork(key, f, m, c)
      BY <2>2, OpenForkAppends
    <3>2. SameMain(m)
      <4>1. m.tip_commit_hash = main_state.tip_commit_hash
        BY UseForkIdFields DEF IInv, IndInv
      <4> HIDE DEF m
      <4> QED
        BY <3>1, <4>1 DEF SameMain, IndInv
    <3> HIDE DEF m, key, f
    <3> QED
      BY <3>1, <3>2, AppendGrowsOrWins
  <2>3. ASSUME NEW key \in DOMAIN fork_state, NEW c \in Candidate, ExtendFork(key, c)
        PROVE  Chain!Next
    <3> DEFINE f == fork_state[key]
    <3>1. /\ c = f.tip_commit_hash
          /\ CanAppend(f, ForkBase(f), main_state, c) /\ AppendToFork(key, f, main_state, c)
      BY <2>3, ExtendForkAppends
    <3>2. IndInv(main_state, fork_state) /\ SameMain(main_state)
      BY DEF SameMain, IInv, IndInv
    <3> QED
      BY <3>1, <3>2, AppendGrowsOrWins
  <2>4. ASSUME NEW key \in DOMAIN fork_state, CloseForkAccount(key) PROVE Chain!Next
    <3>1. Branch' = [k \in DOMAIN Branch \ {key} |-> Branch[k]] /\ UNCHANGED TipHash
      BY <2>4 DEF CloseForkAccount, Branch, TipHash
    <3>2. Chain!Abandon(key)
      BY <3>1 DEF Chain!Abandon, Chain!Drop, Branch
    <3>3. key \in DOMAIN Branch
      BY DEF Branch
    <3> QED
      BY <3>2, <3>3 DEF Chain!Next, Branch
  <2>5. CASE UNCHANGED vars
    BY <2>5 DEF vars, TipHash, Branch
  <2> QED
    BY <2>1, <2>2, <2>3, <2>4, <2>5 DEF Next
<1> QED
  BY <1>1, <1>2, InductiveInvariant, PTL DEF Spec, ImplementsHeaviestChain, Chain!Spec, Branch

-----------------------------------------------------------------------------
(***************************************************************************)
(* The last PRUNING_FACTOR headers can be read back, if a heavier chain is *)
(* always a longer one: all headers that come in have one difficulty.      *)
(***************************************************************************)

HeavierIsLonger ==
  \A b, c \in BlockHash : ChainWork[b] > ChainWork[c] => Len(b) > Len(c)

\* The slot that is read for height k commits to a header of that height.
HasHeight(m, k) ==
  /\ GetPosition(m, k) # PRUNING_FACTOR
  /\ m.block_commitments[GetPosition(m, k)] # NoCommitment
  /\ m.block_commitments[GetPosition(m, k)].blockheight = k

\* The ring below a tip of height t is complete, down to the checkpoint.
CompleteBelow(m, t) ==
  /\ m.start_height <= t
  /\ \A k \in Nat : k >= InitHeight /\ k > t - PRUNING_FACTOR /\ k <= t => HasHeight(m, k)

\* Storing a header over one of the window, or right above it, takes nothing
\* out of the window but that header and what the new height pushes out.
LEMMA StoreKeepsComplete ==
  ASSUME NEW m \in MainState, SlotsInShape(m), NEW t \in Nat, CompleteBelow(m, t),
         NEW h \in Nat, h > t - PRUNING_FACTOR, h <= t + 1,
         h <= m.start_height + PRUNING_FACTOR,
         NEW c \in CommittedBlockHeader, c.blockheight = h,
         NEW r, r = StoreBlockCommitment(m, h, c),
         NEW u, u = IF h > t THEN h ELSE t
  PROVE  CompleteBelow(r, u)
<1> DEFINE q == GetPosition(m, h)
           S == m.start_height
<1>1. S \in Nat /\ S <= t
  BY DEF CompleteBelow, MainState
<1>2. q \in 0 .. PRUNING_FACTOR - 1
      /\ q = IF S <= h THEN (IF h - S >= PRUNING_FACTOR THEN 0 ELSE h - S)
                       ELSE PRUNING_FACTOR - (S - h)
  BY <1>1 DEF GetPosition
<1>3. q # PRUNING_FACTOR
  BY <1>2
<1>4. /\ r \in MainState
      /\ r.block_commitments[q] = c
      /\ \A p \in 0 .. PRUNING_FACTOR - 1 :
           p # q => r.block_commitments[p] = m.block_commitments[p]
      /\ r.start_height = IF q = 0 THEN h ELSE S
  BY <1>3, StoreFields
<1> HIDE DEF q, S
<1>5. c # NoCommitment
  BY NoCommitmentAssumption
<1>6. r.start_height <= u
  BY <1>1, <1>4
<1>7. ASSUME NEW k \in Nat, k >= InitHeight, k > u - PRUNING_FACTOR, k <= u
      PROVE  HasHeight(r, k)
  <2>1. CASE k = h
    <3>1. GetPosition(r, k) = q
      BY <1>1, <1>2, <1>4, <2>1 DEF GetPosition
    <3> QED
      BY <1>3, <1>4, <1>5, <2>1, <3>1 DEF HasHeight
  <2>2. CASE k # h
    <3>1. k <= t /\ k > t - PRUNING_FACTOR
      BY <1>7, <2>2
    <3>2. HasHeight(m, k)
      BY <1>7, <3>1 DEF CompleteBelow
    <3> DEFINE p == GetPosition(m, k)
    <3>3. /\ p # PRUNING_FACTOR
          /\ m.block_commitments[p] # NoCommitment
          /\ m.block_commitments[p].blockheight = k
      BY <3>2 DEF HasHeight
    <3>4. p = IF S <= k THEN (IF k - S >= PRUNING_FACTOR THEN 0 ELSE k - S)
              ELSE (IF S - k >= PRUNING_FACTOR THEN PRUNING_FACTOR
                    ELSE PRUNING_FACTOR - (S - k))
      BY <1>1 DEF GetPosition, S
    <3>5. k < S + PRUNING_FACTOR
      <4>1. m.block_commitments[0].blockheight = S
        BY DEF SlotsInShape, S
      <4> HIDE DEF p
      <4>2. SUFFICES ASSUME k >= S + PRUNING_FACTOR PROVE FALSE
        BY <1>1
      <4>3. p = 0
        BY <1>1, <3>4, <4>2
      <4> QED
        BY <1>1, <3>3, <4>1, <4>2, <4>3
    <3> HIDE DEF p
    <3>6. p \in 0 .. PRUNING_FACTOR - 1 /\ p # q
      BY <1>1, <1>2, <1>7, <2>2, <3>1, <3>3, <3>4, <3>5
    <3>7. GetPosition(r, k) = p
      <4>1. GetPosition(r, k) =
              LET start == r.start_height
              IN  IF start <= k THEN (IF k - start >= PRUNING_FACTOR THEN 0 ELSE k - start)
                  ELSE (IF start - k >= PRUNING_FACTOR THEN PRUNING_FACTOR
                        ELSE PRUNING_FACTOR - (start - k))
        BY DEF GetPosition
      <4>2. CASE r.start_height = S
        BY <3>4, <4>1, <4>2
      <4>3. CASE q = 0 /\ h # S
        <5>1. h = S + PRUNING_FACTOR /\ r.start_height = h /\ u >= h /\ u \in Nat
          BY <1>1, <1>2, <1>4, <4>3 DEF S
        <5>2. k > S /\ k < h /\ h - k < PRUNING_FACTOR
          BY <1>1, <1>7, <2>2, <3>5, <5>1
        <5>3. p = k - S /\ PRUNING_FACTOR - (h - k) = k - S
          BY <1>1, <3>4, <5>1, <5>2
        <5> QED
          BY <4>1, <5>1, <5>2, <5>3
      <4> QED
        BY <1>4, <4>2, <4>3
    <3>8. r.block_commitments[p] = m.block_commitments[p]
      BY <1>4, <3>6
    <3> QED
      BY <3>3, <3>7, <3>8 DEF HasHeight
  <2> QED
    BY <2>1, <2>2
<1> QED
  BY <1>6, <1>7 DEF CompleteBelow

\* The higher of two heights.
Higher(j, k) == IF k > j THEN k ELSE j

\* The loops that store the headers of a branch on a block of the chain, when
\* the first of them is in the window of the tip of height t.
LEMMA StoreAllKeepsComplete ==
  ASSUME NEW m \in MainState, NEW t \in Nat, CompleteBelow(m, t), SlotsInShape(m),
         NEW h \in Nat, h <= t, h + 1 > t - PRUNING_FACTOR,
         h < m.start_height + PRUNING_FACTOR,
         NEW cs \in Seq(CommittedBlockHeader),
         \A i \in 1 .. Len(cs) : cs[i].blockheight = h + i
  PROVE  CompleteBelow(StoreBlockCommitments(m, h, cs), Higher(t, h + Len(cs)))
<1> DEFINE n == Len(cs)
<1>1. n \in Nat /\ \A i \in 1 .. n : cs[i] \in CommittedBlockHeader
  OBVIOUS
<1>2. PICK stored : /\ IsStoring(stored, m, h, cs)
                    /\ StoreBlockCommitments(m, h, cs) = stored[n]
  BY StoreLoop
<1>3. /\ stored \in [0 .. n -> MainState]
      /\ stored[0] = m
      /\ \A i \in 1 .. n : stored[i] = StoreBlockCommitment(stored[i-1], h + i, cs[i])
  BY <1>2 DEF IsStoring
<1>4. \A i \in 1 .. n : cs[i].blockheight = h + i
  OBVIOUS
<1> HIDE DEF n
<1> DEFINE Stored(i, x) == /\ SlotsInShape(x)
                           /\ h + i < x.start_height + PRUNING_FACTOR
                           /\ CompleteBelow(x, Higher(t, h + i))
           S == {i \in 0 .. n : Stored(i, stored[i])}
<1>5. 0 \in S
  <2>1. Higher(t, h + 0) = t
    BY DEF Higher
  <2> QED
    BY <1>1, <1>3, <2>1
<1>6. ASSUME NEW i \in 1 .. n, i-1 \in S PROVE i \in S
  <2> DEFINE x == stored[i-1]
             y == stored[i]
             c == cs[i]
             s == Higher(t, h + (i-1))
             u == Higher(t, h + i)
  <2>1. x \in MainState /\ y \in MainState
    BY <1>1, <1>3
  <2>2. Stored(i-1, x)
    BY <1>6
  <2>3. c \in CommittedBlockHeader /\ c.blockheight = h + i /\ h + i \in Nat
    BY <1>1, <1>4
  <2>4. y = StoreBlockCommitment(x, h + i, c)
    BY <1>3
  <2>5. s \in Nat /\ h + i > s - PRUNING_FACTOR /\ h + i <= s + 1
        /\ u = IF h + i > s THEN h + i ELSE s
    BY <1>1 DEF Higher
  <2> HIDE DEF S, x, y, c, s, u
  <2>6. SlotsInShape(x) /\ h + i <= x.start_height + PRUNING_FACTOR /\ CompleteBelow(x, s)
    <3>1. x.start_height \in Nat
      BY <2>1 DEF MainState
    <3> QED
      BY <2>2, <3>1 DEF s
  <2>7. CompleteBelow(y, u)
    BY <2>1, <2>3, <2>4, <2>5, <2>6, StoreKeepsComplete
  <2>8. SlotsInShape(y) /\ h + i < y.start_height + PRUNING_FACTOR
    BY <2>1, <2>3, <2>4, <2>6, StoreStep
  <2> QED
    BY <2>7, <2>8 DEF S, y, u
<1> HIDE DEF S
<1>7. \A i \in 1 .. n : i-1 \in S => i \in S
  BY <1>6
<1>8. \A i \in 0 .. n : i \in S
  BY <1>1, <1>5, <1>7, UpTo
<1>9. n \in S
  BY <1>1, <1>8
<1> QED
  BY <1>2, <1>9 DEF S, n

\* The window is complete up to the tip, and no fork starts above it.
Complete(m, forks) ==
  /\ CompleteBelow(m, m.block_height)
  /\ \A k \in DOMAIN forks : forks[k].start_height <= m.block_height

\* A heavier chain makes the tip higher: so its blocks reach into the window,
\* however old its base is, because at most PRUNING_FACTOR of them come at once.
LEMMA AdvanceIsLonger ==
  ASSUME HeavierIsLonger,
         NEW m \in MainState, MainGenuine(m), MainInShape(m),
         NEW b, NEW h, NEW cs, NEW r, Advances(m, b, h, cs, r)
  PROVE  /\ r \in MainState
         /\ r.block_height = h + Len(cs)
         /\ r.block_height > m.block_height
         /\ h + 1 > m.block_height - PRUNING_FACTOR
<1>1. /\ b \in BlockHash /\ h \in Nat /\ h < m.start_height + PRUNING_FACTOR
      /\ IsBranch(b, h, cs) /\ Len(cs) \in Nat /\ Len(cs) >= 1
      /\ Len(cs) <= PRUNING_FACTOR \/ h > m.block_height - PRUNING_FACTOR
      /\ HasMoreWork(Last(cs), m)
      /\ r = SetTip(StoreBlockCommitments(m, h, cs), h + Len(cs), Last(cs))
  BY DEF Advances
<1> DEFINE last == Last(cs)
           T == m.tip_commit_hash.block_hash
<1>2. /\ last \in CommittedBlockHeader /\ IsGenuine(last)
      /\ last.block_hash \in BlockHash
      /\ last.blockheight = h + Len(cs)
  BY <1>1, BranchTip
<1>3. r \in MainState /\ r.block_height = h + Len(cs)
  BY <1>1, NewTip, Advance
<1>4. T \in BlockHash /\ m.block_height \in Nat
  BY DEF MainState, CommittedBlockHeader
<1>5. m.block_height = InitHeight + Len(T)
  BY DEF MainGenuine, IsGenuine
<1> HIDE DEF last
<1>6. ChainWork[last.block_hash] > ChainWork[T]
  BY <1>1, <1>2, WorkCompared DEF last
<1> HIDE DEF T
<1>7. Len(last.block_hash) > Len(T)
  BY <1>2, <1>4, <1>6 DEF HeavierIsLonger
<1>8. last.block_hash \in Seq(Label) /\ T \in Seq(Label)
  BY <1>2, <1>4, BlockHashType
<1>9. Len(last.block_hash) \in Nat /\ Len(T) \in Nat
  BY <1>8
<1>10. h + Len(cs) = InitHeight + Len(last.block_hash)
  BY <1>2 DEF IsGenuine
<1>11. h + Len(cs) > m.block_height
  BY <1>5, <1>7, <1>9, <1>10, InitHeightAssumption
<1> HIDE DEF last
<1>12. h + 1 > m.block_height - PRUNING_FACTOR
  BY <1>1, <1>4, <1>11
<1> QED
  BY <1>3, <1>11, <1>12

LEMMA AdvanceComplete ==
  ASSUME HeavierIsLonger,
         NEW m \in MainState, MainGenuine(m), MainInShape(m),
         CompleteBelow(m, m.block_height),
         NEW b, NEW h, h <= m.block_height, NEW cs, NEW r, Advances(m, b, h, cs, r)
  PROVE  CompleteBelow(r, r.block_height) /\ r.block_height > m.block_height
<1> DEFINE t == m.block_height
           x == StoreBlockCommitments(m, h, cs)
<1>1. /\ h \in Nat /\ h < m.start_height + PRUNING_FACTOR
      /\ b \in BlockHash /\ IsBranch(b, h, cs) /\ Len(cs) \in Nat /\ Len(cs) >= 1
      /\ r = SetTip(x, h + Len(cs), Last(cs))
  BY DEF Advances
<1>2. /\ r.block_height = h + Len(cs)
      /\ r.block_height > t
      /\ h + 1 > t - PRUNING_FACTOR
  BY AdvanceIsLonger
<1>3. t \in Nat
  BY DEF MainState
<1>4. /\ cs \in Seq(CommittedBlockHeader)
      /\ \A i \in 1 .. Len(cs) : cs[i].blockheight = h + i
  BY <1>1 DEF IsBranch
<1>5. SlotsInShape(m)
  BY DEF MainInShape
<1>6. x \in MainState
  BY <1>1, <1>4, <1>5, StoreAll
<1>7. CompleteBelow(x, Higher(t, h + Len(cs)))
  BY <1>1, <1>2, <1>3, <1>4, <1>5, StoreAllKeepsComplete
<1>8. Higher(t, h + Len(cs)) = r.block_height
  BY <1>2 DEF Higher
<1>9. Last(cs) \in CommittedBlockHeader /\ h + Len(cs) \in Nat
  BY <1>1, BranchTip
<1> DEFINE last == Last(cs)
           height == h + Len(cs)
<1>10. r = SetTip(x, height, last) /\ last \in CommittedBlockHeader /\ height \in Nat
  BY <1>1, <1>9
<1> HIDE DEF x, last, height
<1>11. r.start_height = x.start_height /\ r.block_commitments = x.block_commitments
  BY <1>6, <1>10, SetTipFields DEF HasTip
<1>12. \A k : HasHeight(x, k) => HasHeight(r, k)
  BY <1>11, SamePosition DEF HasHeight
<1> QED
  BY <1>2, <1>7, <1>8, <1>11, <1>12 DEF CompleteBelow

\* The counter of fork ids plays no part.
LEMMA UseForkIdComplete ==
  ASSUME NEW m \in MainState, NEW t, CompleteBelow(m, t), NEW r, r = UseForkId(m)
  PROVE  CompleteBelow(r, t)
<1>1. r.start_height = m.start_height /\ r.block_commitments = m.block_commitments
  BY UseForkIdFields
<1>2. \A k : HasHeight(m, k) => HasHeight(r, k)
  BY <1>1, SamePosition DEF HasHeight
<1> QED
  BY <1>1, <1>2 DEF CompleteBelow

LEMMA InitComplete == Init => Complete(main_state, fork_state)
<1> SUFFICES ASSUME Init PROVE Complete(main_state, fork_state)
  OBVIOUS
<1> DEFINE m == main_state
<1>1. /\ m.start_height = InitHeight
      /\ m.block_height = InitHeight
      /\ m.block_commitments[0] = CheckpointHeader
      /\ DOMAIN fork_state = {}
  BY DEF Init
<1>2. GetPosition(m, InitHeight) = 0
  BY <1>1, InitHeightAssumption DEF GetPosition
<1>3. CheckpointHeader # NoCommitment /\ CheckpointHeader.blockheight = InitHeight
  <2>1. CheckpointHeader \in CommittedBlockHeader
    BY InitHeightAssumption, ChainWorkAssumption
       DEF CheckpointHeader, CommittedBlockHeader, BlockHash
  <2> QED
    BY <2>1, NoCommitmentAssumption DEF CheckpointHeader
<1> HIDE DEF m
<1>4. HasHeight(m, InitHeight)
  BY <1>1, <1>2, <1>3 DEF HasHeight
<1>5. CompleteBelow(m, m.block_height)
  BY <1>1, <1>4, InitHeightAssumption DEF CompleteBelow
<1> QED
  BY <1>1, <1>5 DEF Complete, m

\* submit_fork_headers, on a fork account whose base is not above the tip.
LEMMA AppendComplete ==
  ASSUME HeavierIsLonger,
         NEW m, IndInv(m, fork_state), Complete(m, fork_state),
         NEW key, NEW f, f.start_height <= m.block_height,
         NEW b, NEW c, CanAppend(f, b, m, c), AppendToFork(key, f, m, c)
  PROVE  Complete(main_state, fork_state)'
<1> DEFINE h == f.start_height
           t == m.block_height
<1>1. PICK cs, tip : ForkWins(key, m, b, h, cs) \/ ForkWaits(key, m, h, tip)
  BY AppendOutcome
<1>2. m \in MainState /\ MainGenuine(m) /\ MainInShape(m)
  BY DEF IndInv
<1>3. t \in Nat /\ \A k \in DOMAIN fork_state : fork_state[k].start_height \in Nat
  BY <1>2 DEF MainState, IndInv, ForkOK, ForkState
<1>4. /\ CompleteBelow(m, t) /\ h <= t
      /\ \A k \in DOMAIN fork_state : fork_state[k].start_height <= t
  BY DEF Complete
<1> DEFINE r == main_state'
           forks == fork_state'
<1> HIDE DEF h
<1>5. CASE ForkWins(key, m, b, h, cs)
  <2>1. Advances(m, b, h, cs, r)
    BY <1>5 DEF ForkWins
  <2>2. r \in MainState
    BY <1>2, <2>1, AdvanceIsLonger
  <2>3. CompleteBelow(r, r.block_height) /\ r.block_height > t
    BY <1>2, <1>4, <2>1, AdvanceComplete
  <2>4. \A k \in DOMAIN forks : k \in DOMAIN fork_state /\ forks[k] = fork_state[k]
    BY <1>5 DEF ForkWins
  <2>5. r.block_height \in Nat
    BY <2>2 DEF MainState
  <2> HIDE DEF r, forks, t
  <2>6. \A k \in DOMAIN forks : forks[k].start_height <= r.block_height
    BY <1>3, <1>4, <2>3, <2>4, <2>5
  <2> QED
    BY <2>3, <2>6 DEF Complete, r, forks
<1>6. CASE ForkWaits(key, m, h, tip)
  <2>1. /\ r = m
        /\ DOMAIN forks = DOMAIN fork_state \cup {key}
        /\ forks[key].start_height = h
        /\ \A k \in DOMAIN fork_state : k # key => forks[k] = fork_state[k]
    BY <1>6 DEF ForkWaits
  <2> HIDE DEF r, forks
  <2>2. \A k \in DOMAIN forks : forks[k].start_height <= t
    BY <1>4, <2>1
  <2> QED
    BY <1>4, <2>1, <2>2 DEF Complete, r, forks
<1> QED
  BY <1>1, <1>5, <1>6

\* Every step keeps the window complete.
LEMMA StepComplete ==
  ASSUME HeavierIsLonger, IInv, Complete(main_state, fork_state), [Next]_vars
  PROVE  Complete(main_state, fork_state)'
<1> DEFINE m == main_state
           t == m.block_height
           r == main_state'
<1>1. m \in MainState /\ MainGenuine(m) /\ MainInShape(m) /\ IndInv(m, fork_state)
  BY DEF IInv, IndInv
<1>2. t \in Nat /\ \A k \in DOMAIN fork_state : fork_state[k].start_height \in Nat
  BY <1>1 DEF MainState, IndInv, ForkOK, ForkState
<1>3. /\ CompleteBelow(m, t)
      /\ \A k \in DOMAIN fork_state : fork_state[k].start_height <= t
  BY DEF Complete
<1>4. ASSUME NEW y, y \in MainState, CompleteBelow(y, y.block_height), y.block_height > t,
             main_state' = y \/ main_state' = UseForkId(y), UNCHANGED fork_state
      PROVE  Complete(main_state, fork_state)'
  <2>1. r.block_height = y.block_height
    BY <1>4, UseForkIdFields
  <2>2. CompleteBelow(r, r.block_height)
    BY <1>4, <2>1, UseForkIdComplete
  <2>3. y.block_height \in Nat
    BY <1>4 DEF MainState
  <2> HIDE DEF r, t
  <2>4. \A k \in DOMAIN fork_state : fork_state[k].start_height <= r.block_height
    BY <1>2, <1>3, <1>4, <2>1, <2>3
  <2> QED
    BY <1>4, <2>2, <2>4 DEF Complete, r
<1>5. ASSUME NEW c \in Candidate, SubmitBlockHeaders(c)
      PROVE  Complete(main_state, fork_state)'
  <2>1. PICK b, h, cs : Advances(m, b, h, cs, r) /\ h <= t
    BY <1>5, SubmitAdvances
  <2>2. r \in MainState /\ CompleteBelow(r, r.block_height) /\ r.block_height > t
    BY <1>1, <1>3, <2>1, AdvanceIsLonger, AdvanceComplete
  <2>3. UNCHANGED fork_state
    BY <1>5 DEF SubmitBlockHeaders
  <2> QED
    BY <1>4, <2>2, <2>3
<1>6. ASSUME NEW c \in Candidate, SubmitShortForkHeaders(c)
      PROVE  Complete(main_state, fork_state)'
  <2>1. PICK b, h, cs, y : Advances(m, b, h, cs, y) /\ h <= t /\ main_state' = UseForkId(y)
    BY <1>6, ShortForkAdvances
  <2>2. y \in MainState /\ CompleteBelow(y, y.block_height) /\ y.block_height > t
    BY <1>1, <1>3, <2>1, AdvanceIsLonger, AdvanceComplete
  <2>3. UNCHANGED fork_state
    BY <1>6 DEF SubmitShortForkHeaders
  <2> QED
    BY <1>4, <2>1, <2>2, <2>3
<1>7. ASSUME NEW signer \in Signer, NEW c \in Candidate, OpenFork(signer, c)
      PROVE  Complete(main_state, fork_state)'
  <2> DEFINE x == UseForkId(main_state)
             key == <<main_state.fork_counter, signer>>
             f == [start_height      |-> c.blockheight,
                   tip_commit_hash   |-> c,
                   block_commitments |-> <<>>]
  <2>1. /\ IndInv(x, fork_state) /\ c.blockheight <= x.block_height
        /\ CanAppend(f, c.block_hash, x, c) /\ AppendToFork(key, f, x, c)
    BY <1>7, OpenForkAppends
  <2>2. x.block_height = t
    BY <1>1, UseForkIdFields
  <2>3. CompleteBelow(x, t)
    BY <1>1, <1>3, UseForkIdComplete
  <2>4. Complete(x, fork_state) /\ f.start_height <= x.block_height
    BY <1>3, <2>1, <2>2, <2>3 DEF Complete
  <2> HIDE DEF x, key, f
  <2> QED
    BY <2>1, <2>4, AppendComplete
<1>8. ASSUME NEW key \in DOMAIN fork_state, NEW c \in Candidate, ExtendFork(key, c)
      PROVE  Complete(main_state, fork_state)'
  <2> DEFINE f == fork_state[key]
  <2>1. CanAppend(f, ForkBase(f), main_state, c) /\ AppendToFork(key, f, main_state, c)
    BY <1>8, ExtendForkAppends
  <2> QED
    BY <1>1, <1>3, <2>1, AppendComplete
<1>9. ASSUME NEW key \in DOMAIN fork_state, CloseForkAccount(key)
      PROVE  Complete(main_state, fork_state)'
  BY <1>9 DEF CloseForkAccount, Complete
<1>10. CASE UNCHANGED vars
  BY <1>10 DEF vars, Complete
<1> QED
  BY <1>5, <1>6, <1>7, <1>8, <1>9, <1>10 DEF Next

LEMMA CompleteIsKept ==
  ASSUME HeavierIsLonger
  PROVE  Spec => [](IInv /\ Complete(main_state, fork_state))
<1>1. IInv /\ Complete(main_state, fork_state) /\ [Next]_vars => Complete(main_state, fork_state)'
  BY StepComplete
<1> QED
  BY <1>1, InitComplete, InductiveInvariant, PTL DEF Spec

\* The last PRUNING_FACTOR headers, or all down to the checkpoint, can be read
\* back (README.md, "Storage"), as long as a heavier chain is a longer one.
THEOREM WindowStaysComplete ==
  ASSUME HeavierIsLonger
  PROVE  Spec => []WindowComplete
<1>1. IInv /\ Complete(main_state, fork_state) => WindowComplete
  <2> SUFFICES ASSUME IInv, Complete(main_state, fork_state) PROVE WindowComplete
    OBVIOUS
  <2> DEFINE m == main_state
             t == m.block_height
  <2>1. t \in Nat
    BY DEF IInv, IndInv, MainState
  <2>2. ASSUME NEW k \in t - PRUNING_FACTOR + 1 .. t, k >= InitHeight, t >= PRUNING_FACTOR
        PROVE  LET c == GetCommitment(m, k) IN c # NoCommitment /\ c.blockheight = k
    <3>1. k \in Nat /\ k > t - PRUNING_FACTOR /\ k <= t
      BY <2>1, <2>2
    <3>2. HasHeight(m, k)
      BY <2>2, <3>1 DEF Complete, CompleteBelow
    <3>3. ~ (k > t) /\ ~ (t < PRUNING_FACTOR) /\ ~ (k <= t - PRUNING_FACTOR)
      BY <2>1, <2>2, <3>1
    <3>4. GetCommitment(m, k) = m.block_commitments[GetPosition(m, k)]
      BY <3>2, <3>3 DEF GetCommitment, HasHeight
    <3> QED
      BY <3>2, <3>4 DEF HasHeight
  <2> QED
    BY <2>2 DEF WindowComplete, Window
<1> QED
  BY <1>1, CompleteIsKept, PTL

\* The tip can always be read back, so that submit_block_headers can extend the
\* chain (lib.rs:85), if the relay started at PRUNING_FACTOR or above, where
\* get_commitment can be called at all, and a heavier chain is a longer one.
THEOREM TipStaysRetrievable ==
  ASSUME HeavierIsLonger, InitHeight >= PRUNING_FACTOR
  PROVE  Spec => []TipRetrievable
<1>1. IInv /\ Complete(main_state, fork_state) => TipRetrievable
  <2> SUFFICES ASSUME IInv, Complete(main_state, fork_state) PROVE TipRetrievable
    OBVIOUS
  <2> DEFINE m == main_state
             t == m.block_height
             T == m.tip_commit_hash.block_hash
  <2>1. m \in MainState /\ MainGenuine(m) /\ MainInShape(m)
    BY DEF IInv, IndInv
  <2>2. t \in Nat /\ T \in Seq(Label)
    BY <2>1, BlockHashType DEF MainState, CommittedBlockHeader
  <2>3. t = InitHeight + Len(T)
    BY <2>1 DEF MainGenuine, IsGenuine
  <2>4. t >= InitHeight /\ t >= PRUNING_FACTOR
    <3>1. Len(T) \in Nat
      BY <2>2
    <3> QED
      BY <2>2, <2>3, <3>1, InitHeightAssumption
  <2>5. HasHeight(m, t)
    BY <2>2, <2>4 DEF Complete, CompleteBelow
  <2>6. m.block_commitments[GetPosition(m, t)] = m.tip_commit_hash
    BY <2>1, <2>5 DEF MainInShape, HasHeight
  <2>7. ~ (t > t) /\ ~ (t < PRUNING_FACTOR) /\ ~ (t <= t - PRUNING_FACTOR)
    BY <2>2, <2>4
  <2> QED
    BY <2>5, <2>6, <2>7 DEF TipRetrievable, GetCommitment, HasHeight
<1> QED
  BY <1>1, CompleteIsKept, PTL
=============================================================================
