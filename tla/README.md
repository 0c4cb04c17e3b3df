# Verification of the atomiq Solana programs

TLA+ models of the two on-chain programs of this repository and of the two
together, checked with TLC, and proofs about both, their header rules, their
inclusion proofs and the two together, checked with TLAPS:

- **btc-relay** (`btcrelay/programs/btc-relay`), a light client of Bitcoin,
- **swap-program** (`swaps/programs/swap-program`), escrows for swaps between
  Solana tokens and Bitcoin, on chain or over Lightning.

## 1. The system

Both are Anchor programs. An instruction of a Solana transaction runs alone and
is atomic: it fails without effect or does everything. What is concurrent is the
order of instructions of different users, the state a user saw when they built
a transaction against the state it meets, and Bitcoin itself.

| Component | State | Operations | Hard parts | Correct when |
|---|---|---|---|---|
| relay: main chain, ring buffer (`state.rs`, `lib.rs`) | `MainState`: tip, work, start height, 250 commitments, fork counter | `initialize`, `submit_block_headers`, `submit_short_fork_headers`, `verify_transaction`, `block_height` | wrap-around; reorganizations across the wrap; tips that get lower; headers supplied by callers | commitments are genuine, heaviest chain wins, lookups by height give the ancestry of the tip |
| relay: forks | `ForkState` per fork id and signer: base height, headers, tip | `submit_fork_headers`, `close_fork_account` | a fork grows over many transactions while the main chain moves; merge | a fork is one chain, and is merged as soon as it is heavier |
| relay: header rules (`utils.rs`, `structs.rs`) | none | `verify_header`, retargeting, median time, proof of work | boundaries of retargeting, 256-bit arithmetic (`arrayutils.rs`) | accepts what Bitcoin accepts |
| relay: Merkle proofs (`utils.rs`) | none | `compute_merkle` | proofs from inner nodes and from below 64-byte transactions | reaches the root from the transactions of the block; what else does is known |
| swap: vaults and user accounts | token account per mint; `UserAccount` per wallet and mint: balance, reputation | `deposit`, `withdraw` | one vault backs everything, and may itself be the destination | the vault covers all it owes |
| swap: escrows | `EscrowState` per hash: terms, parties, deposit, bounty; lamports | `offerer_initialize(_pay_in)`, `claimer_claim(_pay_out)`, `offerer_refund(_pay_in)` | claims race refunds; one account under two names; rent, deposit and bounty share lamports | settles once, in full, to the right side or the account named for it; always ends |
| swap: data accounts | owner, bytes | `init_data`, `write_data`, `close_data` | written in chunks, closed by claims | only a complete input claims |
| swap: checks of sibling instructions (`utils/btcrelay.rs`, `utils/signature.rs`) | none | `verify_tx_ix`, `verify_blockheight_ix`, `verify_ed25519_ix` | byte layouts | accepted iff the instruction was that check |
| swap: transaction parser (`utils/btctx.rs`) | none | `verify_transaction` | variable-length integers, 64-byte transactions | id, output and nonce of the parsed transaction |

**Interaction.** A claim of an on-chain swap is a transaction whose instruction
0 calls the relay's `verify_transaction` and a later one `claimer_claim`, which
checks through the instructions sysvar that instruction 0 was that call; a
refund by height does the same with `block_height`; a cooperative refund with
the ed25519 program. The swap program moves tokens through the token program
and lamports through the system program or directly.

## 2. Modules

| Module | What it is |
|---|---|
| `BtcRelay` | the relay: one action per instruction that changes state |
| `HeaviestChain` | abstract: one main chain and branches, the heaviest wins |
| `InductionLemmas` | induction over positions of a vector and over finite sets: iteration, quotients and powers, sums over accounts |
| `BtcRelay_proofs` | the inductive invariant and the theorems about the relay |
| `RelayChain_proofs` | the relay implements `HeaviestChain`; the ring stays complete |
| `MCBtcRelay` | instances of the relay |
| `U256` | `arrayutils.rs` and the encodings of targets of `utils.rs`, on arrays of digits |
| `BlockHeaders` | `verify_header`: one committed header after the other |
| `BitcoinHeaders` | abstract: Bitcoin's rules on integers and the whole chain |
| `BlockHeaders_proofs` | the header rules implement `BitcoinHeaders`, digit by digit |
| `MCBlockHeaders` | instances of the header rules |
| `Merkle` | `compute_merkle`, and Bitcoin's tree as a reference |
| `BtcTx` | `btctx.rs` and the nonce of `claim.rs`, and Bitcoin's serialization |
| `TxInclusion` | blocks put together transaction by transaction, what parser and proofs say of each |
| `TxInclusion_proofs` | the parser is faithful, proofs are complete and sound, the nonce is unique |
| `MCTxInclusion` | transactions at the boundaries of the parser |
| `SwapProgram` | the swap program: one action per instruction, transactions, fairness |
| `Instructions` | what a transaction's instruction 0 may be, and hashes |
| `AtomicSwap` | abstract: deals settled once, in full, to payee or payer, who may have named a dead account |
| `SwapAtomic` | the refinement mapping from `SwapProgram` to `AtomicSwap` |
| `SwapProgram_proofs` | solvency, conservation, reputation and the accounts of the swap program |
| `SwapAtomic_proofs` | the swap program implements `AtomicSwap` |
| `MCSwapProgram` | instances of the swap program |
| `SwapOverRelay` | both programs in one state: `BtcRelay` and `SwapProgram` extended, their steps interleaved |
| `SwapOverRelay_proofs` | settlement follows the relay, paid swaps can be claimed |
| `MCSwapOverRelay` | an instance of both |

`BtcRelay` takes the headers that pass `verify_header`, and their work, as
constants; `BlockHeaders` says what these are. `SwapProgram` leaves open which
instructions of the relay succeed, and what a parsed transaction is;
`SwapOverRelay` fills in the first, `TxInclusion` the second. The properties of a
component are at the end of its module, with the `INSTANCE` of the abstract
specification that it implements: `HeaviestChain` in `BtcRelay`,
`BitcoinHeaders` in `BlockHeaders`, `AtomicSwap` in `SwapAtomic`.

### BtcRelay

`main_state` and `fork_state` are the accounts, field by field, without the
fields that are only written (`total_blocks`, `tip_block_hash`,
`last_diff_adjustment` of `MainState`) and without rent. A block hash is the
path of the block from the checkpoint, so that the previous-hash link is
`Front`; the commitment of a committed header is the header. `Header` is the
set of headers that pass `verify_header`, as a tree over the checkpoint, and
`ChainWork` their accumulated work: any tree and any positive difficulties.
`Candidate` holds the committed headers that callers pass, forged ones too.

Actions: `SubmitBlockHeaders`, `SubmitShortForkHeaders`, `OpenFork` and
`ExtendFork` (`submit_fork_headers` with and without `init`, sharing
`AppendToFork`), `CloseForkAccount`. `VerifyTransaction` is a predicate.

### SwapProgram

Accounts are functions: `ata` (token accounts of wallets), `vault` per mint,
`user_data` and `escrow_state` (partial: the accounts that exist), `data`
accounts and `lamports` of everything. `signed` holds the refund messages that
claimers have signed and `now` is the clock. `ix0` is instruction 0 of the
running transaction, which `verify_tx_ix`, `verify_blockheight_ix` and
`verify_ed25519_ix` look up; a transaction is all that happens from one
`BeginTransaction` to the next, so that it may hold several instructions, in any
order, after one check. `opened` counts
openings: it bounds the model and is what reputation is compared with.

Every instruction of `lib.rs` is the action of its name. An action contains the
constraints of its `Accounts` struct, the checks of `ixs/`, all balance changes
and the writing back of accounts at the end: `RefundUserData` models that one
account passed under two names is loaded twice and written twice, and
`PaySecurityDeposit` that both balances are read before either is written
(`Balanced` is the runtime's own check). Additions wrap at `U64`, because the
release profile of the swaps workspace does not enable overflow checks; for the
same reason a `WriteData` may wrap around and land on the owner of the account.

`VaultAuthority` owns the vaults. `TokenOwner` is who a withdrawal or a claim may
be paid to: `signer_ata` and `claimer_ata` are constrained by their mint only
(`instructions.rs:60-64`, `161-164`, `213-216`), so that the vault itself can be
named. Then `FromVault` changes nothing, as a transfer from an account to itself
does not, while the balance is debited or the escrow closed; the amount stays in
the vault and nobody is owed it. `Slack` is what the vault holds beyond what it
owes. `AtomicSwap` has `Dead` accounts for this, and in `SwapAtomic` the account of
the vault authority holds the `Slack`.

Simplifications: one token account per wallet and mint, never closed; hashes
injective; the input of a claim is a preimage or a transaction with an output;
a write to a data account completes an input or leaves garbage; an instruction
that fails undoes nothing, since the transaction that ends before it has the
same effect as the steps that would be undone. Events, fees and the rent of
accounts that are never closed are left out.

### U256 and BlockHeaders

Numbers are arrays of `BYTES` digits to the base `BASE`, as in the code; each
loop is a recursive function of the position, carrying `remainder`. What aborts
(underflow, an index out of bounds, division by zero: the relay's workspace
enables overflow checks) is a predicate that ends in `Defined`, and a conjunct
of `HeaderPasses`. `BlockHeaders` keeps `last`, the committed header, and beside
it `chain`, the headers it stands for, as Bitcoin sees them: `VerifyHeader` reads
the first only. `BitcoinHeaders` is stated on `chain` alone, with integers and a
median taken from a sorted sequence, and never mentions digits.

### Merkle, BtcTx and TxInclusion

Hashes are symbolic: the hash of some bytes is a record of them. A transaction
is a sequence of digits, an inner node a pair of hashes, and `AsNode` says which
sequences of digits are the same bytes as a pair of hashes: `HashOf` gives these
the hash of the node. So the bytes of an inner node may be sent to the parser as
a transaction, and a transaction of 64 bytes in a block may be read as a node with
something below it that the block does not hold. `VerifyTransaction` follows the parser with its one
running offset, over base 8 and fields of 1, 2 and 3 digits in the instance.
`Shifted` is the index that `compute_merkle` shifts by one bit a level. The
state of `TxInclusion` is a block that grows by one transaction a step; what
may be in one (`TransactionAssumption`) is anything Bitcoin's format can hold:
at least one input, fields within their widths, lengths within a u64.

### SwapOverRelay

`RelayStep` and `SwapStep` interleave freely, also within a transaction; when a
transaction begins, its instruction 0 must be one that the relay accepts in its
present state. `Included` says which block holds which transaction: the same one
may be in blocks of two forks. `begun` remembers the relay as the transaction
met it, for the property only.

## 3. What is checked

| Run | Instance | Shows |
|---|---|---|
| `relay_safety` | ring of 3, blocks of difficulty 1 and 2 up to 4 above a checkpoint at height 3, 2 headers a transaction, 2 signers, 2 fork ids, forged headers | type invariant, genuine commitments, ring shape, forks are branches and not heavier, unique ids, real confirmations; the window of readable headers is damaged only by merging a stale fork; refinement of `HeaviestChain` |
| `headers` | 7 digits to the base 4, an adjustment every 4 headers, median of 3, four first targets from the largest to the smallest, four first orders of times, two adjustments | refinement of `BitcoinHeaders`; the relay accepts all Bitcoin accepts but after a period that goes back; the context of a committed header is right; work is the sum of true quotients |
| `inclusion` | 5 transactions in blocks of up to 5: lengths at each width of integer, one as long as an inner node, one with inputs that disagree, one locked to a height; the transaction of 64 bytes is the node of two others, in a block with them or without; made-up proofs of up to 2 hashes of the tree and of that node | the parser reads back what was serialized and nothing with witnesses; every transaction has a proof, also in trees that are not full; what else is accepted and reaches the root lies below a 64-byte transaction of the block, and no inner node passes; a nonce has one lock time and sequence |
| `swap_tokens` | 2 wallets that also swap with themselves; an internal and a pay-out Lightning swap with one hash, a pay-in on-chain swap | solvency, accounts needed for settlement exist, reputation counts each swap once, tokens get lost only in refunds of self-swaps and when the vault itself is to be paid |
| `swap_atomic` | 4 kinds of swap, two transactions, 2 different wallets; instructions 0 that fit, and that fit all but one field | refinement of `AtomicSwap`; tokens get lost only when the vault itself is to be paid |
| `swap_lamports` | deposits and bounties of 0, 1, 3 against a rent of 2, donations, a data account; expiry by time and by height | escrows hold what they may have to pay; every escrow ends |
| `swap_over_relay` | ring of 3, one difficulty, 4 blocks above the checkpoint, one fork; a payment in one block or, on the other fork, in a later one; swaps for 1 and 2 confirmations, paid by output and by id | settlement follows the main chain at the beginning of the transaction; a paid swap can be claimed until the ring forgets; the last 3 headers can be read back |

The bounds reach the interesting cases: a ring of 3 wraps with depth 4 and has
a first, inner and last slot; two difficulties are what makes a shorter chain
heavier; two fork ids let one fork overtake another. Times in `headers` lie
below, inside and above the limits of a period, and go back; the largest target
has its top bit set, so that its compact form is rounded. A block of 5
transactions has two levels with an odd hash. In the swap runs a hash can be
opened, settled and reopened, deposit and bounty lie below, at and above the
rent, and time and relay height pass every expiry. `MaxSwaps`, `RelayIx`,
`Timestamp`, `Clock`, `Donor`, `MaxDepth`, `MaxHeaders`, `MaxForks`, `MaxHeight`,
`Offered`, `MaxBlock` and `MaxProof` are bounds of the models, not of the
programs. Deadlock is not checked: the bounded instances stop.

`ClaimWindowOpen` is about MAX_CONFIRMATIONS being below the capacity of the
ring by a margin (50 of 250 in the code, 1 of 3 in the instance): the number of
blocks a claimer has. It needs one difficulty, because a heavier chain may
otherwise be a lower one, which is finding 2.

**Fairness** (`FairSpec`, used by `swap_lamports`): the clock advances (weak
fairness of `Tick`); for an expiry by height a transaction that begins with the
relay's `block_height` goes through again and again (weak fairness of
`BeginTimeoutRefund`: Bitcoin grows past every height, whatever reorganizations
there are in between); and the offerer of an expired escrow keeps submitting a
refund (strong fairness of `TimeoutRefund`, since it is possible only inside
such a transaction). Nothing is assumed of claimers. `EscrowsEnd` then says
that the program never stands in the way.

**Disagreements found.** Each is a run that TLC must find violated.

1. `relay_stale_fork`: a fork opened on a block that later leaves the main
   chain is still merged, without its ancestors; headers of the abandoned chain
   stay readable and transactions in them verify (`lib.rs:312`, `state.rs:88`).
2. `relay_lowered_tip`: a heavier fork with fewer blocks can move the tip out
   of the ring; the failed store is ignored and the chain cannot be extended
   any more from its tip (`lib.rs:314`). At real difficulties this takes a
   fork over a difficulty change with a tip just past the wrap.
3. `headers_backwards_time`: if the last header of a period has an earlier time
   than its first, which the median rule allows, the subtraction in
   `compute_new_nbits` aborts before the limits apply, and the relay accepts no
   header of the next period any more (`utils.rs:215`).
4. `swap_self_refund`: the refund of a swap of a wallet with itself is lost in
   the vault (`lib.rs:183`).
5. `swap_self_deposit`: such a swap with a security deposit cannot be refunded
   after its expiry (`ixs/refund.rs:113`).

Without a run of their own:

- `get_commitment` underflows while the tip is below height 250 (`state.rs:56`),
  so that a relay initialised there can never be extended, although `lib.rs:22`
  allows "any past blockheader". `BtcRelay` has the guard.
- A claim succeeds after the expiry, as long as nobody has refunded the escrow
  (`ixs/claim.rs:58` never looks at it), while `swaps/README.md:20` asks for the
  secret "in under locktime T". `SwapProgram` allows it, and `ImplementsAtomicSwap`
  accepts it.
- A refund message signed for one escrow also closes one that is reopened with the
  same data before the message expires, since no instruction keeps a sequence from
  being used again (`ixs/refund.rs:63`), while `structs.rs:27` says that it
  "Uniquely identifies this swap PDA". `ImplementsAtomicSwap` takes the message as a
  consent to these terms under this sequence.

## 4. What is proved

Every safety property of a passing run is a theorem, for every value of the
constants, and so are the three refinements. Assumptions are named in the
module that declares the constants; a few theorems have a hypothesis of their
own.

| Theorem | Property | Extra hypothesis |
|---|---|---|
| `TypeCorrect`, `CommitmentsStayGenuine`, `RingStaysInShape`, `ForksStayBranches`, `HeaviestIsMain`, `ForkIdsStayUnique`, `ConfirmationsAreReal` | the invariants of `relay_safety` | |
| `OnlyStaleMergesHurt`, `FreshRelayIsSound` | the window follows the ancestry of the tip, but for merges of stale forks | |
| `RelayFollowsHeaviestChain` | the relay implements `HeaviestChain` | |
| `WindowStaysComplete`, `TipStaysRetrievable` | the last headers, and the tip, can be read back | `HeavierIsLonger`; for the tip a checkpoint at `PRUNING_FACTOR` or above |
| `RelayImplementsBitcoin`, `RelayAcceptsBitcoin` | the header rules and `BitcoinHeaders`, in both directions | |
| `HeadersTyped`, `ContextFollowsChain`, `WorkIsTheSum` | the committed header and its chain | |
| `RelayAcceptsTransactions`, `OnlyPaymentsPass` | proofs of inclusion: complete, and sound but for what lies below 64-byte transactions | |
| `ParserIsFaithful`, `NonceIsUnique` | the parser and the nonce | |
| `SwapTypeCorrect`, `SettlementAccountsStay`, `EscrowsStayFunded`, `VaultStaysSolvent`, `TokensAreConserved`, `ReputationsCount` | the invariants of the swap program | |
| `LossesAccounted` | tokens get lost only in refunds of self-swaps and when the vault itself is to be paid, by that amount | |
| `NothingLostBetweenTwo`, `SwapIsAtomic` | tokens get lost only when the vault itself is to be paid; refinement of `AtomicSwap` | no wallet swaps with itself |
| `BitcoinSettlesSwaps` | settlement follows the main chain of the relay | no wallet swaps with itself |
| `PaidSwapsCanBeClaimed` | a paid swap can be claimed | `HeavierIsLonger`, `CallersKnowTheChain` |

**Assumptions and why the code justifies them.**

- Relay: the headers that pass `verify_header` form a tree and each adds work.
  That they add work is `WorkIsTheSum`; a header has one parent because its hash
  covers the hash of it.
- `HeavierIsLonger` says that of two chains the heavier one has more blocks. It
  holds within a period of one difficulty and can fail across an adjustment:
  finding 2 is what happens then, so the hypothesis cannot be dropped. A tip
  below `PRUNING_FACTOR` cannot be read back at all (section 3, the underflow).
- `HeaderRuleAssumption`, `LeadingAssumption` and `DigitAssumption`: the interval,
  the timespan and the number of past times are positive, a multiple of 4, and
  even; the largest target has as many leading zeros (4 bytes) as four times the
  timespan and any height, both u32, need. `FirstChainAssumption`: the checkpoint
  is a header of Bitcoin with enough of them before it.
- `WidthAssumption`: an u64 is at least as long as two u32 but for one byte; the
  two limits are u32. `TransactionAssumption`: fields and lengths within their
  widths and at least one input, as Bitcoin requires.
- `SupplyFits`: all tokens of a mint fit an u64, as the token program ensures.
  `Arguments`, `RelayInstructions`, `SwapData`: arguments are unsigned.
  `Addresses`: program accounts are not wallets, and neither is the authority of
  the vaults, which is a program address.
- `AsNodeAssumption`: `AsNode` is on bytes of the length of two hashes, and two
  sequences of bytes are not the same two hashes. It says nothing of which bytes
  these are: they may be transactions of the block or not.
- "No wallet swaps with itself" excludes finding 4, in which the vault keeps
  what nobody is owed. Solvency and `LossesAccounted` do not need it.
- `CallersKnowTheChain`: the claimer can bring the committed header of a block of
  the chain, which the relay publishes when it is submitted.

**Arguments.**

*Relay.* `IInv` is the conjunction of the invariants with two additions: the
blocks of a fork account are headers, and the first one is built on the block
that is its base. `StoreBlockCommitments` is a loop, so `StoreAll` describes its
result by induction on the number of blocks stored: which slots hold which
block, and how far `start_height` moved; a loop that never skips needs its first
height to be at most one round ahead, which is why `RingShape` has the two upper
bounds. `VerifyAll` does the same for header vectors. Soundness of the window is
not inductive: `SoundAt` restates it for slots, `SoundWindow` shows that extending
a sound window from a block in it keeps it sound, and `OnlyStaleMergesHurt`
splits the steps by where their base is. Relays that start below the capacity
cannot move at all (`Stuck`) and are a case of their own. Completeness of the
window (`Complete`) is inductive together with `IInv` only if tips never get
lower. For `HeaviestChain`, each instruction advances the main chain
(`AdvanceIsHeavier`), makes a branch grow, or both at once.

*Swap program.* `Base` is the inductive invariant of types: no balance wraps,
and an open escrow has its accounts and lamports. Solvency compares sums over
accounts: `Solvent` adds that tokens are conserved (`Conserved`), without which no
addition could be shown not to wrap, and `SlackStep` shows that what the vault
holds beyond what it owes changes in self-refunds and in payments to the vault
only, by their amounts. `InductionLemmas` proves what a change
of one or two terms does to a sum. Reputation is the same argument about
counters. For `AtomicSwap`, `Atomic` adds to `Solvent` that an escrow paid in
by the offerer refunds to the offerer's account and that a refund message
claimed as signed was signed; then every instruction is a transfer, an opening
or one settlement. Together with the relay, `RelayChecked` says that
instruction 0 was true of the relay as the transaction met it.

*Header rules.* The loops of `U256` are followed digit by digit with the number
that the digits so far stand for: carries for addition, a remainder below the
divisor for division. So each operator is the integer operation where it does not
abort, the next target is Bitcoin's (`RetargetIs`) including the rounding of the
compact form, and the median is found by counting (`CountIs`: of the past times,
as many lie below a header's as the code counts). `HeaderInv` says that the
committed header is in step with its chain. `WorkInv` adds that the work so far
is at most the number of headers times the largest difficulty, which cannot
overflow up to `MaxHeight`.

*Inclusion.* `IsBlock` is all that is needed of the block; the rest is about the
operators. A path with the neighbours of a transaction is on each level at the
index shifted so far, which is within the width of the level, hence at the root
at the end. A path that ends in the tree has always been in it, downwards: a
hash of the tree is the hash of a pair on the level below, or of a transaction,
and one of these whose bytes are a pair of hashes is where the path leaves the
tree (`PathWithin`). The start of a path that stays in it is an inner node, whose
bytes the parser refuses for their length, or a transaction. For the parser, each part of the
serialization is at an offset (`At`), and the readers give it back with the
offset after it, by induction over the items. The nonce keeps sequence and lock
time in separate digits: modulo 2^64 the shifted lock time is the shift of the
lock time modulo 2^40, and two u32 that agree modulo 2^40 are equal.

**Only model-checked**: `EscrowsEnd`, a liveness property under fairness, which
is outside what the prover can do; and that the five disagreements are there.

## 5. Not modelled

- Events and error codes: nothing reads them.
- The feature `bitcoin_testnet` of the relay, which drops the check of the
  target, and `mocked`, which makes its checks succeed: test builds.
- The topic accounts passed with headers, which are an index for readers.
- Byte layouts of the instructions that `utils/btcrelay.rs` and
  `utils/signature.rs` look up: each is a record of the fields it carries.
- Collisions of hashes: they are symbolic. In `BtcTx`, lengths near 2^64, at which
  the offset wraps around.
- TypeScript clients, tests and deployment scripts, and `btcrelay/utils`
  (`txutils.rs`, `txverify.rs`): earlier copies of `btctx.rs` and of
  `verify_tx_ix` that lie outside both workspaces and are built into no program.

## 6. Plan

Done in this order: `BtcRelay`, its proofs, `SwapProgram`, `AtomicSwap`,
`U256` and `BlockHeaders`, transactions of several instructions, `SwapOverRelay`,
`Merkle`, `BtcTx` and `TxInclusion`, then the proofs about the swap program, the
two refinements, both programs together, the header rules and inclusion. Every
safety property of a passing run is now a theorem. Left, all of it proof:

1. The safety half of `EscrowsEnd`: in a transaction that begins with the right
   check, nothing in `offerer_refund` can refuse an expired escrow, stated by the
   guards of the instruction instead of ENABLED, for every escrow but those of
   finding 5.
2. The assumptions of `BtcRelay` on headers and work, from the theorems about
   `BlockHeaders`: the chains that `VerifyHeader` builds form a tree, and
   `WorkIsTheSum` makes work grow along it.
3. `FreshRelayIsSound` for both programs together: without the merge of a stale
   fork, a claim is paid for a block on the main chain only.
