---------------------------- MODULE SwapProgram ----------------------------
(***************************************************************************)
(* The swap program (swaps/programs/swap-program): escrows that are        *)
(* claimed with the preimage of a hash (Lightning) or with a Bitcoin       *)
(* transaction that the btc-relay verifies, and refunded after an expiry   *)
(* or with the claimer's signature.  The tokens sit in one vault per mint  *)
(* and are owed to user accounts and to open escrows.                      *)
(*                                                                         *)
(* Every action but those of the last group is one instruction; one that   *)
(* fails changes nothing and is not enabled.  A transaction is what runs   *)
(* from one BeginTransaction to the next: its instruction 0, which others  *)
(* of the transaction look up, and any number of instructions of this      *)
(* program.  Whatever it did before an instruction that fails, a shorter   *)
(* transaction does, so that the undoing of a failed one is not modelled.  *)
(* A program-derived account is named by its seeds: a user account by      *)
(* owner and mint, an escrow by its hash, a vault by its mint.  A token    *)
(* account is named by its owner and mint: a wallet has one per mint, and  *)
(* the vault of a mint is the one of the program's vault authority.        *)
(* Left out: events, transaction fees, token transfers that the program    *)
(* does not make (into a vault they only add to it), and the rent of user  *)
(* and vault accounts, which are never closed.                             *)
(***************************************************************************)
EXTENDS Instructions, Integers, FiniteSets, FiniteSetsExt, Functions

CONSTANTS
  Wallet, Mint,
  VaultAuthority,   \* the address that owns the vaults
  Party,            \* <<offerer, claimer>> pairs that sign a swap together
  Donor,            \* bound: wallets that send lamports to escrow addresses
  Swap,             \* the SwapData that callers pass
  Amount,           \* token amounts that are deposited and withdrawn
  Lamport,          \* security deposits and claimer bounties that are passed
  Secret,           \* Lightning preimages
  Tx,               \* Bitcoin transactions: [txid, nonce, outputs]
  DataAccount,      \* addresses of data accounts
  RelayIx,          \* bound: instructions of the relay that transactions begin with
  Timestamp,        \* bound: UNIX times
  MaxSwaps,         \* bound: swaps opened per claimer and mint
  BLOCKHEIGHT_EXPIRY_THRESHOLD, MAX_CONFIRMATIONS,
  RENT,             \* rent-exempt minimum of an escrow and of a data account
  U64,              \* 2^64
  InitialTokens,    \* token balance of every wallet
  InitialLamports,
  None              \* an account that is not passed, a field that is not set

SwapType == {"Htlc", "Chain", "ChainNonced", "ChainTxhash"}
Outcome == {"success", "fail", "coop_close"}

Owner == Wallet \X Mint
TokenOwner == Wallet \cup {VaultAuthority}
TokenAccount == TokenOwner \X Mint
Hash == {d.hash : d \in Swap}
Txid == {tx.txid : tx \in Tx}
LamportAccount == Wallet \cup Hash \cup DataAccount

\* The input of a claim: a preimage, a transaction with one of its outputs, or
\* bytes that are neither.
TxOutput == UNION {{tx} \X tx.outputs : tx \in Tx}
Witness == Secret \cup TxOutput \cup {None}

\* The tokens in existence fit a u64, and so do the swaps that are opened.
ASSUME SupplyFits ==
  /\ InitialTokens \in Nat /\ U64 \in Nat /\ MaxSwaps \in Nat
  /\ IsFiniteSet(Wallet)
  /\ InitialTokens * Cardinality(Wallet) < U64 /\ MaxSwaps < U64

\* Arguments of the callers, unsigned in the code.
ASSUME Arguments ==
  /\ Party \subseteq Wallet \X Wallet /\ Donor \subseteq Wallet
  /\ Amount \subseteq Nat /\ Lamport \subseteq Nat
  /\ RENT \in Nat /\ InitialLamports \in Nat /\ BLOCKHEIGHT_EXPIRY_THRESHOLD \in Nat
  /\ Timestamp \subseteq Nat /\ Timestamp # {}

\* An account of the program is none of the system program's.
ASSUME Addresses ==
  /\ Wallet \cap Hash = {} /\ Wallet \cap DataAccount = {} /\ Hash \cap DataAccount = {}
  /\ None \notin Wallet \cup DataAccount
  /\ VaultAuthority \notin Wallet \cup {None}

\* Arguments of the relay, unsigned too.
ASSUME RelayInstructions ==
  \A ix \in RelayIx :
    /\ ix.program = "BtcRelay"
    /\ \/ ix.ix = "verify_transaction" /\ ix.confirmations \in Nat
       \/ ix.ix = "block_height" /\ {ix.value, ix.operation} \subseteq Nat

ASSUME SwapData ==
  \A d \in Swap :
    /\ d.kind \in SwapType /\ {d.pay_in, d.pay_out} \subseteq BOOLEAN
    /\ {d.confirmations, d.nonce, d.amount, d.expiry, d.sequence} \subseteq Nat
    /\ d.kind = "ChainTxhash" => d.hash \in Txid

VARIABLES
  now,         \* the clock sysvar
  ix0,         \* instruction 0 of the transaction, as its sysvar shows it
  signed,      \* refund messages that claimers have signed, with the claimer
  ata,         \* token accounts of wallets
  vault,       \* token account of the program, per mint
  user_data,   \* user accounts that exist
  escrow_state,\* escrows that are open, by hash
  data,        \* data accounts that exist
  lamports,    \* of wallets, escrows and data accounts
  opened       \* swaps opened per claimer and mint whose payout is internal

tokens == <<ata, vault>>
outside == <<now, ix0, signed>>
swapVars == <<now, ix0, signed, ata, vault, user_data, escrow_state, data, lamports, opened>>

-----------------------------------------------------------------------------
(* Looking up instruction 0 (utils/btcrelay.rs, utils/signature.rs).       *)

\* Mutant: the transaction id is not compared.
VerifyTxIxAnyTxid(txid, confirmations) ==
  ix0 \in {VerifyTransactionIx(t, confirmations) : t \in Txid}

\* The same number of confirmations, not at least as many.
VerifyTxIx(txid, confirmations) == ix0 = VerifyTransactionIx(txid, confirmations)

\* Mutant: the operator is not compared.
VerifyBlockheightIxAnyOperation(blockheight, operation) ==
  \E o \in 0 .. 4 : ix0 = BlockHeightIx(blockheight, o)

VerifyBlockheightIx(blockheight, operation) == ix0 = BlockHeightIx(blockheight, operation)

VerifyEd25519Ix(pubkey, msg) == ix0 = Ed25519Ix(pubkey, msg)

-----------------------------------------------------------------------------
(* Accounts and balances.                                                  *)

\* u64 addition: the release profile of this workspace does not check it.
Plus(a, b) == (a + b) % U64
SaturatingAdd(a, b) == Min({a + b, U64 - 1})

With(f, k, v) == [x \in DOMAIN f \cup {k} |-> IF x = k THEN v ELSE f[x]]
Without(f, k) == Restrict(f, DOMAIN f \ {k})

Move(balance, from, to, amount) ==
  [[balance EXCEPT ![from] = @ - amount] EXCEPT ![to] = @ + amount]

NewUserData ==
  [amount |-> 0, reputation |-> [r \in Outcome \X SwapType |-> [volume |-> 0, count |-> 0]]]

UserData(o) == IF o \in DOMAIN user_data THEN user_data[o] ELSE NewUserData

Credit(user, amount) == [user EXCEPT !.amount = Plus(@, amount)]
\* Mutant of Debit: the balance is only checked.
DebitNothing(user, amount) == user

Debit(user, amount) == [user EXCEPT !.amount = @ - amount]

\* Mutant of Record: cooperative closes are not counted.
RecordNoCoopClose(user, outcome, d) ==
  IF outcome = "coop_close" THEN user
  ELSE [user EXCEPT !.reputation[<<outcome, d.kind>>] =
          [volume |-> SaturatingAdd(@.volume, d.amount), count |-> SaturatingAdd(@.count, 1)]]

Record(user, outcome, d) ==
  [user EXCEPT !.reputation[<<outcome, d.kind>>] =
     [volume |-> SaturatingAdd(@.volume, d.amount), count |-> SaturatingAdd(@.count, 1)]]

ToVault(o, amount) ==
  /\ ata[o] >= amount
  /\ ata' = [ata EXCEPT ![o] = @ - amount]
  /\ vault' = [vault EXCEPT ![o[2]] = Plus(@, amount)]

\* To a token account of the mint.  From the vault to itself nothing moves.
FromVault(o, amount) ==
  /\ vault[o[2]] >= amount
  /\ IF o[1] = VaultAuthority THEN UNCHANGED tokens
     ELSE /\ vault' = [vault EXCEPT ![o[2]] = @ - amount]
          /\ ata' = [ata EXCEPT ![o] = Plus(@, amount)]

Initializer(e) == IF e.data.pay_in THEN e.offerer ELSE e.claimer

OffererAccount(e) == <<e.offerer, e.mint>>
ClaimerAccount(e) == <<e.claimer, e.mint>>

SwapInit ==
  /\ now = Min(Timestamp)
  /\ ix0 = OtherIx
  /\ signed = {}
  /\ ata = [o \in Owner |-> InitialTokens]
  /\ vault = [m \in Mint |-> 0]
  /\ user_data = << >> /\ escrow_state = << >> /\ data = << >>
  /\ lamports = [a \in LamportAccount |-> IF a \in Wallet THEN InitialLamports ELSE 0]
  /\ opened = [o \in Owner |-> 0]

-----------------------------------------------------------------------------
(* Vault balances of users.                                                *)

Deposit(o, amount) ==
  /\ ToVault(o, amount)
  /\ user_data' = With(user_data, o, Credit(UserData(o), amount))
  /\ UNCHANGED <<outside, escrow_state, data, lamports, opened>>

\* Mutant of Withdraw: without the constraint on the user's balance.
WithdrawUnchecked(o, amount, receiver) ==
  /\ o \in DOMAIN user_data
  /\ FromVault(<<receiver, o[2]>>, amount)
  /\ user_data' = [user_data EXCEPT ![o] = Debit(@, amount)]
  /\ UNCHANGED <<outside, escrow_state, data, lamports, opened>>

\* To any token account of the mint, the vault among them.
Withdraw(o, amount, receiver) ==
  /\ o \in DOMAIN user_data
  /\ user_data[o].amount >= amount
  /\ FromVault(<<receiver, o[2]>>, amount)
  /\ user_data' = [user_data EXCEPT ![o] = Debit(@, amount)]
  /\ UNCHANGED <<outside, escrow_state, data, lamports, opened>>

-----------------------------------------------------------------------------
(* Opening an escrow.                                                      *)

\* Mutant of MayInitialize: the account to pay out to is not asked for.
MayInitializeNoRecipient(claimer, m, d, claimer_ata, auth_expiry) ==
  /\ d.hash \notin DOMAIN escrow_state
  /\ auth_expiry > now
  /\ d.confirmations <= MAX_CONFIRMATIONS
  /\ d.kind # "ChainNonced" => d.nonce = 0

\* Checks of the accounts and of process_initialize.  claimer_ata is None or
\* the owner of the token account that is passed, whose mint is all that is
\* checked.
MayInitialize(claimer, m, d, claimer_ata, auth_expiry) ==
  /\ d.hash \notin DOMAIN escrow_state
  /\ IF d.pay_out THEN claimer_ata # None ELSE <<claimer, m>> \in DOMAIN user_data
  /\ auth_expiry > now
  /\ d.confirmations <= MAX_CONFIRMATIONS
  /\ d.kind # "ChainNonced" => d.nonce = 0

NewEscrow(offerer, claimer, m, d, claimer_ata) ==
  [data |-> d, offerer |-> offerer, claimer |-> claimer, mint |-> m, offerer_ata |-> None,
   claimer_ata |-> IF d.pay_out THEN claimer_ata ELSE None,
   claimer_bounty |-> 0, security_deposit |-> 0]

\* Mutant of TopUp: an account that holds lamports is taken to hold enough.
TopUpIfEmpty(payer, h, required) ==
  LET difference == IF lamports[h] = 0 THEN required ELSE 0
  IN  /\ lamports[payer] >= difference
      /\ lamports' = Move(lamports, payer, h, difference)

\* The payer brings the account of the escrow to at least this balance.
TopUp(payer, h, required) ==
  LET difference == Max({0, required - lamports[h]})
  IN  /\ lamports[payer] >= difference
      /\ lamports' = Move(lamports, payer, h, difference)

CountOpened(claimer, m, d) ==
  IF d.pay_out THEN UNCHANGED opened
  ELSE /\ opened[<<claimer, m>>] < MaxSwaps
       /\ opened' = [opened EXCEPT ![<<claimer, m>>] = @ + 1]

OffererInitializePayIn(offerer, claimer, m, d, claimer_ata, auth_expiry) ==
  /\ d.pay_in
  /\ MayInitialize(claimer, m, d, claimer_ata, auth_expiry)
  /\ ToVault(<<offerer, m>>, d.amount)
  /\ TopUp(offerer, d.hash, RENT)
  /\ escrow_state' = With(escrow_state, d.hash,
       [NewEscrow(offerer, claimer, m, d, claimer_ata) EXCEPT !.offerer_ata = offerer])
  /\ CountOpened(claimer, m, d)
  /\ UNCHANGED <<outside, user_data, data>>

OffererInitialize(offerer, claimer, m, d, claimer_ata, auth_expiry, security_deposit, claimer_bounty) ==
  /\ ~ d.pay_in
  /\ MayInitialize(claimer, m, d, claimer_ata, auth_expiry)
  /\ <<offerer, m>> \in DOMAIN user_data
  /\ user_data[<<offerer, m>>].amount >= d.amount
  /\ TopUp(claimer, d.hash, Max({RENT, security_deposit, claimer_bounty}))
  /\ escrow_state' = With(escrow_state, d.hash,
       [NewEscrow(offerer, claimer, m, d, claimer_ata) EXCEPT
          !.security_deposit = security_deposit, !.claimer_bounty = claimer_bounty])
  /\ user_data' = [user_data EXCEPT ![<<offerer, m>>] = Debit(@, d.amount)]
  /\ CountOpened(claimer, m, d)
  /\ UNCHANGED <<outside, tokens, data>>

-----------------------------------------------------------------------------
(* Refund.                                                                 *)

RefundMessage(e, auth_expiry) ==
  [amount |-> e.data.amount, expiry |-> e.data.expiry,
   sequence |-> e.data.sequence, hash |-> e.data.hash, auth_expiry |-> auth_expiry]

VerifySignature(e, auth_expiry) ==
  auth_expiry > now /\ VerifyEd25519Ix(e.claimer, RefundMessage(e, auth_expiry))

\* An expiry below the threshold is a block height of the relay, which has to
\* be above it (operation 2).
VerifyTimeout(e) ==
  IF e.data.expiry < BLOCKHEIGHT_EXPIRY_THRESHOLD
  THEN VerifyBlockheightIx(e.data.expiry, 2)
  ELSE e.data.expiry < now

\* An auth_expiry of 0 asks for a refund after the expiry.
MayRefund(e, auth_expiry, claimer_passed) ==
  /\ IF auth_expiry > 0 THEN VerifySignature(e, auth_expiry) ELSE VerifyTimeout(e)
  /\ e.data.pay_out \/ claimer_passed
  /\ claimer_passed => ClaimerAccount(e) \in DOMAIN user_data

RefundOutcome(auth_expiry) == IF auth_expiry > 0 THEN "coop_close" ELSE "fail"

\* The claimer's user account after process_refund.
RefundedClaimer(e, auth_expiry) ==
  LET user == user_data[ClaimerAccount(e)]
  IN  IF e.data.pay_out THEN user ELSE Record(user, RefundOutcome(auth_expiry), e.data)

\* The runtime rejects an instruction after which lamports do not add up.
Balanced == SumFunction(lamports') = SumFunction(lamports)

\* Both balances are read before either is written.
PaySecurityDeposit(h, e, is_cooperative) ==
  /\ lamports' =
       IF is_cooperative \/ e.security_deposit = 0
       THEN Move(lamports, h, Initializer(e), lamports[h])
       ELSE [lamports EXCEPT
               ![e.offerer] = lamports[e.offerer] + e.security_deposit,
               ![Initializer(e)] = lamports[Initializer(e)] + lamports[h] - e.security_deposit,
               ![h] = 0]
  /\ Balanced

\* Mutant of RefundUserData: no credit when the claimer's account is passed.
RefundUserDataOneWritten(e, auth_expiry, claimer_passed) ==
  IF claimer_passed
  THEN [user_data EXCEPT ![ClaimerAccount(e)] = RefundedClaimer(e, auth_expiry)]
  ELSE [user_data EXCEPT ![OffererAccount(e)] = Credit(@, e.data.amount)]

\* The accounts are written back in their order: the claimer's copy, when it
\* is passed, after the offerer's, and both were read at the start.
RefundUserData(e, auth_expiry, claimer_passed) ==
  LET offerer == Credit(user_data[OffererAccount(e)], e.data.amount)
  IN  IF claimer_passed
      THEN [user_data EXCEPT ![OffererAccount(e)] = offerer,
                             ![ClaimerAccount(e)] = RefundedClaimer(e, auth_expiry)]
      ELSE [user_data EXCEPT ![OffererAccount(e)] = offerer]

OffererRefund(h, auth_expiry, claimer_passed) ==
  LET e == escrow_state[h] IN
  /\ ~ e.data.pay_in
  /\ OffererAccount(e) \in DOMAIN user_data
  /\ MayRefund(e, auth_expiry, claimer_passed)
  /\ user_data' = RefundUserData(e, auth_expiry, claimer_passed)
  /\ PaySecurityDeposit(h, e, auth_expiry > 0)
  /\ escrow_state' = Without(escrow_state, h)
  /\ UNCHANGED <<outside, tokens, data, opened>>

OffererRefundPayIn(h, auth_expiry, claimer_passed) ==
  LET e == escrow_state[h] IN
  /\ e.data.pay_in
  /\ MayRefund(e, auth_expiry, claimer_passed)
  /\ user_data' = IF claimer_passed
                  THEN [user_data EXCEPT ![ClaimerAccount(e)] = RefundedClaimer(e, auth_expiry)]
                  ELSE user_data
  /\ FromVault(<<e.offerer_ata, e.mint>>, e.data.amount)
  /\ PaySecurityDeposit(h, e, auth_expiry > 0)
  /\ escrow_state' = Without(escrow_state, h)
  /\ UNCHANGED <<outside, data, opened>>

-----------------------------------------------------------------------------
(* Claim.                                                                  *)

CheckClaimHtlc(d, secret) == secret \in Secret /\ Sha256(secret) = d.hash

\* A transaction whose inputs disagree has no nonce.
CheckClaimChain(d, secret) ==
  IF d.kind = "ChainTxhash" THEN VerifyTxIx(d.hash, d.confirmations)
  ELSE /\ secret \in TxOutput
       /\ Sha256(<<d.nonce, secret[2]>>) = d.hash
       /\ d.kind = "ChainNonced" => secret[1].nonce = d.nonce
       /\ VerifyTxIx(secret[1].txid, d.confirmations)

CheckClaim(d, secret) ==
  IF d.kind = "Htlc" THEN CheckClaimHtlc(d, secret) ELSE CheckClaimChain(d, secret)

\* The input comes with the call, or from a data account of the signer that
\* is closed in favour of the signer.
ProcessClaim(signer, d, secret, account) ==
  /\ CheckClaim(d, secret)
  /\ account # None =>
       account \in DOMAIN data /\ data[account] = [owner |-> signer, content |-> secret]
  /\ data' = Without(data, account)

\* The bounty goes to the signer and the rest to the initializer.
PayClaimerBounty(signer, h, e, account) ==
  LET read == IF account = None THEN lamports
              ELSE Move(lamports, account, signer, lamports[account])
      paid == Move(read, h, signer, e.claimer_bounty)
  IN  lamports' = Move(paid, h, Initializer(e), paid[h])

ClaimerClaim(signer, h, secret, account) ==
  LET e == escrow_state[h] IN
  /\ ~ e.data.pay_out
  /\ ClaimerAccount(e) \in DOMAIN user_data
  /\ ProcessClaim(signer, e.data, secret, account)
  /\ user_data' = [user_data EXCEPT ![ClaimerAccount(e)] =
                     Record(Credit(@, e.data.amount), "success", e.data)]
  /\ PayClaimerBounty(signer, h, e, account)
  /\ escrow_state' = Without(escrow_state, h)
  /\ UNCHANGED <<outside, tokens, opened>>

ClaimerClaimPayOut(signer, h, secret, account) ==
  LET e == escrow_state[h] IN
  /\ e.data.pay_out
  /\ ProcessClaim(signer, e.data, secret, account)
  /\ FromVault(<<e.claimer_ata, e.mint>>, e.data.amount)
  /\ PayClaimerBounty(signer, h, e, account)
  /\ escrow_state' = Without(escrow_state, h)
  /\ UNCHANGED <<outside, user_data, opened>>

-----------------------------------------------------------------------------
(* Data accounts, which carry claim inputs too long for one transaction.   *)

\* The account's own key signs, so that it can be done again.
InitData(signer, a) ==
  /\ a \in DOMAIN data
  /\ data' = [data EXCEPT ![a].owner = signer]
  /\ UNCHANGED <<outside, tokens, user_data, escrow_state, lamports, opened>>

\* A write completes an input, or leaves one that no claim accepts.  Its offset
\* is a u32 that may wrap around, to where the owner is.
WriteData(signer, a, owner, content) ==
  /\ a \in DOMAIN data
  /\ data[a].owner = signer
  /\ data' = [data EXCEPT ![a] = [owner |-> owner, content |-> content]]
  /\ UNCHANGED <<outside, tokens, user_data, escrow_state, lamports, opened>>

CloseData(signer, a) ==
  /\ a \in DOMAIN data
  /\ data[a].owner = signer
  /\ data' = Without(data, a)
  /\ lamports' = Move(lamports, a, signer, lamports[a])
  /\ UNCHANGED <<outside, tokens, user_data, escrow_state, opened>>

-----------------------------------------------------------------------------
(* Outside the program.                                                    *)

\* The clock is the same for all instructions of a transaction.
Tick ==
  /\ \E t \in Timestamp : t > now /\ now' = t
  /\ ix0' = OtherIx
  /\ UNCHANGED <<signed, tokens, user_data, escrow_state, data, lamports, opened>>

\* A transaction whose instruction 0 passes: what the relay accepts is open
\* here (SwapOverRelay), and the ed25519 program passes for signatures.
BeginTransaction(ix) ==
  /\ ix0' = ix
  /\ UNCHANGED <<now, signed, tokens, user_data, escrow_state, data, lamports, opened>>

\* Claimers sign with care; all others sign what they are asked for.
Claimer == {p[2] : p \in Party}
Signature ==
  signed \cup {<<w, RefundMessage(escrow_state[h], t)>> :
                 w \in Wallet \ Claimer, h \in DOMAIN escrow_state,
                 t \in {x \in Timestamp : x > now}}

BeginAny ==
  \E ix \in {OtherIx} \cup RelayIx \cup {Ed25519Ix(sig[1], sig[2]) : sig \in Signature} :
    BeginTransaction(ix)

\* The claimer of an open escrow consents to a refund.
SignRefund(h, auth_expiry) ==
  /\ auth_expiry > now
  /\ signed' = signed \cup {<<escrow_state[h].claimer, RefundMessage(escrow_state[h], auth_expiry)>>}
  /\ UNCHANGED <<now, ix0, tokens, user_data, escrow_state, data, lamports, opened>>

\* The system program creates an account that the swap program owns.
CreateData(payer, a) ==
  /\ a \notin DOMAIN data
  /\ TopUp(payer, a, RENT)
  /\ data' = With(data, a, [owner |-> None, content |-> None])
  /\ UNCHANGED <<outside, tokens, user_data, escrow_state, opened>>

\* Anyone may send lamports to the address of an escrow, open or not.
Donate(payer, h) ==
  /\ lamports[payer] > 0
  /\ lamports' = Move(lamports, payer, h, 1)
  /\ UNCHANGED <<outside, tokens, user_data, escrow_state, data, opened>>

-----------------------------------------------------------------------------
InitializeAny ==
  \E p \in Party, m \in Mint, d \in Swap, claimer_ata \in TokenOwner \cup {None}, t \in Timestamp :
    \/ OffererInitializePayIn(p[1], p[2], m, d, claimer_ata, t)
    \/ \E security_deposit, claimer_bounty \in Lamport :
         OffererInitialize(p[1], p[2], m, d, claimer_ata, t, security_deposit, claimer_bounty)

RefundOf(h) ==
  \E auth_expiry \in {0} \cup Timestamp, claimer_passed \in BOOLEAN :
    \/ OffererRefund(h, auth_expiry, claimer_passed)
    \/ OffererRefundPayIn(h, auth_expiry, claimer_passed)

ClaimOf(h) ==
  \E signer \in Wallet, secret \in Witness, account \in DataAccount \cup {None} :
    \/ ClaimerClaim(signer, h, secret, account)
    \/ ClaimerClaimPayOut(signer, h, secret, account)

DataNext ==
  \E w \in Wallet, a \in DataAccount :
    \/ CreateData(w, a)
    \/ InitData(w, a)
    \/ \E owner \in Wallet \cup {None}, content \in Witness : WriteData(w, a, owner, content)
    \/ CloseData(w, a)

SwapNext ==
  \/ \E o \in Owner, amount \in Amount :
       Deposit(o, amount) \/ \E receiver \in TokenOwner : Withdraw(o, amount, receiver)
  \/ InitializeAny
  \/ \E h \in DOMAIN escrow_state : RefundOf(h) \/ ClaimOf(h)
  \/ DataNext
  \/ Tick \/ BeginAny
  \/ \E h \in DOMAIN escrow_state, t \in Timestamp : SignRefund(h, t)
  \/ \E w \in Donor, h \in Hash : Donate(w, h)

SwapSpec == SwapInit /\ [][SwapNext]_swapVars

\* Time passes, and an offerer who can get a refund after the expiry keeps
\* asking: when it is a height, which the relay's tip passes again and again
\* whatever reorganizations there are, by a transaction that begins with the
\* relay's block_height.
BeginTimeoutRefund(d) == BeginTransaction(BlockHeightIx(d.expiry, 2))

TimeoutRefund(h) ==
  /\ h \in DOMAIN escrow_state
  /\ OffererRefund(h, 0, TRUE) \/ OffererRefund(h, 0, FALSE)
     \/ OffererRefundPayIn(h, 0, TRUE) \/ OffererRefundPayIn(h, 0, FALSE)

FairSpec ==
  /\ SwapSpec
  /\ WF_swapVars(Tick)
  /\ \A d \in Swap : d.expiry < BLOCKHEIGHT_EXPIRY_THRESHOLD => WF_swapVars(BeginTimeoutRefund(d))
  /\ \A h \in Hash : SF_swapVars(TimeoutRefund(h))

-----------------------------------------------------------------------------
(* Properties.                                                             *)

TokenHolding(m) == {o \in DOMAIN user_data : o[2] = m}
EscrowsIn(m) == {h \in DOMAIN escrow_state : escrow_state[h].mint = m}

\* What the program owes in tokens of m.
Owed(m) ==
  SumFunctionOnSet([o \in DOMAIN user_data |-> user_data[o].amount], TokenHolding(m))
  + SumFunctionOnSet([h \in DOMAIN escrow_state |-> escrow_state[h].data.amount], EscrowsIn(m))

SwapTypeOK ==
  /\ now \in Timestamp
  /\ \A sig \in signed : sig[1] \in Claimer
  /\ \/ ix0 \in {OtherIx} \cup RelayIx
     \/ ix0.program = "Ed25519" /\ ix0.pubkey \in Wallet
  /\ ata \in [Owner -> 0 .. U64 - 1] /\ vault \in [Mint -> 0 .. U64 - 1]
  /\ DOMAIN user_data \subseteq Owner
  /\ \A o \in DOMAIN user_data :
       /\ user_data[o].amount \in 0 .. U64 - 1
       /\ user_data[o].reputation \in
            [Outcome \X SwapType -> [volume : 0 .. U64 - 1, count : 0 .. U64 - 1]]
  /\ DOMAIN escrow_state \subseteq Hash
  /\ \A h \in DOMAIN escrow_state :
       LET e == escrow_state[h] IN
         /\ e.data \in Swap /\ e.data.hash = h /\ <<e.offerer, e.claimer>> \in Party
         /\ e.mint \in Mint /\ e.offerer_ata \in Wallet \cup {None}
         /\ e.claimer_ata \in TokenOwner \cup {None}
         /\ {e.security_deposit, e.claimer_bounty} \subseteq Lamport \cup {0}
  /\ DOMAIN data \subseteq DataAccount
  /\ data \in [DOMAIN data -> [owner : Wallet \cup {None}, content : Witness]]
  /\ lamports \in [LamportAccount -> Nat]
  /\ opened \in [Owner -> 0 .. MaxSwaps]

\* The vault of a mint always covers the balances of all users and the amounts
\* of all open escrows, whatever the order of deposits, withdrawals, claims and
\* refunds: every instruction that moves tokens or amounts.
VaultSolvent == \A m \in Mint : vault[m] >= Owed(m)

\* What the vault holds beyond what the program owes is nobody's: it is lost.
Slack(m) == vault[m] - Owed(m)
Lost(m) == Slack(m)' - Slack(m)

SelfRefund(m, amount) ==
  \E h \in EscrowsIn(m) :
    /\ RefundOf(h)
    /\ escrow_state[h].offerer = escrow_state[h].claimer
    /\ escrow_state[h].data.amount = amount

\* A withdrawal or a claim is paid to the vault itself, as its caller or the
\* escrow says.
IntoVault(m, amount) ==
  \/ amount \in Amount /\ \E w \in Wallet : Withdraw(<<w, m>>, amount, VaultAuthority)
  \/ \E h \in EscrowsIn(m) :
       /\ escrow_state[h].claimer_ata = VaultAuthority
       /\ escrow_state[h].data.amount = amount
       /\ \E signer \in Wallet, secret \in Witness, account \in DataAccount \cup {None} :
            ClaimerClaimPayOut(signer, h, secret, account)

\* The vault never holds less beyond what is owed than before, and more by
\* exactly the amount of a swap of a wallet with itself that is refunded, or
\* that somebody asks to have paid to the vault (instructions.rs:60-64, 213-216).
LossAccounted ==
  [][\A m \in Mint :
       Lost(m) = 0 \/ SelfRefund(m, Lost(m)) \/ IntoVault(m, Lost(m))]_swapVars

\* Between two wallets a refund loses nothing.  lib.rs:182 says of its amount
\* "Refund to internal wallet".
LossOnlyIntoVault == [][\A m \in Mint : Lost(m) = 0 \/ IntoVault(m, Lost(m))]_swapVars

\* An open escrow holds enough lamports for whichever of the security deposit
\* and the bounty is paid out in the end, although they are not added up and
\* the rent counts towards them (lib.rs:149-164).
EscrowFunded ==
  \A h \in DOMAIN escrow_state :
    lamports[h] >= Max({RENT, escrow_state[h].security_deposit, escrow_state[h].claimer_bounty})

\* The accounts that a claim and a refund of an open escrow need were checked
\* when it was opened, and are still there.
SettlementAccountsExist ==
  \A h \in DOMAIN escrow_state :
    LET e == escrow_state[h] IN
      /\ IF e.data.pay_in THEN e.offerer_ata # None ELSE OffererAccount(e) \in DOMAIN user_data
      /\ IF e.data.pay_out THEN e.claimer_ata # None ELSE ClaimerAccount(e) \in DOMAIN user_data

\* Each swap that pays into a claimer's user account is counted there once,
\* under the outcome it ends with, unless it is still open.
Counted(o) ==
  IF o \in DOMAIN user_data
  THEN SumFunction([r \in Outcome \X SwapType |-> user_data[o].reputation[r].count])
  ELSE 0

ReputationCounts ==
  \A o \in Owner :
    opened[o] = Counted(o) + Cardinality({h \in DOMAIN escrow_state :
                  ClaimerAccount(escrow_state[h]) = o /\ ~ escrow_state[h].data.pay_out})

\* No escrow stays open for ever: after the expiry no check, missing account or
\* balance keeps the offerer from a refund (structs.rs:25).
EscrowsEnd == \A h \in Hash : h \in DOMAIN escrow_state ~> h \notin DOMAIN escrow_state
=============================================================================
