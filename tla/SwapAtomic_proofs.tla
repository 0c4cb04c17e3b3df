-------------------------- MODULE SwapAtomic_proofs --------------------------
(***************************************************************************)
(* The swap program implements the atomic swap: every instruction is a     *)
(* step of AtomicSwap or leaves funds and deals alone.                     *)
(***************************************************************************)
EXTENDS SwapAtomic, SwapProgram_proofs

USE SupplyFits, Arguments, Addresses, RelayInstructions

-----------------------------------------------------------------------------
(***************************************************************************)
(* Two facts that the settlements rest on, invariants besides Solvent: a   *)
(* swap that was paid in goes back to where it came from, and a claimer's  *)
(* signature that the ed25519 program has checked is one it has given.     *)
(***************************************************************************)

PaidInByOfferer ==
  \A h \in DOMAIN escrow_state :
    escrow_state[h].data.pay_in => escrow_state[h].offerer_ata = escrow_state[h].offerer

ClaimersSigned ==
  ix0.program = "Ed25519" /\ ix0.pubkey \in Claimer =>
    \E sig \in signed : sig[1] = ix0.pubkey /\ sig[2] = ix0.msg

Atomic == Solvent /\ PaidInByOfferer /\ ClaimersSigned

LEMMA PayInStep == Base /\ PaidInByOfferer /\ [SwapNext]_swapVars => PaidInByOfferer'
<1> SUFFICES ASSUME Base, PaidInByOfferer, [SwapNext]_swapVars PROVE PaidInByOfferer'
  OBVIOUS
<1>1. ASSUME NEW party \in Party, NEW m \in Mint, NEW d \in Swap,
             NEW claimer_ata \in TokenOwner \cup {None}, NEW t \in Timestamp,
             OffererInitializePayIn(party[1], party[2], m, d, claimer_ata, t)
      PROVE  PaidInByOfferer'
  <2> DEFINE e == [NewEscrow(party[1], party[2], m, d, claimer_ata)
                     EXCEPT !.offerer_ata = party[1]]
  <2>1. e.offerer_ata = party[1] /\ e.offerer = party[1]
    BY DEF NewEscrow
  <2>2. escrow_state' = With(escrow_state, d.hash, e)
    BY <1>1 DEF OffererInitializePayIn
  <2> HIDE DEF e
  <2> QED
    BY <2>1, <2>2 DEF With, PaidInByOfferer
<1>2. ASSUME NEW party \in Party, NEW m \in Mint, NEW d \in Swap,
             NEW claimer_ata \in TokenOwner \cup {None}, NEW t \in Timestamp,
             NEW security_deposit \in Lamport, NEW claimer_bounty \in Lamport,
             OffererInitialize(party[1], party[2], m, d, claimer_ata, t,
                               security_deposit, claimer_bounty)
      PROVE  PaidInByOfferer'
  <2> DEFINE e == [NewEscrow(party[1], party[2], m, d, claimer_ata) EXCEPT
                     !.security_deposit = security_deposit, !.claimer_bounty = claimer_bounty]
  <2>1. e.data = d
    BY DEF NewEscrow
  <2>2. escrow_state' = With(escrow_state, d.hash, e) /\ ~ d.pay_in
    BY <1>2 DEF OffererInitialize
  <2> HIDE DEF e
  <2> QED
    BY <2>1, <2>2 DEF With, PaidInByOfferer
<1>3. ASSUME NEW h, escrow_state' = Without(escrow_state, h) PROVE PaidInByOfferer'
  BY <1>3 DEF Without, Restrict, PaidInByOfferer
<1>4. CASE InitializeAny
  BY <1>1, <1>2, <1>4 DEF InitializeAny
<1>5. CASE ~ InitializeAny
  <2>1. CASE \E h \in DOMAIN escrow_state : RefundOf(h) \/ ClaimOf(h)
    <3>1. PICK h \in DOMAIN escrow_state : RefundOf(h) \/ ClaimOf(h)
      BY <2>1
    <3>2. escrow_state' = Without(escrow_state, h)
      BY <3>1 DEF RefundOf, OffererRefund, OffererRefundPayIn,
         ClaimOf, ClaimerClaim, ClaimerClaimPayOut
    <3> QED
      BY <1>3, <3>2
  <2>2. CASE ~ \E h \in DOMAIN escrow_state : RefundOf(h) \/ ClaimOf(h)
    <3>1. UNCHANGED escrow_state
      BY <1>5, <2>2 DEF SwapNext, swapVars, Deposit, Withdraw, DataNext, CreateData, InitData, WriteData,
         CloseData, Tick, BeginAny, BeginTransaction, SignRefund, Donate
    <3> QED
      BY <3>1 DEF PaidInByOfferer
  <2> QED
    BY <2>1, <2>2
<1> QED
  BY <1>4, <1>5

LEMMA SignedStep == Base /\ ClaimersSigned /\ [SwapNext]_swapVars => ClaimersSigned'
<1> SUFFICES ASSUME Base, ClaimersSigned, [SwapNext]_swapVars PROVE ClaimersSigned'
  OBVIOUS
<1>1. ASSUME UNCHANGED ix0, signed \subseteq signed' PROVE ClaimersSigned'
  BY <1>1 DEF ClaimersSigned
<1>2. ASSUME UNCHANGED outside PROVE ClaimersSigned'
  BY <1>1, <1>2 DEF outside
<1>3. ASSUME Tick PROVE ClaimersSigned'
  BY <1>3 DEF Tick, OtherIx, ClaimersSigned
<1>4. ASSUME BeginAny PROVE ClaimersSigned'
  <2>1. PICK ix \in {OtherIx} \cup RelayIx \cup {Ed25519Ix(sig[1], sig[2]) : sig \in Signature} :
          ix0' = ix /\ UNCHANGED signed
    BY <1>4 DEF BeginAny, BeginTransaction
  <2>2. CASE ix \in {OtherIx} \cup RelayIx
    BY <2>1, <2>2 DEF OtherIx, ClaimersSigned
  <2>3. ASSUME NEW sig \in Signature, ix = Ed25519Ix(sig[1], sig[2]) PROVE ClaimersSigned'
    <3>1. ix.pubkey = sig[1] /\ ix.msg = sig[2]
      BY <2>3 DEF Ed25519Ix
    <3>2. CASE sig \in signed
      BY <2>1, <2>3, <3>1, <3>2 DEF ClaimersSigned
    <3>3. CASE sig \notin signed
      <4>1. sig[1] \notin Claimer
        BY <3>3 DEF Signature
      <4> QED
        BY <2>1, <2>3, <3>1, <4>1 DEF ClaimersSigned
    <3> QED
      BY <3>2, <3>3
  <2> QED
    BY <2>2, <2>3
<1>5. ASSUME NEW h \in DOMAIN escrow_state, NEW t \in Timestamp, SignRefund(h, t)
      PROVE  ClaimersSigned'
  BY <1>1, <1>5 DEF SignRefund
<1>6. ASSUME InitializeAny PROVE ClaimersSigned'
  BY <1>2, <1>6, AnyInitializeOpens DEF OpensEscrow
<1>7. ASSUME NEW h \in DOMAIN escrow_state, RefundOf(h) \/ ClaimOf(h)
      PROVE  ClaimersSigned'
  <2>1. UNCHANGED outside
    BY <1>7 DEF RefundOf, OffererRefund, OffererRefundPayIn,
       ClaimOf, ClaimerClaim, ClaimerClaimPayOut
  <2> QED
    BY <1>2, <2>1
<1>8. ASSUME \/ \E o \in Owner, amount \in Amount :
                  Deposit(o, amount) \/ \E receiver \in TokenOwner : Withdraw(o, amount, receiver)
             \/ DataNext
             \/ \E w \in Donor, h \in Hash : Donate(w, h)
             \/ UNCHANGED swapVars
      PROVE  ClaimersSigned'
  <2>1. UNCHANGED outside
    BY <1>8 DEF Deposit, Withdraw, DataNext, CreateData, InitData, WriteData, CloseData,
       Donate, swapVars, outside
  <2> QED
    BY <1>2, <2>1
<1> QED
  BY <1>3, <1>4, <1>5, <1>6, <1>7, <1>8 DEF SwapNext

LEMMA AtomicHolds == SwapSpec => []Atomic
<1>1. SwapInit => PaidInByOfferer /\ ClaimersSigned
  <2> SUFFICES ASSUME SwapInit PROVE PaidInByOfferer /\ ClaimersSigned
    OBVIOUS
  <2>1. escrow_state = << >> /\ DOMAIN << >> = {} /\ ix0.program = "Other"
    BY DEF SwapInit, OtherIx
  <2> QED
    BY <2>1 DEF PaidInByOfferer, ClaimersSigned
<1>2. Solvent => Base
  BY DEF Solvent
<1> QED
  BY <1>1, <1>2, SolventHolds, BaseHolds, PayInStep, SignedStep, PTL DEF SwapSpec, Atomic

-----------------------------------------------------------------------------
(***************************************************************************)
(* The guards: what the program checks is what it promises.                *)
(***************************************************************************)

LEMMA RelaySaid ==
  ASSUME Base, ix0.program = "BtcRelay"
  PROVE  ix0 \in RelayIx
BY DEF Base, OutsideTyped, OtherIx

\* A claim that passes its checks comes with proof of payment.
LEMMA ClaimIsPaid ==
  ASSUME Base, NEW d \in Swap, NEW secret \in Witness, CheckClaim(d, secret)
  PROVE  Paid(d)
<1>1. CASE d.kind = "Htlc"
  BY <1>1 DEF CheckClaim, CheckClaimHtlc, Paid
<1>2. ASSUME NEW txid, VerifyTxIx(txid, d.confirmations)
      PROVE  Confirmed(txid, d.confirmations)
  <2>1. /\ ix0.program = "BtcRelay" /\ ix0.ix = "verify_transaction"
        /\ ix0.txid = txid /\ ix0.confirmations = d.confirmations
    BY <1>2 DEF VerifyTxIx, VerifyTransactionIx
  <2>2. d.confirmations \in Nat
    BY SwapData
  <2> QED
    BY <2>1, <2>2, RelaySaid DEF Confirmed
<1>3. CASE d.kind = "ChainTxhash"
  <2>1. VerifyTxIx(d.hash, d.confirmations)
    BY <1>3 DEF CheckClaim, CheckClaimChain
  <2>2. PICK tx \in Tx : tx.txid = d.hash
    BY <1>3, SwapData DEF Txid
  <2>3. Confirmed(tx.txid, d.confirmations)
    BY <1>2, <2>1, <2>2
  <2> QED
    BY <1>3, <2>2, <2>3 DEF Paid, Pays
<1>4. CASE d.kind \in {"Chain", "ChainNonced"}
  <2>1. /\ secret \in TxOutput /\ Sha256(<<d.nonce, secret[2]>>) = d.hash
        /\ d.kind = "ChainNonced" => secret[1].nonce = d.nonce
        /\ VerifyTxIx(secret[1].txid, d.confirmations)
    BY <1>4 DEF CheckClaim, CheckClaimChain
  <2>2. PICK tx \in Tx : secret \in {tx} \X tx.outputs
    BY <2>1 DEF TxOutput
  <2>3. secret[1] = tx /\ secret[2] \in tx.outputs
    BY <2>2
  <2>4. Confirmed(tx.txid, d.confirmations)
    BY <1>2, <2>1, <2>3
  <2> QED
    BY <1>4, <2>1, <2>3, <2>4 DEF Paid, Pays
<1> QED
  BY <1>1, <1>3, <1>4, SwapData DEF SwapType

\* A refund that passes its checks is due.
LEMMA RefundIsDue ==
  ASSUME Base, ClaimersSigned, NEW h \in DOMAIN escrow_state,
         NEW auth_expiry, NEW claimer_passed,
         MayRefund(escrow_state[h], auth_expiry, claimer_passed)
  PROVE  Due(escrow_state[h])
<1> DEFINE e == escrow_state[h]
<1>1. e.data \in Swap /\ e.data.expiry \in Nat /\ now \in Nat
  BY EscrowFields, SwapData DEF Base, OutsideTyped
<1>2. CASE VerifySignature(e, auth_expiry)
  <2> DEFINE msg == RefundMessage(e, auth_expiry)
  <2>1. /\ ix0.program = "Ed25519" /\ ix0.pubkey = e.claimer /\ ix0.msg = msg
        /\ auth_expiry > now
    BY <1>2 DEF VerifySignature, VerifyEd25519Ix, Ed25519Ix
  <2>2. e.claimer \in Claimer
    <3>1. <<e.offerer, e.claimer>> \in Party
      BY DEF Base, EscrowsTyped
    <3> QED
      BY <3>1 DEF Claimer
  <2>3. PICK sig \in signed : sig[1] = e.claimer /\ sig[2] = msg
    BY <2>1, <2>2 DEF ClaimersSigned
  <2>4. /\ msg.auth_expiry = auth_expiry /\ msg.hash = e.data.hash
        /\ msg.amount = e.data.amount /\ msg.expiry = e.data.expiry
        /\ msg.sequence = e.data.sequence
    BY DEF RefundMessage
  <2> HIDE DEF msg, e
  <2>5. Due(e)
    BY <2>1, <2>3, <2>4 DEF Due, Consented
  <2> QED
    BY <2>5 DEF e
<1>3. CASE VerifyTimeout(e)
  <2> HIDE DEF e
  <2>1. CASE e.data.expiry < BLOCKHEIGHT_EXPIRY_THRESHOLD
    <3>1. VerifyBlockheightIx(e.data.expiry, 2)
      BY <1>3, <2>1 DEF VerifyTimeout
    <3>2. /\ ix0.program = "BtcRelay" /\ ix0.ix = "block_height"
          /\ ix0.value = e.data.expiry /\ ix0.operation = 2
      BY <3>1 DEF VerifyBlockheightIx, BlockHeightIx
    <3>3. HeightAbove(e.data.expiry)
      BY <1>1, <3>2, RelaySaid DEF HeightAbove
    <3>4. ~ e.data.expiry >= BLOCKHEIGHT_EXPIRY_THRESHOLD
      BY <1>1, <2>1
    <3> QED
      BY <3>3, <3>4 DEF Due, e
  <2>2. CASE ~ (e.data.expiry < BLOCKHEIGHT_EXPIRY_THRESHOLD)
    BY <1>1, <1>3, <2>2 DEF VerifyTimeout, Due, e
  <2> QED
    BY <2>1, <2>2
<1> QED
  BY <1>2, <1>3 DEF MayRefund

-----------------------------------------------------------------------------
(***************************************************************************)
(* The transfers: funds and deals before and after each instruction.       *)
(***************************************************************************)

\* The funds of wallets.
WalletFunds == [o \in Owner |-> ata[o] + UserData(o).amount]

LEMMA FundsFields ==
  ASSUME Base
  PROVE  /\ WalletFunds \in [Owner -> Nat]
         /\ \A o \in Owner : /\ WalletFunds[o] = ata[o] + UserData(o).amount
                             /\ ata[o] \in Nat /\ UserData(o).amount \in Nat
<1>1. ASSUME NEW o \in Owner PROVE ata[o] \in Nat /\ UserData(o).amount \in Nat
  BY UserShare, U64Positive DEF Base, TokensTyped
<1> QED
  BY <1>1 DEF WalletFunds

\* From the balances after a step to the funds of wallets after it.
LEMMA FundsNext ==
  ASSUME NEW f \in [Owner -> Int],
         \A o \in Owner : ata'[o] + UserData(o)'.amount = f[o]
  PROVE  WalletFunds' = f
BY DEF WalletFunds

\* Funds are those of wallets and what lies in the vaults for nobody.
WithVaults(f) ==
  [o \in TokenAccount |-> IF o[1] = VaultAuthority THEN Slack(o[2]) ELSE f[o]]

LEMMA Accounts ==
  /\ Owner \subseteq TokenAccount \ ({VaultAuthority} \X Mint)
  /\ \A o \in TokenAccount : o[1] # VaultAuthority => o \in Owner
  /\ \A o \in Owner : o[1] # VaultAuthority
  /\ \A o \in TokenAccount : o[2] \in Mint
  /\ \A m \in Mint : <<VaultAuthority, m>> \in TokenAccount
BY DEF Owner, TokenAccount, TokenOwner

LEMMA FundsAre ==
  /\ Funds = WithVaults(WalletFunds)
  /\ \A o \in Owner : Funds[o] = WalletFunds[o]
  /\ \A m \in Mint : Funds[<<VaultAuthority, m>>] = Slack(m)
<1>1. ASSUME NEW o \in TokenAccount, o[1] # VaultAuthority
      PROVE  WalletFunds[o] = ata[o] + UserData(o).amount
  BY <1>1, Accounts DEF WalletFunds
<1>2. Funds = WithVaults(WalletFunds)
  BY <1>1 DEF Funds, WithVaults
<1>3. \A o \in Owner : o \in TokenAccount /\ o[1] # VaultAuthority
  BY DEF Owner, TokenAccount, TokenOwner
<1> QED
  BY <1>2, <1>3, Accounts DEF WithVaults

\* The funds after a step that loses nothing.
LEMMA FundsKept ==
  ASSUME KeepsSlack
  PROVE  Funds' = WithVaults(WalletFunds')
<1>1. \A o \in Owner : WalletFunds'[o] = ata'[o] + UserData(o)'.amount
  BY DEF WalletFunds
<1>2. \A o \in TokenAccount : o[1] = VaultAuthority => Slack(o[2])' = Slack(o[2])
  BY Accounts DEF KeepsSlack
<1>3. Funds' = [o \in TokenAccount |->
                  IF o[1] = VaultAuthority THEN Slack(o[2])' ELSE ata'[o] + UserData(o)'.amount]
  BY DEF Funds
<1>4. \A o \in TokenAccount :
        (IF o[1] = VaultAuthority THEN Slack(o[2])' ELSE ata'[o] + UserData(o)'.amount)
        = (IF o[1] = VaultAuthority THEN Slack(o[2]) ELSE WalletFunds'[o])
  BY <1>1, <1>2, Accounts
<1> QED
  BY <1>3, <1>4 DEF WithVaults

\* One wallet gains or loses.
LEMMA OneChanges ==
  ASSUME Base, KeepsSlack, NEW o \in Owner, NEW x, WalletFunds' = [WalletFunds EXCEPT ![o] = x]
  PROVE  Funds' = [Funds EXCEPT ![o] = x]
<1>1. WalletFunds \in [Owner -> Int]
  BY FundsFields
<1> DEFINE f == WalletFunds
<1>2. Funds = WithVaults(f) /\ Funds' = WithVaults([f EXCEPT ![o] = x])
  BY FundsAre, FundsKept
<1>3. f \in [Owner -> Int]
  BY <1>1
<1> HIDE DEF f
<1>4. WithVaults([f EXCEPT ![o] = x]) = [WithVaults(f) EXCEPT ![o] = x]
  BY <1>3, Accounts DEF WithVaults
<1> QED
  BY <1>2, <1>4

\* The vault of a mint gains, by a step that leaves the wallets f.
LEMMA VaultGains ==
  ASSUME Base, NEW m \in Mint, NEW amount \in Nat, GainsSlack(m, amount)
  PROVE  Funds' = [WithVaults(WalletFunds') EXCEPT ![<<VaultAuthority, m>>] = @ + amount]
<1> DEFINE v == <<VaultAuthority, m>>
           f == WithVaults(WalletFunds')
<1>1. v \in TokenAccount /\ v[1] = VaultAuthority /\ v[2] = m /\ f[v] = Slack(m)
  BY Accounts DEF WithVaults
<1>2. ASSUME NEW o \in TokenAccount
      PROVE  Funds'[o] = IF o = v THEN Slack(m) + amount ELSE f[o]
  <2>1. CASE o[1] = VaultAuthority
    <3>1. o = <<o[1], o[2]>> /\ o[2] \in Mint
      BY DEF TokenAccount
    <3>2. f[o] = Slack(o[2]) /\ Funds'[o] = Slack(o[2])'
      BY <2>1 DEF Funds, WithVaults
    <3>3. Slack(o[2])' = Slack(o[2]) + IF m = o[2] THEN amount ELSE 0
      BY <3>1 DEF GainsSlack
    <3>4. Slack(o[2]) \in Int
      BY <3>1, SlackFields DEF SlackTyped
    <3> QED
      BY <2>1, <3>1, <3>2, <3>3, <3>4
  <2>2. CASE o[1] # VaultAuthority
    <3>1. o \in Owner /\ o # v
      BY <2>2, Accounts
    <3>2. WalletFunds'[o] = ata'[o] + UserData(o)'.amount
      BY <3>1 DEF WalletFunds
    <3>3. Funds'[o] = ata'[o] + UserData(o)'.amount
      BY <2>2 DEF Funds
    <3>4. f[o] = WalletFunds'[o]
      BY <2>2 DEF WithVaults
    <3> QED
      BY <3>1, <3>2, <3>3, <3>4
  <2> QED
    BY <2>1, <2>2
<1>3. Funds' = [o \in TokenAccount |-> Funds'[o]] /\ f = [o \in TokenAccount |-> f[o]]
  BY DEF Funds, WithVaults
<1> HIDE DEF v, f
<1>4. Funds' = [f EXCEPT ![v] = @ + amount]
  BY <1>1, <1>2, <1>3
<1> QED
  BY <1>4 DEF v, f

\* A payment from the vault, and into it, without a wrap.
LEMMA FromVaultExact ==
  ASSUME Solvent, NEW o \in Owner, NEW amount \in Nat, FromVault(o, amount)
  PROVE  ata' = [ata EXCEPT ![o] = ata[o] + amount]
<1>1. o[1] \in Wallet /\ o[2] \in Mint /\ o = <<o[1], o[2]>>
  BY DEF Owner
<1>2. ata[o] \in Nat /\ vault[o[2]] \in Nat /\ amount <= vault[o[2]]
  BY <1>1, U64Positive DEF FromVault, TokensTyped, Solvent, Base
<1>3. vault[o[2]] + ata[o] < U64
  BY <1>1, NoWrap DEF Solvent, Base
<1>4. ata[o] + amount < U64
  BY <1>2, <1>3, U64Positive
<1>5. Plus(ata[o], amount) = ata[o] + amount
  BY <1>2, <1>4, Additions
<1>6. o[1] # VaultAuthority
  BY <1>1
<1> QED
  BY <1>5, <1>6 DEF FromVault

PayFrom(from, to, amount) ==
  [[WalletFunds EXCEPT ![from] = @ - amount] EXCEPT ![to] = @ + amount]

LEMMA DepositKeepsFunds ==
  ASSUME Solvent, Base', NEW o \in Owner, NEW amount \in Amount, Deposit(o, amount)
  PROVE  WalletFunds' = WalletFunds
<1> DEFINE new == Credit(UserData(o), amount)
<1>1. /\ ToVault(o, amount) /\ amount \in Nat
      /\ user_data' = With(user_data, o, new)
  BY DEF Deposit
<1>2. new.amount = UserData(o).amount + amount
  <2>1. o[2] \in Mint /\ vault'[o[2]] = vault[o[2]] + amount
    <3>1. o[2] \in Mint
      BY DEF Owner
    <3>2. TokensTyped /\ Conserved
      BY DEF Solvent, Base
    <3> QED
      BY <1>1, <3>1, <3>2, ToVaultMoves
  <2>2. vault'[o[2]] < U64 /\ Owed(o[2]) <= vault[o[2]]
    BY <2>1, U64Positive DEF Solvent, VaultSolvent, Base, TokensTyped
  <2>3. OwedToUsers(o[2]) + amount < U64
    BY <1>1, <2>1, <2>2, OwedFields, U64Positive DEF Solvent
  <2> QED
    BY <1>1, <2>3, CreditExact DEF Solvent
<1> HIDE DEF new
<1>3. UserData(o)' = new /\ \A k \in Owner : k # o => UserData(k)' = UserData(k)
  BY <1>1 DEF With, UserData
<1>4. ata \in [Owner -> 0 .. U64 - 1] /\ ata' = [ata EXCEPT ![o] = ata[o] - amount]
  BY <1>1 DEF ToVault, Solvent, Base, TokensTyped
<1>5. ata'[o] = ata[o] - amount /\ \A k \in Owner : k # o => ata'[k] = ata[k]
  BY <1>4
<1>6. ASSUME NEW k \in Owner PROVE ata'[k] + UserData(k)'.amount = WalletFunds[k]
  BY <1>1, <1>2, <1>3, <1>5, FundsFields DEF Solvent
<1>7. WalletFunds \in [Owner -> Int]
  BY FundsFields DEF Solvent
<1> QED
  BY <1>6, <1>7, FundsNext

LEMMA DebitedUser ==
  ASSUME Base, NEW o \in DOMAIN user_data, NEW amount \in Nat, user_data[o].amount >= amount,
         user_data' = [user_data EXCEPT ![o] = Debit(user_data[o], amount)]
  PROVE  /\ UserData(o)'.amount = UserData(o).amount - amount
         /\ \A k \in Owner : k # o => UserData(k)' = UserData(k)
<1>1. user_data \in [DOMAIN user_data -> UserAccount] /\ user_data[o] \in UserAccount
  BY DEF Base, UsersTyped
<1>2. Debit(user_data[o], amount).amount = user_data[o].amount - amount
  BY <1>1, DebitUser
<1> QED
  BY <1>1, <1>2 DEF UserData

LEMMA WithdrawMovesFunds ==
  ASSUME Solvent, NEW o \in Owner, NEW amount \in Amount, NEW receiver \in Wallet,
         Withdraw(o, amount, receiver)
  PROVE  /\ <<receiver, o[2]>> \in Owner /\ amount \in 0 .. WalletFunds[o]
         /\ WalletFunds' = PayFrom(o, <<receiver, o[2]>>, amount)
<1> DEFINE to == <<receiver, o[2]>>
<1>1. /\ FromVault(to, amount) /\ amount \in Nat
      /\ o \in DOMAIN user_data /\ user_data[o].amount >= amount
      /\ user_data' = [user_data EXCEPT ![o] = Debit(user_data[o], amount)]
  BY DEF Withdraw
<1>2. to \in Owner
  BY DEF Owner
<1> HIDE DEF to
<1>3. ata' = [ata EXCEPT ![to] = ata[to] + amount]
  BY <1>1, <1>2, FromVaultExact
<1>4. /\ UserData(o)'.amount = UserData(o).amount - amount
      /\ \A k \in Owner : k # o => UserData(k)' = UserData(k)
  BY <1>1, DebitedUser DEF Solvent
<1>5. ata'[to] = ata[to] + amount /\ \A k \in Owner : k # to => ata'[k] = ata[k]
  BY <1>2, <1>3 DEF Solvent, Base, TokensTyped
<1>6. /\ WalletFunds \in [Owner -> Nat]
      /\ \A k \in Owner : /\ WalletFunds[k] = ata[k] + UserData(k).amount
                          /\ ata[k] \in Nat /\ UserData(k).amount \in Nat
  BY FundsFields DEF Solvent
<1>7. UserData(o) = user_data[o] /\ amount <= WalletFunds[o]
  BY <1>1, <1>6 DEF UserData
<1>8. PayFrom(o, to, amount) \in [Owner -> Int]
  BY <1>1, <1>2, <1>6 DEF PayFrom
<1>9. ASSUME NEW k \in Owner PROVE ata'[k] + UserData(k)'.amount = PayFrom(o, to, amount)[k]
  <2>1. CASE o = to
    BY <1>1, <1>2, <1>4, <1>5, <1>6, <2>1 DEF PayFrom
  <2>2. CASE o # to
    BY <1>1, <1>2, <1>4, <1>5, <1>6, <2>2 DEF PayFrom
  <2> QED
    BY <2>1, <2>2
<1>10. WalletFunds' = PayFrom(o, to, amount)
  BY <1>8, <1>9, FundsNext
<1> QED
  BY <1>1, <1>2, <1>6, <1>7, <1>10 DEF to

LEMMA WithdrawnToVault ==
  ASSUME Solvent, NEW o \in Owner, NEW amount \in Amount, Withdraw(o, amount, VaultAuthority)
  PROVE  /\ amount \in 0 .. WalletFunds[o]
         /\ WalletFunds' = [WalletFunds EXCEPT ![o] = WalletFunds[o] - amount]
<1>1. /\ UNCHANGED tokens /\ amount \in Nat
      /\ o \in DOMAIN user_data /\ user_data[o].amount >= amount
      /\ user_data' = [user_data EXCEPT ![o] = Debit(user_data[o], amount)]
  BY DEF Withdraw, FromVault
<1>2. /\ UserData(o)'.amount = UserData(o).amount - amount
      /\ \A k \in Owner : k # o => UserData(k)' = UserData(k)
  BY <1>1, DebitedUser DEF Solvent
<1>3. /\ WalletFunds \in [Owner -> Nat]
      /\ \A k \in Owner : /\ WalletFunds[k] = ata[k] + UserData(k).amount
                          /\ ata[k] \in Nat /\ UserData(k).amount \in Nat
  BY FundsFields DEF Solvent
<1>4. UserData(o) = user_data[o]
  BY <1>1 DEF UserData
<1> DEFINE less == [WalletFunds EXCEPT ![o] = WalletFunds[o] - amount]
<1>5. less \in [Owner -> Int] /\ \A k \in Owner : ata'[k] + UserData(k)'.amount = less[k]
  BY <1>1, <1>2, <1>3 DEF tokens
<1> HIDE DEF less
<1>6. WalletFunds' = less
  BY <1>5, FundsNext
<1> QED
  BY <1>1, <1>3, <1>4, <1>6 DEF less

LEMMA OpenLocksFunds ==
  ASSUME Solvent, NEW e, OpensEscrow(e)
  PROVE  LET payer == OffererAccount(e)
         IN  /\ payer \in Owner /\ e.data.amount \in 0 .. WalletFunds[payer]
             /\ WalletFunds' = [WalletFunds EXCEPT ![payer] = @ - e.data.amount]
<1> DEFINE o == OffererAccount(e)
           amount == e.data.amount
           locked == [WalletFunds EXCEPT ![o] = @ - amount]
<1>1. e.data \in Swap /\ e.offerer \in Wallet /\ e.mint \in Mint
  BY DEF OpensEscrow, Escrow
<1>2. o \in Owner /\ amount \in Nat
  BY <1>1, SwapFields DEF Owner, OffererAccount
<1>3. /\ WalletFunds \in [Owner -> Nat]
      /\ \A k \in Owner : /\ WalletFunds[k] = ata[k] + UserData(k).amount
                          /\ ata[k] \in Nat /\ UserData(k).amount \in Nat
  BY FundsFields DEF Solvent
<1>4. CASE e.data.pay_in
  <2>1. ToVault(o, amount) /\ UNCHANGED user_data
    BY <1>4 DEF OpensEscrow
  <2> HIDE DEF o, amount
  <2>2. amount <= ata[o] /\ ata'[o] = ata[o] - amount /\ \A k \in Owner : k # o => ata'[k] = ata[k]
    BY <1>2, <2>1 DEF ToVault, Solvent, Base, TokensTyped
  <2>3. \A k \in Owner : UserData(k)' = UserData(k)
    BY <2>1 DEF UserData
  <2>4. ASSUME NEW k \in Owner PROVE ata'[k] + UserData(k)'.amount = locked[k]
    BY <1>2, <1>3, <2>2, <2>3
  <2>5. locked \in [Owner -> Int]
    BY <1>2, <1>3
  <2> HIDE DEF locked
  <2>6. WalletFunds' = locked
    BY <2>4, <2>5, FundsNext
  <2> QED
    BY <1>2, <1>3, <2>2, <2>6 DEF o, amount, locked
<1>5. CASE ~ e.data.pay_in
  <2>1. /\ o \in DOMAIN user_data /\ user_data[o].amount >= amount
        /\ user_data' = [user_data EXCEPT ![o] = Debit(user_data[o], amount)]
        /\ UNCHANGED tokens
    BY <1>5 DEF OpensEscrow
  <2> HIDE DEF o, amount
  <2>2. /\ UserData(o)'.amount = UserData(o).amount - amount
        /\ \A k \in Owner : k # o => UserData(k)' = UserData(k)
    BY <1>2, <2>1, DebitedUser DEF Solvent
  <2>3. amount <= UserData(o).amount
    BY <1>2, <1>3, <2>1 DEF UserData
  <2>4. ASSUME NEW k \in Owner PROVE ata'[k] + UserData(k)'.amount = locked[k]
    BY <1>2, <1>3, <2>1, <2>2 DEF tokens
  <2>5. locked \in [Owner -> Int]
    BY <1>2, <1>3
  <2> HIDE DEF locked
  <2>6. WalletFunds' = locked
    BY <2>4, <2>5, FundsNext
  <2> QED
    BY <1>2, <1>3, <2>3, <2>6 DEF o, amount, locked
<1> QED
  BY <1>4, <1>5

-----------------------------------------------------------------------------
(***************************************************************************)
(* Deals are opened and settled one at a time.                             *)
(***************************************************************************)

\* The settlement of the deal of an escrow in favour of o.
Settles(h, o) ==
  /\ Funds' = [Funds EXCEPT ![o] = @ + escrow_state[h].data.amount]
  /\ Deals' = Restrict(Deals, DOMAIN Deals \ {h})

LEMMA DealsOpen ==
  ASSUME NEW e, e.data.hash \notin DOMAIN escrow_state,
         escrow_state' = With(escrow_state, e.data.hash, e)
  PROVE  Deals' = [i \in DOMAIN Deals \cup {e.data.hash} |->
                     IF i = e.data.hash THEN Deal(e) ELSE Deals[i]]
<1> DEFINE id == e.data.hash
<1>1. /\ DOMAIN escrow_state' = DOMAIN escrow_state \cup {id}
      /\ \A i \in DOMAIN escrow_state \cup {id} :
           escrow_state'[i] = IF i = id THEN e ELSE escrow_state[i]
  BY DEF With
<1>2. \A i \in DOMAIN escrow_state \cup {id} :
        Deal(escrow_state'[i]) = IF i = id THEN Deal(e) ELSE Deal(escrow_state[i])
  BY <1>1
<1>3. Deals' = [i \in DOMAIN escrow_state' |-> Deal(escrow_state'[i])]
  BY DEF Deals, Deal, OffererAccount
<1> HIDE DEF id
<1>4. Deals' = [i \in DOMAIN Deals \cup {id} |-> IF i = id THEN Deal(e) ELSE Deals[i]]
  BY <1>1, <1>2, <1>3 DEF Deals
<1> QED
  BY <1>4 DEF id

LEMMA DealsClose ==
  ASSUME NEW h, escrow_state' = Without(escrow_state, h)
  PROVE  Deals' = Restrict(Deals, DOMAIN Deals \ {h})
<1>1. /\ DOMAIN escrow_state' = DOMAIN escrow_state \ {h}
      /\ \A i \in DOMAIN escrow_state \ {h} : escrow_state'[i] = escrow_state[i]
  BY DEF Without, Restrict
<1>2. Deals' = [i \in DOMAIN escrow_state' |-> Deal(escrow_state'[i])]
  BY DEF Deals, Deal, OffererAccount
<1>3. \A i \in DOMAIN escrow_state \ {h} : Deal(escrow_state'[i]) = Deal(escrow_state[i])
  BY <1>1
<1> QED
  BY <1>1, <1>2, <1>3 DEF Deals, Restrict

LEMMA DealFields ==
  ASSUME Base, NEW h \in DOMAIN escrow_state
  PROVE  LET e == escrow_state[h]
         IN  /\ h \in DOMAIN Deals
             /\ Deals[h].payer = OffererAccount(e) /\ Deals[h].amount = e.data.amount
             /\ e.data.pay_out => Deals[h].payee = <<e.claimer_ata, e.mint>>
             /\ ~ e.data.pay_out => Deals[h].payee = ClaimerAccount(e)
BY DEF Deals, Deal, ClaimerAccount

-----------------------------------------------------------------------------
(***************************************************************************)
(* One account gains what the escrow held: a user account or a wallet.     *)
(***************************************************************************)

LEMMA UserGains ==
  ASSUME Base, NEW o \in DOMAIN user_data, NEW gain \in Nat, UNCHANGED tokens,
         DOMAIN user_data' = DOMAIN user_data,
         user_data'[o].amount = user_data[o].amount + gain,
         \A k \in DOMAIN user_data : k # o => user_data'[k].amount = user_data[k].amount
  PROVE  WalletFunds' = [WalletFunds EXCEPT ![o] = @ + gain]
<1> DEFINE gained == [WalletFunds EXCEPT ![o] = @ + gain]
<1>1. /\ WalletFunds \in [Owner -> Nat]
      /\ \A k \in Owner : /\ WalletFunds[k] = ata[k] + UserData(k).amount
                          /\ ata[k] \in Nat /\ UserData(k).amount \in Nat
  BY FundsFields
<1>2. o \in Owner
  BY DEF Base, UsersTyped
<1>3. UserData(o)'.amount = UserData(o).amount + gain
  BY DEF UserData
<1>4. ASSUME NEW k \in Owner, k # o PROVE UserData(k)'.amount = UserData(k).amount
  BY <1>4 DEF UserData
<1>5. ASSUME NEW k \in Owner PROVE ata'[k] + UserData(k)'.amount = gained[k]
  BY <1>1, <1>2, <1>3, <1>4 DEF tokens
<1>6. gained \in [Owner -> Int]
  BY <1>1, <1>2
<1> HIDE DEF gained
<1>7. WalletFunds' = gained
  BY <1>5, <1>6, FundsNext
<1> QED
  BY <1>7 DEF gained

LEMMA WalletGains ==
  ASSUME Base, NEW o \in Owner, NEW gain \in Nat,
         ata' = [ata EXCEPT ![o] = ata[o] + gain],
         DOMAIN user_data' = DOMAIN user_data,
         \A k \in DOMAIN user_data : user_data'[k].amount = user_data[k].amount
  PROVE  WalletFunds' = [WalletFunds EXCEPT ![o] = @ + gain]
<1> DEFINE gained == [WalletFunds EXCEPT ![o] = @ + gain]
<1>1. /\ WalletFunds \in [Owner -> Nat]
      /\ \A k \in Owner : /\ WalletFunds[k] = ata[k] + UserData(k).amount
                          /\ ata[k] \in Nat /\ UserData(k).amount \in Nat
  BY FundsFields
<1>2. ata'[o] = ata[o] + gain /\ \A k \in Owner : k # o => ata'[k] = ata[k]
  BY DEF Base, TokensTyped
<1>3. ASSUME NEW k \in Owner PROVE UserData(k)'.amount = UserData(k).amount
  BY DEF UserData
<1>4. ASSUME NEW k \in Owner PROVE ata'[k] + UserData(k)'.amount = gained[k]
  BY <1>1, <1>2, <1>3
<1>5. gained \in [Owner -> Int]
  BY <1>1
<1> HIDE DEF gained
<1>6. WalletFunds' = gained
  BY <1>4, <1>5, FundsNext
<1> QED
  BY <1>6 DEF gained

-----------------------------------------------------------------------------
(***************************************************************************)
(* The instructions that settle.                                           *)
(***************************************************************************)

LEMMA ClaimSettles ==
  ASSUME Solvent, Base', NEW h \in DOMAIN escrow_state, NEW signer \in Wallet,
         NEW secret \in Witness, NEW account \in DataAccount \cup {None},
         \/ ClaimerClaim(signer, h, secret, account)
         \/ ClaimerClaimPayOut(signer, h, secret, account)
  PROVE  h \in Payable /\ Settles(h, Deals[h].payee)
<1> DEFINE e == escrow_state[h]
           c == ClaimerAccount(e)
           to == <<e.claimer_ata, e.mint>>
<1>1. /\ e.data \in Swap /\ e.data.amount \in Nat /\ e.mint \in Mint
      /\ c \in Owner /\ WalletFunds \in [Owner -> Int]
  BY EscrowFields, FundsFields DEF Solvent, Base
<1>2. h \in Payable
  <2>1. CheckClaim(e.data, secret)
    BY DEF ClaimerClaim, ClaimerClaimPayOut, ProcessClaim
  <2>2. Paid(e.data)
    BY <1>1, <2>1, ClaimIsPaid DEF Solvent
  <2> QED
    BY <2>2 DEF Payable
<1>3. Deals' = Restrict(Deals, DOMAIN Deals \ {h})
  <2>1. escrow_state' = Without(escrow_state, h)
    BY DEF ClaimerClaim, ClaimerClaimPayOut
  <2> QED
    BY <2>1, DealsClose
<1>4. CASE ClaimerClaim(signer, h, secret, account)
  <2>1. Funds' = [Funds EXCEPT ![c] = @ + e.data.amount]
    <3>1. /\ c \in DOMAIN user_data /\ UNCHANGED tokens
          /\ DOMAIN user_data' = DOMAIN user_data
          /\ user_data'[c].amount = user_data[c].amount + e.data.amount
          /\ \A k \in DOMAIN user_data : k # c => user_data'[k].amount = user_data[k].amount
      BY <1>4, ClaimCredits
    <3>2. KeepsSlack
      BY <1>4, ClaimKeeps
    <3> HIDE DEF c, e
    <3>3. WalletFunds' = [WalletFunds EXCEPT ![c] = @ + e.data.amount]
      BY <1>1, <3>1, UserGains DEF Solvent
    <3>4. Funds' = [Funds EXCEPT ![c] = WalletFunds[c] + e.data.amount]
      BY <1>1, <3>2, <3>3, OneChanges DEF Solvent
    <3> QED
      BY <1>1, <3>4, FundsAre
  <2>2. Deals[h].payee = c
    <3>1. ~ e.data.pay_out
      BY <1>4 DEF ClaimerClaim
    <3> QED
      BY <3>1, DealFields DEF Solvent
  <2> HIDE DEF c
  <2> QED
    BY <1>2, <1>3, <2>1, <2>2 DEF Settles
<1>5. CASE ClaimerClaimPayOut(signer, h, secret, account)
  <2>1. e.data.pay_out /\ FromVault(to, e.data.amount) /\ UNCHANGED user_data
    BY <1>5 DEF ClaimerClaimPayOut
  <2>2. /\ e.claimer_ata \in TokenOwner
        /\ e.claimer_ata \in Wallet => KeepsSlack
        /\ e.claimer_ata = VaultAuthority => GainsSlack(e.mint, e.data.amount)
    BY <1>5, ClaimPayOutKeeps
  <2>3. Funds' = [Funds EXCEPT ![to] = @ + e.data.amount]
    <3>1. CASE e.claimer_ata \in Wallet
      <4>1. to \in Owner
        BY <1>1, <3>1 DEF Owner
      <4> HIDE DEF to, e
      <4>2. ata' = [ata EXCEPT ![to] = ata[to] + e.data.amount]
        BY <1>1, <2>1, <4>1, FromVaultExact
      <4>3. WalletFunds' = [WalletFunds EXCEPT ![to] = @ + e.data.amount]
        BY <1>1, <2>1, <4>1, <4>2, WalletGains DEF Solvent
      <4>4. Funds' = [Funds EXCEPT ![to] = WalletFunds[to] + e.data.amount]
        BY <2>2, <3>1, <4>1, <4>3, OneChanges DEF Solvent
      <4> QED
        BY <4>1, <4>4, FundsAre
    <3>2. CASE e.claimer_ata = VaultAuthority
      <4>1. UNCHANGED tokens
        BY <2>1, <3>2 DEF FromVault
      <4>2. WalletFunds' = WalletFunds
        BY <2>1, <4>1 DEF WalletFunds, UserData, tokens
      <4>3. Funds' = [WithVaults(WalletFunds') EXCEPT ![<<VaultAuthority, e.mint>>] = @ + e.data.amount]
        BY <1>1, <2>2, <3>2, VaultGains DEF Solvent
      <4> QED
        BY <3>2, <4>2, <4>3, FundsAre
    <3> QED
      BY <2>2, <3>1, <3>2 DEF TokenOwner
  <2>4. Deals[h].payee = to
    BY <2>1, DealFields DEF Solvent
  <2> HIDE DEF to
  <2> QED
    BY <1>2, <1>3, <2>3, <2>4 DEF Settles
<1> QED
  BY <1>4, <1>5

LEMMA RefundSettles ==
  ASSUME Solvent, Base', PaidInByOfferer, ClaimersSigned, NEW h \in DOMAIN escrow_state,
         escrow_state[h].offerer # escrow_state[h].claimer,
         NEW auth_expiry \in {0} \cup Timestamp, NEW claimer_passed \in BOOLEAN,
         \/ OffererRefund(h, auth_expiry, claimer_passed)
         \/ OffererRefundPayIn(h, auth_expiry, claimer_passed)
  PROVE  h \in Refundable /\ Settles(h, Deals[h].payer)
<1> DEFINE e == escrow_state[h]
           o == OffererAccount(e)
<1>1. /\ e.data.amount \in Nat /\ o \in Owner
      /\ WalletFunds \in [Owner -> Int]
  BY EscrowFields, FundsFields DEF Solvent, Base
<1>2. h \in Refundable
  <2>1. MayRefund(e, auth_expiry, claimer_passed)
    BY DEF OffererRefund, OffererRefundPayIn
  <2>2. Due(e)
    BY <2>1, RefundIsDue DEF Solvent
  <2> QED
    BY <2>2 DEF Refundable
<1>3. Deals' = Restrict(Deals, DOMAIN Deals \ {h})
  <2>1. escrow_state' = Without(escrow_state, h)
    BY DEF OffererRefund, OffererRefundPayIn
  <2> QED
    BY <2>1, DealsClose
<1>4. Deals[h].payer = o
  BY DealFields DEF Solvent
<1>5. WalletFunds' = [WalletFunds EXCEPT ![o] = @ + e.data.amount]
  <2>1. CASE OffererRefund(h, auth_expiry, claimer_passed)
    <3>1. /\ o \in DOMAIN user_data /\ UNCHANGED tokens
          /\ DOMAIN user_data' = DOMAIN user_data
          /\ user_data'[o].amount = user_data[o].amount + e.data.amount
          /\ \A k \in DOMAIN user_data : k # o => user_data'[k].amount = user_data[k].amount
      BY <2>1, RefundCredits
    <3> HIDE DEF o, e
    <3> QED
      BY <1>1, <3>1, UserGains DEF Solvent
  <2>2. CASE OffererRefundPayIn(h, auth_expiry, claimer_passed)
    <3>1. /\ e.data.pay_in
          /\ FromVault(<<e.offerer_ata, e.mint>>, e.data.amount)
          /\ DOMAIN user_data' = DOMAIN user_data
          /\ \A k \in DOMAIN user_data : user_data'[k].amount = user_data[k].amount
      BY <2>2, RefundPayInPays DEF Solvent
    <3>2. <<e.offerer_ata, e.mint>> = o
      BY <3>1 DEF PaidInByOfferer, OffererAccount
    <3> HIDE DEF o, e
    <3>3. ata' = [ata EXCEPT ![o] = ata[o] + e.data.amount]
      BY <1>1, <3>1, <3>2, FromVaultExact
    <3> QED
      BY <1>1, <3>1, <3>3, WalletGains DEF Solvent
  <2> QED
    BY <2>1, <2>2
<1>6. KeepsSlack
  <2>1. CASE OffererRefund(h, auth_expiry, claimer_passed)
    BY <2>1, RefundKeeps
  <2>2. CASE OffererRefundPayIn(h, auth_expiry, claimer_passed)
    BY <2>2, RefundPayInKeeps
  <2> QED
    BY <2>1, <2>2
<1>7. Funds' = [Funds EXCEPT ![o] = @ + e.data.amount]
  <2> HIDE DEF o, e
  <2>1. Funds' = [Funds EXCEPT ![o] = WalletFunds[o] + e.data.amount]
    BY <1>1, <1>5, <1>6, OneChanges DEF Solvent
  <2> QED
    BY <1>1, <2>1, FundsAre
<1> HIDE DEF o
<1> QED
  BY <1>2, <1>3, <1>4, <1>7 DEF Settles

-----------------------------------------------------------------------------
(***************************************************************************)
(* Every step, seen from the atomic swap.                                  *)
(***************************************************************************)

LEMMA OpenLocks ==
  ASSUME Solvent, Base', NEW e, OpensEscrow(e)
  PROVE  \E id \in Hash \ DOMAIN Deals : Abstract!Lock(id)
<1> DEFINE id == e.data.hash
           payer == OffererAccount(e)
           payee == <<IF e.data.pay_out THEN e.claimer_ata ELSE e.claimer, e.mint>>
           amount == e.data.amount
<1>1. id \in Hash /\ id \notin DOMAIN Deals
  BY SwapFields DEF OpensEscrow, Escrow, Deals
<1>2. /\ payer \in TokenAccount \ ({VaultAuthority} \X Mint)
      /\ amount \in 0 .. Funds[payer]
      /\ Funds' = [Funds EXCEPT ![payer] = @ - amount]
  <2>1. /\ payer \in Owner /\ amount \in 0 .. WalletFunds[payer]
        /\ WalletFunds' = [WalletFunds EXCEPT ![payer] = @ - amount]
    BY OpenLocksFunds
  <2>2. KeepsSlack /\ WalletFunds \in [Owner -> Int]
    BY OpenKeeps, FundsFields DEF Solvent
  <2> HIDE DEF payer, amount
  <2>3. Funds' = [Funds EXCEPT ![payer] = WalletFunds[payer] - amount]
    BY <2>1, <2>2, OneChanges DEF Solvent
  <2> QED
    BY <2>1, <2>3, Accounts, FundsAre
<1>3. payee \in TokenAccount /\ payer[2] = payee[2]
  <2>1. e \in Escrow /\ (e.data.pay_out => e.claimer_ata # None)
    BY DEF OpensEscrow
  <2>2. /\ e.claimer \in Wallet /\ e.mint \in Mint
        /\ e.data.pay_out => e.claimer_ata \in TokenOwner
    BY <2>1 DEF Escrow
  <2> QED
    BY <2>2 DEF TokenAccount, TokenOwner, OffererAccount
<1>4. Deals' = [i \in DOMAIN Deals \cup {id} |->
                  IF i = id THEN [payer |-> payer, payee |-> payee, amount |-> amount]
                  ELSE Deals[i]]
  BY DealsOpen DEF OpensEscrow, Deal
<1> HIDE DEF id, payer, payee, amount
<1> QED
  BY <1>1, <1>2, <1>3, <1>4 DEF Abstract!Lock

LEMMA WithdrawTransfers ==
  ASSUME Solvent, Base', NEW o \in Owner, NEW amount \in Amount, NEW receiver \in TokenOwner,
         Withdraw(o, amount, receiver)
  PROVE  Abstract!Transfer
<1> DEFINE to == <<receiver, o[2]>>
<1>1. /\ to \in TokenAccount /\ to[2] = o[2] /\ o[2] \in Mint
      /\ o \in TokenAccount \ ({VaultAuthority} \X Mint)
      /\ WalletFunds \in [Owner -> Int] /\ Funds[o] = WalletFunds[o]
  BY Accounts, FundsAre, FundsFields DEF Owner, TokenAccount, Solvent
<1>2. /\ Conserved'
      /\ receiver \in Wallet => KeepsSlack
      /\ receiver = VaultAuthority => GainsSlack(o[2], amount)
  BY WithdrawKeeps
<1> DEFINE Moved == /\ amount \in 0 .. Funds[o]
                    /\ Funds' = [[Funds EXCEPT ![o] = @ - amount] EXCEPT ![to] = @ + amount]
           less == [WalletFunds EXCEPT ![o] = WalletFunds[o] - amount]
<1>3. WithVaults(less) = [Funds EXCEPT ![o] = WalletFunds[o] - amount]
  <2> DEFINE f == WalletFunds
  <2>1. f \in [Owner -> Int] /\ Funds = WithVaults(f)
    BY <1>1, FundsAre
  <2> HIDE DEF f
  <2>2. WithVaults([f EXCEPT ![o] = f[o] - amount]) = [WithVaults(f) EXCEPT ![o] = f[o] - amount]
    BY <2>1, Accounts DEF WithVaults
  <2> QED
    BY <2>1, <2>2 DEF f
<1>4. ASSUME receiver \in Wallet PROVE Moved
  <2>1. to \in Owner /\ amount \in 0 .. WalletFunds[o] /\ WalletFunds' = PayFrom(o, to, amount)
    BY <1>4, WithdrawMovesFunds
  <2> HIDE DEF to
  <2>2. /\ less \in [Owner -> Int]
        /\ WalletFunds' = [less EXCEPT ![to] = less[to] + amount]
    BY <1>1, <1>3, <2>1 DEF PayFrom
  <2> HIDE DEF less
  <2>3. Funds' = WithVaults([less EXCEPT ![to] = less[to] + amount])
    BY <1>2, <1>4, <2>2, FundsKept
  <2>4. /\ WithVaults([less EXCEPT ![to] = less[to] + amount])
           = [WithVaults(less) EXCEPT ![to] = less[to] + amount]
        /\ WithVaults(less)[to] = less[to]
    BY <2>1, <2>2, Accounts DEF WithVaults
  <2>5. Funds' = [[Funds EXCEPT ![o] = @ - amount] EXCEPT ![to] = @ + amount]
    BY <1>1, <1>3, <2>3, <2>4
  <2> QED
    BY <1>1, <2>1, <2>5
<1>5. ASSUME receiver = VaultAuthority PROVE Moved
  <2>1. amount \in 0 .. WalletFunds[o] /\ WalletFunds' = less
    BY <1>5, WithdrawnToVault
  <2>2. Funds' = [WithVaults(WalletFunds') EXCEPT ![to] = @ + amount]
    BY <1>1, <1>2, <1>5, <2>1, VaultGains DEF Solvent
  <2> HIDE DEF to, less
  <2>3. Funds' = [[Funds EXCEPT ![o] = @ - amount] EXCEPT ![to] = @ + amount]
    BY <1>1, <1>3, <2>1, <2>2
  <2> QED
    BY <1>1, <2>1, <2>3
<1> HIDE DEF to, less
<1>6. UNCHANGED Deals
  BY DEF Withdraw, Deals
<1>7. Moved
  BY <1>4, <1>5 DEF TokenOwner
<1> QED
  BY <1>1, <1>6, <1>7 DEF Abstract!Transfer, Abstract!Pay

LEMMA SettlementSettles ==
  ASSUME Base, NEW h \in DOMAIN escrow_state,
         \/ h \in Payable /\ Settles(h, Deals[h].payee)
         \/ h \in Refundable /\ Settles(h, Deals[h].payer)
  PROVE  Abstract!Next
<1>1. h \in DOMAIN Deals /\ Deals[h].amount = escrow_state[h].data.amount
  BY DealFields
<1>2. ASSUME NEW o, Settles(h, o) PROVE Abstract!Settle(h, o)
  BY <1>1, <1>2 DEF Settles, Abstract!Settle, Restrict, Abstract!Restrict
<1> QED
  BY <1>1, <1>2 DEF Abstract!Next

LEMMA AtomicStep ==
  ASSUME \A party \in Party : party[1] # party[2],
         Atomic, Base', [SwapNext]_swapVars
  PROVE  [Abstract!Next]_<<Funds, Deals>>
<1> DEFINE Goal == [Abstract!Next]_<<Funds, Deals>>
<1>0. Solvent /\ Base /\ PaidInByOfferer /\ ClaimersSigned
  BY DEF Atomic, Solvent
<1>1. ASSUME UNCHANGED <<tokens, user_data, escrow_state>> PROVE Goal
  <2>1. Deals' = Deals
    BY <1>1 DEF Deals
  <2>2. Funds' = Funds
    BY <1>1 DEF Funds, Slack, Owed, TokenHolding, EscrowsIn, UserData, tokens
  <2> QED
    BY <2>1, <2>2
<1>2. ASSUME NEW o \in Owner, NEW amount \in Amount, Deposit(o, amount) PROVE Goal
  <2>1. WalletFunds' = WalletFunds /\ KeepsSlack
    BY <1>0, <1>2, DepositKeepsFunds, DepositKeeps
  <2>2. Deals' = Deals
    BY <1>2 DEF Deposit, Deals
  <2> QED
    BY <2>1, <2>2, FundsKept, FundsAre
<1>3. ASSUME NEW o \in Owner, NEW amount \in Amount, NEW receiver \in TokenOwner,
             Withdraw(o, amount, receiver)
      PROVE  Goal
  BY <1>0, <1>3, WithdrawTransfers DEF Abstract!Next
<1>4. ASSUME InitializeAny PROVE Goal
  BY <1>0, <1>4, AnyInitializeOpens, OpenLocks DEF Abstract!Next
<1>5. ASSUME NEW h \in DOMAIN escrow_state, NEW auth_expiry \in {0} \cup Timestamp,
             NEW claimer_passed \in BOOLEAN,
             \/ OffererRefund(h, auth_expiry, claimer_passed)
             \/ OffererRefundPayIn(h, auth_expiry, claimer_passed)
      PROVE  Goal
  <2>1. escrow_state[h].offerer # escrow_state[h].claimer
    <3>1. <<escrow_state[h].offerer, escrow_state[h].claimer>> \in Party
      BY <1>0 DEF Base, EscrowsTyped
    <3> QED
      BY <3>1
  <2>2. h \in Refundable /\ Settles(h, Deals[h].payer)
    BY <1>0, <1>5, <2>1, RefundSettles
  <2> QED
    BY <1>0, <2>2, SettlementSettles
<1>6. ASSUME NEW h \in DOMAIN escrow_state, NEW signer \in Wallet, NEW secret \in Witness,
             NEW account \in DataAccount \cup {None},
             \/ ClaimerClaim(signer, h, secret, account)
             \/ ClaimerClaimPayOut(signer, h, secret, account)
      PROVE  Goal
  <2>1. h \in Payable /\ Settles(h, Deals[h].payee)
    BY <1>0, <1>6, ClaimSettles
  <2> QED
    BY <1>0, <2>1, SettlementSettles
<1>7. ASSUME \/ DataNext \/ Tick \/ BeginAny
             \/ \E h \in DOMAIN escrow_state, t \in Timestamp : SignRefund(h, t)
             \/ \E w \in Donor, h \in Hash : Donate(w, h)
             \/ UNCHANGED swapVars
      PROVE  Goal
  <2>1. UNCHANGED <<tokens, user_data, escrow_state>>
    BY <1>7 DEF DataNext, CreateData, InitData, WriteData, CloseData, Tick, BeginAny,
       BeginTransaction, SignRefund, Donate, swapVars, tokens
  <2> QED
    BY <1>1, <2>1
<1> HIDE DEF Goal
<1>8. ASSUME NEW h \in DOMAIN escrow_state, RefundOf(h) \/ ClaimOf(h) PROVE Goal
  BY <1>5, <1>6, <1>8 DEF RefundOf, ClaimOf
<1>9. Goal
  BY <1>2, <1>3, <1>4, <1>7, <1>8 DEF SwapNext
<1> QED
  BY <1>9 DEF Goal

\* When no wallet swaps with itself, the program is an atomic swap: an escrow
\* takes its amount from the offerer's side when it is opened, and gives it
\* away in one step, in full and once: with a proof of payment to the account
\* named for the claimer, or back where it came from when the refund is due.
\* The account named may be the program's vault, where funds are lost.
THEOREM SwapIsAtomic ==
  ASSUME \A party \in Party : party[1] # party[2]
  PROVE  SwapSpec => ImplementsAtomicSwap
<1>1. SwapInit => Abstract!Init
  <2> SUFFICES ASSUME SwapInit PROVE Abstract!Init
    OBVIOUS
  <2>1. /\ ata = [o \in Owner |-> InitialTokens] /\ InitialTokens \in Nat
        /\ user_data = << >> /\ escrow_state = << >> /\ DOMAIN << >> = {}
    BY DEF SwapInit
  <2>2. \A o \in Owner : UserData(o).amount = 0
    BY <2>1, Fields DEF UserData
  <2>3. ASSUME NEW m \in Mint PROVE Slack(m) = 0
    <3>1. TokenHolding(m) = {} /\ EscrowsIn(m) = {}
      BY <2>1 DEF TokenHolding, EscrowsIn
    <3>2. Owed(m) = 0 /\ vault[m] = 0
      BY <3>1, SumEmpty DEF Owed, SwapInit
    <3> QED
      BY <3>2 DEF Slack
  <2>4. \A o \in TokenAccount : o \in {VaultAuthority} \X Mint <=> o[1] = VaultAuthority
    BY DEF TokenAccount
  <2>5. \A o \in TokenAccount :
          (IF o[1] = VaultAuthority THEN Slack(o[2]) ELSE ata[o] + UserData(o).amount)
          = IF o \in {VaultAuthority} \X Mint THEN 0 ELSE InitialTokens
    BY <2>1, <2>2, <2>3, <2>4, Accounts
  <2>6. Funds = [o \in TokenAccount |-> IF o \in {VaultAuthority} \X Mint THEN 0 ELSE InitialTokens]
    BY <2>5 DEF Funds
  <2>7. Deals = << >>
    BY <2>1 DEF Deals
  <2> QED
    BY <2>6, <2>7 DEF Abstract!Init
<1>2. Atomic /\ [SwapNext]_swapVars => [Abstract!Next]_<<Funds, Deals>>
  <2> SUFFICES ASSUME Atomic, [SwapNext]_swapVars PROVE [Abstract!Next]_<<Funds, Deals>>
    OBVIOUS
  <2>1. Base'
    BY BaseStep DEF Atomic, Solvent
  <2> QED
    BY <2>1, AtomicStep
<1> QED
  BY <1>1, <1>2, AtomicHolds, PTL DEF SwapSpec, ImplementsAtomicSwap, Abstract!Spec
=============================================================================
