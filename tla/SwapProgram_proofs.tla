------------------------- MODULE SwapProgram_proofs -------------------------
(***************************************************************************)
(* Proofs about SwapProgram, for every value of its constants.             *)
(***************************************************************************)
EXTENDS SwapProgram, InductionLemmas

USE SupplyFits, Arguments, Addresses

-----------------------------------------------------------------------------
(***************************************************************************)
(* What the helpers do.                                                    *)
(***************************************************************************)

UserAccount ==
  [amount : 0 .. U64 - 1,
   reputation : [Outcome \X SwapType -> [volume : 0 .. U64 - 1, count : 0 .. U64 - 1]]]

Escrow ==
  [data : Swap, offerer : Wallet, claimer : Wallet, mint : Mint,
   offerer_ata : Wallet \cup {None}, claimer_ata : TokenOwner \cup {None},
   claimer_bounty : Lamport \cup {0}, security_deposit : Lamport \cup {0}]

LEMMA U64Positive == U64 \in Nat /\ U64 > 0
<1>1. Cardinality(Wallet) \in Nat
  BY FS_CardinalityType
<1>2. \A i, j \in Nat : i * j >= 0
  OBVIOUS
<1> QED
  BY <1>1, <1>2

LEMMA SwapFields ==
  ASSUME NEW d \in Swap
  PROVE  /\ d.hash \in Hash /\ d.amount \in Nat /\ d.kind \in SwapType
         /\ d.pay_in \in BOOLEAN /\ d.pay_out \in BOOLEAN
BY SwapData DEF Hash

\* Addition in a u64, which wraps, and one that stops at the largest number.
LEMMA Additions ==
  ASSUME NEW i \in Nat, NEW j \in Nat
  PROVE  /\ Plus(i, j) \in 0 .. U64 - 1
         /\ i + j < U64 => Plus(i, j) = i + j
         /\ SaturatingAdd(i, j) \in 0 .. U64 - 1
         /\ i + j < U64 => SaturatingAdd(i, j) = i + j
<1>1. Plus(i, j) \in 0 .. U64 - 1 /\ (i + j < U64 => Plus(i, j) = i + j)
  BY U64Positive DEF Plus
<1>2. i + j \in Nat /\ U64 - 1 \in Nat
  BY U64Positive
<1>3. \A x \in Nat, y \in Nat : Min({x, y}) = IF x <= y THEN x ELSE y
  BY DEF Min
<1>4. SaturatingAdd(i, j) = IF i + j <= U64 - 1 THEN i + j ELSE U64 - 1
  BY <1>2, <1>3 DEF SaturatingAdd
<1> QED
  BY <1>1, <1>2, <1>4

LEMMA LargerOfTwo ==
  ASSUME NEW i \in Int, NEW j \in Int
  PROVE  Max({i, j}) = IF i >= j THEN i ELSE j
BY DEF Max

LEMMA LargestOfThree ==
  ASSUME NEW i \in Nat, NEW j \in Nat, NEW k \in Nat
  PROVE  LET largest == Max({i, j, k})
         IN  /\ largest \in Nat /\ largest >= i /\ largest >= j /\ largest >= k
             /\ largest = i \/ largest = j \/ largest = k
<1>1. \E y \in {i, j, k} : \A x \in {i, j, k} : y >= x
  <2>1. CASE i >= j /\ i >= k
    BY <2>1
  <2>2. CASE j >= i /\ j >= k
    BY <2>2
  <2>3. CASE k >= i /\ k >= j
    BY <2>3
  <2> QED
    BY <2>1, <2>2, <2>3
<1> QED
  BY <1>1 DEF Max

LEMMA Fields ==
  /\ NewUserData \in UserAccount
  /\ NewUserData.amount = 0
  /\ \A r \in Outcome \X SwapType : NewUserData.reputation[r].count = 0
BY U64Positive DEF NewUserData, UserAccount

LEMMA CreditUser ==
  ASSUME NEW user \in UserAccount, NEW amount \in Nat
  PROVE  /\ Credit(user, amount) \in UserAccount
         /\ Credit(user, amount).amount = Plus(user.amount, amount)
         /\ Credit(user, amount).reputation = user.reputation
<1>1. Plus(user.amount, amount) \in 0 .. U64 - 1
  <2>1. user.amount \in Nat
    BY U64Positive DEF UserAccount
  <2> QED
    BY <2>1, Additions
<1> QED
  BY <1>1 DEF Credit, UserAccount

LEMMA DebitUser ==
  ASSUME NEW user \in UserAccount, NEW amount \in Nat, user.amount >= amount
  PROVE  /\ Debit(user, amount) \in UserAccount
         /\ Debit(user, amount).amount = user.amount - amount
         /\ Debit(user, amount).reputation = user.reputation
<1>1. user.amount - amount \in 0 .. U64 - 1
  BY U64Positive DEF UserAccount
<1> QED
  BY <1>1 DEF Debit, UserAccount

LEMMA RecordUser ==
  ASSUME NEW user \in UserAccount, NEW outcome \in Outcome, NEW d \in Swap
  PROVE  LET recorded == Record(user, outcome, d)
             kept == user.reputation
         IN  /\ recorded \in UserAccount
             /\ recorded.amount = user.amount
             /\ recorded.reputation[<<outcome, d.kind>>].count
                  = SaturatingAdd(kept[<<outcome, d.kind>>].count, 1)
             /\ \A r \in Outcome \X SwapType :
                  r # <<outcome, d.kind>> => recorded.reputation[r] = kept[r]
<1> DEFINE Rep == [volume : 0 .. U64 - 1, count : 0 .. U64 - 1]
           kept == user.reputation
           key == <<outcome, d.kind>>
           new == [volume |-> SaturatingAdd(kept[key].volume, d.amount),
                   count |-> SaturatingAdd(kept[key].count, 1)]
<1>1. key \in Outcome \X SwapType /\ kept \in [Outcome \X SwapType -> Rep]
  BY SwapFields DEF UserAccount
<1>2. new \in Rep
  <2>1. kept[key] \in Rep
    BY <1>1
  <2>2. kept[key].volume \in Nat /\ kept[key].count \in Nat /\ d.amount \in Nat /\ 1 \in Nat
    BY <2>1, SwapFields
  <2> QED
    BY <2>2, Additions
<1>3. Record(user, outcome, d) = [user EXCEPT !.reputation = [kept EXCEPT ![key] = new]]
  BY DEF Record
<1>4. [kept EXCEPT ![key] = new] \in [Outcome \X SwapType -> Rep]
  BY <1>1, <1>2
<1>5. [kept EXCEPT ![key] = new][key] = new
  BY <1>1
<1>6. \A r \in Outcome \X SwapType : r # key => [kept EXCEPT ![key] = new][r] = kept[r]
  BY <1>1
<1> DEFINE rep == [kept EXCEPT ![key] = new]
<1>7. Record(user, outcome, d) = [user EXCEPT !.reputation = rep]
  BY <1>3
<1>8. new.count = SaturatingAdd(kept[key].count, 1)
  OBVIOUS
<1> HIDE DEF rep, new
<1>9. [user EXCEPT !.reputation = rep] \in UserAccount
      /\ [user EXCEPT !.reputation = rep].amount = user.amount
      /\ [user EXCEPT !.reputation = rep].reputation = rep
  BY <1>4 DEF UserAccount, rep
<1> QED
  BY <1>5, <1>6, <1>7, <1>8, <1>9 DEF rep

LEMMA RecordAmount ==
  ASSUME NEW user \in UserAccount, NEW outcome \in Outcome, NEW d \in Swap
  PROVE  Record(user, outcome, d).amount = user.amount
BY RecordUser

-----------------------------------------------------------------------------
(***************************************************************************)
(* The part of the inductive invariant that each instruction needs to be   *)
(* well defined: types, the accounts that settlements will need, and the   *)
(* lamports that escrows will pay out.                                     *)
(***************************************************************************)

TokensTyped == ata \in [Owner -> 0 .. U64 - 1] /\ vault \in [Mint -> 0 .. U64 - 1]

UsersTyped ==
  /\ IsFiniteSet(DOMAIN user_data) /\ DOMAIN user_data \subseteq Owner
  /\ user_data \in [DOMAIN user_data -> UserAccount]

EscrowsTyped ==
  /\ IsFiniteSet(DOMAIN escrow_state)
  /\ escrow_state \in [DOMAIN escrow_state -> Escrow]
  /\ \A h \in DOMAIN escrow_state :
       /\ escrow_state[h].data.hash = h
       /\ <<escrow_state[h].offerer, escrow_state[h].claimer>> \in Party

DataTyped ==
  /\ DOMAIN data \subseteq DataAccount
  /\ data \in [DOMAIN data -> [owner : Wallet \cup {None}, content : Witness]]

LamportsTyped == lamports \in [LamportAccount -> Nat]

OutsideTyped ==
  /\ now \in Timestamp
  /\ \A sig \in signed : sig[1] \in Claimer
  /\ \/ ix0 \in {OtherIx} \cup RelayIx
     \/ ix0.program = "Ed25519" /\ ix0.pubkey \in Wallet

OpenedTyped == opened \in [Owner -> 0 .. MaxSwaps]

Base ==
  /\ TokensTyped /\ UsersTyped /\ EscrowsTyped /\ DataTyped /\ LamportsTyped
  /\ OutsideTyped /\ OpenedTyped
  /\ SettlementAccountsExist /\ EscrowFunded

-----------------------------------------------------------------------------
(* What the shared parts of the instructions do to these.                  *)

LEMMA EscrowFields ==
  ASSUME EscrowsTyped, NEW h \in DOMAIN escrow_state
  PROVE  LET e == escrow_state[h]
         IN  /\ e \in Escrow /\ e.data \in Swap /\ e.data.hash = h /\ h \in Hash
             /\ e.data.amount \in Nat
             /\ e.data.pay_in \in BOOLEAN /\ e.data.pay_out \in BOOLEAN
             /\ e.offerer \in Wallet /\ e.claimer \in Wallet /\ e.mint \in Mint
             /\ OffererAccount(e) \in Owner /\ ClaimerAccount(e) \in Owner
             /\ Initializer(e) \in Wallet
             /\ e.security_deposit \in Nat /\ e.claimer_bounty \in Nat
             /\ e.offerer_ata \in Wallet \cup {None}
             /\ e.claimer_ata \in TokenOwner \cup {None}
<1> DEFINE e == escrow_state[h]
<1>1. e \in Escrow /\ e.data.hash = h
  BY DEF EscrowsTyped
<1>2. e.data \in Swap
  BY <1>1 DEF Escrow
<1>3. e.data.amount \in Nat /\ h \in Hash
      /\ e.data.pay_in \in BOOLEAN /\ e.data.pay_out \in BOOLEAN
  BY <1>1, <1>2, SwapFields
<1> HIDE DEF e
<1>4. /\ e.offerer \in Wallet /\ e.claimer \in Wallet /\ e.mint \in Mint
      /\ e.security_deposit \in Nat /\ e.claimer_bounty \in Nat
      /\ e.offerer_ata \in Wallet \cup {None} /\ e.claimer_ata \in TokenOwner \cup {None}
  <2>1. e.security_deposit \in Lamport \cup {0} /\ e.claimer_bounty \in Lamport \cup {0}
    BY <1>1 DEF Escrow
  <2>2. Lamport \cup {0} \subseteq Nat
    OBVIOUS
  <2>3. /\ e.offerer \in Wallet /\ e.claimer \in Wallet /\ e.mint \in Mint
        /\ e.offerer_ata \in Wallet \cup {None} /\ e.claimer_ata \in TokenOwner \cup {None}
    BY ONLY <1>1 DEF Escrow
  <2> QED
    BY <2>1, <2>2, <2>3
<1>5. OffererAccount(e) \in Owner /\ ClaimerAccount(e) \in Owner /\ Initializer(e) \in Wallet
  BY <1>4 DEF OffererAccount, ClaimerAccount, Initializer, Owner
<1> QED
  BY <1>1, <1>2, <1>3, <1>4, <1>5 DEF e

LEMMA ToVaultTyped ==
  ASSUME TokensTyped, NEW o \in Owner, NEW amount \in Nat, ToVault(o, amount)
  PROVE  TokensTyped'
<1>1. o[2] \in Mint /\ vault[o[2]] \in Nat /\ ata[o] \in 0 .. U64 - 1
  BY U64Positive DEF TokensTyped, Owner
<1>2. Plus(vault[o[2]], amount) \in 0 .. U64 - 1
  BY <1>1, Additions
<1>3. ata[o] - amount \in 0 .. U64 - 1
  BY <1>1, U64Positive DEF ToVault
<1> QED
  BY <1>2, <1>3 DEF ToVault, TokensTyped

LEMMA FromVaultTyped ==
  ASSUME TokensTyped, NEW o \in TokenAccount, NEW amount \in Nat, FromVault(o, amount)
  PROVE  TokensTyped'
<1>1. CASE o[1] # VaultAuthority
  <2>1. o \in Owner
    BY <1>1 DEF TokenAccount, TokenOwner, Owner
  <2>2. o[2] \in Mint /\ ata[o] \in Nat /\ vault[o[2]] \in 0 .. U64 - 1
    BY <2>1, U64Positive DEF TokensTyped, Owner
  <2>3. Plus(ata[o], amount) \in 0 .. U64 - 1
    BY <2>2, Additions
  <2>4. vault[o[2]] - amount \in 0 .. U64 - 1
    BY <2>2, U64Positive DEF FromVault
  <2> QED
    BY <1>1, <2>3, <2>4 DEF FromVault, TokensTyped
<1>2. CASE o[1] = VaultAuthority
  BY <1>2 DEF FromVault, tokens, TokensTyped
<1> QED
  BY <1>1, <1>2

\* A transfer of what the sender has.
LEMMA MoveTyped ==
  ASSUME NEW A, NEW balance \in [A -> Nat], NEW from \in A, NEW to \in A,
         NEW amount \in Nat, amount <= balance[from]
  PROVE  LET moved == Move(balance, from, to, amount)
         IN  /\ moved \in [A -> Nat]
             /\ \A x \in A \ {from, to} : moved[x] = balance[x]
             /\ from # to => /\ moved[from] = balance[from] - amount
                             /\ moved[to] = balance[to] + amount
             /\ from = to => moved = balance
<1>1. CASE from # to
  BY <1>1 DEF Move
<1>2. CASE from = to
  <2> DEFINE half == [balance EXCEPT ![from] = @ - amount]
  <2>1. half \in [A -> Int] /\ half[from] = balance[from] - amount
        /\ \A x \in A \ {from} : half[x] = balance[x]
    OBVIOUS
  <2>2. Move(balance, from, to, amount) = [half EXCEPT ![from] = @ + amount]
    BY <1>2 DEF Move
  <2> HIDE DEF half
  <2>3. [half EXCEPT ![from] = @ + amount] \in [A -> Int]
    BY <2>1
  <2>4. \A x \in A : [half EXCEPT ![from] = @ + amount][x] = balance[x]
    BY <2>1
  <2>5. [half EXCEPT ![from] = @ + amount] = balance
    BY <2>3, <2>4
  <2> QED
    BY <1>2, <2>2, <2>5
<1> QED
  BY <1>1, <1>2

\* Topping an account up takes lamports from the payer only.
LEMMA TopUpTyped ==
  ASSUME LamportsTyped, NEW payer \in Wallet, NEW h \in Hash \cup DataAccount,
         NEW required \in Nat, TopUp(payer, h, required)
  PROVE  /\ LamportsTyped'
         /\ lamports'[h] >= required
         /\ \A x \in Hash \ {h} : lamports'[x] = lamports[x]
<1> DEFINE difference == Max({0, required - lamports[h]})
<1>1. /\ payer \in LamportAccount /\ h \in LamportAccount /\ payer # h
      /\ Hash \subseteq LamportAccount /\ payer \notin Hash
  BY DEF LamportAccount
<1>2. lamports[h] \in Nat /\ lamports[payer] \in Nat
  BY <1>1 DEF LamportsTyped
<1>3. difference \in Nat /\ lamports[h] + difference >= required
  <2>1. required - lamports[h] \in Int
    BY <1>2
  <2>2. difference = IF 0 >= required - lamports[h] THEN 0 ELSE required - lamports[h]
    BY <2>1, LargerOfTwo
  <2> QED
    BY <1>2, <2>2
<1>4. difference <= lamports[payer] /\ lamports' = Move(lamports, payer, h, difference)
  BY <1>2, <1>3 DEF TopUp
<1> HIDE DEF difference
<1>5. /\ lamports' \in [LamportAccount -> Nat]
      /\ \A x \in LamportAccount \ {payer, h} : lamports'[x] = lamports[x]
      /\ lamports'[h] = lamports[h] + difference
  BY <1>1, <1>3, <1>4, MoveTyped DEF LamportsTyped
<1> QED
  BY <1>1, <1>3, <1>5 DEF LamportsTyped

\* Paying out the deposit of an escrow touches no other escrow: the deposit is
\* covered, so that no balance gets negative, whoever offerer and initializer are.
LEMMA PaySecurityDepositTyped ==
  ASSUME Base, NEW h \in DOMAIN escrow_state, NEW is_cooperative \in BOOLEAN,
         PaySecurityDeposit(h, escrow_state[h], is_cooperative)
  PROVE  /\ LamportsTyped'
         /\ \A x \in Hash \ {h} : lamports'[x] = lamports[x]
<1> DEFINE e == escrow_state[h]
<1>1. /\ e.offerer \in Wallet /\ Initializer(e) \in Wallet /\ h \in Hash
      /\ e.security_deposit \in Nat /\ e.claimer_bounty \in Nat
  BY EscrowFields DEF Base
<1>2. /\ e.offerer \in LamportAccount /\ Initializer(e) \in LamportAccount
      /\ h \in LamportAccount /\ e.offerer # h /\ Initializer(e) # h
      /\ Hash \subseteq LamportAccount
      /\ e.offerer \notin Hash /\ Initializer(e) \notin Hash
  BY <1>1 DEF LamportAccount
<1>3. /\ lamports \in [LamportAccount -> Nat]
      /\ lamports[h] \in Nat /\ lamports[e.offerer] \in Nat /\ lamports[Initializer(e)] \in Nat
  BY <1>2 DEF Base, LamportsTyped
<1>4. lamports[h] >= e.security_deposit
  <2>1. lamports[h] >= Max({RENT, e.security_deposit, e.claimer_bounty})
    BY DEF Base, EscrowFunded
  <2> HIDE DEF e
  <2>2. /\ Max({RENT, e.security_deposit, e.claimer_bounty}) >= e.security_deposit
        /\ Max({RENT, e.security_deposit, e.claimer_bounty}) \in Nat
    BY <1>1, LargestOfThree
  <2> QED
    BY <1>1, <1>3, <2>1, <2>2
<1> DEFINE i == Initializer(e)
           o == e.offerer
<1> HIDE DEF e, i, o
<1>5. CASE lamports' = Move(lamports, h, i, lamports[h])
  <2>1. /\ lamports' \in [LamportAccount -> Nat]
        /\ \A x \in LamportAccount \ {h, i} : lamports'[x] = lamports[x]
    BY <1>2, <1>3, <1>5, MoveTyped DEF i
  <2> QED
    BY <1>2, <2>1 DEF LamportsTyped, i
<1>6. CASE lamports' = [lamports EXCEPT
                          ![o] = lamports[o] + e.security_deposit,
                          ![i] = lamports[i] + lamports[h] - e.security_deposit,
                          ![h] = 0]
  <2>1. /\ lamports[o] + e.security_deposit \in Nat
        /\ lamports[i] + lamports[h] - e.security_deposit \in Nat
    BY <1>1, <1>3, <1>4 DEF i, o
  <2>2. lamports' \in [LamportAccount -> Nat]
    BY <1>3, <1>6, <2>1
  <2>3. \A x \in LamportAccount \ {o, i, h} : lamports'[x] = lamports[x]
    BY <1>3, <1>6
  <2> QED
    BY <1>2, <2>2, <2>3 DEF LamportsTyped, i, o
<1> QED
  BY <1>5, <1>6 DEF PaySecurityDeposit, e, i, o

\* Neither does paying out the bounty, which is covered as well.
LEMMA PayClaimerBountyTyped ==
  ASSUME Base, NEW h \in DOMAIN escrow_state, NEW signer \in Wallet,
         NEW account \in DataAccount \cup {None},
         PayClaimerBounty(signer, h, escrow_state[h], account)
  PROVE  /\ LamportsTyped'
         /\ \A x \in Hash \ {h} : lamports'[x] = lamports[x]
<1> DEFINE e == escrow_state[h]
           i == Initializer(e)
           read == IF account = None THEN lamports
                   ELSE Move(lamports, account, signer, lamports[account])
           paid == Move(read, h, signer, e.claimer_bounty)
<1>1. /\ i \in Wallet /\ h \in Hash
      /\ e.security_deposit \in Nat /\ e.claimer_bounty \in Nat
  BY EscrowFields DEF Base
<1>2. /\ signer \in LamportAccount /\ i \in LamportAccount /\ h \in LamportAccount
      /\ Hash \subseteq LamportAccount /\ signer \notin Hash /\ i \notin Hash
      /\ account # None => account \in LamportAccount /\ account \notin Hash
  BY <1>1 DEF LamportAccount
<1>3. lamports \in [LamportAccount -> Nat] /\ lamports[h] \in Nat
  BY <1>2 DEF Base, LamportsTyped
<1>4. lamports[h] >= e.claimer_bounty
  <2>1. lamports[h] >= Max({RENT, e.security_deposit, e.claimer_bounty})
    BY DEF Base, EscrowFunded
  <2> HIDE DEF e
  <2>2. /\ Max({RENT, e.security_deposit, e.claimer_bounty}) >= e.claimer_bounty
        /\ Max({RENT, e.security_deposit, e.claimer_bounty}) \in Nat
    BY <1>1, LargestOfThree
  <2> QED
    BY <1>1, <1>3, <2>1, <2>2
<1>5. lamports' = Move(paid, h, i, paid[h])
  BY DEF PayClaimerBounty
<1> HIDE DEF e, i
<1>6. read \in [LamportAccount -> Nat] /\ \A x \in Hash : read[x] = lamports[x]
  <2>1. CASE account = None
    BY <1>2, <1>3, <2>1
  <2>2. CASE account # None
    <3>1. lamports[account] \in Nat /\ lamports[account] <= lamports[account]
      BY <1>2, <1>3, <2>2
    <3>2. /\ Move(lamports, account, signer, lamports[account]) \in [LamportAccount -> Nat]
          /\ \A x \in LamportAccount \ {account, signer} :
               Move(lamports, account, signer, lamports[account])[x] = lamports[x]
      BY <1>2, <1>3, <2>2, <3>1, MoveTyped
    <3> QED
      BY <1>2, <2>2, <3>2
  <2> QED
    BY <2>1, <2>2
<1> HIDE DEF read
<1>7. paid \in [LamportAccount -> Nat] /\ \A x \in Hash \ {h} : paid[x] = lamports[x]
  <2>1. e.claimer_bounty <= read[h] /\ read[h] \in Nat
    BY <1>1, <1>3, <1>4, <1>6
  <2>2. paid \in [LamportAccount -> Nat]
        /\ \A x \in LamportAccount \ {h, signer} : paid[x] = read[x]
    BY <1>1, <1>2, <1>6, <2>1, MoveTyped
  <2> QED
    BY <1>2, <1>6, <2>2
<1> HIDE DEF paid
<1>8. /\ lamports' \in [LamportAccount -> Nat]
      /\ \A x \in LamportAccount \ {h, i} : lamports'[x] = paid[x]
  <2>1. paid[h] \in Nat /\ paid[h] <= paid[h]
    BY <1>2, <1>7
  <2> QED
    BY <1>2, <1>5, <1>7, <2>1, MoveTyped
<1> QED
  BY <1>2, <1>7, <1>8 DEF LamportsTyped

-----------------------------------------------------------------------------
(* Every instruction keeps the invariant Base.                             *)

LEMMA TokensStep == Base /\ [SwapNext]_swapVars => TokensTyped'
<1> SUFFICES ASSUME Base, [SwapNext]_swapVars PROVE TokensTyped'
  OBVIOUS
<1>0. TokensTyped /\ EscrowsTyped /\ SettlementAccountsExist
  BY DEF Base
<1>1. CASE UNCHANGED tokens
  BY <1>0, <1>1 DEF tokens, TokensTyped
<1>2. ASSUME NEW o \in Owner, NEW amount \in Amount, Deposit(o, amount)
      PROVE  TokensTyped'
  BY <1>0, <1>2, ToVaultTyped DEF Deposit
<1>3. ASSUME NEW o \in Owner, NEW amount \in Amount, NEW receiver \in TokenOwner,
             Withdraw(o, amount, receiver)
      PROVE  TokensTyped'
  <2>1. <<receiver, o[2]>> \in TokenAccount
    BY DEF Owner, TokenAccount
  <2> QED
    BY <1>0, <1>3, <2>1, FromVaultTyped DEF Withdraw
<1>4. ASSUME NEW party \in Party, NEW m \in Mint, NEW d \in Swap,
             NEW claimer_ata \in TokenOwner \cup {None}, NEW t \in Timestamp,
             OffererInitializePayIn(party[1], party[2], m, d, claimer_ata, t)
      PROVE  TokensTyped'
  <2>1. <<party[1], m>> \in Owner /\ d.amount \in Nat
    BY SwapFields DEF Owner
  <2> QED
    BY <1>0, <1>4, <2>1, ToVaultTyped DEF OffererInitializePayIn
<1>5. ASSUME NEW h \in DOMAIN escrow_state, NEW auth_expiry \in {0} \cup Timestamp,
             NEW claimer_passed \in BOOLEAN,
             OffererRefundPayIn(h, auth_expiry, claimer_passed)
      PROVE  TokensTyped'
  <2> DEFINE e == escrow_state[h]
  <2>1. e.mint \in Mint /\ e.offerer_ata \in Wallet \cup {None} /\ e.data.amount \in Nat
    BY <1>0, EscrowFields
  <2>2. e.offerer_ata # None
    BY <1>0, <1>5 DEF OffererRefundPayIn, SettlementAccountsExist
  <2>3. <<e.offerer_ata, e.mint>> \in TokenAccount
    BY <2>1, <2>2 DEF TokenAccount, TokenOwner
  <2>4. FromVault(<<e.offerer_ata, e.mint>>, e.data.amount)
    BY <1>5 DEF OffererRefundPayIn
  <2> QED
    BY <1>0, <2>1, <2>3, <2>4, FromVaultTyped
<1>6. ASSUME NEW h \in DOMAIN escrow_state, NEW signer \in Wallet,
             NEW secret \in Witness, NEW account \in DataAccount \cup {None},
             ClaimerClaimPayOut(signer, h, secret, account)
      PROVE  TokensTyped'
  <2> DEFINE e == escrow_state[h]
  <2>1. e.mint \in Mint /\ e.claimer_ata \in TokenOwner \cup {None} /\ e.data.amount \in Nat
    BY <1>0, EscrowFields
  <2>2. e.claimer_ata # None
    BY <1>0, <1>6 DEF ClaimerClaimPayOut, SettlementAccountsExist
  <2>3. <<e.claimer_ata, e.mint>> \in TokenAccount
    BY <2>1, <2>2 DEF TokenAccount
  <2>4. FromVault(<<e.claimer_ata, e.mint>>, e.data.amount)
    BY <1>6 DEF ClaimerClaimPayOut
  <2> QED
    BY <1>0, <2>1, <2>3, <2>4, FromVaultTyped
<1>7. ASSUME NEW h \in DOMAIN escrow_state, RefundOf(h) \/ ClaimOf(h)
      PROVE  TokensTyped'
  BY <1>1, <1>5, <1>6, <1>7 DEF RefundOf, ClaimOf, OffererRefund, ClaimerClaim
<1>8. CASE InitializeAny
  <2>1. ASSUME NEW party \in Party, NEW m \in Mint, NEW d \in Swap,
               NEW claimer_ata \in TokenOwner \cup {None}, NEW t \in Timestamp,
               NEW security_deposit \in Lamport, NEW claimer_bounty \in Lamport,
               OffererInitialize(party[1], party[2], m, d, claimer_ata, t,
                                 security_deposit, claimer_bounty)
        PROVE  TokensTyped'
    BY <1>1, <2>1 DEF OffererInitialize
  <2> QED
    BY <1>4, <1>8, <2>1 DEF InitializeAny
<1>9. CASE \/ DataNext \/ Tick \/ BeginAny
           \/ \E h \in DOMAIN escrow_state, t \in Timestamp : SignRefund(h, t)
           \/ \E w \in Donor, h \in Hash : Donate(w, h)
  BY <1>1, <1>9 DEF DataNext, CreateData, InitData, WriteData, CloseData, Tick, BeginAny,
     BeginTransaction, SignRefund, Donate, tokens
<1>10. CASE UNCHANGED swapVars
  BY <1>1, <1>10 DEF swapVars, tokens
<1> QED
  BY <1>2, <1>3, <1>7, <1>8, <1>9, <1>10 DEF SwapNext

LEMMA UsersChange ==
  ASSUME UsersTyped, NEW k \in DOMAIN user_data, NEW v \in UserAccount,
         user_data' = [user_data EXCEPT ![k] = v]
  PROVE  UsersTyped' /\ DOMAIN user_data' = DOMAIN user_data
BY DEF UsersTyped

\* The claimer's copy that a refund writes back: the balance is the old one.
LEMMA RefundedClaimerFields ==
  ASSUME Base, NEW h \in DOMAIN escrow_state, NEW auth_expiry,
         ClaimerAccount(escrow_state[h]) \in DOMAIN user_data
  PROVE  LET e == escrow_state[h]
             old == user_data[ClaimerAccount(e)]
             new == RefundedClaimer(e, auth_expiry)
         IN  /\ old \in UserAccount /\ new \in UserAccount
             /\ new.amount = old.amount
             /\ RefundOutcome(auth_expiry) \in Outcome
             /\ new = IF e.data.pay_out THEN old
                      ELSE Record(old, RefundOutcome(auth_expiry), e.data)
<1> DEFINE e == escrow_state[h]
           old == user_data[ClaimerAccount(e)]
<1>1. old \in UserAccount
  BY DEF Base, UsersTyped
<1>2. RefundOutcome(auth_expiry) \in Outcome
  BY DEF RefundOutcome, Outcome
<1>3. e.data \in Swap
  BY EscrowFields DEF Base
<1>4. RefundedClaimer(e, auth_expiry)
        = IF e.data.pay_out THEN old ELSE Record(old, RefundOutcome(auth_expiry), e.data)
  BY DEF RefundedClaimer
<1>5. LET new == Record(old, RefundOutcome(auth_expiry), e.data)
      IN  new \in UserAccount /\ new.amount = old.amount
  <2> HIDE DEF e, old
  <2> QED
    BY <1>1, <1>2, <1>3, RecordUser
<1> QED
  BY <1>1, <1>2, <1>4, <1>5

\* What a refund to user accounts writes.  When offerer and claimer are the same
\* wallet and its account is passed, the copy without the credit is written last.
LEMMA RefundUserDataFields ==
  ASSUME Base, NEW h \in DOMAIN escrow_state, NEW auth_expiry, NEW claimer_passed \in BOOLEAN,
         OffererAccount(escrow_state[h]) \in DOMAIN user_data,
         claimer_passed => ClaimerAccount(escrow_state[h]) \in DOMAIN user_data
  PROVE  LET e == escrow_state[h]
             new == RefundUserData(e, auth_expiry, claimer_passed)
             credited == Credit(user_data[OffererAccount(e)], e.data.amount)
         IN  /\ new \in [DOMAIN user_data -> UserAccount]
             /\ credited \in UserAccount
             /\ claimer_passed =>
                  new[ClaimerAccount(e)] = RefundedClaimer(e, auth_expiry)
             /\ ~ claimer_passed \/ OffererAccount(e) # ClaimerAccount(e) =>
                  new[OffererAccount(e)] = credited
             /\ \A k \in DOMAIN user_data :
                  /\ k # OffererAccount(e)
                  /\ ~ claimer_passed \/ k # ClaimerAccount(e)
                  => new[k] = user_data[k]
<1> DEFINE e == escrow_state[h]
           o == OffererAccount(e)
           c == ClaimerAccount(e)
           credited == Credit(user_data[o], e.data.amount)
           refunded == RefundedClaimer(e, auth_expiry)
<1>1. user_data \in [DOMAIN user_data -> UserAccount] /\ o \in DOMAIN user_data
  BY DEF Base, UsersTyped
<1>2. e.data.amount \in Nat
  BY EscrowFields DEF Base
<1>3. credited \in UserAccount
  BY <1>1, <1>2, CreditUser
<1>4. claimer_passed => refunded \in UserAccount /\ c \in DOMAIN user_data
  BY RefundedClaimerFields
<1>5. RefundUserData(e, auth_expiry, claimer_passed) =
        IF claimer_passed THEN [user_data EXCEPT ![o] = credited, ![c] = refunded]
        ELSE [user_data EXCEPT ![o] = credited]
  BY DEF RefundUserData
<1> HIDE DEF e, o, c, credited, refunded
<1>6. CASE claimer_passed
  <2> DEFINE new == [user_data EXCEPT ![o] = credited, ![c] = refunded]
  <2>1. /\ new \in [DOMAIN user_data -> UserAccount]
        /\ new[c] = refunded
        /\ o # c => new[o] = credited
        /\ \A k \in DOMAIN user_data : k # o /\ k # c => new[k] = user_data[k]
    BY <1>1, <1>3, <1>4, <1>6
  <2> QED
    BY <1>3, <1>5, <1>6, <2>1 DEF e, o, c, credited, refunded
<1>7. CASE ~ claimer_passed
  <2> DEFINE new == [user_data EXCEPT ![o] = credited]
  <2>1. /\ new \in [DOMAIN user_data -> UserAccount]
        /\ new[o] = credited
        /\ \A k \in DOMAIN user_data : k # o => new[k] = user_data[k]
    BY <1>1, <1>3
  <2> QED
    BY <1>3, <1>5, <1>7, <2>1 DEF e, o, c, credited, refunded
<1> QED
  BY <1>6, <1>7

LEMMA UsersStep == Base /\ [SwapNext]_swapVars => UsersTyped' /\ DOMAIN user_data \subseteq DOMAIN user_data'
<1> SUFFICES ASSUME Base, [SwapNext]_swapVars
             PROVE  UsersTyped' /\ DOMAIN user_data \subseteq DOMAIN user_data'
  OBVIOUS
<1> DEFINE Goal == UsersTyped' /\ DOMAIN user_data \subseteq DOMAIN user_data'
<1>0. UsersTyped /\ EscrowsTyped /\ SettlementAccountsExist
  BY DEF Base
<1>1. CASE UNCHANGED user_data
  BY <1>0, <1>1 DEF UsersTyped
<1>2. ASSUME NEW o \in Owner, NEW amount \in Amount, Deposit(o, amount)
      PROVE  Goal
  <2>1. UserData(o) \in UserAccount
    BY <1>0, Fields DEF UserData, UsersTyped
  <2>2. Credit(UserData(o), amount) \in UserAccount
    BY <2>1, CreditUser
  <2>3. user_data' = With(user_data, o, Credit(UserData(o), amount))
    BY <1>2 DEF Deposit
  <2>4. /\ DOMAIN user_data' = DOMAIN user_data \cup {o}
        /\ user_data' \in [DOMAIN user_data' -> UserAccount]
    <3> DEFINE v == Credit(UserData(o), amount)
    <3>1. user_data \in [DOMAIN user_data -> UserAccount] /\ v \in UserAccount
      BY <1>0, <2>2 DEF UsersTyped
    <3> HIDE DEF v
    <3>2. user_data' = With(user_data, o, v)
      BY <2>3 DEF v
    <3> QED
      BY <3>1, <3>2 DEF With
  <2>5. IsFiniteSet(DOMAIN user_data \cup {o})
    BY <1>0, FS_AddElement DEF UsersTyped
  <2> QED
    BY <1>0, <2>4, <2>5 DEF UsersTyped
<1>3. ASSUME NEW o \in Owner, NEW amount \in Amount, NEW receiver \in TokenOwner,
             Withdraw(o, amount, receiver)
      PROVE  Goal
  <2>1. /\ o \in DOMAIN user_data /\ user_data[o].amount >= amount
        /\ user_data' = [user_data EXCEPT ![o] = Debit(user_data[o], amount)]
    BY <1>3 DEF Withdraw
  <2>2. user_data[o] \in UserAccount
    BY <1>0, <2>1 DEF UsersTyped
  <2>3. Debit(user_data[o], amount) \in UserAccount
    BY <2>1, <2>2, DebitUser
  <2> QED
    BY <1>0, <2>1, <2>3, UsersChange
<1>4. ASSUME NEW party \in Party, NEW m \in Mint, NEW d \in Swap,
             NEW claimer_ata \in TokenOwner \cup {None}, NEW t \in Timestamp,
             NEW security_deposit \in Lamport, NEW claimer_bounty \in Lamport,
             OffererInitialize(party[1], party[2], m, d, claimer_ata, t,
                               security_deposit, claimer_bounty)
      PROVE  Goal
  <2> DEFINE o == <<party[1], m>>
  <2>1. /\ o \in DOMAIN user_data /\ user_data[o].amount >= d.amount
        /\ user_data' = [user_data EXCEPT ![o] = Debit(user_data[o], d.amount)]
    BY <1>4 DEF OffererInitialize
  <2> HIDE DEF o
  <2>2. user_data[o] \in UserAccount /\ d.amount \in Nat
    BY <1>0, <2>1, SwapFields DEF UsersTyped
  <2>3. Debit(user_data[o], d.amount) \in UserAccount
    BY <2>1, <2>2, DebitUser
  <2> QED
    BY <1>0, <2>1, <2>3, UsersChange
<1>5. ASSUME NEW h \in DOMAIN escrow_state, NEW auth_expiry \in {0} \cup Timestamp,
             NEW claimer_passed \in BOOLEAN, OffererRefund(h, auth_expiry, claimer_passed)
      PROVE  Goal
  <2> DEFINE e == escrow_state[h]
  <2>1. /\ OffererAccount(e) \in DOMAIN user_data
        /\ claimer_passed => ClaimerAccount(e) \in DOMAIN user_data
        /\ user_data' = RefundUserData(e, auth_expiry, claimer_passed)
    BY <1>5 DEF OffererRefund, MayRefund
  <2>2. user_data' \in [DOMAIN user_data -> UserAccount]
    BY <2>1, RefundUserDataFields
  <2> QED
    BY <1>0, <2>2 DEF UsersTyped
<1>6. ASSUME NEW h \in DOMAIN escrow_state, NEW auth_expiry \in {0} \cup Timestamp,
             NEW claimer_passed \in BOOLEAN, OffererRefundPayIn(h, auth_expiry, claimer_passed)
      PROVE  Goal
  <2> DEFINE e == escrow_state[h]
  <2>1. CASE claimer_passed
    <3>1. /\ ClaimerAccount(e) \in DOMAIN user_data
          /\ user_data' =
               [user_data EXCEPT ![ClaimerAccount(e)] = RefundedClaimer(e, auth_expiry)]
      BY <1>6, <2>1 DEF OffererRefundPayIn, MayRefund
    <3>2. RefundedClaimer(e, auth_expiry) \in UserAccount
      BY <3>1, RefundedClaimerFields
    <3> QED
      BY <1>0, <3>1, <3>2, UsersChange
  <2>2. CASE ~ claimer_passed
    BY <1>1, <1>6, <2>2 DEF OffererRefundPayIn
  <2> QED
    BY <2>1, <2>2
<1>7. ASSUME NEW h \in DOMAIN escrow_state, NEW signer \in Wallet,
             NEW secret \in Witness, NEW account \in DataAccount \cup {None},
             ClaimerClaim(signer, h, secret, account)
      PROVE  Goal
  <2> DEFINE e == escrow_state[h]
             c == ClaimerAccount(e)
             new == Record(Credit(user_data[c], e.data.amount), "success", e.data)
  <2>1. c \in DOMAIN user_data /\ user_data' = [user_data EXCEPT ![c] = new]
    BY <1>7 DEF ClaimerClaim
  <2>2. user_data[c] \in UserAccount /\ e.data \in Swap /\ e.data.amount \in Nat
    BY <1>0, <2>1, EscrowFields DEF UsersTyped
  <2>3. new \in UserAccount
    <3>1. Credit(user_data[c], e.data.amount) \in UserAccount /\ "success" \in Outcome
      BY <2>2, CreditUser DEF Outcome
    <3> QED
      BY <2>2, <3>1, RecordUser
  <2> HIDE DEF new, c
  <2> QED
    BY <1>0, <2>1, <2>3, UsersChange
<1>8. ASSUME NEW h \in DOMAIN escrow_state, RefundOf(h) \/ ClaimOf(h)
      PROVE  Goal
  <2>1. ASSUME NEW signer \in Wallet, NEW secret \in Witness,
               NEW account \in DataAccount \cup {None},
               ClaimerClaimPayOut(signer, h, secret, account)
        PROVE  Goal
    BY <1>1, <2>1 DEF ClaimerClaimPayOut
  <2> QED
    BY <1>5, <1>6, <1>7, <1>8, <2>1 DEF RefundOf, ClaimOf
<1>9. CASE InitializeAny
  <2>1. ASSUME NEW party \in Party, NEW m \in Mint, NEW d \in Swap,
               NEW claimer_ata \in TokenOwner \cup {None}, NEW t \in Timestamp,
               OffererInitializePayIn(party[1], party[2], m, d, claimer_ata, t)
        PROVE  Goal
    BY <1>1, <2>1 DEF OffererInitializePayIn
  <2> QED
    BY <1>4, <1>9, <2>1 DEF InitializeAny
<1>10. CASE \/ DataNext \/ Tick \/ BeginAny
            \/ \E h \in DOMAIN escrow_state, t \in Timestamp : SignRefund(h, t)
            \/ \E w \in Donor, h \in Hash : Donate(w, h)
  BY <1>1, <1>10 DEF DataNext, CreateData, InitData, WriteData, CloseData, Tick, BeginAny,
     BeginTransaction, SignRefund, Donate
<1>11. CASE UNCHANGED swapVars
  BY <1>1, <1>11 DEF swapVars
<1> QED
  BY <1>2, <1>3, <1>8, <1>9, <1>10, <1>11 DEF SwapNext

-----------------------------------------------------------------------------
(* Both instructions that open an escrow, and all four that close one.     *)

OpensEscrow(e) ==
  /\ e \in Escrow /\ <<e.offerer, e.claimer>> \in Party
  /\ e.data.hash \notin DOMAIN escrow_state
  /\ escrow_state' = With(escrow_state, e.data.hash, e)
  /\ IF e.data.pay_in THEN e.offerer_ata # None ELSE OffererAccount(e) \in DOMAIN user_data
  /\ IF e.data.pay_out THEN e.claimer_ata # None ELSE ClaimerAccount(e) \in DOMAIN user_data
  /\ TopUp(Initializer(e), e.data.hash, Max({RENT, e.security_deposit, e.claimer_bounty}))
  /\ CountOpened(e.claimer, e.mint, e.data)
  /\ UNCHANGED <<outside, data>>
  /\ IF e.data.pay_in
     THEN ToVault(OffererAccount(e), e.data.amount) /\ UNCHANGED user_data
     ELSE /\ user_data[OffererAccount(e)].amount >= e.data.amount
          /\ user_data' = [user_data EXCEPT ![OffererAccount(e)] = Debit(@, e.data.amount)]
          /\ UNCHANGED tokens

LEMMA PayInOpens ==
  ASSUME NEW party \in Party, NEW m \in Mint, NEW d \in Swap,
         NEW claimer_ata \in TokenOwner \cup {None}, NEW t \in Timestamp,
         OffererInitializePayIn(party[1], party[2], m, d, claimer_ata, t)
  PROVE  \E e : e.data = d /\ OpensEscrow(e)
<1> DEFINE e == [NewEscrow(party[1], party[2], m, d, claimer_ata) EXCEPT !.offerer_ata = party[1]]
<1>0. party[1] \in Wallet /\ party[2] \in Wallet /\ <<party[1], party[2]>> \in Party
  OBVIOUS
<1>1. e = [data |-> d, offerer |-> party[1], claimer |-> party[2], mint |-> m,
           offerer_ata |-> party[1], claimer_ata |-> IF d.pay_out THEN claimer_ata ELSE None,
           claimer_bounty |-> 0, security_deposit |-> 0]
  BY DEF NewEscrow
<1>2. e \in Escrow
  BY <1>0, <1>1 DEF Escrow
<1>3. /\ e.data = d /\ e.offerer = party[1] /\ e.claimer = party[2] /\ e.mint = m
      /\ e.offerer_ata = party[1] /\ e.claimer_bounty = 0 /\ e.security_deposit = 0
      /\ d.pay_out => e.claimer_ata = claimer_ata
  BY <1>1
<1>4. escrow_state' = With(escrow_state, d.hash, e)
  BY DEF OffererInitializePayIn
<1> HIDE DEF e
<1>5. Max({RENT, e.security_deposit, e.claimer_bounty}) = RENT
  BY <1>3, LargestOfThree
<1>6. /\ OffererAccount(e) = <<party[1], m>> /\ ClaimerAccount(e) = <<party[2], m>>
      /\ d.pay_in => Initializer(e) = party[1]
  BY <1>3 DEF OffererAccount, ClaimerAccount, Initializer
<1>7. party[1] # None
  BY <1>0
<1>8. d.pay_in /\ d.pay_out \in BOOLEAN
  BY SwapFields DEF OffererInitializePayIn
<1> QED
  BY <1>0, <1>2, <1>3, <1>4, <1>5, <1>6, <1>7, <1>8
     DEF OffererInitializePayIn, MayInitialize, OpensEscrow

LEMMA InitializeOpens ==
  ASSUME NEW party \in Party, NEW m \in Mint, NEW d \in Swap,
         NEW claimer_ata \in TokenOwner \cup {None}, NEW t \in Timestamp,
         NEW security_deposit \in Lamport, NEW claimer_bounty \in Lamport,
         OffererInitialize(party[1], party[2], m, d, claimer_ata, t,
                           security_deposit, claimer_bounty)
  PROVE  \E e : e.data = d /\ OpensEscrow(e)
<1> DEFINE new == NewEscrow(party[1], party[2], m, d, claimer_ata)
           e == [new EXCEPT
                   !.security_deposit = security_deposit, !.claimer_bounty = claimer_bounty]
<1>0. party[1] \in Wallet /\ party[2] \in Wallet /\ <<party[1], party[2]>> \in Party
  OBVIOUS
<1>1. new \in Escrow
  BY <1>0 DEF NewEscrow, Escrow
<1>2. e \in Escrow
  <2> HIDE DEF new
  <2> QED
    BY <1>1 DEF Escrow
<1>3. /\ e.data = d /\ e.offerer = party[1] /\ e.claimer = party[2] /\ e.mint = m
      /\ e.claimer_bounty = claimer_bounty /\ e.security_deposit = security_deposit
      /\ d.pay_out => e.claimer_ata = claimer_ata
  <2>1. /\ new.data = d /\ new.offerer = party[1] /\ new.claimer = party[2] /\ new.mint = m
        /\ d.pay_out => new.claimer_ata = claimer_ata
    BY DEF NewEscrow
  <2> HIDE DEF new
  <2>2. /\ e.data = new.data /\ e.offerer = new.offerer /\ e.claimer = new.claimer
        /\ e.mint = new.mint /\ e.claimer_ata = new.claimer_ata
        /\ e.claimer_bounty = claimer_bounty /\ e.security_deposit = security_deposit
    BY <1>1 DEF Escrow
  <2> QED
    BY <2>1, <2>2
<1>4. escrow_state' = With(escrow_state, d.hash, e)
  BY DEF OffererInitialize
<1> HIDE DEF e
<1>5. /\ OffererAccount(e) = <<party[1], m>> /\ ClaimerAccount(e) = <<party[2], m>>
      /\ ~ d.pay_in => Initializer(e) = party[2]
  BY <1>3 DEF OffererAccount, ClaimerAccount, Initializer
<1>6. ~ d.pay_in /\ d.pay_out \in BOOLEAN
  BY SwapFields DEF OffererInitialize
<1>7. /\ d.hash \notin DOMAIN escrow_state
      /\ IF d.pay_out THEN claimer_ata # None ELSE <<party[2], m>> \in DOMAIN user_data
  BY DEF OffererInitialize, MayInitialize
<1>8. /\ <<party[1], m>> \in DOMAIN user_data
      /\ user_data[<<party[1], m>>].amount >= d.amount
      /\ user_data' = [user_data EXCEPT ![<<party[1], m>>] = Debit(@, d.amount)]
      /\ TopUp(party[2], d.hash, Max({RENT, security_deposit, claimer_bounty}))
      /\ CountOpened(party[2], m, d)
      /\ UNCHANGED <<outside, tokens, data>>
  BY DEF OffererInitialize
<1> QED
  BY <1>0, <1>2, <1>3, <1>4, <1>5, <1>6, <1>7, <1>8 DEF OpensEscrow

LEMMA AnyInitializeOpens == InitializeAny => \E e : OpensEscrow(e)
<1> DEFINE Opens == \E e : OpensEscrow(e)
<1>1. ASSUME NEW party \in Party, NEW m \in Mint, NEW d \in Swap,
             NEW claimer_ata \in TokenOwner \cup {None}, NEW t \in Timestamp,
             OffererInitializePayIn(party[1], party[2], m, d, claimer_ata, t)
      PROVE  Opens
  BY <1>1, PayInOpens
<1>2. ASSUME NEW party \in Party, NEW m \in Mint, NEW d \in Swap,
             NEW claimer_ata \in TokenOwner \cup {None}, NEW t \in Timestamp,
             NEW security_deposit \in Lamport, NEW claimer_bounty \in Lamport,
             OffererInitialize(party[1], party[2], m, d, claimer_ata, t,
                               security_deposit, claimer_bounty)
      PROVE  Opens
  BY <1>2, InitializeOpens
<1> HIDE DEF Opens
<1>3. InitializeAny => Opens
  BY <1>1, <1>2 DEF InitializeAny
<1> QED
  BY <1>3 DEF Opens

\* Whoever gets which lamports, no other escrow loses any.
ClosesEscrow(h) ==
  /\ escrow_state' = Without(escrow_state, h)
  /\ LamportsTyped'
  /\ \A x \in Hash \ {h} : lamports'[x] = lamports[x]
  /\ UNCHANGED <<outside, opened>>

LEMMA RefundCloses ==
  ASSUME Base, NEW h \in DOMAIN escrow_state, NEW auth_expiry \in {0} \cup Timestamp,
         NEW claimer_passed \in BOOLEAN,
         \/ OffererRefund(h, auth_expiry, claimer_passed)
         \/ OffererRefundPayIn(h, auth_expiry, claimer_passed)
  PROVE  ClosesEscrow(h) /\ UNCHANGED data
<1>1. PaySecurityDeposit(h, escrow_state[h], auth_expiry > 0)
      /\ (auth_expiry > 0) \in BOOLEAN
  BY DEF OffererRefund, OffererRefundPayIn
<1>2. LamportsTyped' /\ \A x \in Hash \ {h} : lamports'[x] = lamports[x]
  <2> DEFINE cooperative == auth_expiry > 0
  <2> HIDE DEF cooperative
  <2>1. PaySecurityDeposit(h, escrow_state[h], cooperative) /\ cooperative \in BOOLEAN
    BY <1>1 DEF cooperative
  <2> QED
    BY <2>1, PaySecurityDepositTyped
<1>3. escrow_state' = Without(escrow_state, h) /\ UNCHANGED <<outside, data, opened>>
  BY DEF OffererRefund, OffererRefundPayIn
<1> QED
  BY <1>2, <1>3 DEF ClosesEscrow

LEMMA ClaimCloses ==
  ASSUME Base, NEW h \in DOMAIN escrow_state, NEW signer \in Wallet,
         NEW secret, NEW account \in DataAccount \cup {None},
         \/ ClaimerClaim(signer, h, secret, account)
         \/ ClaimerClaimPayOut(signer, h, secret, account)
  PROVE  ClosesEscrow(h) /\ data' = Without(data, account)
<1>1. PayClaimerBounty(signer, h, escrow_state[h], account)
  BY DEF ClaimerClaim, ClaimerClaimPayOut
<1>2. LamportsTyped' /\ \A x \in Hash \ {h} : lamports'[x] = lamports[x]
  BY <1>1, PayClaimerBountyTyped
<1>3. /\ escrow_state' = Without(escrow_state, h) /\ data' = Without(data, account)
      /\ UNCHANGED <<outside, opened>>
  BY DEF ClaimerClaim, ClaimerClaimPayOut, ProcessClaim
<1> QED
  BY <1>2, <1>3 DEF ClosesEscrow

\* All other instructions leave the escrows their lamports, or give them more.
LeavesEscrows ==
  /\ UNCHANGED <<escrow_state, opened>>
  /\ LamportsTyped'
  /\ \A x \in Hash : lamports'[x] >= lamports[x]

LEMMA OthersLeave ==
  ASSUME LamportsTyped, UNCHANGED <<escrow_state, opened>>,
         \/ UNCHANGED lamports
         \/ \E w \in Wallet, x \in DataAccount : CreateData(w, x)
         \/ \E w \in Wallet, x \in DataAccount : CloseData(w, x)
         \/ \E w \in Donor, h \in Hash : Donate(w, h)
  PROVE  LeavesEscrows
<1>0. ASSUME NEW x \in Hash PROVE x \in LamportAccount /\ lamports[x] \in Nat
  BY DEF LamportAccount, LamportsTyped
<1>1. CASE UNCHANGED lamports
  BY <1>0, <1>1 DEF LeavesEscrows, LamportsTyped
<1>2. ASSUME NEW w \in Wallet, NEW x \in DataAccount, CreateData(w, x)
      PROVE  LeavesEscrows
  <2>1. TopUp(w, x, RENT) /\ RENT \in Nat /\ x \notin Hash
    BY <1>2 DEF CreateData
  <2>2. LamportsTyped' /\ \A y \in Hash \ {x} : lamports'[y] = lamports[y]
    BY <2>1, TopUpTyped
  <2> QED
    BY <1>0, <2>1, <2>2 DEF LeavesEscrows
<1>3. ASSUME NEW w \in Wallet, NEW x \in DataAccount, CloseData(w, x)
      PROVE  LeavesEscrows
  <2>1. /\ w \in LamportAccount /\ x \in LamportAccount
        /\ w \notin Hash /\ x \notin Hash /\ Hash \subseteq LamportAccount
    BY DEF LamportAccount
  <2>2. lamports[x] \in Nat /\ lamports[x] <= lamports[x]
    BY <2>1 DEF LamportsTyped
  <2>3. lamports' = Move(lamports, x, w, lamports[x])
    BY <1>3 DEF CloseData
  <2>4. /\ lamports' \in [LamportAccount -> Nat]
        /\ \A y \in LamportAccount \ {x, w} : lamports'[y] = lamports[y]
    BY <2>1, <2>2, <2>3, MoveTyped DEF LamportsTyped
  <2> QED
    BY <1>0, <2>1, <2>4 DEF LeavesEscrows, LamportsTyped
<1>4. ASSUME NEW w \in Donor, NEW h \in Hash, Donate(w, h)
      PROVE  LeavesEscrows
  <2>1. /\ w \in LamportAccount /\ h \in LamportAccount
        /\ w \notin Hash /\ Hash \subseteq LamportAccount /\ w # h
    BY DEF LamportAccount
  <2>2. 1 \in Nat /\ 1 <= lamports[w]
    BY <1>4, <2>1 DEF Donate, LamportsTyped
  <2>3. lamports' = Move(lamports, w, h, 1)
    BY <1>4 DEF Donate
  <2>4. /\ lamports' \in [LamportAccount -> Nat]
        /\ \A y \in LamportAccount \ {w, h} : lamports'[y] = lamports[y]
        /\ lamports'[h] = lamports[h] + 1
    BY <2>1, <2>2, <2>3, MoveTyped DEF LamportsTyped
  <2>5. ASSUME NEW y \in Hash PROVE lamports'[y] >= lamports[y]
    BY <1>0, <2>1, <2>4
  <2> QED
    BY <2>4, <2>5 DEF LeavesEscrows, LamportsTyped
<1> QED
  BY <1>1, <1>2, <1>3, <1>4

\* What a step does to the escrows, and what else it then leaves alone.
LEMMA EscrowChanges ==
  ASSUME Base, [SwapNext]_swapVars
  PROVE  \/ \E e : OpensEscrow(e)
         \/ \E h \in DOMAIN escrow_state :
              ClosesEscrow(h) /\ \E account : data' = Without(data, account) \/ UNCHANGED data
         \/ LeavesEscrows
<1> DEFINE Opens == \E e : OpensEscrow(e)
           Closes == \E h \in DOMAIN escrow_state :
                       ClosesEscrow(h)
                       /\ \E account : data' = Without(data, account) \/ UNCHANGED data
           Neither == LeavesEscrows
<1>1. ASSUME InitializeAny PROVE Opens
  BY <1>1, AnyInitializeOpens
<1>2. ASSUME NEW h \in DOMAIN escrow_state, RefundOf(h) \/ ClaimOf(h)
      PROVE  Closes
  <2>1. ASSUME NEW auth_expiry \in {0} \cup Timestamp, NEW claimer_passed \in BOOLEAN,
               \/ OffererRefund(h, auth_expiry, claimer_passed)
               \/ OffererRefundPayIn(h, auth_expiry, claimer_passed)
        PROVE  Closes
    BY <2>1, RefundCloses
  <2>2. ASSUME NEW signer \in Wallet, NEW secret \in Witness,
               NEW account \in DataAccount \cup {None},
               \/ ClaimerClaim(signer, h, secret, account)
               \/ ClaimerClaimPayOut(signer, h, secret, account)
        PROVE  Closes
    BY <2>2, ClaimCloses
  <2> HIDE DEF Closes
  <2> QED
    BY <1>2, <2>1, <2>2 DEF RefundOf, ClaimOf
<1>3. ASSUME \/ \E o \in Owner, amount \in Amount :
                  Deposit(o, amount) \/ \E receiver \in TokenOwner : Withdraw(o, amount, receiver)
             \/ Tick \/ BeginAny
             \/ \E h \in DOMAIN escrow_state, t \in Timestamp : SignRefund(h, t)
             \/ UNCHANGED swapVars
      PROVE  Neither
  <2>1. UNCHANGED <<escrow_state, opened, lamports>>
    BY <1>3 DEF Deposit, Withdraw, Tick, BeginAny, BeginTransaction, SignRefund, swapVars
  <2> QED
    BY <2>1, OthersLeave DEF Base
<1>4. ASSUME DataNext PROVE Neither
  <2>1. ASSUME NEW w \in Wallet, NEW x \in DataAccount,
               \/ CreateData(w, x) \/ InitData(w, x) \/ CloseData(w, x)
               \/ \E owner \in Wallet \cup {None}, content \in Witness : WriteData(w, x, owner, content)
        PROVE  LeavesEscrows
    <3>1. UNCHANGED <<escrow_state, opened>>
      BY <2>1 DEF CreateData, InitData, WriteData, CloseData
    <3>2. UNCHANGED lamports \/ CreateData(w, x) \/ CloseData(w, x)
      BY <2>1 DEF InitData, WriteData
    <3> QED
      BY <3>1, <3>2, OthersLeave DEF Base
  <2> QED
    BY <1>4, <2>1 DEF DataNext
<1>5. ASSUME NEW w \in Donor, NEW h \in Hash, Donate(w, h) PROVE Neither
  <2>1. UNCHANGED <<escrow_state, opened>>
    BY <1>5 DEF Donate
  <2> QED
    BY <1>5, <2>1, OthersLeave DEF Base
<1> HIDE DEF Opens, Closes, Neither
<1>6. Opens \/ Closes \/ Neither
  BY <1>1, <1>2, <1>3, <1>4, <1>5 DEF SwapNext
<1> QED
  BY <1>6 DEF Opens, Closes, Neither

LEMMA EscrowsStep == Base /\ [SwapNext]_swapVars => EscrowsTyped'
<1> SUFFICES ASSUME Base, [SwapNext]_swapVars PROVE EscrowsTyped'
  OBVIOUS
<1>0. EscrowsTyped
  BY DEF Base
<1>1. ASSUME NEW e, OpensEscrow(e) PROVE EscrowsTyped'
  <2>1. /\ e \in Escrow /\ <<e.offerer, e.claimer>> \in Party
        /\ escrow_state' = With(escrow_state, e.data.hash, e)
    BY <1>1 DEF OpensEscrow
  <2>2. IsFiniteSet(DOMAIN escrow_state \cup {e.data.hash})
    BY <1>0, FS_AddElement DEF EscrowsTyped
  <2>3. /\ DOMAIN escrow_state' = DOMAIN escrow_state \cup {e.data.hash}
        /\ escrow_state' \in [DOMAIN escrow_state' -> Escrow]
        /\ escrow_state'[e.data.hash] = e
        /\ \A h \in DOMAIN escrow_state : h # e.data.hash => escrow_state'[h] = escrow_state[h]
    BY <1>0, <2>1 DEF With, EscrowsTyped
  <2> QED
    BY <1>0, <2>1, <2>2, <2>3 DEF EscrowsTyped
<1>2. ASSUME NEW h \in DOMAIN escrow_state, ClosesEscrow(h) PROVE EscrowsTyped'
  <2>1. escrow_state' = Without(escrow_state, h)
    BY <1>2 DEF ClosesEscrow
  <2>2. IsFiniteSet(DOMAIN escrow_state \ {h})
    BY <1>0, FS_RemoveElement DEF EscrowsTyped
  <2>3. /\ DOMAIN escrow_state' = DOMAIN escrow_state \ {h}
        /\ escrow_state' \in [DOMAIN escrow_state' -> Escrow]
        /\ \A x \in DOMAIN escrow_state' : escrow_state'[x] = escrow_state[x]
    BY <1>0, <2>1 DEF Without, Restrict, EscrowsTyped
  <2> QED
    BY <1>0, <2>2, <2>3 DEF EscrowsTyped
<1>3. CASE LeavesEscrows
  BY <1>0, <1>3 DEF LeavesEscrows, EscrowsTyped
<1> QED
  BY <1>1, <1>2, <1>3, EscrowChanges

LEMMA LamportsStep == Base /\ [SwapNext]_swapVars => LamportsTyped' /\ EscrowFunded'
<1> SUFFICES ASSUME Base, [SwapNext]_swapVars PROVE LamportsTyped' /\ EscrowFunded'
  OBVIOUS
<1> DEFINE Needed(e) == Max({RENT, e.security_deposit, e.claimer_bounty})
<1>0. /\ LamportsTyped /\ EscrowsTyped
      /\ \A x \in DOMAIN escrow_state : lamports[x] >= Needed(escrow_state[x])
  BY DEF Base, EscrowFunded
<1>1. ASSUME NEW x \in DOMAIN escrow_state
      PROVE  x \in Hash /\ lamports[x] \in Nat /\ Needed(escrow_state[x]) \in Nat
  <2>1. /\ x \in Hash
        /\ escrow_state[x].security_deposit \in Nat /\ escrow_state[x].claimer_bounty \in Nat
    BY <1>0, EscrowFields
  <2>2. x \in LamportAccount
    BY <2>1 DEF LamportAccount
  <2> QED
    BY <1>0, <2>1, <2>2, LargestOfThree DEF LamportsTyped
<1>2. ASSUME NEW e, OpensEscrow(e) PROVE LamportsTyped' /\ EscrowFunded'
  <2> DEFINE h == e.data.hash
  <2>1. /\ e \in Escrow /\ h \notin DOMAIN escrow_state
        /\ escrow_state' = With(escrow_state, h, e)
        /\ TopUp(Initializer(e), h, Needed(e))
    BY <1>2 DEF OpensEscrow
  <2>2. h \in Hash /\ Initializer(e) \in Wallet
        /\ e.security_deposit \in Lamport \cup {0} /\ e.claimer_bounty \in Lamport \cup {0}
    <3>1. e.data \in Swap
      BY <2>1 DEF Escrow
    <3>2. e.offerer \in Wallet /\ e.claimer \in Wallet
      BY <2>1 DEF Escrow
    <3>3. h \in Hash
      BY <3>1, SwapFields
    <3>4. e.security_deposit \in Lamport \cup {0} /\ e.claimer_bounty \in Lamport \cup {0}
      BY <2>1 DEF Escrow
    <3> QED
      BY <3>2, <3>3, <3>4 DEF Initializer
  <2>3. Needed(e) \in Nat
    <3>1. e.security_deposit \in Nat /\ e.claimer_bounty \in Nat
      <4>1. Lamport \cup {0} \subseteq Nat
        OBVIOUS
      <4> QED
        BY <2>2, <4>1
    <3> QED
      BY <3>1, LargestOfThree
  <2> HIDE DEF Needed, h
  <2>4. /\ LamportsTyped' /\ lamports'[h] >= Needed(e)
        /\ \A x \in Hash \ {h} : lamports'[x] = lamports[x]
    BY <1>0, <2>1, <2>2, <2>3, TopUpTyped
  <2>5. /\ DOMAIN escrow_state' = DOMAIN escrow_state \cup {h}
        /\ escrow_state'[h] = e
        /\ \A x \in DOMAIN escrow_state : x # h => escrow_state'[x] = escrow_state[x]
    BY <2>1 DEF With
  <2>6. \A x \in DOMAIN escrow_state' : lamports'[x] >= Needed(escrow_state'[x])
    BY <1>0, <1>1, <2>4, <2>5
  <2> QED
    BY <2>4, <2>6 DEF EscrowFunded, Needed
<1>3. ASSUME NEW h \in DOMAIN escrow_state, ClosesEscrow(h)
      PROVE  LamportsTyped' /\ EscrowFunded'
  <2>1. /\ DOMAIN escrow_state' = DOMAIN escrow_state \ {h}
        /\ \A x \in DOMAIN escrow_state' : escrow_state'[x] = escrow_state[x]
    BY <1>3 DEF ClosesEscrow, Without, Restrict
  <2>2. LamportsTyped' /\ \A x \in Hash \ {h} : lamports'[x] = lamports[x]
    BY <1>3 DEF ClosesEscrow
  <2> HIDE DEF Needed
  <2>3. \A x \in DOMAIN escrow_state' : lamports'[x] >= Needed(escrow_state'[x])
    BY <1>0, <1>1, <2>1, <2>2
  <2> QED
    BY <2>2, <2>3 DEF EscrowFunded, Needed
<1>4. ASSUME LeavesEscrows PROVE LamportsTyped' /\ EscrowFunded'
  <2>1. /\ escrow_state' = escrow_state /\ LamportsTyped'
        /\ \A x \in Hash : lamports'[x] >= lamports[x]
    BY <1>4 DEF LeavesEscrows
  <2>2. \A x \in Hash : lamports'[x] \in Nat
    BY <2>1 DEF LamportsTyped, LamportAccount
  <2> HIDE DEF Needed
  <2>3. \A x \in DOMAIN escrow_state' : lamports'[x] >= Needed(escrow_state'[x])
    BY <1>0, <1>1, <2>1, <2>2
  <2> QED
    BY <2>1, <2>3 DEF EscrowFunded, Needed
<1> QED
  BY <1>2, <1>3, <1>4, EscrowChanges

LEMMA AccountsStep == Base /\ [SwapNext]_swapVars => SettlementAccountsExist'
<1> SUFFICES ASSUME Base, [SwapNext]_swapVars PROVE SettlementAccountsExist'
  OBVIOUS
<1> DEFINE Settles(e, users) ==
             /\ IF e.data.pay_in THEN e.offerer_ata # None ELSE OffererAccount(e) \in users
             /\ IF e.data.pay_out THEN e.claimer_ata # None ELSE ClaimerAccount(e) \in users
<1>0. /\ DOMAIN user_data \subseteq DOMAIN user_data'
      /\ \A x \in DOMAIN escrow_state : Settles(escrow_state[x], DOMAIN user_data)
  BY UsersStep DEF Base, SettlementAccountsExist
<1>1. ASSUME NEW e, Settles(e, DOMAIN user_data) PROVE Settles(e, DOMAIN user_data')
  BY <1>0, <1>1
<1>2. ASSUME NEW e, OpensEscrow(e) PROVE SettlementAccountsExist'
  <2>1. /\ DOMAIN escrow_state' = DOMAIN escrow_state \cup {e.data.hash}
        /\ escrow_state'[e.data.hash] = e
        /\ \A x \in DOMAIN escrow_state : x # e.data.hash => escrow_state'[x] = escrow_state[x]
    BY <1>2 DEF OpensEscrow, With
  <2>2. Settles(e, DOMAIN user_data)
    BY <1>2 DEF OpensEscrow
  <2> HIDE DEF Settles
  <2>3. \A x \in DOMAIN escrow_state' : Settles(escrow_state'[x], DOMAIN user_data')
    BY <1>0, <1>1, <2>1, <2>2
  <2> QED
    BY <2>3 DEF Settles, SettlementAccountsExist, OffererAccount, ClaimerAccount
<1>3. ASSUME DOMAIN escrow_state' \subseteq DOMAIN escrow_state,
             \A x \in DOMAIN escrow_state' : escrow_state'[x] = escrow_state[x]
      PROVE  SettlementAccountsExist'
  <2> HIDE DEF Settles
  <2>1. \A x \in DOMAIN escrow_state' : Settles(escrow_state'[x], DOMAIN user_data')
    BY <1>0, <1>1, <1>3
  <2> QED
    BY <2>1 DEF Settles, SettlementAccountsExist, OffererAccount, ClaimerAccount
<1>4. ASSUME NEW h \in DOMAIN escrow_state, ClosesEscrow(h) PROVE SettlementAccountsExist'
  <2>1. /\ DOMAIN escrow_state' \subseteq DOMAIN escrow_state
        /\ \A x \in DOMAIN escrow_state' : escrow_state'[x] = escrow_state[x]
    BY <1>4 DEF ClosesEscrow, Without, Restrict
  <2> QED
    BY <1>3, <2>1
<1>5. ASSUME LeavesEscrows PROVE SettlementAccountsExist'
  <2>1. escrow_state' = escrow_state
    BY <1>5 DEF LeavesEscrows
  <2> QED
    BY <1>3, <2>1
<1> QED
  BY <1>2, <1>4, <1>5, EscrowChanges

LEMMA DataStep == Base /\ [SwapNext]_swapVars => DataTyped'
<1> SUFFICES ASSUME Base, [SwapNext]_swapVars PROVE DataTyped'
  OBVIOUS
<1>0. /\ DOMAIN data \subseteq DataAccount
      /\ data \in [DOMAIN data -> [owner : Wallet \cup {None}, content : Witness]]
  BY DEF Base, DataTyped
<1>1. ASSUME UNCHANGED data PROVE DataTyped'
  BY <1>0, <1>1 DEF DataTyped
<1>2. ASSUME NEW x, data' = Without(data, x) PROVE DataTyped'
  <2>1. /\ DOMAIN data' = DOMAIN data \ {x}
        /\ data' \in [DOMAIN data' -> [owner : Wallet \cup {None}, content : Witness]]
    BY <1>0, <1>2 DEF Without, Restrict
  <2> QED
    BY <1>0, <2>1 DEF DataTyped
<1>3. ASSUME NEW w \in Wallet, NEW x \in DataAccount, CreateData(w, x) PROVE DataTyped'
  <2> DEFINE new == [owner |-> None, content |-> None]
  <2>1. new \in [owner : Wallet \cup {None}, content : Witness]
    BY DEF Witness
  <2>2. data' = With(data, x, new)
    BY <1>3 DEF CreateData
  <2> HIDE DEF new
  <2>3. /\ DOMAIN data' = DOMAIN data \cup {x}
        /\ data' \in [DOMAIN data' -> [owner : Wallet \cup {None}, content : Witness]]
    BY <1>0, <2>1, <2>2 DEF With
  <2> QED
    BY <1>0, <2>3 DEF DataTyped
<1>4. ASSUME NEW w \in Wallet, NEW x \in DataAccount,
             InitData(w, x) \/ \E owner \in Wallet \cup {None}, content \in Witness : WriteData(w, x, owner, content)
      PROVE  DataTyped'
  BY <1>0, <1>4 DEF InitData, WriteData, DataTyped
<1>5. ASSUME NEW w \in Wallet, NEW x \in DataAccount, CloseData(w, x) PROVE DataTyped'
  BY <1>2, <1>5 DEF CloseData
<1>6. ASSUME NEW h \in DOMAIN escrow_state, RefundOf(h) PROVE DataTyped'
  BY <1>1, <1>6 DEF RefundOf, OffererRefund, OffererRefundPayIn
<1>7. ASSUME NEW h \in DOMAIN escrow_state, ClaimOf(h) PROVE DataTyped'
  <2>1. ASSUME NEW signer \in Wallet, NEW secret \in Witness,
               NEW account \in DataAccount \cup {None},
               \/ ClaimerClaim(signer, h, secret, account)
               \/ ClaimerClaimPayOut(signer, h, secret, account)
        PROVE  DataTyped'
    BY <1>2, <2>1, ClaimCloses
  <2> QED
    BY <1>7, <2>1 DEF ClaimOf
<1>8. ASSUME InitializeAny PROVE DataTyped'
  <2>1. PICK e : OpensEscrow(e)
    BY <1>8, AnyInitializeOpens
  <2> QED
    BY <1>1, <2>1 DEF OpensEscrow
<1>9. ASSUME \/ \E o \in Owner, amount \in Amount :
                  Deposit(o, amount) \/ \E receiver \in TokenOwner : Withdraw(o, amount, receiver)
             \/ Tick \/ BeginAny
             \/ \E h \in DOMAIN escrow_state, t \in Timestamp : SignRefund(h, t)
             \/ \E w \in Donor, h \in Hash : Donate(w, h)
             \/ UNCHANGED swapVars
      PROVE  DataTyped'
  <2>1. UNCHANGED data
    BY <1>9 DEF Deposit, Withdraw, Tick, BeginAny, BeginTransaction, SignRefund, Donate, swapVars
  <2> QED
    BY <1>1, <2>1
<1>10. ASSUME DataNext PROVE DataTyped'
  BY <1>3, <1>4, <1>5, <1>10 DEF DataNext
<1> QED
  BY <1>6, <1>7, <1>8, <1>9, <1>10 DEF SwapNext

LEMMA OpenedStep == Base /\ [SwapNext]_swapVars => OpenedTyped'
<1> SUFFICES ASSUME Base, [SwapNext]_swapVars PROVE OpenedTyped'
  OBVIOUS
<1>0. opened \in [Owner -> 0 .. MaxSwaps]
  BY DEF Base, OpenedTyped
<1>1. ASSUME NEW e, OpensEscrow(e) PROVE OpenedTyped'
  <2>1. CountOpened(e.claimer, e.mint, e.data)
    BY <1>1 DEF OpensEscrow
  <2>2. <<e.claimer, e.mint>> \in Owner
    BY <1>1 DEF OpensEscrow, Escrow, Owner
  <2>3. CASE e.data.pay_out
    BY <1>0, <2>1, <2>3 DEF CountOpened, OpenedTyped
  <2>4. CASE ~ e.data.pay_out
    <3>1. /\ opened[<<e.claimer, e.mint>>] < MaxSwaps
          /\ opened' = [opened EXCEPT ![<<e.claimer, e.mint>>] = @ + 1]
      BY <2>1, <2>4 DEF CountOpened
    <3>2. opened[<<e.claimer, e.mint>>] + 1 \in 0 .. MaxSwaps
      BY <1>0, <2>2, <3>1
    <3> QED
      BY <1>0, <3>1, <3>2 DEF OpenedTyped
  <2> QED
    BY <2>3, <2>4
<1>2. ASSUME UNCHANGED opened PROVE OpenedTyped'
  BY <1>0, <1>2 DEF OpenedTyped
<1> QED
  BY <1>1, <1>2, EscrowChanges DEF ClosesEscrow, LeavesEscrows

LEMMA OutsideStep == Base /\ [SwapNext]_swapVars => OutsideTyped'
<1> SUFFICES ASSUME Base, [SwapNext]_swapVars PROVE OutsideTyped'
  OBVIOUS
<1>0. OutsideTyped /\ EscrowsTyped
  BY DEF Base
<1>1. ASSUME UNCHANGED outside PROVE OutsideTyped'
  BY <1>0, <1>1 DEF OutsideTyped, outside
<1>2. ASSUME Tick PROVE OutsideTyped'
  BY <1>0, <1>2 DEF Tick, OutsideTyped
<1>3. ASSUME BeginAny PROVE OutsideTyped'
  <2>1. PICK ix \in {OtherIx} \cup RelayIx \cup {Ed25519Ix(sig[1], sig[2]) : sig \in Signature} :
          ix0' = ix /\ UNCHANGED <<now, signed>>
    BY <1>3 DEF BeginAny, BeginTransaction
  <2>2. ASSUME NEW sig \in Signature PROVE sig[1] \in Wallet
    BY <1>0, <2>2 DEF Signature, OutsideTyped, Claimer
  <2>3. \/ ix \in {OtherIx} \cup RelayIx
        \/ ix.program = "Ed25519" /\ ix.pubkey \in Wallet
    BY <2>1, <2>2 DEF Ed25519Ix
  <2> QED
    BY <1>0, <2>1, <2>3 DEF OutsideTyped
<1>4. ASSUME NEW h \in DOMAIN escrow_state, NEW t \in Timestamp, SignRefund(h, t)
      PROVE  OutsideTyped'
  <2>1. escrow_state[h].claimer \in Claimer
    <3>1. <<escrow_state[h].offerer, escrow_state[h].claimer>> \in Party
      BY <1>0 DEF EscrowsTyped
    <3> QED
      BY <3>1 DEF Claimer
  <2>2. /\ UNCHANGED <<now, ix0>>
        /\ signed' = signed \cup
             {<<escrow_state[h].claimer, RefundMessage(escrow_state[h], t)>>}
    BY <1>4 DEF SignRefund
  <2> QED
    BY <1>0, <2>1, <2>2 DEF OutsideTyped
<1>5. ASSUME NEW h \in DOMAIN escrow_state, RefundOf(h) \/ ClaimOf(h)
      PROVE  OutsideTyped'
  <2>1. UNCHANGED outside
    BY <1>5 DEF RefundOf, OffererRefund, OffererRefundPayIn,
       ClaimOf, ClaimerClaim, ClaimerClaimPayOut
  <2> QED
    BY <1>1, <2>1
<1>6. ASSUME InitializeAny PROVE OutsideTyped'
  <2>1. PICK e : OpensEscrow(e)
    BY <1>6, AnyInitializeOpens
  <2> QED
    BY <1>1, <2>1 DEF OpensEscrow
<1>7. ASSUME \/ \E o \in Owner, amount \in Amount :
                  Deposit(o, amount) \/ \E receiver \in TokenOwner : Withdraw(o, amount, receiver)
             \/ DataNext
             \/ \E w \in Donor, h \in Hash : Donate(w, h)
             \/ UNCHANGED swapVars
      PROVE  OutsideTyped'
  <2>1. UNCHANGED outside
    BY <1>7 DEF Deposit, Withdraw, DataNext, CreateData, InitData, WriteData, CloseData,
       Donate, swapVars, outside
  <2> QED
    BY <1>1, <2>1
<1> QED
  BY <1>2, <1>3, <1>4, <1>5, <1>6, <1>7 DEF SwapNext

LEMMA SmallestTime == Min(Timestamp) \in Timestamp
<1>1. \E t \in Timestamp : \A u \in Timestamp : ~ (<<u, t>> \in OpToRel(<, Nat))
  BY NatLessThanWellFounded, WFMin
<1>2. \E t \in Timestamp : \A u \in Timestamp : t <= u
  <2>1. PICK t \in Timestamp : \A u \in Timestamp : ~ (<<u, t>> \in OpToRel(<, Nat))
    BY <1>1
  <2>2. ASSUME NEW u \in Timestamp PROVE t <= u
    <3>1. t \in Nat /\ u \in Nat
      OBVIOUS
    <3>2. ~ (u < t)
      BY <2>1, <3>1 DEF OpToRel
    <3> QED
      BY <3>1, <3>2
  <2> QED
    BY <2>2
<1> QED
  BY <1>2 DEF Min

LEMMA InitBase == SwapInit => Base
<1> SUFFICES ASSUME SwapInit PROVE Base
  OBVIOUS
<1>1. ASSUME NEW o \in Owner PROVE InitialTokens \in 0 .. U64 - 1
  <2> DEFINE n == Cardinality(Wallet)
  <2>1. Wallet # {}
    BY DEF Owner
  <2>2. n \in Nat /\ n # 0
    BY <2>1, FS_CardinalityType, FS_EmptySet
  <2>3. \A i, k \in Nat : k # 0 => i <= i * k
    OBVIOUS
  <2>4. InitialTokens * n < U64
    OBVIOUS
  <2> HIDE DEF n
  <2> QED
    BY <2>2, <2>3, <2>4
<1>2. TokensTyped
  BY <1>1, U64Positive DEF SwapInit, TokensTyped
<1>3. /\ user_data = << >> /\ escrow_state = << >> /\ data = << >>
      /\ DOMAIN << >> = {} /\ IsFiniteSet({})
  BY FS_EmptySet DEF SwapInit
<1>4. UsersTyped /\ EscrowsTyped /\ DataTyped /\ SettlementAccountsExist /\ EscrowFunded
  BY <1>3 DEF UsersTyped, EscrowsTyped, DataTyped, SettlementAccountsExist, EscrowFunded
<1>5. LamportsTyped /\ OpenedTyped
  BY DEF SwapInit, LamportsTyped, OpenedTyped
<1>6. OutsideTyped
  BY SmallestTime DEF SwapInit, OutsideTyped
<1> QED
  BY <1>2, <1>4, <1>5, <1>6 DEF Base

LEMMA BaseStep == Base /\ [SwapNext]_swapVars => Base'
BY TokensStep, UsersStep, EscrowsStep, DataStep, LamportsStep, OutsideStep, OpenedStep,
   AccountsStep DEF Base

LEMMA BaseHolds == SwapSpec => []Base
<1> QED
  BY InitBase, BaseStep, PTL DEF SwapSpec

LEMMA BaseImpliesTypeOK == Base => SwapTypeOK
<1> SUFFICES ASSUME Base PROVE SwapTypeOK
  OBVIOUS
<1>1. ASSUME NEW o \in DOMAIN user_data
      PROVE  /\ user_data[o].amount \in 0 .. U64 - 1
             /\ user_data[o].reputation \in
                  [Outcome \X SwapType -> [volume : 0 .. U64 - 1, count : 0 .. U64 - 1]]
  <2>1. user_data[o] \in UserAccount
    BY DEF Base, UsersTyped
  <2> QED
    BY <2>1 DEF UserAccount
<1>2. ASSUME NEW h \in DOMAIN escrow_state
      PROVE  LET e == escrow_state[h]
             IN  /\ e.data \in Swap /\ e.data.hash = h /\ <<e.offerer, e.claimer>> \in Party
                 /\ e.mint \in Mint /\ e.offerer_ata \in Wallet \cup {None}
                 /\ e.claimer_ata \in TokenOwner \cup {None}
                 /\ {e.security_deposit, e.claimer_bounty} \subseteq Lamport \cup {0}
                 /\ h \in Hash
  <2>1. escrow_state[h] \in Escrow
    BY DEF Base, EscrowsTyped
  <2>2. <<escrow_state[h].offerer, escrow_state[h].claimer>> \in Party
        /\ escrow_state[h].data.hash = h /\ h \in Hash
    BY EscrowFields DEF Base, EscrowsTyped
  <2> QED
    BY <2>1, <2>2 DEF Escrow
<1>3. DOMAIN escrow_state \subseteq Hash
  BY <1>2
<1> QED
  BY <1>1, <1>2, <1>3
     DEF SwapTypeOK, Base, TokensTyped, UsersTyped, DataTyped, LamportsTyped, OutsideTyped, OpenedTyped

\* Every variable keeps its type: in particular, the subtractions of lib.rs and
\* of state.rs stay within a u64, and every account that is read exists.
THEOREM SwapTypeCorrect == SwapSpec => []SwapTypeOK
BY BaseHolds, BaseImpliesTypeOK, PTL

\* The accounts that were checked when an escrow was opened are still there
\* when it is claimed or refunded.
THEOREM SettlementAccountsStay == SwapSpec => []SettlementAccountsExist
<1>1. Base => SettlementAccountsExist
  BY DEF Base
<1> QED
  BY <1>1, BaseHolds, PTL

\* An escrow always holds the lamports that it may have to pay out.
THEOREM EscrowsStayFunded == SwapSpec => []EscrowFunded
<1>1. Base => EscrowFunded
  BY DEF Base
<1> QED
  BY <1>1, BaseHolds, PTL

-----------------------------------------------------------------------------
(***************************************************************************)
(* Tokens.  Every instruction moves a token from one place to another, so  *)
(* that the sums over all places stay what they are: first, how each place *)
(* counts in its sum.                                                      *)
(***************************************************************************)

UserAmount == [o \in DOMAIN user_data |-> user_data[o].amount]
EscrowAmount == [h \in DOMAIN escrow_state |-> escrow_state[h].data.amount]
OwedToUsers(m) == SumFunctionOnSet(UserAmount, TokenHolding(m))
OwedByEscrows(m) == SumFunctionOnSet(EscrowAmount, EscrowsIn(m))

WalletTokens(m) == SumFunctionOnSet([w \in Wallet |-> ata[<<w, m>>]], Wallet)

\* No token appears or disappears.
Conserved ==
  \A m \in Mint : vault[m] + WalletTokens(m) = InitialTokens * Cardinality(Wallet)

LEMMA OwedSplit ==
  ASSUME NEW m
  PROVE  /\ Owed(m) = OwedToUsers(m) + OwedByEscrows(m)
         /\ Owed(m)' = OwedToUsers(m)' + OwedByEscrows(m)'
BY DEF Owed, OwedToUsers, OwedByEscrows, UserAmount, EscrowAmount

LEMMA HoldingFields ==
  ASSUME UsersTyped, NEW m
  PROVE  /\ IsFiniteSet(TokenHolding(m))
         /\ \A o \in DOMAIN user_data : UserAmount[o] \in Nat /\ UserAmount[o] = user_data[o].amount
         /\ \A o \in TokenHolding(m) : UserAmount[o] \in Nat
         /\ OwedToUsers(m) \in Nat
<1>1. TokenHolding(m) \subseteq DOMAIN user_data
  BY DEF TokenHolding
<1>2. IsFiniteSet(TokenHolding(m))
  BY <1>1, FS_Subset DEF UsersTyped
<1>3. ASSUME NEW o \in DOMAIN user_data
      PROVE  UserAmount[o] \in Nat /\ UserAmount[o] = user_data[o].amount
  <2>1. user_data[o] \in UserAccount
    BY DEF UsersTyped
  <2> QED
    BY <2>1, U64Positive DEF UserAccount, UserAmount
<1>4. \A o \in TokenHolding(m) : UserAmount[o] \in Nat
  BY <1>1, <1>3
<1>5. OwedToUsers(m) \in Nat
  BY <1>2, <1>4, SumNat DEF OwedToUsers
<1> QED
  BY <1>2, <1>3, <1>4, <1>5

LEMMA EscrowSumFields ==
  ASSUME EscrowsTyped, NEW m
  PROVE  /\ IsFiniteSet(EscrowsIn(m))
         /\ \A h \in DOMAIN escrow_state :
              EscrowAmount[h] \in Nat /\ EscrowAmount[h] = escrow_state[h].data.amount
         /\ \A h \in EscrowsIn(m) : EscrowAmount[h] \in Nat
         /\ OwedByEscrows(m) \in Nat
<1>1. EscrowsIn(m) \subseteq DOMAIN escrow_state
  BY DEF EscrowsIn
<1>2. IsFiniteSet(EscrowsIn(m))
  BY <1>1, FS_Subset DEF EscrowsTyped
<1>3. ASSUME NEW h \in DOMAIN escrow_state
      PROVE  EscrowAmount[h] \in Nat /\ EscrowAmount[h] = escrow_state[h].data.amount
  BY EscrowFields DEF EscrowAmount
<1>4. \A h \in EscrowsIn(m) : EscrowAmount[h] \in Nat
  BY <1>1, <1>3
<1>5. OwedByEscrows(m) \in Nat
  BY <1>2, <1>4, SumNat DEF OwedByEscrows
<1> QED
  BY <1>2, <1>3, <1>4, <1>5

\* What one user account gains, the users of its mint gain.
LEMMA UsersGain ==
  ASSUME UsersTyped, UsersTyped', NEW o \in Owner, NEW gain \in Int,
         DOMAIN user_data' = DOMAIN user_data \cup {o},
         user_data'[o].amount = UserData(o).amount + gain,
         \A k \in DOMAIN user_data : k # o => user_data'[k].amount = user_data[k].amount,
         NEW m
  PROVE  OwedToUsers(m)' = OwedToUsers(m) + IF o[2] = m THEN gain ELSE 0
<1> DEFINE T == TokenHolding(m)
           f == UserAmount
           g == UserAmount'
<1>1. /\ IsFiniteSet(T) /\ \A k \in T : f[k] \in Nat
      /\ \A k \in DOMAIN user_data : f[k] \in Nat /\ f[k] = user_data[k].amount
      /\ OwedToUsers(m) = SumFunctionOnSet(f, T) /\ OwedToUsers(m) \in Nat
  BY HoldingFields DEF OwedToUsers
<1>2. /\ \A k \in DOMAIN user_data' : g[k] \in Nat /\ g[k] = user_data'[k].amount
      /\ OwedToUsers(m)' = SumFunctionOnSet(g, TokenHolding(m)')
  <2>1. \A k \in DOMAIN user_data' : g[k] \in Nat /\ g[k] = user_data'[k].amount
    <3>1. ASSUME NEW k \in DOMAIN user_data'
          PROVE  g[k] \in Nat /\ g[k] = user_data'[k].amount
      <4>1. user_data'[k] \in UserAccount
        BY DEF UsersTyped
      <4> QED
        BY <4>1, U64Positive DEF UserAccount, UserAmount
    <3> QED
      BY <3>1
  <2> QED
    BY <2>1 DEF OwedToUsers
<1>3. TokenHolding(m)' = IF o[2] = m THEN T \cup {o} ELSE T
  BY DEF TokenHolding
<1>4. T \subseteq DOMAIN user_data /\ (o[2] # m => o \notin T)
  BY DEF TokenHolding
<1>5. \A k \in T : k # o => g[k] = f[k]
  BY <1>1, <1>2, <1>4
<1>6. o \in DOMAIN user_data => g[o] = f[o] + gain
  BY <1>1, <1>2 DEF UserData
<1>7. o \notin DOMAIN user_data => g[o] = gain
  BY <1>2, Fields DEF UserData
<1>8. \A k \in T \cup {o} : g[k] \in Nat
  BY <1>2, <1>4
<1> HIDE DEF T, f, g
<1>9. CASE o[2] # m
  <2>1. SumFunctionOnSet(f, T) = SumFunctionOnSet(g, T)
    BY <1>1, <1>4, <1>5, <1>9, SumCongruence
  <2> QED
    BY <1>1, <1>2, <1>3, <1>9, <2>1
<1>10. CASE o[2] = m /\ o \in DOMAIN user_data
  <2>1. o \in T /\ T \cup {o} = T
    BY <1>10 DEF T, TokenHolding
  <2>2. SumFunctionOnSet(g, T) = SumFunctionOnSet(f, T) - f[o] + g[o]
    <3>1. /\ \A y \in T : f[y] \in Int
          /\ \A y \in T : g[y] \in Int
          /\ \A y \in T \ {o} : g[y] = f[y]
      BY <1>1, <1>5, <1>8
    <3> QED
      BY <1>1, <2>1, <3>1, SumChange
  <2>3. OwedToUsers(m)' = OwedToUsers(m) - f[o] + g[o]
    BY <1>1, <1>2, <1>3, <1>10, <2>1, <2>2
  <2>4. f[o] \in Nat /\ g[o] = f[o] + gain /\ OwedToUsers(m) \in Nat
    BY <1>1, <1>6, <1>10, <2>1
  <2> QED
    BY <1>10, <2>3, <2>4
<1>11. CASE o[2] = m /\ o \notin DOMAIN user_data
  <2>1. o \notin T
    BY <1>4, <1>11
  <2>2. SumFunctionOnSet(g, T \cup {o}) = g[o] + SumFunctionOnSet(g, T)
    <3>1. (\A y \in T : g[y] \in Int) /\ g[o] \in Int
      BY <1>8
    <3> QED
      BY <1>1, <2>1, <3>1, SumAdd
  <2>3. SumFunctionOnSet(f, T) = SumFunctionOnSet(g, T)
    BY <1>1, <1>5, <2>1, SumCongruence
  <2> QED
    BY <1>1, <1>2, <1>3, <1>7, <1>11, <2>2, <2>3
<1> QED
  BY <1>9, <1>10, <1>11

LEMMA UsersKept ==
  ASSUME UsersTyped, UsersTyped', DOMAIN user_data' = DOMAIN user_data,
         \A k \in DOMAIN user_data : user_data'[k].amount = user_data[k].amount,
         NEW m
  PROVE  OwedToUsers(m)' = OwedToUsers(m)
<1> DEFINE T == TokenHolding(m)
           f == UserAmount
           g == UserAmount'
<1>1. /\ IsFiniteSet(T) /\ \A k \in DOMAIN user_data : f[k] = user_data[k].amount
      /\ T \subseteq DOMAIN user_data
      /\ OwedToUsers(m) = SumFunctionOnSet(f, T)
  BY HoldingFields DEF OwedToUsers, TokenHolding
<1>2. TokenHolding(m)' = T /\ OwedToUsers(m)' = SumFunctionOnSet(g, TokenHolding(m)')
  BY DEF OwedToUsers, TokenHolding
<1>3. \A k \in T : f[k] = g[k]
  BY <1>1 DEF UserAmount
<1> HIDE DEF T, f, g
<1>4. SumFunctionOnSet(f, T) = SumFunctionOnSet(g, T)
  BY <1>1, <1>3, SumCongruence
<1> QED
  BY <1>1, <1>2, <1>4

LEMMA EscrowsGain ==
  ASSUME EscrowsTyped, EscrowsTyped', NEW e, e \in Escrow, e.data.amount \in Nat,
         e.data.hash \notin DOMAIN escrow_state,
         escrow_state' = With(escrow_state, e.data.hash, e), NEW m
  PROVE  OwedByEscrows(m)' = OwedByEscrows(m) + IF e.mint = m THEN e.data.amount ELSE 0
<1> DEFINE h == e.data.hash
           T == EscrowsIn(m)
           f == EscrowAmount
           g == EscrowAmount'
<1>1. /\ IsFiniteSet(T) /\ \A x \in T : f[x] \in Nat
      /\ \A x \in DOMAIN escrow_state : f[x] = escrow_state[x].data.amount
      /\ OwedByEscrows(m) = SumFunctionOnSet(f, T) /\ OwedByEscrows(m) \in Nat
  BY EscrowSumFields DEF OwedByEscrows
<1>2. OwedByEscrows(m)' = SumFunctionOnSet(g, EscrowsIn(m)')
  BY DEF OwedByEscrows
<1>3. /\ DOMAIN escrow_state' = DOMAIN escrow_state \cup {h}
      /\ escrow_state'[h] = e
      /\ \A x \in DOMAIN escrow_state : escrow_state'[x] = escrow_state[x]
  BY DEF With
<1>4. EscrowsIn(m)' = IF e.mint = m THEN T \cup {h} ELSE T
  BY <1>3 DEF EscrowsIn
<1>5. h \notin T /\ T \subseteq DOMAIN escrow_state
  BY DEF EscrowsIn
<1>6. (\A x \in T : g[x] = f[x]) /\ g[h] = e.data.amount
  BY <1>1, <1>3, <1>5 DEF EscrowAmount
<1> HIDE DEF h, T, f, g
<1>7. SumFunctionOnSet(f, T) = SumFunctionOnSet(g, T)
  BY <1>1, <1>6, SumCongruence
<1>8. SumFunctionOnSet(g, T \cup {h}) = g[h] + SumFunctionOnSet(g, T)
  <2>1. (\A y \in T : g[y] \in Int) /\ g[h] \in Int
    BY <1>1, <1>6
  <2> QED
    BY <1>1, <1>5, <2>1, SumAdd
<1> QED
  BY <1>1, <1>2, <1>4, <1>6, <1>7, <1>8

LEMMA EscrowsLose ==
  ASSUME EscrowsTyped, EscrowsTyped', NEW h \in DOMAIN escrow_state,
         escrow_state' = Without(escrow_state, h), NEW m
  PROVE  OwedByEscrows(m)' = OwedByEscrows(m)
           - IF escrow_state[h].mint = m THEN escrow_state[h].data.amount ELSE 0
<1> DEFINE T == EscrowsIn(m)
           f == EscrowAmount
           g == EscrowAmount'
           R == T \ {h}
<1>1. /\ IsFiniteSet(T) /\ \A x \in T : f[x] \in Nat
      /\ \A x \in DOMAIN escrow_state : f[x] = escrow_state[x].data.amount
      /\ OwedByEscrows(m) = SumFunctionOnSet(f, T) /\ OwedByEscrows(m) \in Nat
  BY EscrowSumFields DEF OwedByEscrows
<1>2. OwedByEscrows(m)' = SumFunctionOnSet(g, EscrowsIn(m)')
  BY DEF OwedByEscrows
<1>3. /\ DOMAIN escrow_state' = DOMAIN escrow_state \ {h}
      /\ \A x \in DOMAIN escrow_state' : escrow_state'[x] = escrow_state[x]
  BY DEF Without, Restrict
<1>4. EscrowsIn(m)' = R
  BY <1>3 DEF EscrowsIn
<1>5. R \subseteq DOMAIN escrow_state' /\ (h \in T <=> escrow_state[h].mint = m)
  BY <1>3 DEF EscrowsIn
<1>6. \A x \in R : f[x] = g[x]
  BY <1>1, <1>3, <1>5 DEF EscrowAmount
<1>7. f[h] = escrow_state[h].data.amount
  BY <1>1
<1> HIDE DEF T, f, g
<1>8. IsFiniteSet(R)
  BY <1>1, FS_Subset
<1>9. SumFunctionOnSet(f, R) = SumFunctionOnSet(g, R)
  <2> HIDE DEF R
  <2> QED
    BY <1>6, <1>8, SumCongruence
<1>10. CASE h \in T
  <2>1. SumFunctionOnSet(f, T) = f[h] + SumFunctionOnSet(f, R)
    <3>1. \A x \in T : f[x] \in Int
      BY <1>1
    <3> QED
      BY <1>1, <1>10, <3>1, SumRemove
  <2>2. SumFunctionOnSet(f, R) \in Int
    <3>1. \A x \in R : f[x] \in Int
      BY <1>1
    <3> HIDE DEF R
    <3> QED
      BY <1>8, <3>1, SumInt
  <2>3. f[h] \in Nat
    BY <1>1, <1>10
  <2> HIDE DEF R
  <2> QED
    BY <1>1, <1>2, <1>4, <1>5, <1>7, <1>9, <1>10, <2>1, <2>2, <2>3
<1>11. CASE h \notin T
  <2>1. R = T
    BY <1>11
  <2> HIDE DEF R
  <2> QED
    BY <1>1, <1>2, <1>4, <1>5, <1>9, <1>11, <2>1
<1> QED
  BY <1>10, <1>11

LEMMA EscrowsKept ==
  ASSUME UNCHANGED escrow_state, NEW m
  PROVE  OwedByEscrows(m)' = OwedByEscrows(m)
BY DEF OwedByEscrows, EscrowAmount, EscrowsIn

LEMMA WalletFields ==
  ASSUME TokensTyped, NEW m \in Mint
  PROVE  /\ WalletTokens(m) \in Nat
         /\ \A w \in Wallet : <<w, m>> \in Owner /\ ata[<<w, m>>] \in Nat
                              /\ ata[<<w, m>>] <= WalletTokens(m)
         /\ vault[m] \in Nat
<1> DEFINE f == [w \in Wallet |-> ata[<<w, m>>]]
<1>1. \A w \in Wallet : <<w, m>> \in Owner /\ ata[<<w, m>>] \in Nat
  BY U64Positive DEF TokensTyped, Owner
<1>2. \A w \in Wallet : f[w] \in Nat /\ f[w] = ata[<<w, m>>]
  BY <1>1
<1>3. WalletTokens(m) = SumFunctionOnSet(f, Wallet)
  BY DEF WalletTokens
<1> HIDE DEF f
<1>4. WalletTokens(m) \in Nat /\ \A w \in Wallet : f[w] <= WalletTokens(m)
  <2>1. SumFunctionOnSet(f, Wallet) \in Nat
    BY <1>2, SumNat
  <2>2. \A w \in Wallet : f[w] <= SumFunctionOnSet(f, Wallet)
    BY <1>2, SumTerm
  <2> QED
    BY <1>3, <2>1, <2>2
<1> QED
  BY <1>1, <1>2, <1>4, U64Positive DEF TokensTyped

\* What one token account gains, the wallets gain.
LEMMA WalletsGain ==
  ASSUME TokensTyped, TokensTyped', NEW o \in Owner, NEW gain \in Int,
         ata' = [ata EXCEPT ![o] = ata[o] + gain], NEW m \in Mint
  PROVE  WalletTokens(m)' = WalletTokens(m) + IF o[2] = m THEN gain ELSE 0
<1> DEFINE f == [w \in Wallet |-> ata[<<w, m>>]]
           g == [w \in Wallet |-> ata'[<<w, m>>]]
<1>1. /\ \A w \in Wallet : <<w, m>> \in Owner /\ f[w] = ata[<<w, m>>] /\ g[w] = ata'[<<w, m>>]
      /\ WalletTokens(m) = SumFunctionOnSet(f, Wallet)
      /\ WalletTokens(m)' = SumFunctionOnSet(g, Wallet)
      /\ WalletTokens(m) \in Nat
  BY WalletFields DEF WalletTokens, Owner
<1>2. ata \in [Owner -> 0 .. U64 - 1] /\ ata' \in [Owner -> 0 .. U64 - 1] /\ U64 \in Nat
  BY DEF TokensTyped
<1>3. \A w \in Wallet : f[w] \in Nat /\ g[w] \in Nat
  BY <1>1, <1>2
<1>4. \A w \in Wallet : <<w, m>> # o => g[w] = f[w]
  BY <1>1, <1>2
<1>5. o[1] \in Wallet /\ (o[2] = m => o = <<o[1], m>>) /\ \A w \in Wallet : <<w, m>> = o => w = o[1] /\ m = o[2]
  BY DEF Owner
<1>6. o[2] = m => g[o[1]] = f[o[1]] + gain
  BY <1>1, <1>2, <1>5
<1> HIDE DEF f, g
<1>7. CASE o[2] # m
  <2>1. \A w \in Wallet : f[w] = g[w]
    BY <1>4, <1>5, <1>7
  <2>2. SumFunctionOnSet(f, Wallet) = SumFunctionOnSet(g, Wallet)
    BY <2>1, SumCongruence
  <2> QED
    BY <1>1, <1>7, <2>2
<1>8. CASE o[2] = m
  <2> DEFINE w == o[1]
  <2>1. /\ w \in Wallet
        /\ \A x \in Wallet : f[x] \in Int
        /\ \A x \in Wallet : g[x] \in Int
        /\ \A x \in Wallet \ {w} : g[x] = f[x]
    BY <1>3, <1>4, <1>5
  <2>2. g[w] = f[w] + gain /\ f[w] \in Nat
    BY <1>3, <1>5, <1>6, <1>8
  <2> HIDE DEF w
  <2>3. SumFunctionOnSet(g, Wallet) = SumFunctionOnSet(f, Wallet) - f[w] + g[w]
    BY <2>1, SumChange
  <2> QED
    BY <1>1, <1>8, <2>2, <2>3
<1> QED
  BY <1>7, <1>8

\* The tokens of a mint fit a u64, so that additions do not wrap.
LEMMA NoWrap ==
  ASSUME TokensTyped, Conserved, NEW m \in Mint
  PROVE  /\ vault[m] + WalletTokens(m) < U64
         /\ vault[m] < U64
         /\ \A w \in Wallet : vault[m] + ata[<<w, m>>] < U64
<1>1. vault[m] + WalletTokens(m) < U64
  BY DEF Conserved
<1> QED
  BY <1>1, WalletFields, U64Positive

\* A deposit into the vault, and a payment from it, of exactly that amount.
LEMMA ToVaultMoves ==
  ASSUME TokensTyped, Conserved, NEW o \in Owner, NEW amount \in Nat, ToVault(o, amount)
  PROVE  /\ \A m \in Mint : vault'[m] = vault[m] + IF o[2] = m THEN amount ELSE 0
         /\ Conserved'
<1>1. o[1] \in Wallet /\ o[2] \in Mint /\ o = <<o[1], o[2]>>
  BY DEF Owner
<1>2. ata[o] \in Nat /\ vault[o[2]] \in Nat /\ amount <= ata[o]
  BY <1>1, U64Positive DEF ToVault, TokensTyped
<1>3. vault[o[2]] + ata[o] < U64
  BY <1>1, NoWrap
<1>4. Plus(vault[o[2]], amount) = vault[o[2]] + amount
  <2>1. vault[o[2]] + amount < U64
    BY <1>2, <1>3, U64Positive
  <2> QED
    BY <1>2, <2>1, Additions
<1>5. \A m \in Mint : vault'[m] = vault[m] + IF o[2] = m THEN amount ELSE 0
  <2>1. \A m \in Mint : vault[m] \in Nat
    BY U64Positive DEF TokensTyped
  <2> QED
    BY <1>4, <2>1 DEF ToVault, TokensTyped
<1>6. ASSUME NEW m \in Mint
      PROVE  WalletTokens(m)' = WalletTokens(m) + IF o[2] = m THEN - amount ELSE 0
  <2>1. ata' = [ata EXCEPT ![o] = ata[o] + (- amount)]
    <3>1. ata' = [ata EXCEPT ![o] = ata[o] - amount] /\ ata[o] - amount = ata[o] + (- amount)
      BY <1>2 DEF ToVault
    <3> QED
      BY <3>1
  <2>2. TokensTyped' /\ - amount \in Int
    BY ToVaultTyped
  <2> QED
    BY <2>1, <2>2, WalletsGain
<1>7. ASSUME NEW m \in Mint
      PROVE  vault'[m] + WalletTokens(m)' = vault[m] + WalletTokens(m)
  BY <1>5, <1>6, WalletFields
<1> QED
  BY <1>5, <1>7 DEF Conserved

LEMMA FromVaultMoves ==
  ASSUME TokensTyped, Conserved, NEW o \in Owner, NEW amount \in Nat, FromVault(o, amount)
  PROVE  /\ \A m \in Mint : vault'[m] = vault[m] - IF o[2] = m THEN amount ELSE 0
         /\ Conserved'
<1>1. o[1] \in Wallet /\ o[2] \in Mint /\ o = <<o[1], o[2]>> /\ o[1] # VaultAuthority
  BY DEF Owner
<1>2. ata[o] \in Nat /\ vault[o[2]] \in Nat /\ amount <= vault[o[2]]
  BY <1>1, U64Positive DEF FromVault, TokensTyped
<1>3. vault[o[2]] + ata[o] < U64
  BY <1>1, NoWrap
<1>4. Plus(ata[o], amount) = ata[o] + amount
  <2>1. ata[o] + amount < U64
    BY <1>2, <1>3, U64Positive
  <2> QED
    BY <1>2, <2>1, Additions
<1>5. \A m \in Mint : vault'[m] = vault[m] - IF o[2] = m THEN amount ELSE 0
  <2>1. \A m \in Mint : vault[m] \in Nat
    BY U64Positive DEF TokensTyped
  <2> QED
    BY <1>1, <2>1 DEF FromVault, TokensTyped
<1>6. ASSUME NEW m \in Mint
      PROVE  WalletTokens(m)' = WalletTokens(m) + IF o[2] = m THEN amount ELSE 0
  <2>1. ata' = [ata EXCEPT ![o] = ata[o] + amount]
    BY <1>1, <1>4 DEF FromVault
  <2>2. o \in TokenAccount
    BY <1>1 DEF TokenAccount, TokenOwner
  <2>3. TokensTyped' /\ amount \in Int
    BY <2>2, FromVaultTyped
  <2> QED
    BY <2>1, <2>3, WalletsGain
<1>7. ASSUME NEW m \in Mint
      PROVE  vault'[m] + WalletTokens(m)' = vault[m] + WalletTokens(m)
  BY <1>5, <1>6, WalletFields
<1> QED
  BY <1>5, <1>7 DEF Conserved

-----------------------------------------------------------------------------
(* The vault covers what is owed, and each instruction changes both alike.  *)

Solvent == Base /\ Conserved /\ VaultSolvent

KeepsSlack == \A m \in Mint : Slack(m)' = Slack(m)

\* What is lost of one mint.
GainsSlack(mint, amount) ==
  \A m \in Mint : Slack(m)' = Slack(m) + IF mint = m THEN amount ELSE 0

LEMMA OwedFields ==
  ASSUME Base, NEW m \in Mint
  PROVE  /\ OwedToUsers(m) \in Nat /\ OwedByEscrows(m) \in Nat
         /\ Owed(m) = OwedToUsers(m) + OwedByEscrows(m)
         /\ vault[m] \in Nat
BY HoldingFields, EscrowSumFields, OwedSplit, U64Positive DEF Base, TokensTyped

OwedTyped ==
  \A m \in Mint : OwedToUsers(m) \in Nat /\ OwedByEscrows(m) \in Nat /\ vault[m] \in Nat

LEMMA OwedTypedNext == Base' => OwedTyped'
<1>1. Base => OwedTyped
  BY OwedFields DEF OwedTyped
<1> QED
  BY <1>1, PTL

\* The shares of a user and of an escrow fit a u64 together.
LEMMA UserShare ==
  ASSUME Base, NEW o \in Owner
  PROVE  /\ UserData(o) \in UserAccount /\ UserData(o).amount \in Nat
         /\ UserData(o).amount <= OwedToUsers(o[2])
<1>0. o[2] \in Mint /\ OwedToUsers(o[2]) \in Nat
  BY OwedFields DEF Owner
<1>1. CASE o \in DOMAIN user_data
  <2>1. UserData(o) = user_data[o] /\ o \in TokenHolding(o[2])
    BY <1>1 DEF UserData, TokenHolding
  <2>2. user_data[o] \in UserAccount
    BY <1>1 DEF Base, UsersTyped
  <2>3. /\ IsFiniteSet(TokenHolding(o[2]))
        /\ \A k \in TokenHolding(o[2]) : UserAmount[k] \in Nat
        /\ UserAmount[o] = user_data[o].amount
    BY <1>1, HoldingFields DEF Base
  <2>4. UserAmount[o] <= OwedToUsers(o[2]) /\ UserAmount[o] \in Nat
    BY <2>1, <2>3, SumTerm DEF OwedToUsers
  <2> QED
    BY <2>1, <2>2, <2>3, <2>4
<1>2. CASE o \notin DOMAIN user_data
  BY <1>0, <1>2, Fields DEF UserData
<1> QED
  BY <1>1, <1>2

LEMMA EscrowShare ==
  ASSUME Base, NEW h \in DOMAIN escrow_state
  PROVE  escrow_state[h].data.amount <= OwedByEscrows(escrow_state[h].mint)
<1> DEFINE m == escrow_state[h].mint
<1>1. h \in EscrowsIn(m)
  BY DEF EscrowsIn
<1>2. /\ IsFiniteSet(EscrowsIn(m))
      /\ \A k \in EscrowsIn(m) : EscrowAmount[k] \in Nat
      /\ EscrowAmount[h] = escrow_state[h].data.amount
  BY EscrowSumFields DEF Base
<1> HIDE DEF m
<1>3. EscrowAmount[h] <= OwedByEscrows(m)
  BY <1>1, <1>2, SumTerm DEF OwedByEscrows
<1> QED
  BY <1>2, <1>3 DEF m

\* A balance that is credited what the vault already holds, or gets, is exact.
LEMMA CreditExact ==
  ASSUME Base, NEW o \in Owner, NEW amount \in Nat,
         OwedToUsers(o[2]) + amount < U64
  PROVE  LET new == Credit(UserData(o), amount)
         IN  /\ new \in UserAccount
             /\ new.amount = UserData(o).amount + amount
             /\ new.reputation = UserData(o).reputation
<1>1. /\ UserData(o) \in UserAccount /\ UserData(o).amount \in Nat
      /\ UserData(o).amount <= OwedToUsers(o[2])
      /\ OwedToUsers(o[2]) \in Nat
  BY UserShare, OwedFields DEF Owner
<1>2. UserData(o).amount + amount < U64
  BY <1>1, U64Positive
<1>3. Plus(UserData(o).amount, amount) = UserData(o).amount + amount
  BY <1>1, <1>2, Additions
<1> QED
  BY <1>1, <1>3, CreditUser

LEMMA DepositKeeps ==
  ASSUME Solvent, Base', NEW o \in Owner, NEW amount \in Amount, Deposit(o, amount)
  PROVE  KeepsSlack /\ Conserved'
<1>1. /\ ToVault(o, amount) /\ amount \in Nat
      /\ user_data' = With(user_data, o, Credit(UserData(o), amount))
      /\ UNCHANGED escrow_state
  BY DEF Deposit
<1>2. /\ \A m \in Mint : vault'[m] = vault[m] + IF o[2] = m THEN amount ELSE 0
      /\ Conserved'
  BY <1>1, ToVaultMoves DEF Solvent, Base
<1>3. o[2] \in Mint /\ vault'[o[2]] < U64 /\ Owed(o[2]) <= vault[o[2]]
  <2>1. o[2] \in Mint
    BY DEF Owner
  <2> QED
    BY <2>1, <1>2, U64Positive DEF Solvent, VaultSolvent, Base, TokensTyped
<1>4. OwedToUsers(o[2]) + amount < U64
  BY <1>1, <1>2, <1>3, OwedFields, U64Positive DEF Solvent
<1>5. Credit(UserData(o), amount).amount = UserData(o).amount + amount
  BY <1>1, <1>4, CreditExact DEF Solvent
<1> DEFINE new == Credit(UserData(o), amount)
<1> HIDE DEF new
<1>6. /\ DOMAIN user_data' = DOMAIN user_data \cup {o}
      /\ user_data'[o] = new
      /\ \A k \in DOMAIN user_data : k # o => user_data'[k].amount = user_data[k].amount
  BY <1>1 DEF With, new
<1>7. user_data'[o].amount = UserData(o).amount + amount
  BY <1>5, <1>6 DEF new
<1>8. ASSUME NEW m \in Mint PROVE Slack(m)' = Slack(m)
  <2>1. OwedToUsers(m)' = OwedToUsers(m) + IF o[2] = m THEN amount ELSE 0
    BY <1>1, <1>6, <1>7, UsersGain DEF Solvent, Base
  <2>2. OwedByEscrows(m)' = OwedByEscrows(m)
    BY <1>1, EscrowsKept
  <2>3. Owed(m)' = OwedToUsers(m)' + OwedByEscrows(m)'
    BY OwedSplit
  <2> QED
    BY <1>1, <1>2, <2>1, <2>2, <2>3, OwedFields DEF Slack, Solvent
<1> QED
  BY <1>2, <1>8 DEF KeepsSlack

\* A user account that gives up some of its balance.
LEMMA DebitLowers ==
  ASSUME Base, Base', NEW o \in Owner, NEW amount \in Nat,
         o \in DOMAIN user_data, user_data[o].amount >= amount,
         user_data' = [user_data EXCEPT ![o] = Debit(user_data[o], amount)], NEW m \in Mint
  PROVE  OwedToUsers(m)' = OwedToUsers(m) - IF o[2] = m THEN amount ELSE 0
<1>1. user_data[o] \in UserAccount /\ user_data[o].amount \in Nat /\ UserData(o) = user_data[o]
  BY UserShare DEF Base, UsersTyped, UserData
<1>2. Debit(user_data[o], amount).amount = user_data[o].amount + (- amount)
  BY <1>1, DebitUser
<1> DEFINE new == Debit(user_data[o], amount)
<1> HIDE DEF new
<1>3. user_data \in [DOMAIN user_data -> UserAccount] /\ user_data' = [user_data EXCEPT ![o] = new]
  BY DEF Base, UsersTyped, new
<1>4. /\ DOMAIN user_data' = DOMAIN user_data \cup {o}
      /\ user_data'[o] = new
      /\ \A k \in DOMAIN user_data : k # o => user_data'[k].amount = user_data[k].amount
  BY <1>3
<1>5. user_data'[o].amount = UserData(o).amount + (- amount)
  BY <1>1, <1>2, <1>4 DEF new
<1>6. OwedToUsers(m)' = OwedToUsers(m) + IF o[2] = m THEN (- amount) ELSE 0
  <2>1. - amount \in Int
    OBVIOUS
  <2> QED
    BY <1>4, <1>5, <2>1, UsersGain DEF Base
<1> QED
  BY <1>6, OwedFields

\* What a withdrawal takes from a balance leaves the vault, unless it is paid to
\* the vault.
LEMMA WithdrawKeeps ==
  ASSUME Solvent, Base', NEW o \in Owner, NEW amount \in Amount, NEW receiver \in TokenOwner,
         Withdraw(o, amount, receiver)
  PROVE  /\ Conserved'
         /\ receiver \in Wallet => KeepsSlack
         /\ receiver = VaultAuthority => GainsSlack(o[2], amount)
<1> DEFINE to == <<receiver, o[2]>>
<1>1. /\ FromVault(to, amount) /\ amount \in Nat
      /\ o \in DOMAIN user_data /\ user_data[o].amount >= amount
      /\ user_data' = [user_data EXCEPT ![o] = Debit(user_data[o], amount)]
      /\ UNCHANGED escrow_state
  BY DEF Withdraw
<1>2. to[1] = receiver /\ to[2] = o[2] /\ (receiver \in Wallet => to \in Owner)
  BY DEF Owner
<1> HIDE DEF to
<1>3. ASSUME NEW m \in Mint
      PROVE  Slack(m)' = vault'[m] - Owed(m) + IF o[2] = m THEN amount ELSE 0
  <2>1. OwedToUsers(m)' = OwedToUsers(m) - IF o[2] = m THEN amount ELSE 0
    BY <1>1, DebitLowers DEF Solvent
  <2>2. OwedByEscrows(m)' = OwedByEscrows(m)
    BY <1>1, EscrowsKept
  <2>3. Owed(m)' = OwedToUsers(m)' + OwedByEscrows(m)'
    BY OwedSplit
  <2>4. vault'[m] \in Nat
    BY OwedTypedNext DEF OwedTyped
  <2> QED
    BY <1>1, <2>1, <2>2, <2>3, <2>4, OwedFields DEF Slack, Solvent
<1>4. CASE receiver \in Wallet
  <2>1. /\ \A m \in Mint : vault'[m] = vault[m] - IF o[2] = m THEN amount ELSE 0
        /\ Conserved'
    BY <1>1, <1>2, <1>4, FromVaultMoves DEF Solvent, Base
  <2>2. ASSUME NEW m \in Mint PROVE Slack(m)' = Slack(m)
    BY <1>1, <1>3, <2>1, OwedFields DEF Slack, Solvent
  <2> QED
    BY <1>4, <2>1, <2>2 DEF KeepsSlack
<1>5. CASE receiver = VaultAuthority
  <2>1. UNCHANGED tokens
    BY <1>1, <1>2, <1>5 DEF FromVault
  <2>2. Conserved'
    BY <2>1 DEF Solvent, Conserved, WalletTokens, tokens
  <2> QED
    BY <1>3, <1>5, <2>1, <2>2 DEF GainsSlack, Slack, tokens
<1> QED
  BY <1>4, <1>5 DEF TokenOwner

\* Opening an escrow moves its amount from the offerer, or from the offerer's
\* balance, to the escrow.
LEMMA OpenKeeps ==
  ASSUME Solvent, Base', NEW e, OpensEscrow(e)
  PROVE  KeepsSlack /\ Conserved'
<1> DEFINE o == OffererAccount(e)
           amount == e.data.amount
<1>1. /\ e \in Escrow /\ e.data.hash \notin DOMAIN escrow_state
      /\ escrow_state' = With(escrow_state, e.data.hash, e)
  BY DEF OpensEscrow
<1>2. e.data \in Swap /\ e.offerer \in Wallet /\ e.mint \in Mint
  BY <1>1 DEF Escrow
<1>3. o \in Owner /\ o[2] = e.mint /\ amount \in Nat
  BY <1>2, SwapFields DEF Owner, OffererAccount
<1>4. ASSUME NEW m \in Mint
      PROVE  OwedByEscrows(m)' = OwedByEscrows(m) + IF o[2] = m THEN amount ELSE 0
  <2>1. OwedByEscrows(m)' = OwedByEscrows(m) + IF e.mint = m THEN amount ELSE 0
    BY <1>1, <1>3, EscrowsGain DEF Solvent, Base
  <2> QED
    BY <1>3, <2>1
<1>5. CASE e.data.pay_in
  <2>1. ToVault(o, amount) /\ UNCHANGED user_data
    BY <1>5 DEF OpensEscrow
  <2> HIDE DEF o, amount
  <2>2. /\ \A m \in Mint : vault'[m] = vault[m] + IF o[2] = m THEN amount ELSE 0
        /\ Conserved'
    BY <1>3, <2>1, ToVaultMoves DEF Solvent, Base
  <2>3. ASSUME NEW m \in Mint PROVE Slack(m)' = Slack(m)
    <3>1. OwedToUsers(m)' = OwedToUsers(m)
      BY <2>1, UsersKept DEF Solvent, Base
    <3> QED
      BY <1>3, <1>4, <2>2, <3>1, OwedFields, OwedSplit DEF Slack, Solvent
  <2> QED
    BY <2>2, <2>3 DEF KeepsSlack
<1>6. CASE ~ e.data.pay_in
  <2>1. /\ o \in DOMAIN user_data /\ user_data[o].amount >= amount
        /\ user_data' = [user_data EXCEPT ![o] = Debit(user_data[o], amount)]
        /\ UNCHANGED tokens
    BY <1>6 DEF OpensEscrow
  <2> HIDE DEF o, amount
  <2>2. ASSUME NEW m \in Mint PROVE Slack(m)' = Slack(m)
    <3>1. OwedToUsers(m)' = OwedToUsers(m) - IF o[2] = m THEN amount ELSE 0
      BY <1>3, <2>1, DebitLowers DEF Solvent
    <3>2. vault'[m] = vault[m]
      BY <2>1 DEF tokens
    <3> QED
      BY <1>3, <1>4, <3>1, <3>2, OwedFields, OwedSplit DEF Slack, Solvent
  <2>3. Conserved'
    BY <2>1 DEF Solvent, Conserved, WalletTokens, tokens
  <2> QED
    BY <2>2, <2>3 DEF KeepsSlack
<1> QED
  BY <1>5, <1>6

\* A payment of what an escrow holds, from the vault or to the vault.
LEMMA PayOutKeeps ==
  ASSUME Solvent, Base', NEW h \in DOMAIN escrow_state, NEW w \in TokenOwner,
         FromVault(<<w, escrow_state[h].mint>>, escrow_state[h].data.amount),
         escrow_state' = Without(escrow_state, h),
         DOMAIN user_data' = DOMAIN user_data,
         \A k \in DOMAIN user_data : user_data'[k].amount = user_data[k].amount
  PROVE  /\ Conserved'
         /\ w \in Wallet => KeepsSlack
         /\ w = VaultAuthority => GainsSlack(escrow_state[h].mint, escrow_state[h].data.amount)
<1> DEFINE mint == escrow_state[h].mint
           amount == escrow_state[h].data.amount
           to == <<w, mint>>
<1>1. /\ mint \in Mint /\ amount \in Nat /\ to[1] = w /\ to[2] = mint
      /\ w \in Wallet => to \in Owner
  BY EscrowFields DEF Solvent, Base, Owner
<1>2. ASSUME NEW m \in Mint
      PROVE  OwedByEscrows(m)' = OwedByEscrows(m) - IF mint = m THEN amount ELSE 0
  BY EscrowsLose DEF Solvent, Base
<1>3. FromVault(to, amount)
  OBVIOUS
<1> HIDE DEF mint, amount, to
<1>4. ASSUME NEW m \in Mint
      PROVE  Slack(m)' = vault'[m] - Owed(m) + IF mint = m THEN amount ELSE 0
  <2>1. OwedToUsers(m)' = OwedToUsers(m)
    BY UsersKept DEF Solvent, Base
  <2>2. vault'[m] \in Nat
    BY OwedTypedNext DEF OwedTyped
  <2> QED
    BY <1>1, <1>2, <2>1, <2>2, OwedFields, OwedSplit DEF Slack, Solvent
<1>5. CASE w \in Wallet
  <2>1. /\ \A m \in Mint : vault'[m] = vault[m] - IF mint = m THEN amount ELSE 0
        /\ Conserved'
    BY <1>1, <1>3, <1>5, FromVaultMoves DEF Solvent, Base
  <2>2. ASSUME NEW m \in Mint PROVE Slack(m)' = Slack(m)
    BY <1>1, <1>4, <2>1, OwedFields DEF Slack, Solvent
  <2> QED
    BY <1>5, <2>1, <2>2 DEF KeepsSlack
<1>6. CASE w = VaultAuthority
  <2>1. UNCHANGED tokens
    BY <1>1, <1>3, <1>6 DEF FromVault
  <2>2. Conserved'
    BY <2>1 DEF Solvent, Conserved, WalletTokens, tokens
  <2>3. GainsSlack(mint, amount)
    BY <1>4, <2>1 DEF GainsSlack, Slack, tokens
  <2> QED
    BY <1>6, <2>2, <2>3 DEF mint, amount
<1> QED
  BY <1>5, <1>6 DEF TokenOwner

\* A refund of a swap that was paid in pays a wallet from the vault.
LEMMA RefundPayInPays ==
  ASSUME Base, NEW h \in DOMAIN escrow_state,
         NEW auth_expiry, NEW claimer_passed \in BOOLEAN,
         OffererRefundPayIn(h, auth_expiry, claimer_passed)
  PROVE  LET e == escrow_state[h]
         IN  /\ e.data.pay_in /\ e.offerer_ata \in Wallet
             /\ FromVault(<<e.offerer_ata, e.mint>>, e.data.amount)
             /\ escrow_state' = Without(escrow_state, h)
             /\ DOMAIN user_data' = DOMAIN user_data
             /\ \A k \in DOMAIN user_data : user_data'[k].amount = user_data[k].amount
<1> DEFINE e == escrow_state[h]
<1>1. /\ e.data.pay_in
      /\ FromVault(<<e.offerer_ata, e.mint>>, e.data.amount)
      /\ escrow_state' = Without(escrow_state, h)
      /\ claimer_passed => ClaimerAccount(e) \in DOMAIN user_data
      /\ user_data' = IF claimer_passed
                      THEN [user_data EXCEPT ![ClaimerAccount(e)] = RefundedClaimer(e, auth_expiry)]
                      ELSE user_data
  BY DEF OffererRefundPayIn, MayRefund
<1>2. e.offerer_ata \in Wallet
  <2>1. e.offerer_ata # None
    BY <1>1 DEF Base, SettlementAccountsExist
  <2> QED
    BY <2>1, EscrowFields DEF Base
<1>3. DOMAIN user_data' = DOMAIN user_data
      /\ \A k \in DOMAIN user_data : user_data'[k].amount = user_data[k].amount
  <2> DEFINE c == ClaimerAccount(e)
             new == RefundedClaimer(e, auth_expiry)
  <2>1. claimer_passed => new.amount = user_data[c].amount
    BY <1>1, RefundedClaimerFields
  <2> HIDE DEF c, new
  <2>2. user_data \in [DOMAIN user_data -> UserAccount]
        /\ user_data' = IF claimer_passed THEN [user_data EXCEPT ![c] = new] ELSE user_data
    BY <1>1 DEF Base, UsersTyped, c, new
  <2> QED
    BY <2>1, <2>2
<1> QED
  BY <1>1, <1>2, <1>3

LEMMA RefundPayInKeeps ==
  ASSUME Solvent, Base', NEW h \in DOMAIN escrow_state,
         NEW auth_expiry \in {0} \cup Timestamp, NEW claimer_passed \in BOOLEAN,
         OffererRefundPayIn(h, auth_expiry, claimer_passed)
  PROVE  KeepsSlack /\ Conserved'
<1>1. LET e == escrow_state[h]
      IN  /\ e.offerer_ata \in Wallet
          /\ FromVault(<<e.offerer_ata, e.mint>>, e.data.amount)
          /\ escrow_state' = Without(escrow_state, h)
          /\ DOMAIN user_data' = DOMAIN user_data
          /\ \A k \in DOMAIN user_data : user_data'[k].amount = user_data[k].amount
  BY RefundPayInPays DEF Solvent
<1>2. escrow_state[h].offerer_ata \in TokenOwner
  BY <1>1 DEF TokenOwner
<1> QED
  BY <1>1, <1>2, PayOutKeeps

LEMMA ClaimPayOutKeeps ==
  ASSUME Solvent, Base', NEW h \in DOMAIN escrow_state, NEW signer \in Wallet,
         NEW secret, NEW account, ClaimerClaimPayOut(signer, h, secret, account)
  PROVE  LET e == escrow_state[h]
         IN  /\ Conserved' /\ e.claimer_ata \in TokenOwner
             /\ e.claimer_ata \in Wallet => KeepsSlack
             /\ e.claimer_ata = VaultAuthority => GainsSlack(e.mint, e.data.amount)
<1> DEFINE e == escrow_state[h]
<1>1. /\ e.data.pay_out
      /\ FromVault(<<e.claimer_ata, e.mint>>, e.data.amount)
      /\ escrow_state' = Without(escrow_state, h)
      /\ UNCHANGED user_data
  BY DEF ClaimerClaimPayOut
<1>2. e.claimer_ata \in TokenOwner
  <2>1. e.claimer_ata # None
    BY <1>1 DEF Solvent, Base, SettlementAccountsExist
  <2> QED
    BY <2>1, EscrowFields DEF Solvent, Base
<1> QED
  BY <1>1, <1>2, PayOutKeeps

\* What an escrow holds, credited to a user account of its mint, fits it.
LEMMA ShareFits ==
  ASSUME Solvent, NEW h \in DOMAIN escrow_state
  PROVE  LET e == escrow_state[h]
         IN  /\ e.mint \in Mint /\ e.data.amount \in Nat
             /\ OwedToUsers(e.mint) + e.data.amount < U64
<1> DEFINE mint == escrow_state[h].mint
           amount == escrow_state[h].data.amount
<1>1. mint \in Mint /\ amount \in Nat /\ amount <= OwedByEscrows(mint)
  BY EscrowFields, EscrowShare DEF Solvent, Base
<1> HIDE DEF mint, amount
<1>2. vault[mint] < U64 /\ Owed(mint) <= vault[mint]
  BY <1>1, U64Positive DEF Solvent, Base, TokensTyped, VaultSolvent
<1>3. OwedToUsers(mint) + amount < U64
  BY <1>1, <1>2, OwedFields, U64Positive DEF Solvent
<1> QED
  BY <1>1, <1>3 DEF mint, amount

\* An escrow whose amount is credited to one user account, or to none.
LEMMA CreditKeeps ==
  ASSUME Solvent, Base', NEW h \in DOMAIN escrow_state,
         escrow_state' = Without(escrow_state, h), UNCHANGED tokens,
         NEW o \in DOMAIN user_data, o[2] = escrow_state[h].mint,
         DOMAIN user_data' = DOMAIN user_data,
         \A k \in DOMAIN user_data : k # o => user_data'[k].amount = user_data[k].amount,
         NEW gain \in Int, user_data'[o].amount = user_data[o].amount + gain
  PROVE  /\ Conserved'
         /\ \A m \in Mint : Slack(m)' = Slack(m)
              + IF escrow_state[h].mint = m THEN escrow_state[h].data.amount - gain ELSE 0
<1> DEFINE mint == escrow_state[h].mint
           amount == escrow_state[h].data.amount
<1>1. mint \in Mint /\ amount \in Nat
  BY EscrowFields DEF Solvent, Base
<1>2. ASSUME NEW m \in Mint
      PROVE  OwedByEscrows(m)' = OwedByEscrows(m) - IF mint = m THEN amount ELSE 0
  BY EscrowsLose DEF Solvent, Base
<1>3. ASSUME NEW m \in Mint
      PROVE  OwedToUsers(m)' = OwedToUsers(m) + IF mint = m THEN gain ELSE 0
  <2>1. o \in Owner /\ UserData(o) = user_data[o] /\ DOMAIN user_data' = DOMAIN user_data \cup {o}
    BY DEF Solvent, Base, UsersTyped, UserData
  <2>2. OwedToUsers(m)' = OwedToUsers(m) + IF o[2] = m THEN gain ELSE 0
    BY <2>1, UsersGain DEF Solvent, Base
  <2> QED
    BY <2>2
<1>4. Conserved' /\ \A m \in Mint : vault'[m] = vault[m]
  BY DEF Solvent, Conserved, WalletTokens, tokens
<1> HIDE DEF mint, amount
<1>5. ASSUME NEW m \in Mint
      PROVE  Slack(m)' = Slack(m) + IF mint = m THEN amount - gain ELSE 0
  BY <1>1, <1>2, <1>3, <1>4, OwedFields, OwedSplit DEF Slack, Solvent
<1> QED
  BY <1>4, <1>5 DEF mint, amount

\* A claim credits the claimer's user account with the amount of the swap.
LEMMA ClaimCredits ==
  ASSUME Solvent, NEW h \in DOMAIN escrow_state, NEW signer,
         NEW secret, NEW account, ClaimerClaim(signer, h, secret, account)
  PROVE  LET e == escrow_state[h]
             c == ClaimerAccount(e)
         IN  /\ c \in DOMAIN user_data /\ UNCHANGED tokens
             /\ escrow_state' = Without(escrow_state, h)
             /\ DOMAIN user_data' = DOMAIN user_data
             /\ user_data'[c].amount = user_data[c].amount + e.data.amount
             /\ \A k \in DOMAIN user_data : k # c => user_data'[k].amount = user_data[k].amount
<1> DEFINE e == escrow_state[h]
           c == ClaimerAccount(e)
           credited == Credit(user_data[c], e.data.amount)
           new == Record(credited, "success", e.data)
<1>1. /\ c \in DOMAIN user_data /\ UNCHANGED tokens
      /\ escrow_state' = Without(escrow_state, h)
      /\ user_data' = [user_data EXCEPT ![c] = new]
  BY DEF ClaimerClaim
<1>2. /\ c \in Owner /\ c[2] = e.mint /\ e.data \in Swap /\ e.data.amount \in Nat
  BY EscrowFields DEF Solvent, Base, ClaimerAccount
<1>3. credited \in UserAccount /\ credited.amount = user_data[c].amount + e.data.amount
  <2>1. OwedToUsers(c[2]) + e.data.amount < U64
    BY <1>2, ShareFits
  <2>2. UserData(c) = user_data[c]
    BY <1>1 DEF UserData
  <2> HIDE DEF c, e
  <2> QED
    BY <1>2, <2>1, <2>2, CreditExact DEF Solvent
<1>4. new.amount = user_data[c].amount + e.data.amount
  <2>1. "success" \in Outcome
    BY DEF Outcome
  <2>2. credited \in UserAccount /\ e.data \in Swap
    BY <1>2, <1>3
  <2> DEFINE d == e.data
  <2> HIDE DEF credited, d
  <2>3. Record(credited, "success", d).amount = credited.amount
    BY <2>1, <2>2, RecordAmount DEF d
  <2> QED
    BY <1>3, <2>3 DEF d
<1> HIDE DEF new
<1>5. /\ DOMAIN user_data' = DOMAIN user_data
      /\ user_data'[c] = new
      /\ \A k \in DOMAIN user_data : k # c => user_data'[k].amount = user_data[k].amount
  <2> HIDE DEF c
  <2> QED
    BY <1>1 DEF Solvent, Base, UsersTyped
<1> QED
  BY <1>1, <1>4, <1>5

LEMMA ClaimKeeps ==
  ASSUME Solvent, Base', NEW h \in DOMAIN escrow_state, NEW signer \in Wallet,
         NEW secret, NEW account, ClaimerClaim(signer, h, secret, account)
  PROVE  KeepsSlack /\ Conserved'
<1> DEFINE e == escrow_state[h]
           c == ClaimerAccount(e)
<1>1. /\ c \in DOMAIN user_data /\ UNCHANGED tokens
      /\ escrow_state' = Without(escrow_state, h)
      /\ DOMAIN user_data' = DOMAIN user_data
      /\ user_data'[c].amount = user_data[c].amount + e.data.amount
      /\ \A k \in DOMAIN user_data : k # c => user_data'[k].amount = user_data[k].amount
  BY ClaimCredits
<1>2. c[2] = e.mint /\ e.data.amount \in Nat
  BY EscrowFields DEF Solvent, Base, ClaimerAccount
<1>3. Conserved' /\ \A m \in Mint : Slack(m)' = Slack(m)
                      + IF e.mint = m THEN e.data.amount - e.data.amount ELSE 0
  <2>1. e.data.amount \in Int
    BY <1>2
  <2> HIDE DEF c
  <2> QED
    BY <1>1, <1>2, <2>1, CreditKeeps
<1> HIDE DEF e
<1>4. ASSUME NEW m \in Mint PROVE Slack(m)' = Slack(m)
  <2>1. Slack(m) \in Int
    BY OwedFields DEF Slack, Solvent
  <2> QED
    BY <1>2, <1>3, <2>1
<1> QED
  BY <1>3, <1>4 DEF KeepsSlack

\* A refund credits the offerer's user account, unless the claimer's account is
\* passed and is the same one.
LEMMA RefundCredits ==
  ASSUME Solvent, NEW h \in DOMAIN escrow_state, NEW auth_expiry,
         NEW claimer_passed \in BOOLEAN,
         OffererRefund(h, auth_expiry, claimer_passed)
  PROVE  LET e == escrow_state[h]
             o == OffererAccount(e)
             c == ClaimerAccount(e)
         IN  /\ o \in DOMAIN user_data /\ UNCHANGED tokens
             /\ escrow_state' = Without(escrow_state, h)
             /\ DOMAIN user_data' = DOMAIN user_data
             /\ o = c <=> e.offerer = e.claimer
             /\ ~ claimer_passed \/ o # c =>
                  user_data'[o].amount = user_data[o].amount + e.data.amount
             /\ claimer_passed /\ o = c => user_data'[o].amount = user_data[o].amount
             /\ \A k \in DOMAIN user_data : k # o => user_data'[k].amount = user_data[k].amount
<1> DEFINE e == escrow_state[h]
           o == OffererAccount(e)
           c == ClaimerAccount(e)
           credited == Credit(user_data[o], e.data.amount)
<1>1. /\ o \in DOMAIN user_data /\ UNCHANGED tokens
      /\ escrow_state' = Without(escrow_state, h)
      /\ claimer_passed => c \in DOMAIN user_data
      /\ user_data' = RefundUserData(e, auth_expiry, claimer_passed)
  BY DEF OffererRefund, MayRefund
<1>2. /\ o \in Owner /\ o[2] = e.mint /\ e.data.amount \in Nat /\ e.mint \in Mint
      /\ o = c <=> e.offerer = e.claimer
  BY EscrowFields DEF Solvent, Base, ClaimerAccount, OffererAccount
<1>3. /\ user_data' \in [DOMAIN user_data -> UserAccount]
      /\ claimer_passed => user_data'[c].amount = user_data[c].amount
      /\ ~ claimer_passed \/ o # c => user_data'[o] = credited
      /\ \A k \in DOMAIN user_data :
           k # o /\ (~ claimer_passed \/ k # c) => user_data'[k] = user_data[k]
  <2>1. claimer_passed => RefundedClaimer(e, auth_expiry).amount = user_data[c].amount
    BY <1>1, RefundedClaimerFields DEF Solvent
  <2>2. /\ user_data' \in [DOMAIN user_data -> UserAccount]
        /\ claimer_passed => user_data'[c] = RefundedClaimer(e, auth_expiry)
        /\ ~ claimer_passed \/ o # c => user_data'[o] = credited
        /\ \A k \in DOMAIN user_data :
             k # o /\ (~ claimer_passed \/ k # c) => user_data'[k] = user_data[k]
    BY <1>1, RefundUserDataFields DEF Solvent
  <2> HIDE DEF e, o, c, credited
  <2> QED
    BY <2>1, <2>2
<1>4. credited.amount = user_data[o].amount + e.data.amount
  <2>1. OwedToUsers(o[2]) + e.data.amount < U64
    BY <1>2, ShareFits
  <2>2. UserData(o) = user_data[o]
    BY <1>1 DEF UserData
  <2> HIDE DEF o, e
  <2> QED
    BY <1>2, <2>1, <2>2, CreditExact DEF Solvent
<1> HIDE DEF credited
<1>5. /\ DOMAIN user_data' = DOMAIN user_data
      /\ \A k \in DOMAIN user_data : k # o => user_data'[k].amount = user_data[k].amount
  <2> HIDE DEF o, c, e
  <2> QED
    BY <1>3
<1> HIDE DEF o, c, e
<1>6. ~ claimer_passed \/ o # c => user_data'[o].amount = user_data[o].amount + e.data.amount
  BY <1>3, <1>4
<1> QED
  BY <1>1, <1>2, <1>3, <1>5, <1>6 DEF o, c, e

\* A refund between two wallets keeps what the vault holds; when offerer and
\* claimer are one wallet, all of it may get lost.
LEMMA RefundKeeps ==
  ASSUME Solvent, Base', NEW h \in DOMAIN escrow_state,
         NEW auth_expiry \in {0} \cup Timestamp, NEW claimer_passed \in BOOLEAN,
         OffererRefund(h, auth_expiry, claimer_passed)
  PROVE  /\ Conserved'
         /\ \/ KeepsSlack
            \/ /\ escrow_state[h].offerer = escrow_state[h].claimer
               /\ GainsSlack(escrow_state[h].mint, escrow_state[h].data.amount)
<1> DEFINE e == escrow_state[h]
           o == OffererAccount(e)
           c == ClaimerAccount(e)
           Slack2(gain) == \A m \in Mint : Slack(m)' = Slack(m)
                             + IF e.mint = m THEN e.data.amount - gain ELSE 0
<1>1. /\ o \in DOMAIN user_data /\ UNCHANGED tokens
      /\ escrow_state' = Without(escrow_state, h)
      /\ DOMAIN user_data' = DOMAIN user_data
      /\ o = c <=> e.offerer = e.claimer
      /\ ~ claimer_passed \/ o # c => user_data'[o].amount = user_data[o].amount + e.data.amount
      /\ claimer_passed /\ o = c => user_data'[o].amount = user_data[o].amount
      /\ \A k \in DOMAIN user_data : k # o => user_data'[k].amount = user_data[k].amount
  BY RefundCredits
<1>2. o \in Owner /\ o[2] = e.mint /\ e.data.amount \in Nat /\ e.mint \in Mint
  BY EscrowFields DEF Solvent, Base, OffererAccount
<1>3. ASSUME NEW gain \in Int, user_data'[o].amount = user_data[o].amount + gain
      PROVE  Conserved' /\ Slack2(gain)
  <2> HIDE DEF o
  <2> QED
    BY <1>1, <1>2, <1>3, CreditKeeps
<1> HIDE DEF o, c, e
<1>4. ASSUME NEW m \in Mint PROVE Slack(m) \in Int
  BY OwedFields DEF Slack, Solvent
<1>5. CASE ~ claimer_passed \/ o # c
  <2>1. Conserved' /\ Slack2(e.data.amount)
    BY <1>1, <1>2, <1>3, <1>5
  <2>2. ASSUME NEW m \in Mint PROVE Slack(m)' = Slack(m)
    BY <1>2, <1>4, <2>1
  <2> QED
    BY <2>1, <2>2 DEF KeepsSlack
<1>6. CASE claimer_passed /\ o = c
  <2>1. user_data'[o].amount = user_data[o].amount + 0
    <3>1. user_data[o].amount \in Nat
      BY <1>1, <1>2, UserShare DEF Solvent, UserData
    <3> QED
      BY <1>1, <1>6, <3>1
  <2>2. Conserved' /\ Slack2(0)
    BY <1>3, <2>1
  <2>3. GainsSlack(e.mint, e.data.amount)
    BY <1>2, <1>4, <2>2 DEF GainsSlack
  <2>4. e.offerer = e.claimer
    BY <1>1, <1>6
  <2> QED
    BY <2>2, <2>3, <2>4 DEF e
<1> QED
  BY <1>5, <1>6

SlackTyped == \A m \in Mint : Slack(m) \in Int

LEMMA SlackFields == Base => SlackTyped
BY OwedFields DEF SlackTyped, Slack

LEMMA SlackTypedNext == Base' => SlackTyped'
BY SlackFields, PTL

\* What the vault holds beyond what it owes changes by the amount of a refund of
\* a swap of a wallet with itself, or of a payment into the vault, if at all.
Accounted(m) ==
  \/ Lost(m) = 0
  \/ Lost(m) \in Nat /\ (SelfRefund(m, Lost(m)) \/ IntoVault(m, Lost(m)))

LEMMA SlackStep ==
  ASSUME Solvent, Base', [SwapNext]_swapVars
  PROVE  Conserved' /\ \A m \in Mint : Accounted(m)
<1> DEFINE Goal == Conserved' /\ \A m \in Mint : Accounted(m)
<1>0. ASSUME NEW m \in Mint PROVE Slack(m) \in Int /\ Slack(m)' \in Int
  BY SlackFields, SlackTypedNext DEF SlackTyped, Solvent
<1>1. ASSUME KeepsSlack, Conserved' PROVE Goal
  BY <1>0, <1>1 DEF KeepsSlack, Accounted, Lost
<1>2. ASSUME UNCHANGED <<tokens, user_data, escrow_state>> PROVE Goal
  <2>1. KeepsSlack
    BY <1>2 DEF KeepsSlack, Slack, Owed, TokenHolding, EscrowsIn, tokens
  <2>2. Conserved'
    BY <1>2 DEF Solvent, Conserved, WalletTokens, tokens
  <2> QED
    BY <1>1, <2>1, <2>2
<1>3. ASSUME NEW mint \in Mint, NEW amount \in Nat, GainsSlack(mint, amount), Conserved',
             SelfRefund(mint, amount) \/ IntoVault(mint, amount)
      PROVE  Goal
  <2>1. ASSUME NEW m \in Mint PROVE Accounted(m)
    <3>1. CASE m = mint
      <4>1. Lost(m) = amount
        BY <1>0, <1>3, <3>1 DEF GainsSlack, Lost
      <4> QED
        BY <1>3, <3>1, <4>1 DEF Accounted
    <3>2. CASE m # mint
      BY <1>0, <1>3, <3>2 DEF GainsSlack, Lost, Accounted
    <3> QED
      BY <3>1, <3>2
  <2> QED
    BY <1>3, <2>1
<1>4. ASSUME NEW o \in Owner, NEW amount \in Amount,
             Deposit(o, amount) \/ \E receiver \in TokenOwner : Withdraw(o, amount, receiver)
      PROVE  Goal
  <2>1. CASE Deposit(o, amount)
    BY <1>1, <2>1, DepositKeeps
  <2>2. ASSUME NEW receiver \in Wallet, Withdraw(o, amount, receiver) PROVE Goal
    BY <1>1, <2>2, WithdrawKeeps DEF TokenOwner
  <2>3. CASE Withdraw(o, amount, VaultAuthority)
    <3>1. Conserved' /\ GainsSlack(o[2], amount)
      BY <2>3, WithdrawKeeps DEF TokenOwner
    <3>2. o[1] \in Wallet /\ o[2] \in Mint /\ o = <<o[1], o[2]>> /\ amount \in Nat
      BY DEF Owner
    <3>3. IntoVault(o[2], amount)
      BY <2>3, <3>2 DEF IntoVault
    <3> QED
      BY <1>3, <3>1, <3>2, <3>3
  <2> QED
    BY <1>4, <2>1, <2>2, <2>3 DEF TokenOwner
<1>5. ASSUME InitializeAny PROVE Goal
  BY <1>1, <1>5, AnyInitializeOpens, OpenKeeps
<1>6. ASSUME NEW h \in DOMAIN escrow_state, NEW auth_expiry \in {0} \cup Timestamp,
             NEW claimer_passed \in BOOLEAN,
             \/ OffererRefund(h, auth_expiry, claimer_passed)
             \/ OffererRefundPayIn(h, auth_expiry, claimer_passed)
      PROVE  Goal
  <2>1. CASE OffererRefundPayIn(h, auth_expiry, claimer_passed)
    BY <1>1, <2>1, RefundPayInKeeps
  <2>2. CASE OffererRefund(h, auth_expiry, claimer_passed)
    <3>1. CASE KeepsSlack
      BY <1>1, <2>2, <3>1, RefundKeeps
    <3>2. CASE ~ KeepsSlack
      <4> DEFINE mint == escrow_state[h].mint
                 amount == escrow_state[h].data.amount
      <4>1. escrow_state[h].offerer = escrow_state[h].claimer
            /\ GainsSlack(mint, amount) /\ Conserved'
        BY <2>2, <3>2, RefundKeeps
      <4>2. RefundOf(h)
        BY <1>6 DEF RefundOf
      <4>3. SelfRefund(mint, amount)
        BY <4>1, <4>2 DEF SelfRefund, EscrowsIn
      <4>4. mint \in Mint /\ amount \in Nat
        BY EscrowFields DEF Solvent, Base
      <4> HIDE DEF mint, amount
      <4> QED
        BY <1>3, <4>1, <4>3, <4>4
    <3> QED
      BY <3>1, <3>2
  <2> QED
    BY <1>6, <2>1, <2>2
<1>7. ASSUME NEW h \in DOMAIN escrow_state, NEW signer \in Wallet, NEW secret \in Witness,
             NEW account \in DataAccount \cup {None},
             \/ ClaimerClaim(signer, h, secret, account)
             \/ ClaimerClaimPayOut(signer, h, secret, account)
      PROVE  Goal
  <2>1. CASE ClaimerClaim(signer, h, secret, account)
    BY <1>1, <2>1, ClaimKeeps
  <2>2. CASE ClaimerClaimPayOut(signer, h, secret, account)
    <3> DEFINE mint == escrow_state[h].mint
               amount == escrow_state[h].data.amount
    <3>1. CASE escrow_state[h].claimer_ata \in Wallet
      BY <1>1, <2>2, <3>1, ClaimPayOutKeeps
    <3>2. CASE escrow_state[h].claimer_ata = VaultAuthority
      <4>1. Conserved' /\ GainsSlack(mint, amount)
        BY <2>2, <3>2, ClaimPayOutKeeps
      <4>2. IntoVault(mint, amount)
        BY <2>2, <3>2 DEF IntoVault, EscrowsIn
      <4>3. mint \in Mint /\ amount \in Nat
        BY EscrowFields DEF Solvent, Base
      <4> HIDE DEF mint, amount
      <4> QED
        BY <1>3, <4>1, <4>2, <4>3
    <3> QED
      BY <2>2, <3>1, <3>2, ClaimPayOutKeeps DEF TokenOwner
  <2> QED
    BY <1>7, <2>1, <2>2
<1>8. ASSUME \/ DataNext \/ Tick \/ BeginAny
             \/ \E h \in DOMAIN escrow_state, t \in Timestamp : SignRefund(h, t)
             \/ \E w \in Donor, h \in Hash : Donate(w, h)
             \/ UNCHANGED swapVars
      PROVE  Goal
  <2>1. UNCHANGED <<tokens, user_data, escrow_state>>
    BY <1>8 DEF DataNext, CreateData, InitData, WriteData, CloseData, Tick, BeginAny,
       BeginTransaction, SignRefund, Donate, swapVars, tokens
  <2> QED
    BY <1>2, <2>1
<1> HIDE DEF Goal
<1>9. ASSUME NEW h \in DOMAIN escrow_state, RefundOf(h) \/ ClaimOf(h) PROVE Goal
  BY <1>6, <1>7, <1>9 DEF RefundOf, ClaimOf
<1> QED
  BY <1>4, <1>5, <1>8, <1>9 DEF SwapNext, Goal

LEMMA InitSolvent == SwapInit => Solvent
<1> SUFFICES ASSUME SwapInit PROVE Solvent
  OBVIOUS
<1>1. Base
  BY InitBase
<1>2. ASSUME NEW m \in Mint
      PROVE  vault[m] + WalletTokens(m) = InitialTokens * Cardinality(Wallet)
  <2> DEFINE f == [w \in Wallet |-> ata[<<w, m>>]]
  <2>1. \A w \in Wallet : f[w] = InitialTokens
    BY DEF SwapInit, Owner
  <2>2. WalletTokens(m) = SumFunctionOnSet(f, Wallet)
    BY DEF WalletTokens
  <2> HIDE DEF f
  <2>3. WalletTokens(m) = InitialTokens * Cardinality(Wallet)
    BY <2>1, <2>2, SumConstant
  <2>4. vault[m] = 0 /\ WalletTokens(m) \in Nat
    BY <1>1, WalletFields DEF SwapInit, Base
  <2> QED
    BY <2>3, <2>4
<1>3. ASSUME NEW m \in Mint PROVE Owed(m) = 0 /\ vault[m] = 0
  <2>1. user_data = << >> /\ escrow_state = << >> /\ DOMAIN << >> = {}
    BY DEF SwapInit
  <2>2. TokenHolding(m) = {} /\ EscrowsIn(m) = {}
    BY <2>1 DEF TokenHolding, EscrowsIn
  <2> QED
    BY <2>2, SumEmpty DEF Owed, SwapInit
<1> QED
  BY <1>1, <1>2, <1>3 DEF Solvent, Conserved, VaultSolvent

LEMMA SolventStep == Solvent /\ [SwapNext]_swapVars => Solvent'
<1> SUFFICES ASSUME Solvent, [SwapNext]_swapVars PROVE Solvent'
  OBVIOUS
<1>1. Base'
  BY BaseStep DEF Solvent
<1>2. Conserved' /\ \A m \in Mint : Slack(m)' >= Slack(m)
  <2>1. \A m \in Mint : Slack(m) \in Int /\ Slack(m)' \in Int
    BY <1>1, SlackFields, SlackTypedNext DEF SlackTyped, Solvent
  <2> QED
    BY <1>1, <2>1, SlackStep DEF Accounted, Lost
<1>3. ASSUME NEW m \in Mint PROVE Owed(m)' <= vault'[m]
  <2>1. OwedToUsers(m)' \in Nat /\ OwedByEscrows(m)' \in Nat /\ vault'[m] \in Nat
    BY <1>1, OwedTypedNext DEF OwedTyped
  <2>2. Slack(m) >= 0
    BY OwedFields DEF Slack, Solvent, VaultSolvent
  <2>3. Slack(m) \in Int
    BY OwedFields DEF Slack, Solvent
  <2>4. vault'[m] - (OwedToUsers(m)' + OwedByEscrows(m)') >= 0
    <3>1. Slack(m)' >= Slack(m)
      BY <1>2
    <3>2. Slack(m)' = vault'[m] - (OwedToUsers(m)' + OwedByEscrows(m)')
      BY OwedSplit DEF Slack
    <3>3. Slack(m)' \in Int
      BY <2>1, <3>2
    <3> QED
      BY <2>2, <2>3, <3>1, <3>2, <3>3
  <2> QED
    BY <2>1, <2>4, OwedSplit
<1> QED
  BY <1>1, <1>2, <1>3 DEF Solvent, VaultSolvent

LEMMA SolventHolds == SwapSpec => []Solvent
<1> QED
  BY InitSolvent, SolventStep, PTL DEF SwapSpec

\* The vault covers all balances and all open escrows, in every order of
\* deposits, withdrawals, claims and refunds: lib.rs moves tokens and amounts
\* alike, and no addition wraps, because no token is ever created.
THEOREM VaultStaysSolvent == SwapSpec => []VaultSolvent
<1>1. Solvent => VaultSolvent
  BY DEF Solvent
<1> QED
  BY <1>1, SolventHolds, PTL

\* No token of a mint is created or destroyed: what the wallets and the vault
\* hold together is what the wallets held at first.
THEOREM TokensAreConserved == SwapSpec => []Conserved
<1>1. Solvent => Conserved
  BY DEF Solvent
<1> QED
  BY <1>1, SolventHolds, PTL

\* Nobody's tokens are lost in the vault but the whole amount of a swap of a
\* wallet with itself, in its refund, or of a withdrawal or a claim that is paid
\* to the vault; and never does it hold less beyond what it owes than before.
THEOREM LossesAccounted == SwapSpec => LossAccounted
<1>1. ASSUME Solvent, [SwapNext]_swapVars
      PROVE  [\A m \in Mint : Lost(m) = 0 \/ SelfRefund(m, Lost(m))
                              \/ IntoVault(m, Lost(m))]_swapVars
  <2>1. Base'
    BY <1>1, BaseStep DEF Solvent
  <2> QED
    BY <1>1, <2>1, SlackStep DEF Accounted
<1> QED
  BY <1>1, SolventHolds, PTL DEF SwapSpec, LossAccounted

\* When no wallet swaps with itself, only what somebody has paid to the vault
\* itself is lost in it: refunds credit what they take.
THEOREM NothingLostBetweenTwo ==
  ASSUME \A party \in Party : party[1] # party[2]
  PROVE  SwapSpec => LossOnlyIntoVault
<1>1. ASSUME Solvent, [SwapNext]_swapVars
      PROVE  [\A m \in Mint : Lost(m) = 0 \/ IntoVault(m, Lost(m))]_swapVars
  <2>1. Base'
    BY <1>1, BaseStep DEF Solvent
  <2>2. ASSUME NEW h \in DOMAIN escrow_state
        PROVE  escrow_state[h].offerer # escrow_state[h].claimer
    <3>1. <<escrow_state[h].offerer, escrow_state[h].claimer>> \in Party
      BY <1>1 DEF Solvent, Base, EscrowsTyped
    <3> QED
      BY <3>1
  <2>3. ASSUME NEW m \in Mint, NEW amount PROVE ~ SelfRefund(m, amount)
    BY <2>2 DEF SelfRefund, EscrowsIn
  <2> QED
    BY <1>1, <2>1, <2>3, SlackStep DEF Accounted
<1> QED
  BY <1>1, SolventHolds, PTL DEF SwapSpec, LossOnlyIntoVault

-----------------------------------------------------------------------------
(***************************************************************************)
(* Reputation.  A swap whose payout is internal is pending while its       *)
(* escrow is open, and is counted once when it is closed.                  *)
(***************************************************************************)

Key == Outcome \X SwapType
TotalCount(user) == SumFunctionOnSet([r \in Key |-> user.reputation[r].count], Key)

Pending(o) ==
  {h \in DOMAIN escrow_state :
     ClaimerAccount(escrow_state[h]) = o /\ ~ escrow_state[h].data.pay_out}

\* One more of one outcome.
Recorded(old, new, key) ==
  /\ new.reputation[key].count = SaturatingAdd(old.reputation[key].count, 1)
  /\ \A r \in Key : r # key => new.reputation[r] = old.reputation[r]

LEMMA KeysFinite == IsFiniteSet(Key)
<1>1. ASSUME NEW x, NEW y, NEW z, NEW u
      PROVE  IsFiniteSet({x, y, z}) /\ IsFiniteSet({x, y, z, u})
  <2>1. IsFiniteSet({x} \cup {y})
    BY FS_Singleton, FS_AddElement
  <2>2. IsFiniteSet(({x} \cup {y}) \cup {z})
    BY <2>1, FS_AddElement
  <2>3. IsFiniteSet((({x} \cup {y}) \cup {z}) \cup {u})
    BY <2>2, FS_AddElement
  <2>4. /\ ({x} \cup {y}) \cup {z} = {x, y, z}
        /\ (({x} \cup {y}) \cup {z}) \cup {u} = {x, y, z, u}
    OBVIOUS
  <2> QED
    BY <2>2, <2>3, <2>4
<1>2. IsFiniteSet(Outcome) /\ IsFiniteSet(SwapType)
  BY <1>1 DEF Outcome, SwapType
<1> QED
  BY <1>2, FS_Product DEF Key

LEMMA CountFields ==
  ASSUME NEW user \in UserAccount
  PROVE  /\ \A r \in Key : user.reputation[r].count \in Nat
         /\ \A r \in Key : user.reputation[r].count <= TotalCount(user)
         /\ TotalCount(user) \in Nat
<1> DEFINE f == [r \in Key |-> user.reputation[r].count]
<1>1. ASSUME NEW r \in Key PROVE f[r] \in Nat /\ f[r] = user.reputation[r].count
  <2>1. user.reputation[r] \in [volume : 0 .. U64 - 1, count : 0 .. U64 - 1]
    BY DEF UserAccount, Key
  <2> QED
    BY <2>1, U64Positive
<1>2. TotalCount(user) = SumFunctionOnSet(f, Key)
  BY DEF TotalCount
<1> HIDE DEF f
<1>3. TotalCount(user) \in Nat /\ \A r \in Key : f[r] <= TotalCount(user)
  BY <1>1, <1>2, KeysFinite, SumNat, SumTerm
<1> QED
  BY <1>1, <1>3

LEMMA CountKept ==
  ASSUME NEW old \in UserAccount, NEW new \in UserAccount, new.reputation = old.reputation
  PROVE  TotalCount(new) = TotalCount(old)
BY DEF TotalCount

LEMMA CountRecorded ==
  ASSUME NEW old \in UserAccount, NEW new \in UserAccount, NEW key \in Key,
         Recorded(old, new, key), TotalCount(old) + 1 < U64
  PROVE  TotalCount(new) = TotalCount(old) + 1
<1> DEFINE f == [r \in Key |-> old.reputation[r].count]
           g == [r \in Key |-> new.reputation[r].count]
<1>1. /\ TotalCount(old) = SumFunctionOnSet(f, Key) /\ TotalCount(old) \in Nat
      /\ TotalCount(new) = SumFunctionOnSet(g, Key)
      /\ \A r \in Key : f[r] \in Nat /\ g[r] \in Nat /\ f[r] <= TotalCount(old)
  BY CountFields DEF TotalCount
<1>2. g[key] = SaturatingAdd(f[key], 1) /\ \A r \in Key : r # key => g[r] = f[r]
  BY DEF Recorded
<1> HIDE DEF f, g
<1>3. SaturatingAdd(f[key], 1) = f[key] + 1
  <2>1. f[key] \in Nat /\ 1 \in Nat /\ f[key] + 1 < U64
    BY <1>1, U64Positive
  <2> QED
    BY <2>1, Additions
<1>4. SumFunctionOnSet(g, Key) = SumFunctionOnSet(f, Key) - f[key] + g[key]
  <2>1. /\ \A y \in Key : f[y] \in Int
        /\ \A y \in Key : g[y] \in Int
        /\ \A y \in Key \ {key} : g[y] = f[y]
    BY <1>1, <1>2
  <2> QED
    BY <2>1, KeysFinite, SumChange
<1> QED
  BY <1>1, <1>2, <1>3, <1>4

LEMMA CountedIs ==
  ASSUME UsersTyped, NEW o \in Owner
  PROVE  UserData(o) \in UserAccount /\ Counted(o) = TotalCount(UserData(o))
<1>1. UserData(o) \in UserAccount
  BY Fields DEF UsersTyped, UserData
<1>2. CASE o \in DOMAIN user_data
  BY <1>1, <1>2 DEF Counted, UserData, TotalCount, SumFunction, Key
<1>3. CASE o \notin DOMAIN user_data
  <2> DEFINE f == [r \in Key |-> NewUserData.reputation[r].count]
  <2>1. \A r \in Key : f[r] = 0
    BY Fields DEF Key
  <2>2. TotalCount(UserData(o)) = SumFunctionOnSet(f, Key)
    BY <1>3 DEF UserData, TotalCount
  <2> HIDE DEF f
  <2>3. SumFunctionOnSet(f, Key) = 0
    BY <2>1, KeysFinite, SumZero
  <2> QED
    BY <1>1, <1>3, <2>2, <2>3 DEF Counted
<1> QED
  BY <1>1, <1>2, <1>3

CountedRight == \A o \in Owner : UserData(o) \in UserAccount /\ Counted(o) = TotalCount(UserData(o))

LEMMA CountedRightNext == Base' => CountedRight'
<1>1. Base => CountedRight
  BY CountedIs DEF Base, CountedRight
<1> QED
  BY <1>1, PTL

\* Which user accounts' reputations a step changes: none, or the one of the
\* claimer of the escrow it closes.
ReputationsKept == \A o \in Owner : UserData(o)'.reputation = UserData(o).reputation

ReputationRecorded(c) ==
  /\ \E key \in Key : Recorded(UserData(c), UserData(c)', key)
  /\ \A o \in Owner \ {c} : UserData(o)'.reputation = UserData(o).reputation

LEMMA CountsKept ==
  ASSUME Base, Base', ReputationsKept, NEW o \in Owner
  PROVE  Counted(o)' = Counted(o)
BY CountedIs, CountedRightNext, CountKept DEF Base, CountedRight, ReputationsKept

LEMMA RecordOne ==
  ASSUME NEW old, NEW user \in UserAccount, user.reputation = old.reputation,
         NEW outcome \in Outcome, NEW d \in Swap
  PROVE  \E key \in Key : Recorded(old, Record(user, outcome, d), key)
<1>1. <<outcome, d.kind>> \in Key
  BY SwapFields DEF Key
<1>2. /\ Record(user, outcome, d).reputation[<<outcome, d.kind>>].count
           = SaturatingAdd(user.reputation[<<outcome, d.kind>>].count, 1)
      /\ \A r \in Key :
           r # <<outcome, d.kind>> =>
             Record(user, outcome, d).reputation[r] = user.reputation[r]
  BY RecordUser DEF Key
<1>3. Recorded(old, Record(user, outcome, d), <<outcome, d.kind>>)
  BY <1>2 DEF Recorded
<1> QED
  BY <1>1, <1>3

\* One account whose reputation is kept.
LEMMA KeepOne ==
  ASSUME UsersTyped, NEW k \in DOMAIN user_data, NEW v, v.reputation = user_data[k].reputation,
         user_data' = [user_data EXCEPT ![k] = v]
  PROVE  ReputationsKept
<1>1. user_data \in [DOMAIN user_data -> UserAccount]
  BY DEF UsersTyped
<1>2. /\ DOMAIN user_data' = DOMAIN user_data
      /\ user_data'[k].reputation = user_data[k].reputation
      /\ \A x \in DOMAIN user_data : x # k => user_data'[x] = user_data[x]
  BY <1>1
<1> QED
  BY <1>2 DEF ReputationsKept, UserData

\* One account to whose reputation an outcome is added.
LEMMA RecordedOne ==
  ASSUME NEW c \in DOMAIN user_data, DOMAIN user_data' = DOMAIN user_data,
         \E key \in Key : Recorded(user_data[c], user_data'[c], key),
         \A k \in DOMAIN user_data : k # c => user_data'[k].reputation = user_data[k].reputation
  PROVE  ReputationRecorded(c)
<1>1. UserData(c) = user_data[c] /\ UserData(c)' = user_data'[c]
  BY DEF UserData
<1>2. ASSUME NEW o \in Owner \ {c} PROVE UserData(o)'.reputation = UserData(o).reputation
  BY DEF UserData
<1> QED
  BY <1>1, <1>2 DEF ReputationRecorded

LEMMA DepositReputation ==
  ASSUME Base, NEW o \in Owner, NEW amount \in Amount, Deposit(o, amount)
  PROVE  ReputationsKept
<1> DEFINE new == Credit(UserData(o), amount)
<1>1. user_data' = With(user_data, o, new)
  BY DEF Deposit
<1>2. new.reputation = UserData(o).reputation
  BY UserShare, CreditUser
<1> HIDE DEF new
<1>3. /\ DOMAIN user_data' = DOMAIN user_data \cup {o} /\ user_data'[o] = new
      /\ \A x \in DOMAIN user_data : x # o => user_data'[x] = user_data[x]
  BY <1>1 DEF With
<1> QED
  BY <1>2, <1>3 DEF ReputationsKept, UserData

LEMMA WithdrawReputation ==
  ASSUME Base, NEW o \in Owner, NEW amount \in Amount, NEW receiver \in TokenOwner,
         Withdraw(o, amount, receiver)
  PROVE  ReputationsKept
<1>1. /\ o \in DOMAIN user_data /\ user_data[o].amount >= amount
      /\ user_data' = [user_data EXCEPT ![o] = Debit(user_data[o], amount)]
  BY DEF Withdraw
<1>2. user_data[o] \in UserAccount
  BY <1>1 DEF Base, UsersTyped
<1>3. Debit(user_data[o], amount).reputation = user_data[o].reputation
  BY <1>1, <1>2, DebitUser
<1> QED
  BY <1>1, <1>3, KeepOne DEF Base

LEMMA OpenReputation ==
  ASSUME Base, NEW e, OpensEscrow(e)
  PROVE  ReputationsKept
<1>1. CASE e.data.pay_in
  BY <1>1 DEF OpensEscrow, ReputationsKept, UserData
<1>2. CASE ~ e.data.pay_in
  <2> DEFINE o == OffererAccount(e)
  <2>1. /\ o \in DOMAIN user_data /\ user_data[o].amount >= e.data.amount
        /\ user_data' = [user_data EXCEPT ![o] = Debit(user_data[o], e.data.amount)]
        /\ e \in Escrow
    BY <1>2 DEF OpensEscrow
  <2> HIDE DEF o
  <2>2. e.data \in Swap
    BY <2>1 DEF Escrow
  <2>3. user_data[o] \in UserAccount /\ e.data.amount \in Nat
    BY <2>1, <2>2, SwapFields DEF Base, UsersTyped
  <2>4. Debit(user_data[o], e.data.amount).reputation = user_data[o].reputation
    BY <2>1, <2>3, DebitUser
  <2> QED
    BY <2>1, <2>4, KeepOne DEF Base
<1> QED
  BY <1>1, <1>2

\* What closing an escrow does to reputations.
ReputationOf(h) ==
  LET e == escrow_state[h]
  IN  IF e.data.pay_out THEN ReputationsKept
      ELSE \E c \in Owner : c = ClaimerAccount(e) /\ ReputationRecorded(c)

LEMMA ClaimReputation ==
  ASSUME Base, NEW h \in DOMAIN escrow_state, NEW signer, NEW secret, NEW account,
         \/ ClaimerClaim(signer, h, secret, account)
         \/ ClaimerClaimPayOut(signer, h, secret, account)
  PROVE  ReputationOf(h)
<1>0. PICK c \in Owner : c = ClaimerAccount(escrow_state[h])
  BY EscrowFields DEF Base
<1> DEFINE e == escrow_state[h]
           credited == Credit(user_data[c], e.data.amount)
           new == Record(credited, "success", e.data)
<1>1. CASE ClaimerClaimPayOut(signer, h, secret, account)
  BY <1>1 DEF ClaimerClaimPayOut, ReputationOf, ReputationsKept, UserData
<1>2. CASE ClaimerClaim(signer, h, secret, account)
  <2>1. /\ ~ e.data.pay_out /\ c \in DOMAIN user_data
        /\ user_data' = [user_data EXCEPT ![c] = new]
    BY <1>0, <1>2 DEF ClaimerClaim
  <2>2. e.data \in Swap /\ e.data.amount \in Nat /\ "success" \in Outcome
    BY EscrowFields DEF Base, Outcome
  <2>3. user_data \in [DOMAIN user_data -> UserAccount] /\ user_data[c] \in UserAccount
    BY <2>1 DEF Base, UsersTyped
  <2> HIDE DEF e
  <2>4. credited \in UserAccount /\ credited.reputation = user_data[c].reputation
    BY <2>2, <2>3, CreditUser
  <2> HIDE DEF credited
  <2>5. \E key \in Key : Recorded(user_data[c], new, key)
    BY <2>2, <2>4, RecordOne
  <2> HIDE DEF new
  <2>6. /\ DOMAIN user_data' = DOMAIN user_data /\ user_data'[c] = new
        /\ \A x \in DOMAIN user_data : x # c => user_data'[x] = user_data[x]
    BY <2>1, <2>3
  <2>7. ReputationRecorded(c)
    BY <2>1, <2>5, <2>6, RecordedOne
  <2> QED
    BY <1>0, <2>1, <2>7 DEF ReputationOf, e
<1> QED
  BY <1>1, <1>2

LEMMA RefundReputation ==
  ASSUME Base, NEW h \in DOMAIN escrow_state, NEW auth_expiry, NEW claimer_passed \in BOOLEAN,
         \/ OffererRefund(h, auth_expiry, claimer_passed)
         \/ OffererRefundPayIn(h, auth_expiry, claimer_passed)
  PROVE  ReputationOf(h)
<1>0. PICK c \in Owner : c = ClaimerAccount(escrow_state[h])
  BY EscrowFields DEF Base
<1> DEFINE e == escrow_state[h]
           o == OffererAccount(e)
           credited == Credit(user_data[o], e.data.amount)
           refunded == RefundedClaimer(e, auth_expiry)
<1>1. /\ e.data.pay_out \/ claimer_passed
      /\ claimer_passed => c \in DOMAIN user_data
  BY <1>0 DEF OffererRefund, OffererRefundPayIn, MayRefund
<1>2. /\ user_data \in [DOMAIN user_data -> UserAccount] /\ e.data \in Swap
      /\ e.data.amount \in Nat /\ e.data.pay_out \in BOOLEAN
  BY EscrowFields DEF Base, UsersTyped
<1>3. ASSUME claimer_passed
      PROVE  IF e.data.pay_out THEN refunded = user_data[c]
             ELSE \E key \in Key : Recorded(user_data[c], refunded, key)
  <2>1. /\ user_data[c] \in UserAccount /\ RefundOutcome(auth_expiry) \in Outcome
        /\ refunded = IF e.data.pay_out THEN user_data[c]
                      ELSE Record(user_data[c], RefundOutcome(auth_expiry), e.data)
    BY <1>0, <1>1, <1>3, RefundedClaimerFields
  <2> HIDE DEF e, refunded
  <2> QED
    BY <1>2, <2>1, RecordOne
<1>4. /\ DOMAIN user_data' = DOMAIN user_data
      /\ claimer_passed => user_data'[c] = refunded
      /\ \A k \in DOMAIN user_data :
           ~ claimer_passed \/ k # c => user_data'[k].reputation = user_data[k].reputation
  <2>1. CASE OffererRefundPayIn(h, auth_expiry, claimer_passed)
    <3>1. user_data' = IF claimer_passed THEN [user_data EXCEPT ![c] = refunded] ELSE user_data
      BY <1>0, <2>1 DEF OffererRefundPayIn
    <3> HIDE DEF e, refunded
    <3> QED
      BY <1>1, <1>2, <3>1
  <2>2. CASE OffererRefund(h, auth_expiry, claimer_passed)
    <3>1. o \in DOMAIN user_data /\ user_data' = RefundUserData(e, auth_expiry, claimer_passed)
      BY <2>2 DEF OffererRefund
    <3>2. /\ user_data' \in [DOMAIN user_data -> UserAccount]
          /\ claimer_passed => user_data'[c] = refunded
          /\ ~ claimer_passed \/ o # c => user_data'[o] = credited
          /\ \A k \in DOMAIN user_data :
               k # o /\ (~ claimer_passed \/ k # c) => user_data'[k] = user_data[k]
      BY <1>0, <1>1, <3>1, RefundUserDataFields
    <3>3. credited.reputation = user_data[o].reputation
      <4>1. user_data[o] \in UserAccount
        BY <1>2, <3>1
      <4> QED
        BY <1>2, <4>1, CreditUser
    <3> HIDE DEF e, o, credited, refunded
    <3> QED
      BY <3>1, <3>2, <3>3
  <2> QED
    BY <2>1, <2>2
<1> HIDE DEF e, o, refunded
<1>5. CASE e.data.pay_out
  <2>1. \A k \in DOMAIN user_data : user_data'[k].reputation = user_data[k].reputation
    BY <1>3, <1>4, <1>5
  <2>2. ReputationsKept
    BY <1>4, <2>1 DEF ReputationsKept, UserData
  <2> QED
    BY <1>5, <2>2 DEF ReputationOf, e
<1>6. CASE ~ e.data.pay_out
  <2>1. ReputationRecorded(c)
    BY <1>1, <1>3, <1>4, <1>6, RecordedOne
  <2> QED
    BY <1>0, <1>6, <2>1 DEF ReputationOf, e
<1> QED
  BY <1>5, <1>6

LEMMA ReputationChanges ==
  ASSUME Base, [SwapNext]_swapVars
  PROVE  \/ \E e : OpensEscrow(e) /\ ReputationsKept
         \/ \E h \in DOMAIN escrow_state : ClosesEscrow(h) /\ ReputationOf(h)
         \/ UNCHANGED <<escrow_state, opened>> /\ ReputationsKept
<1> DEFINE Opens == \E e : OpensEscrow(e) /\ ReputationsKept
           Closes == \E h \in DOMAIN escrow_state : ClosesEscrow(h) /\ ReputationOf(h)
           Neither == UNCHANGED <<escrow_state, opened>> /\ ReputationsKept
<1>1. ASSUME InitializeAny PROVE Opens
  BY <1>1, AnyInitializeOpens, OpenReputation
<1>2. ASSUME NEW h \in DOMAIN escrow_state, NEW auth_expiry \in {0} \cup Timestamp,
             NEW claimer_passed \in BOOLEAN,
             \/ OffererRefund(h, auth_expiry, claimer_passed)
             \/ OffererRefundPayIn(h, auth_expiry, claimer_passed)
      PROVE  Closes
  <2>1. ClosesEscrow(h)
    BY <1>2, RefundCloses
  <2>2. ReputationOf(h)
    BY <1>2, RefundReputation
  <2> QED
    BY <2>1, <2>2
<1>3. ASSUME NEW h \in DOMAIN escrow_state, NEW signer \in Wallet, NEW secret \in Witness,
             NEW account \in DataAccount \cup {None},
             \/ ClaimerClaim(signer, h, secret, account)
             \/ ClaimerClaimPayOut(signer, h, secret, account)
      PROVE  Closes
  <2>1. ClosesEscrow(h)
    BY <1>3, ClaimCloses
  <2>2. ReputationOf(h)
    BY <1>3, ClaimReputation
  <2> QED
    BY <2>1, <2>2
<1>4. ASSUME NEW o \in Owner, NEW amount \in Amount, Deposit(o, amount) PROVE Neither
  BY <1>4, DepositReputation DEF Deposit
<1>5. ASSUME NEW o \in Owner, NEW amount \in Amount, NEW receiver \in TokenOwner,
             Withdraw(o, amount, receiver)
      PROVE  Neither
  BY <1>5, WithdrawReputation DEF Withdraw
<1>6. ASSUME \/ DataNext \/ Tick \/ BeginAny
             \/ \E h \in DOMAIN escrow_state, t \in Timestamp : SignRefund(h, t)
             \/ \E w \in Donor, h \in Hash : Donate(w, h)
             \/ UNCHANGED swapVars
      PROVE  Neither
  <2>1. UNCHANGED <<user_data, escrow_state, opened>>
    BY <1>6 DEF DataNext, CreateData, InitData, WriteData, CloseData, Tick, BeginAny,
       BeginTransaction, SignRefund, Donate, swapVars
  <2> QED
    BY <2>1 DEF ReputationsKept, UserData
<1> HIDE DEF Opens, Closes, Neither
<1>7. ASSUME NEW h \in DOMAIN escrow_state, RefundOf(h) \/ ClaimOf(h) PROVE Closes
  BY <1>2, <1>3, <1>7 DEF RefundOf, ClaimOf
<1>8. Opens \/ Closes \/ Neither
  BY <1>1, <1>4, <1>5, <1>6, <1>7 DEF SwapNext
<1> QED
  BY <1>8 DEF Opens, Closes, Neither

LEMMA PendingFields ==
  ASSUME EscrowsTyped, NEW o
  PROVE  IsFiniteSet(Pending(o)) /\ Cardinality(Pending(o)) \in Nat
<1>1. Pending(o) \subseteq DOMAIN escrow_state
  BY DEF Pending
<1> QED
  BY <1>1, FS_Subset, FS_CardinalityType DEF EscrowsTyped

\* The swaps of an account whose payout is internal: those that are counted and
\* those that are pending.
CountsRight(o) == opened[o] = Counted(o) + Cardinality(Pending(o))

LEMMA CountsAre ==
  /\ ReputationCounts <=> \A o \in Owner : CountsRight(o)
  /\ ReputationCounts' <=> \A o \in Owner : CountsRight(o)'
BY DEF ReputationCounts, CountsRight, Pending

LEMMA CountsOpen ==
  ASSUME Base, Base', NEW e, OpensEscrow(e), ReputationsKept, NEW o \in Owner, CountsRight(o)
  PROVE  CountsRight(o)'
<1> DEFINE h == e.data.hash
           mine == ClaimerAccount(e) = o /\ ~ e.data.pay_out
<1>1. /\ e \in Escrow /\ h \notin DOMAIN escrow_state
      /\ escrow_state' = With(escrow_state, h, e)
      /\ CountOpened(e.claimer, e.mint, e.data)
  BY DEF OpensEscrow
<1>2. /\ DOMAIN escrow_state' = DOMAIN escrow_state \cup {h} /\ escrow_state'[h] = e
      /\ \A x \in DOMAIN escrow_state : escrow_state'[x] = escrow_state[x]
  BY <1>1 DEF With
<1>3. Pending(o)' = IF mine THEN Pending(o) \cup {h} ELSE Pending(o)
  BY <1>1, <1>2 DEF Pending, ClaimerAccount
<1>4. h \notin Pending(o)
  BY <1>1 DEF Pending
<1>5. opened'[o] = IF mine THEN opened[o] + 1 ELSE opened[o]
  <2>1. opened \in [Owner -> 0 .. MaxSwaps] /\ ClaimerAccount(e) = <<e.claimer, e.mint>>
    BY DEF Base, OpenedTyped, ClaimerAccount
  <2> QED
    BY <1>1, <2>1 DEF CountOpened
<1>6. Counted(o)' = Counted(o)
  BY CountsKept
<1>7. Counted(o) \in Nat
  BY CountedIs, CountFields DEF Base
<1> HIDE DEF h, mine
<1>8. Cardinality(Pending(o)') = IF mine THEN Cardinality(Pending(o)) + 1
                                 ELSE Cardinality(Pending(o))
  BY <1>3, <1>4, PendingFields, FS_AddElement DEF Base
<1>9. Cardinality(Pending(o)) \in Nat
  BY PendingFields DEF Base
<1> QED
  BY <1>5, <1>6, <1>7, <1>8, <1>9 DEF CountsRight

LEMMA CountsClose ==
  ASSUME Base, Base', NEW h \in DOMAIN escrow_state, ClosesEscrow(h), ReputationOf(h),
         NEW o \in Owner, CountsRight(o)
  PROVE  CountsRight(o)'
<1> DEFINE e == escrow_state[h]
           mine == ClaimerAccount(e) = o /\ ~ e.data.pay_out
<1>1. escrow_state' = Without(escrow_state, h) /\ UNCHANGED opened
  BY DEF ClosesEscrow
<1>2. /\ DOMAIN escrow_state' = DOMAIN escrow_state \ {h}
      /\ \A x \in DOMAIN escrow_state' : escrow_state'[x] = escrow_state[x]
  BY <1>1 DEF Without, Restrict
<1>3. Pending(o)' = Pending(o) \ {h} /\ (h \in Pending(o) <=> mine)
  BY <1>2 DEF Pending
<1>4. IsFiniteSet(Pending(o)) /\ Cardinality(Pending(o)) \in Nat
  BY PendingFields DEF Base
<1>5. /\ UserData(o) \in UserAccount /\ Counted(o) = TotalCount(UserData(o))
      /\ UserData(o)' \in UserAccount /\ Counted(o)' = TotalCount(UserData(o)')
      /\ Counted(o) \in Nat /\ opened[o] \in 0 .. MaxSwaps
  <2>1. CountedRight'
    BY CountedRightNext
  <2>2. UserData(o)' \in UserAccount /\ Counted(o)' = TotalCount(UserData(o))'
    BY <2>1 DEF CountedRight
  <2>3. TotalCount(UserData(o))' = TotalCount(UserData(o)')
    BY DEF TotalCount
  <2> QED
    BY <2>2, <2>3, CountedIs, CountFields DEF Base, OpenedTyped
<1>6. e.data.pay_out \in BOOLEAN
  BY EscrowFields DEF Base
<1>7. /\ e.data.pay_out => ReputationsKept
      /\ mine => ReputationRecorded(o)
      /\ ~ mine => UserData(o)'.reputation = UserData(o).reputation
  BY <1>6 DEF ReputationOf, ReputationsKept, ReputationRecorded
<1>8. CASE mine
  <2>1. Cardinality(Pending(o)') = Cardinality(Pending(o)) - 1 /\ Cardinality(Pending(o)) # 0
    <3>1. Cardinality(Pending(o) \ {h}) = Cardinality(Pending(o)) - 1
      BY <1>3, <1>4, <1>8, FS_RemoveElement
    <3>2. Pending(o) # {}
      BY <1>3, <1>8
    <3> QED
      BY <1>3, <1>4, <3>1, <3>2, FS_EmptySet
  <2>2. TotalCount(UserData(o)) + 1 < U64
    <3>1. TotalCount(UserData(o)) + 1 <= MaxSwaps
      BY <1>4, <1>5, <2>1 DEF CountsRight
    <3> QED
      BY <1>5, <3>1, U64Positive
  <2>3. PICK key \in Key : Recorded(UserData(o), UserData(o)', key)
    BY <1>7, <1>8 DEF ReputationRecorded
  <2>4. Counted(o)' = Counted(o) + 1
    BY <1>5, <2>2, <2>3, CountRecorded
  <2> QED
    BY <1>1, <1>4, <1>5, <2>1, <2>4 DEF CountsRight
<1>9. CASE ~ mine
  <2>1. Pending(o)' = Pending(o)
    BY <1>3, <1>9
  <2>2. UserData(o)'.reputation = UserData(o).reputation
    BY <1>7, <1>9
  <2>3. Counted(o)' = Counted(o)
    BY <1>5, <2>2, CountKept
  <2> QED
    BY <1>1, <2>1, <2>3 DEF CountsRight
<1> QED
  BY <1>8, <1>9

LEMMA CountsStep == Base /\ ReputationCounts /\ [SwapNext]_swapVars => ReputationCounts'
<1> SUFFICES ASSUME Base, ReputationCounts, [SwapNext]_swapVars, NEW o \in Owner PROVE CountsRight(o)'
  BY CountsAre
<1>1. Base'
  BY BaseStep
<1>2. CountsRight(o)
  BY CountsAre
<1>3. ASSUME NEW e, OpensEscrow(e) /\ ReputationsKept PROVE CountsRight(o)'
  BY <1>1, <1>2, <1>3, CountsOpen
<1>4. ASSUME NEW h \in DOMAIN escrow_state, ClosesEscrow(h) /\ ReputationOf(h)
      PROVE  CountsRight(o)'
  BY <1>1, <1>2, <1>4, CountsClose
<1>5. ASSUME UNCHANGED <<escrow_state, opened>> /\ ReputationsKept PROVE CountsRight(o)'
  <2>1. Counted(o)' = Counted(o)
    BY <1>1, <1>5, CountsKept
  <2>2. Pending(o)' = Pending(o)
    BY <1>5 DEF Pending
  <2> QED
    BY <1>2, <1>5, <2>1, <2>2 DEF CountsRight
<1> QED
  BY <1>3, <1>4, <1>5, ReputationChanges

\* Every swap that pays into a claimer's user account is counted there once,
\* under one outcome, when it is claimed or refunded: claim.rs and refund.rs.
THEOREM ReputationsCount == SwapSpec => []ReputationCounts
<1>1. SwapInit => ReputationCounts
  <2> SUFFICES ASSUME SwapInit, NEW o \in Owner PROVE CountsRight(o)
    BY CountsAre
  <2>1. user_data = << >> /\ escrow_state = << >> /\ DOMAIN << >> = {}
    BY DEF SwapInit
  <2>2. Pending(o) = {} /\ Counted(o) = 0 /\ opened[o] = 0
    BY <2>1 DEF Pending, Counted, SwapInit
  <2> QED
    BY <2>2, FS_EmptySet DEF CountsRight
<1> QED
  BY <1>1, CountsStep, BaseHolds, PTL DEF SwapSpec
=============================================================================
