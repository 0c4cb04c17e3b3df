----------------------------- MODULE AtomicSwap -----------------------------
(***************************************************************************)
(* What the swap program promises about tokens.  An account funds a deal,  *)
(* which is settled in one step and in full: to the payee, while there is  *)
(* proof of payment, or back to the payer, while a refund is due.  No      *)
(* token is created, lost or held back in between, and a deal is settled   *)
(* once.  Funds may be sent to a dead account, from which nothing returns. *)
(* How payments are proved and refunds fall due is left open: payable and  *)
(* refundable change at will.                                              *)
(***************************************************************************)
EXTENDS Integers, Functions

CONSTANTS
  Account,      \* of an owner and a mint
  Dead,         \* accounts that nobody pays from
  Id,           \* ids of deals
  Start         \* funds of each live account at the start

VARIABLES
  funds,        \* tokens each account can dispose of
  deal,         \* open deals, by id
  payable,      \* deals with a proof of payment
  refundable    \* deals whose refund is due

Pay(from, to, amount) ==
  [[funds EXCEPT ![from] = @ - amount] EXCEPT ![to] = @ + amount]

Init ==
  /\ funds = [a \in Account |-> IF a \in Dead THEN 0 ELSE Start]
  /\ deal = << >>

Transfer ==
  /\ UNCHANGED deal
  /\ \E from \in Account \ Dead, to \in Account :
       /\ from[2] = to[2]
       /\ \E amount \in 0 .. funds[from] : funds' = Pay(from, to, amount)

Lock(id) ==
  \E payer \in Account \ Dead, payee \in Account :
    /\ payer[2] = payee[2]
    /\ \E amount \in 0 .. funds[payer] :
         /\ deal' = [i \in DOMAIN deal \cup {id} |->
                       IF i = id THEN [payer |-> payer, payee |-> payee, amount |-> amount]
                       ELSE deal[i]]
         /\ funds' = [funds EXCEPT ![payer] = @ - amount]

Settle(id, account) ==
  /\ funds' = [funds EXCEPT ![account] = @ + deal[id].amount]
  /\ deal' = Restrict(deal, DOMAIN deal \ {id})

Next ==
  \/ Transfer
  \/ \E id \in Id \ DOMAIN deal : Lock(id)
  \/ \E id \in DOMAIN deal :
       \/ id \in payable /\ Settle(id, deal[id].payee)
       \/ id \in refundable /\ Settle(id, deal[id].payer)

Spec == Init /\ [][Next]_<<funds, deal>>
=============================================================================
