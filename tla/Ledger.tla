--------------------------------- MODULE Ledger ---------------------------------
(***************************************************************************)
(* What the payment system promises about money, with no sessions, locks,  *)
(* versions, caches or failures: a transfer happens at once, at most once  *)
(* per idempotency key, and only with the funds there; a top-up happens at *)
(* once and once; a recorded transaction is never changed.                 *)
(***************************************************************************)
EXTENDS Integers

CONSTANTS
    Wallet,
    OpeningBalance,  \* OpeningBalance[w] when the ledger is opened
    Txn,             \* the transactions that may be recorded
    Deposit          \* the top-ups that may take effect

VARIABLES
    balance,
    transactions,    \* recorded transfers
    deposits         \* top-ups that took effect

vars == <<balance, transactions, deposits>>

Init ==
    /\ balance = OpeningBalance
    /\ transactions = {}
    /\ deposits = {}

Transfer(t) ==
    /\ \A u \in transactions : u.key # t.key
    /\ t.sender # t.receiver
    /\ balance[t.sender] >= t.amount
    /\ balance' = [balance EXCEPT ![t.sender] = @ - t.amount,
                                  ![t.receiver] = @ + t.amount]
    /\ transactions' = transactions \cup {t}
    /\ UNCHANGED deposits

TopUp(d) ==
    /\ \A e \in deposits : e.by # d.by
    /\ balance' = [balance EXCEPT ![d.wallet] = @ + d.amount]
    /\ deposits' = deposits \cup {d}
    /\ UNCHANGED transactions

Next ==
    \/ \E t \in Txn : Transfer(t)
    \/ \E d \in Deposit : TopUp(d)

Spec == Init /\ [][Next]_vars
===============================================================================
