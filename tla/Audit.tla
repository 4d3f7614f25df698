---------------------------------- MODULE Audit ----------------------------------
(***************************************************************************)
(* What an auditor with the tables and the list of top-ups can check: the  *)
(* rows of wallets, committed or shown to a client, against the history    *)
(* that led to them.                                                       *)
(***************************************************************************)
EXTENDS PaymentSystem, FiniteSets

\* The sum of the values of f, counted coin by coin: the laws of Cardinality are
\* then those of the sum.
Coins(f) == UNION {{x} \X (1..f[x]) : x \in DOMAIN f}
SumOf(f) == Cardinality(Coins(f))

Total(S) == SumOf([x \in S |-> x.amount])

Sent(T, w) == {t \in T : t.sender = w}
Received(T, w) == {t \in T : t.receiver = w}
ToppedUp(D, w) == {d \in D : d.wallet = w}

\* What the transactions T and the top-ups D make of the opening row of w.
BalanceAfter(w, T, D) ==
    Opening[w].balance
        + Total(Received(T, w)) + Total(ToppedUp(D, w)) - Total(Sent(T, w))
VersionAfter(w, T, D) ==
    Opening[w].version
        + Cardinality(Sent(T, w) \cup Received(T, w))
        + Cardinality(ToppedUp(D, w))

\* A committed balance is the opening one, plus what the transactions table and
\* the top-ups brought in, minus what the table says was sent: at every moment
\* the rows written by _execute_transfer and top_up agree with each other.
BalancesAreExplained ==
    \A w \in Wallet :
        wallets[w].balance = BalanceAfter(w, transactions, deposits)

\* The version of a row counts its committed changes, so a version read earlier
\* matches only when nothing has happened to the row since: what the
\* compare-and-set of update_balance takes for granted.
VersionCountsChanges ==
    \A w \in Wallet :
        wallets[w].version = VersionAfter(w, transactions, deposits)

\* What get_wallet may show for w: a cached row, or one a reader has read.
Shown(w) ==
    ({balance_cache[w]} \cup {view[r][w] : r \in Reads}) \ {Blank}

\* A balance shown may be old, yet it is never half of a change, nor one of a
\* change that was rolled back: committed changes explain it, as many as its
\* version says (get_wallet, set_balance).
ShownBalancesAreExplained ==
    \A w \in Wallet : \A row \in Shown(w) :
        \E T \in SUBSET transactions, D \in SUBSET deposits :
            /\ row.balance = BalanceAfter(w, T, D)
            /\ row.version = VersionAfter(w, T, D)

\* Payments only move money about: all the wallets together hold what they
\* opened with and what was topped up, whatever interleaves, fails or dies.
Held(rows) == SumOf([w \in Wallet |-> rows[w].balance])
MoneyIsConserved == Held(wallets) = Held(Opening) + Total(deposits)
===============================================================================
