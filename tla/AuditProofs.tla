------------------------------- MODULE AuditProofs -------------------------------
(***************************************************************************)
(* The books balance, for any number of wallets and requests: what is in   *)
(* the rows of wallets, and what is shown of them, is what the history     *)
(* makes of the opening rows, and payments conserve the money.             *)
(***************************************************************************)
EXTENDS Audit, LedgerProofs, FiniteSetTheorems

(* Sums over finite sets.                                                  *)

\* A heap of a coins for x is a coins.
LEMMA HeapCount ==
    ASSUME NEW x, NEW a \in Nat
    PROVE  IsFiniteSet({x} \X (1..a)) /\ Cardinality({x} \X (1..a)) = a
<1>1. IsFiniteSet({x}) /\ Cardinality({x}) = 1
    BY FS_Singleton
<1>2. IsFiniteSet(1..a) /\ Cardinality(1..a) = a
    BY FS_Interval
<1>3. /\ IsFiniteSet({x} \X (1..a))
      /\ Cardinality({x} \X (1..a)) = Cardinality({x}) * Cardinality(1..a)
    BY <1>1, <1>2, FS_Product
<1>. QED
    BY <1>1, <1>2, <1>3

\* A sum of naturals over a finite set is a natural.
LEMMA SumType ==
    ASSUME NEW S, IsFiniteSet(S), NEW f \in [S -> Nat]
    PROVE  IsFiniteSet(Coins(f)) /\ SumOf(f) \in Nat
<1>. DEFINE heaps == [x \in S |-> {x} \X (1..f[x])]
            H == {heaps[x] : x \in S}
<1>1. IsFiniteSet(H)
  <2>1. heaps \in Surjection(S, H)
    BY DEF Surjection
  <2>. QED
    BY <2>1, FS_Surjection
<1>2. \A T \in H : IsFiniteSet(T)
  <2>1. ASSUME NEW x \in S
        PROVE  IsFiniteSet({x} \X (1..f[x]))
    <3>1. f[x] \in Nat
      OBVIOUS
    <3>. QED
      BY <3>1, HeapCount
  <2>. QED
    BY <2>1
<1>3. Coins(f) = UNION H
    BY DEF Coins
<1>. HIDE DEF H
<1>4. IsFiniteSet(Coins(f))
    BY <1>1, <1>2, <1>3, FS_UNION
<1>. QED
    BY <1>4, FS_CardinalityType DEF SumOf

\* A sum over the empty set is 0.
LEMMA SumEmpty == \A f : DOMAIN f = {} => SumOf(f) = 0
BY FS_EmptySet DEF SumOf, Coins

\* One summand more adds its value.
LEMMA SumAdd ==
    ASSUME NEW S, IsFiniteSet(S), NEW x, x \notin S,
           NEW f \in [S -> Nat], NEW g \in [S \cup {x} -> Nat],
           \A y \in S : g[y] = f[y]
    PROVE  SumOf(g) = SumOf(f) + g[x]
<1>. DEFINE heap == {x} \X (1..g[x])
<1>1. IsFiniteSet(Coins(f)) /\ SumOf(f) \in Nat
    BY SumType
<1>2. g[x] \in Nat
    OBVIOUS
<1>3. IsFiniteSet(heap) /\ Cardinality(heap) = g[x]
    BY <1>2, HeapCount
<1>4. Coins(g) = Coins(f) \cup heap /\ Coins(f) \cap heap = {}
    BY DEF Coins
<1>. HIDE DEF heap
<1>. QED
    BY <1>1, <1>2, <1>3, <1>4, FS_Union, FS_EmptySet DEF SumOf

\* Changing one summand changes the sum by as much.
LEMMA SumUpdate ==
    ASSUME NEW S, IsFiniteSet(S), NEW x \in S,
           NEW f \in [S -> Nat], NEW g \in [S -> Nat],
           \A y \in S : y # x => g[y] = f[y]
    PROVE  SumOf(g) = SumOf(f) + (g[x] - f[x])
<1>. DEFINE R == S \ {x}
            h == [y \in R |-> f[y]]
<1>1. IsFiniteSet(R) /\ x \notin R /\ R \cup {x} = S
    BY FS_RemoveElement
<1>2. h \in [R -> Nat] /\ \A y \in R : h[y] = f[y] /\ h[y] = g[y]
    OBVIOUS
<1>. HIDE DEF R, h
<1>3. SumOf(f) = SumOf(h) + f[x]
    BY <1>1, <1>2, SumAdd
<1>4. SumOf(g) = SumOf(h) + g[x]
    BY <1>1, <1>2, SumAdd
<1>5. SumOf(h) \in Nat /\ f[x] \in Nat /\ g[x] \in Nat
    BY <1>1, <1>2, SumType
<1>. QED
    BY <1>3, <1>4, <1>5

\* Total of a set of changes with natural amounts, and of one change more.
Amounts(S) == \A x \in S : x.amount \in Nat

LEMMA TotalType ==
    ASSUME NEW S, IsFiniteSet(S), Amounts(S)
    PROVE  Total(S) \in Nat
BY SumType DEF Amounts, Total

LEMMA TotalEmpty == Total({}) = 0
BY SumEmpty DEF Total

LEMMA TotalAdd ==
    ASSUME NEW S, IsFiniteSet(S), NEW x, x \notin S, Amounts(S \cup {x})
    PROVE  Total(S \cup {x}) = Total(S) + x.amount
<1>. DEFINE f == [y \in S |-> y.amount]
            g == [y \in S \cup {x} |-> y.amount]
<1>1. f \in [S -> Nat] /\ g \in [S \cup {x} -> Nat] /\ \A y \in S : g[y] = f[y]
    BY DEF Amounts
<1>2. g[x] = x.amount
    OBVIOUS
<1>. HIDE DEF f, g
<1>3. SumOf(g) = SumOf(f) + x.amount
    BY <1>1, <1>2, SumAdd
<1>. QED
    BY <1>3 DEF f, g, Total

-------------------------------------------------------------------------------
(* One committed change more.                                              *)

\* The tables hold finitely many rows, with amounts that are naturals.
Ledgerlike(T, D) ==
    /\ IsFiniteSet(T) /\ IsFiniteSet(D)
    /\ T \subseteq Txn /\ D \subseteq Deposit

\* The parts of a history that concern one wallet are finite too.
LEMMA PartsOfAHistory ==
    ASSUME NEW T, NEW D, Ledgerlike(T, D), NEW w \in Wallet
    PROVE  /\ IsFiniteSet(Sent(T, w)) /\ Amounts(Sent(T, w))
           /\ IsFiniteSet(Received(T, w)) /\ Amounts(Received(T, w))
           /\ IsFiniteSet(ToppedUp(D, w)) /\ Amounts(ToppedUp(D, w))
           /\ IsFiniteSet(Sent(T, w) \cup Received(T, w))
<1>1. /\ Sent(T, w) \subseteq T /\ Received(T, w) \subseteq T
      /\ Sent(T, w) \cup Received(T, w) \subseteq T
      /\ ToppedUp(D, w) \subseteq D
    BY DEF Sent, Received, ToppedUp
<1>2. /\ IsFiniteSet(Sent(T, w)) /\ IsFiniteSet(Received(T, w))
      /\ IsFiniteSet(Sent(T, w) \cup Received(T, w))
      /\ IsFiniteSet(ToppedUp(D, w))
    BY <1>1, FS_Subset DEF Ledgerlike
<1>. QED
    BY <1>1, <1>2 DEF Ledgerlike, Amounts, Txn, Deposit

\* Each part counts, and sums up, to a natural.
LEMMA PartsAreNaturals ==
    ASSUME NEW T, NEW D, Ledgerlike(T, D), NEW w \in Wallet
    PROVE  /\ Total(Sent(T, w)) \in Nat /\ Total(Received(T, w)) \in Nat
           /\ Total(ToppedUp(D, w)) \in Nat
           /\ Cardinality(Sent(T, w) \cup Received(T, w)) \in Nat
           /\ Cardinality(ToppedUp(D, w)) \in Nat
           /\ Opening[w].balance \in Nat /\ Opening[w].version \in Nat
<1>1. /\ Total(Sent(T, w)) \in Nat /\ Total(Received(T, w)) \in Nat
      /\ Total(ToppedUp(D, w)) \in Nat
    BY PartsOfAHistory, TotalType
<1>2. /\ Cardinality(Sent(T, w) \cup Received(T, w)) \in Nat
      /\ Cardinality(ToppedUp(D, w)) \in Nat
    BY PartsOfAHistory, FS_CardinalityType
<1>3. Opening[w].balance \in Nat /\ Opening[w].version \in Nat
    BY OpeningAssumption DEF Row
<1>. QED
    BY <1>1, <1>2, <1>3

\* What a history makes of a row is a balance and a version.
LEMMA AfterType ==
    ASSUME NEW T, NEW D, Ledgerlike(T, D), NEW w \in Wallet
    PROVE  BalanceAfter(w, T, D) \in Int /\ VersionAfter(w, T, D) \in Nat
BY PartsAreNaturals DEF BalanceAfter, VersionAfter

\* A transfer more takes its amount from the sender and gives it to the receiver.
LEMMA AfterTransfer ==
    ASSUME NEW T, NEW D, NEW x \in Txn, Ledgerlike(T, D), x \notin T,
           x.sender # x.receiver, NEW w \in Wallet
    PROVE  /\ BalanceAfter(w, T \cup {x}, D) =
                 BalanceAfter(w, T, D)
                     + IF w = x.receiver THEN x.amount
                       ELSE IF w = x.sender THEN -x.amount ELSE 0
           /\ VersionAfter(w, T \cup {x}, D) =
                 VersionAfter(w, T, D)
                     + IF w \in {x.sender, x.receiver} THEN 1 ELSE 0
<1>. DEFINE U == T \cup {x}
<1>0. x.amount \in Nat
    BY DEF Txn
<1>1. Ledgerlike(U, D)
    BY FS_AddElement DEF Ledgerlike
<1>2. /\ Total(Sent(T, w)) \in Nat /\ Total(Received(T, w)) \in Nat
      /\ Total(ToppedUp(D, w)) \in Nat
      /\ Cardinality(Sent(T, w) \cup Received(T, w)) \in Nat
      /\ Cardinality(ToppedUp(D, w)) \in Nat
      /\ Opening[w].balance \in Nat /\ Opening[w].version \in Nat
    BY PartsAreNaturals
<1>3. CASE w = x.receiver
  <2>1. Received(U, w) = Received(T, w) \cup {x} /\ x \notin Received(T, w)
    BY <1>3 DEF Received
  <2>2. Sent(U, w) = Sent(T, w)
    BY <1>3 DEF Sent
  <2>3. Total(Received(U, w)) = Total(Received(T, w)) + x.amount
    <3>1. IsFiniteSet(Received(T, w)) /\ Amounts(Received(T, w) \cup {x})
      BY <1>1, <2>1, PartsOfAHistory
    <3>. QED
      BY <2>1, <3>1, TotalAdd
  <2>4. Cardinality(Sent(U, w) \cup Received(U, w)) =
            Cardinality(Sent(T, w) \cup Received(T, w)) + 1
    <3>1. /\ Sent(U, w) \cup Received(U, w) = (Sent(T, w) \cup Received(T, w)) \cup {x}
          /\ x \notin Sent(T, w) \cup Received(T, w)
      BY <2>1, <2>2 DEF Sent
    <3>. QED
      BY <3>1, PartsOfAHistory, FS_AddElement
  <2>. QED
    BY <1>0, <1>2, <1>3, <2>2, <2>3, <2>4 DEF BalanceAfter, VersionAfter
<1>4. CASE w = x.sender
  <2>1. Sent(U, w) = Sent(T, w) \cup {x} /\ x \notin Sent(T, w)
    BY <1>4 DEF Sent
  <2>2. Received(U, w) = Received(T, w)
    BY <1>4 DEF Received
  <2>3. Total(Sent(U, w)) = Total(Sent(T, w)) + x.amount
    <3>1. IsFiniteSet(Sent(T, w)) /\ Amounts(Sent(T, w) \cup {x})
      BY <1>1, <2>1, PartsOfAHistory
    <3>. QED
      BY <2>1, <3>1, TotalAdd
  <2>4. Cardinality(Sent(U, w) \cup Received(U, w)) =
            Cardinality(Sent(T, w) \cup Received(T, w)) + 1
    <3>1. /\ Sent(U, w) \cup Received(U, w) = (Sent(T, w) \cup Received(T, w)) \cup {x}
          /\ x \notin Sent(T, w) \cup Received(T, w)
      BY <2>1, <2>2 DEF Received
    <3>. QED
      BY <3>1, PartsOfAHistory, FS_AddElement
  <2>. QED
    BY <1>0, <1>2, <1>4, <2>2, <2>3, <2>4 DEF BalanceAfter, VersionAfter
<1>5. CASE w \notin {x.sender, x.receiver}
  <2>1. Sent(U, w) = Sent(T, w) /\ Received(U, w) = Received(T, w)
    BY <1>5 DEF Sent, Received
  <2>2. /\ BalanceAfter(w, U, D) = BalanceAfter(w, T, D)
        /\ VersionAfter(w, U, D) = VersionAfter(w, T, D)
    BY <2>1, Zenon DEF BalanceAfter, VersionAfter
  <2>3. BalanceAfter(w, T, D) \in Int /\ VersionAfter(w, T, D) \in Nat
    BY AfterType
  <2>. QED
    BY <1>5, <2>2, <2>3
<1>. QED
    BY <1>3, <1>4, <1>5

\* A top-up more adds its amount to its wallet.
LEMMA AfterTopUp ==
    ASSUME NEW T, NEW D, NEW x \in Deposit, Ledgerlike(T, D), x \notin D,
           NEW w \in Wallet
    PROVE  /\ BalanceAfter(w, T, D \cup {x}) =
                 BalanceAfter(w, T, D) + IF w = x.wallet THEN x.amount ELSE 0
           /\ VersionAfter(w, T, D \cup {x}) =
                 VersionAfter(w, T, D) + IF w = x.wallet THEN 1 ELSE 0
<1>. DEFINE E == D \cup {x}
<1>0. x.amount \in Nat
    BY DEF Deposit
<1>1. Ledgerlike(T, E)
    BY FS_AddElement DEF Ledgerlike
<1>2. /\ Total(Sent(T, w)) \in Nat /\ Total(Received(T, w)) \in Nat
      /\ Total(ToppedUp(D, w)) \in Nat
      /\ Cardinality(Sent(T, w) \cup Received(T, w)) \in Nat
      /\ Cardinality(ToppedUp(D, w)) \in Nat
      /\ Opening[w].balance \in Nat /\ Opening[w].version \in Nat
    BY PartsAreNaturals
<1>3. CASE w = x.wallet
  <2>1. ToppedUp(E, w) = ToppedUp(D, w) \cup {x} /\ x \notin ToppedUp(D, w)
    BY <1>3 DEF ToppedUp
  <2>2. /\ Total(ToppedUp(E, w)) = Total(ToppedUp(D, w)) + x.amount
        /\ Cardinality(ToppedUp(E, w)) = Cardinality(ToppedUp(D, w)) + 1
    <3>1. IsFiniteSet(ToppedUp(D, w)) /\ Amounts(ToppedUp(D, w) \cup {x})
      BY <1>1, <2>1, PartsOfAHistory
    <3>. QED
      BY <2>1, <3>1, TotalAdd, FS_AddElement
  <2>. QED
    BY <1>0, <1>2, <1>3, <2>2 DEF BalanceAfter, VersionAfter
<1>4. CASE w # x.wallet
  <2>1. ToppedUp(E, w) = ToppedUp(D, w)
    BY <1>4 DEF ToppedUp
  <2>. QED
    BY <1>2, <1>4, <2>1 DEF BalanceAfter, VersionAfter
<1>. QED
    BY <1>3, <1>4

-------------------------------------------------------------------------------
(* The committed rows.                                                     *)

Balances(rows) == [w \in Wallet |-> rows[w].balance]

\* There are finitely many UUIDs, and so wallets.
LEMMA WalletsAreFinite == IsFiniteSet(Wallet)
<1>1. IsFiniteSet(0..MaxWalletId)
    BY WalletAssumption, FS_Interval
<1>. QED
    BY <1>1, FS_Subset, WalletAssumption

\* What a transfer takes out of one wallet it puts into another.
LEMMA TransferConserves ==
    ASSUME NEW f \in [Wallet -> Nat], NEW g \in [Wallet -> Nat], NEW a \in Nat,
           NEW s \in Wallet, NEW r \in Wallet, s # r,
           g[s] = f[s] - a, g[r] = f[r] + a,
           \A w \in Wallet : w \notin {s, r} => g[w] = f[w]
    PROVE  SumOf(g) = SumOf(f)
<1>. DEFINE h == [w \in Wallet |-> IF w = s THEN g[s] ELSE f[w]]
<1>1. IsFiniteSet(Wallet)
    BY WalletsAreFinite
<1>2. h \in [Wallet -> Nat] /\ h[s] = g[s] /\ h[r] = f[r]
    OBVIOUS
<1>3. \A w \in Wallet : w # s => h[w] = f[w]
    OBVIOUS
<1>4. \A w \in Wallet : w # r => g[w] = h[w]
    OBVIOUS
<1>. HIDE DEF h
<1>5. SumOf(h) = SumOf(f) + (h[s] - f[s])
    BY <1>1, <1>2, <1>3, SumUpdate
<1>6. SumOf(g) = SumOf(h) + (g[r] - h[r])
    BY <1>1, <1>2, <1>4, SumUpdate
<1>7. /\ SumOf(f) \in Nat /\ SumOf(g) \in Nat /\ SumOf(h) \in Nat
      /\ f[s] \in Nat /\ f[r] \in Nat
    BY <1>1, <1>2, SumType
<1>. QED
    BY <1>2, <1>5, <1>6, <1>7

\* A top-up adds its amount to what is held.
LEMMA TopUpAdds ==
    ASSUME NEW f \in [Wallet -> Nat], NEW g \in [Wallet -> Nat], NEW a \in Nat,
           NEW w \in Wallet, g[w] = f[w] + a,
           \A v \in Wallet : v # w => g[v] = f[v]
    PROVE  SumOf(g) = SumOf(f) + a
<1>1. IsFiniteSet(Wallet)
    BY WalletsAreFinite
<1>2. SumOf(g) = SumOf(f) + (g[w] - f[w])
    BY <1>1, SumUpdate
<1>3. SumOf(f) \in Nat /\ f[w] \in Nat
    BY <1>1, SumType
<1>. QED
    BY <1>2, <1>3

\* The version a commit gives to a row: one more for the rows that its holder
\* has written, the same for the others.
LEMMA CommittedVersions ==
    ASSUME StoreInv, NEW r \in Request, commit(r),
           pc[r] \in {"commit", "topup_commit"}, NEW w \in Wallet
    PROVE  wallets'[w].version =
              wallets[w].version + IF Debited(r, w) \/ Credited(r, w) THEN 1 ELSE 0
<1>0. /\ RowOK(w) /\ wallets[w].version \in Nat
      /\ Debited(r, w) \/ Credited(r, w) => rowLock[w] = r
    BY DEF StoreInv, RowsOK, TypeInv, TypeOK, StoreTypeOK, Row, LockInv,
           LocksAreHeld, Debited, Credited
<1>1. CASE rowLock[w] = r
    BY <1>0, <1>1, RequestAssumption DEF RowOK, commit
<1>2. CASE rowLock[w] # r
    BY <1>0, <1>2 DEF commit
<1>. QED
    BY <1>1, <1>2

BooksInv ==
    /\ IsFiniteSet(transactions) /\ IsFiniteSet(deposits)
    /\ BalancesAreExplained
    /\ VersionCountsChanges
    /\ MoneyIsConserved

\* The tables as the lemmas about histories take them.
LEMMA Tables ==
    ASSUME StoreTypeOK, BooksInv
    PROVE  /\ Ledgerlike(transactions, deposits)
           /\ Balances(wallets) \in [Wallet -> Nat]
           /\ Held(wallets) = SumOf(Balances(wallets))
           /\ Amounts(deposits)
           /\ \A w \in Wallet : wallets[w].version \in Nat
BY OpeningAssumption
   DEF StoreTypeOK, BooksInv, Ledgerlike, Balances, Held, Amounts, Deposit, Row

\* A payment that commits keeps the books.
LEMMA TransferKeepsBooks ==
    ASSUME StoreInv, StoreTypeOK', HistInv, BooksInv, NEW r \in Request,
           commit(r), pc[r] = "commit", req[r].kind = "send"
    PROVE  BooksInv'
<1>. DEFINE x == Record(r)
            bal == Balances(wallets)
            new == Balances(wallets')
<1>0. Record(r) \in AskedTxn /\ L!Transfer(Record(r))
    BY CommitsATransfer
<1>1. /\ transactions' = transactions \cup {x} /\ UNCHANGED deposits
      /\ x \notin transactions
      /\ x.sender # x.receiver /\ bal[x.sender] >= x.amount
      /\ new = [bal EXCEPT ![x.sender] = @ - x.amount,
                           ![x.receiver] = @ + x.amount]
    BY <1>0 DEF L!Transfer, Balances
<1>2. x \in Txn /\ x.sender = req[r].caller /\ x.receiver = req[r].to
    BY <1>1 DEF StoreTypeOK, Record
<1>3. /\ StoreTypeOK /\ Ledgerlike(transactions, deposits)
      /\ bal \in [Wallet -> Nat] /\ Held(wallets) = SumOf(bal)
    BY Tables DEF StoreInv, TypeInv, TypeOK
<1>4. new \in [Wallet -> Nat] /\ Held(wallets)' = SumOf(new)
    BY OpeningAssumption DEF StoreTypeOK, Row, Balances, Held
<1>5. x.sender \in Wallet /\ x.receiver \in Wallet /\ x.amount \in Nat
    BY <1>2 DEF Txn
<1>6. IsFiniteSet(transactions') /\ IsFiniteSet(deposits')
    BY <1>1, FS_AddElement DEF BooksInv
<1>7. ASSUME NEW w \in Wallet
      PROVE  /\ wallets'[w].balance = BalanceAfter(w, transactions', deposits')
             /\ wallets'[w].version = VersionAfter(w, transactions', deposits')
  <2>1. new[w] = bal[w] + IF w = x.receiver THEN x.amount
                          ELSE IF w = x.sender THEN -x.amount ELSE 0
    <3>. HIDE DEF x, bal, new
    <3>. QED
      BY <1>1, <1>3, <1>5
  <2>2. wallets'[w].version =
            wallets[w].version + IF w \in {x.sender, x.receiver} THEN 1 ELSE 0
    BY <1>2, CommittedVersions DEF Debited, Credited
  <2>3. /\ bal[w] = BalanceAfter(w, transactions, deposits)
        /\ wallets[w].version = VersionAfter(w, transactions, deposits)
    BY DEF BooksInv, BalancesAreExplained, VersionCountsChanges, Balances
  <2>4. new[w] = wallets'[w].balance
    BY DEF Balances
  <2>. HIDE DEF x, bal, new
  <2>5. /\ BalanceAfter(w, transactions \cup {x}, deposits) =
              BalanceAfter(w, transactions, deposits)
                  + IF w = x.receiver THEN x.amount
                    ELSE IF w = x.sender THEN -x.amount ELSE 0
        /\ VersionAfter(w, transactions \cup {x}, deposits) =
              VersionAfter(w, transactions, deposits)
                  + IF w \in {x.sender, x.receiver} THEN 1 ELSE 0
    <3>1. /\ x \in Txn /\ x \notin transactions /\ x.sender # x.receiver
          /\ Ledgerlike(transactions, deposits)
      BY <1>1, <1>2, <1>3
    <3>. QED
      BY <3>1, AfterTransfer
  <2>6. /\ transactions' = transactions \cup {x}
        /\ deposits' = deposits
    BY <1>1
  <2>. QED
    BY <2>1, <2>2, <2>3, <2>4, <2>5, <2>6
<1>8. MoneyIsConserved'
  <2>1. Held(Opening)' = Held(Opening) /\ Total(deposits)' = Total(deposits)
    BY <1>1 DEF Held, Total
  <2>2. SumOf(new) = SumOf(bal)
    <3>. HIDE DEF x, bal, new
    <3>1. /\ new[x.sender] = bal[x.sender] - x.amount
          /\ new[x.receiver] = bal[x.receiver] + x.amount
          /\ \A w \in Wallet : w \notin {x.sender, x.receiver} => new[w] = bal[w]
      BY <1>1, <1>3, <1>5
    <3>. QED
      BY <1>1, <1>3, <1>4, <1>5, <3>1, TransferConserves
  <2>. QED
    BY <1>3, <1>4, <2>1, <2>2 DEF BooksInv, MoneyIsConserved
<1>. QED
    BY <1>6, <1>7, <1>8 DEF BooksInv, BalancesAreExplained, VersionCountsChanges

\* A top-up that commits keeps the books.
LEMMA TopUpKeepsBooks ==
    ASSUME StoreInv, StoreTypeOK', HistInv, BooksInv, NEW r \in Request,
           commit(r), pc[r] = "topup_commit", req[r].kind = "topup"
    PROVE  BooksInv'
<1>. DEFINE x == DepositOf(r)
            bal == Balances(wallets)
            new == Balances(wallets')
<1>0. DepositOf(r) \in AskedDeposit /\ L!TopUp(DepositOf(r))
    BY CommitsATopUp
<1>1. /\ deposits' = deposits \cup {x} /\ UNCHANGED transactions
      /\ x \notin deposits
      /\ new = [bal EXCEPT ![x.wallet] = @ + x.amount]
    BY <1>0 DEF L!TopUp, Balances
<1>2. x \in Deposit /\ x.wallet = req[r].caller
    BY <1>1 DEF StoreTypeOK, DepositOf
<1>3. /\ StoreTypeOK /\ Ledgerlike(transactions, deposits) /\ Amounts(deposits)
      /\ bal \in [Wallet -> Nat] /\ Held(wallets) = SumOf(bal)
    BY Tables DEF StoreInv, TypeInv, TypeOK
<1>4. new \in [Wallet -> Nat] /\ Held(wallets)' = SumOf(new)
    BY OpeningAssumption DEF StoreTypeOK, Row, Balances, Held
<1>5. x.wallet \in Wallet /\ x.amount \in Nat
    BY <1>2 DEF Deposit
<1>6. IsFiniteSet(transactions') /\ IsFiniteSet(deposits')
    BY <1>1, FS_AddElement DEF BooksInv
<1>7. ASSUME NEW w \in Wallet
      PROVE  /\ wallets'[w].balance = BalanceAfter(w, transactions', deposits')
             /\ wallets'[w].version = VersionAfter(w, transactions', deposits')
  <2>1. new[w] = bal[w] + IF w = x.wallet THEN x.amount ELSE 0
    <3>. HIDE DEF x, bal, new
    <3>. QED
      BY <1>1, <1>3, <1>5
  <2>2. wallets'[w].version =
            wallets[w].version + IF w = x.wallet THEN 1 ELSE 0
    BY <1>2, CommittedVersions DEF Debited, Credited
  <2>3. /\ bal[w] = BalanceAfter(w, transactions, deposits)
        /\ wallets[w].version = VersionAfter(w, transactions, deposits)
    BY DEF BooksInv, BalancesAreExplained, VersionCountsChanges, Balances
  <2>4. new[w] = wallets'[w].balance
    BY DEF Balances
  <2>. HIDE DEF x, bal, new
  <2>5. /\ BalanceAfter(w, transactions, deposits \cup {x}) =
              BalanceAfter(w, transactions, deposits)
                  + IF w = x.wallet THEN x.amount ELSE 0
        /\ VersionAfter(w, transactions, deposits \cup {x}) =
              VersionAfter(w, transactions, deposits)
                  + IF w = x.wallet THEN 1 ELSE 0
    <3>1. /\ x \in Deposit /\ x \notin deposits
          /\ Ledgerlike(transactions, deposits)
      BY <1>1, <1>2, <1>3
    <3>. QED
      BY <3>1, AfterTopUp
  <2>6. /\ transactions' = transactions
        /\ deposits' = deposits \cup {x}
    BY <1>1
  <2>. QED
    BY <2>1, <2>2, <2>3, <2>4, <2>5, <2>6
<1>8. MoneyIsConserved'
  <2>1. Held(Opening)' = Held(Opening)
    BY DEF Held
  <2>2. SumOf(new) = SumOf(bal) + x.amount
    <3>. HIDE DEF x, bal, new
    <3>1. /\ new[x.wallet] = bal[x.wallet] + x.amount
          /\ \A w \in Wallet : w # x.wallet => new[w] = bal[w]
      BY <1>1, <1>3, <1>5
    <3>. QED
      BY <1>3, <1>4, <1>5, <3>1, TopUpAdds
  <2>3. Total(deposits') = Total(deposits) + x.amount /\ Total(deposits) \in Nat
    <3>1. IsFiniteSet(deposits) /\ Amounts(deposits \cup {x})
      BY <1>3, <1>5 DEF BooksInv, Amounts
    <3>. HIDE DEF x
    <3>. QED
      BY <1>1, <1>3, <3>1, TotalAdd, TotalType
  <2>4. Held(Opening) \in Nat
    <3>1. IsFiniteSet(Wallet)
      BY WalletsAreFinite
    <3>2. [w \in Wallet |-> Opening[w].balance] \in [Wallet -> Nat]
      BY OpeningAssumption DEF Row
    <3>. QED
      BY <3>1, <3>2, SumType DEF Held
  <2>. HIDE DEF x, bal, new
  <2>. QED
    BY <1>3, <1>4, <1>5, <2>1, <2>2, <2>3, <2>4 DEF BooksInv, MoneyIsConserved
<1>. QED
    BY <1>6, <1>7, <1>8 DEF BooksInv, BalancesAreExplained, VersionCountsChanges

\* The books balance at all times.
LEMMA BooksAlways == Spec => []BooksInv
<1>1. Init => BooksInv
  <2>. SUFFICES ASSUME Init
                PROVE  BooksInv
    OBVIOUS
  <2>1. transactions = {} /\ deposits = {} /\ wallets = Opening
    BY DEF Init, StoreInit
  <2>2. \A w \in Wallet : /\ Sent({}, w) = {} /\ Received({}, w) = {}
                          /\ ToppedUp({}, w) = {}
                          /\ Sent({}, w) \cup Received({}, w) = {}
    BY DEF Sent, Received, ToppedUp
  <2>3. \A w \in Wallet : Opening[w].version \in Nat /\ Opening[w].balance \in Nat
    BY OpeningAssumption DEF Row
  <2>4. ASSUME NEW w \in Wallet
        PROVE  /\ BalanceAfter(w, {}, {}) = Opening[w].balance
               /\ VersionAfter(w, {}, {}) = Opening[w].version
    <3>1. /\ Total(Sent({}, w)) = 0 /\ Total(Received({}, w)) = 0
          /\ Total(ToppedUp({}, w)) = 0
          /\ Cardinality(Sent({}, w) \cup Received({}, w)) = 0
          /\ Cardinality(ToppedUp({}, w)) = 0
      BY <2>2, TotalEmpty, FS_EmptySet
    <3>. QED
      BY <2>3, <3>1 DEF BalanceAfter, VersionAfter
  <2>5. MoneyIsConserved
    <3>1. IsFiniteSet(Wallet)
      BY WalletsAreFinite
    <3>2. [w \in Wallet |-> Opening[w].balance] \in [Wallet -> Nat]
      BY OpeningAssumption DEF Row
    <3>3. Held(Opening) \in Nat
      BY <3>1, <3>2, SumType DEF Held
    <3>. QED
      BY <2>1, <3>3, TotalEmpty DEF MoneyIsConserved
  <2>. QED
    BY <2>1, <2>4, <2>5, FS_EmptySet
       DEF BooksInv, BalancesAreExplained, VersionCountsChanges
<1>2. StoreInv /\ StoreInv' /\ HistInv /\ BooksInv /\ [Next]_vars => BooksInv'
  <2>. SUFFICES ASSUME StoreInv, StoreInv', HistInv, BooksInv, [Next]_vars
                PROVE  BooksInv'
    OBVIOUS
  <2>1. CASE \A r \in Request : ~CommitStep(r)
    BY <2>1, OthersStutter
       DEF BooksInv, BalancesAreExplained, VersionCountsChanges,
           MoneyIsConserved, Held, Total
  <2>2. ASSUME NEW r \in Request, CommitStep(r)
        PROVE  BooksInv'
    <3>1. TypeInv /\ StoreTypeOK'
      BY DEF StoreInv, TypeInv, TypeOK
    <3>. QED
      BY <2>2, <3>1, CommitCommits, TransferKeepsBooks, TopUpKeepsBooks
  <2>. QED
    BY <2>1, <2>2
<1>. QED
    BY <1>1, <1>2, StoreAlways, HistAlways, PTL DEF Spec, StoreRest

\* The rows of wallets, of transactions and the top-ups agree at every moment,
\* whatever interleaves, fails or dies: nothing but committed changes, and all
\* of them, makes a balance (_execute_transfer, top_up).
THEOREM BalancesExplained == Spec => []BalancesAreExplained
BY BooksAlways, PTL DEF BooksInv

\* The version of a row is the number of its committed changes: no change goes
\* uncounted, and a version a session holds is the committed one only if nothing
\* has happened to the row since (update_balance).
THEOREM VersionsCount == Spec => []VersionCountsChanges
BY BooksAlways, PTL DEF BooksInv

\* Payments neither make nor lose money: only top-ups change what all wallets
\* hold together, whatever interleaves, fails or dies.
THEOREM MoneyConserved == Spec => []MoneyIsConserved
BY BooksAlways, PTL DEF BooksInv

-------------------------------------------------------------------------------
(* The rows shown.                                                         *)

\* Some of the committed changes make the row of w.
Explained(row, w) ==
    \E T \in SUBSET transactions, D \in SUBSET deposits :
        /\ row.balance = BalanceAfter(w, T, D)
        /\ row.version = VersionAfter(w, T, D)

\* The history is never shortened.
LEMMA HistoryGrows ==
    ASSUME TypeInv, [Next]_vars
    PROVE  transactions \subseteq transactions' /\ deposits \subseteq deposits'
<1>1. ASSUME NEW r \in Request, Step(r) \/ Environment(r)
      PROVE  transactions \subseteq transactions' /\ deposits \subseteq deposits'
    BY <1>1, HistoryStep, CommitCommits DEF QuietStep, commit, rollback
<1>. QED
    BY <1>1 DEF Next, Expire, vars, storeVars

\* What explains a row keeps explaining it.
LEMMA ExplainedStays ==
    ASSUME TypeInv, [Next]_vars, NEW w \in Wallet, NEW row, Explained(row, w)
    PROVE  \E T \in SUBSET transactions', D \in SUBSET deposits' :
              /\ row.balance = BalanceAfter(w, T, D)
              /\ row.version = VersionAfter(w, T, D)
BY HistoryGrows DEF Explained

\* A reader of wallets keeps the row it has read, reads the committed one, or
\* closes its session.
LEMMA ReaderViews ==
    ASSUME TypeInv, [Next]_vars, NEW r \in Reads, NEW w \in Wallet
    PROVE  view'[r][w] \in {view[r][w], wallets[w], Blank}
<1>0. /\ r \in Request /\ req[r].kind = "read"
      /\ view \in [Request -> [Wallet -> Row]]
      /\ MayBeAt(r, pc[r], status[r])
      /\ req[r].caller = NoWallet \/ req[r].caller \in Wallet
    BY PayloadFields
       DEF Reads, TypeInv, TypeOK, StoreTypeOK, RequestTypeOK, ControlOK
<1>1. CASE UNCHANGED view
    BY <1>1
<1>2. CASE Step(r) \/ Environment(r)
  <2>1. pc[r] \notin SendLabel \cup TopUpLabel
    BY <1>0 DEF MayBeAt
  <2>2. \/ GetWallet(r) \/ LoadForRead(r) \/ ServeFromCache(r) \/ MissCache(r)
        \/ FillCache(r) \/ RollbackRead(r) \/ DbError(r) \/ Crash(r)
    BY <1>0, <1>2, <2>1
       DEF SendLabel, TopUpLabel, Step, SendStep, WalletStep, Environment,
           SendMoney, CheckKey, FindTxn, LoadSender, LoadReceiver, LockFirst,
           ExpiredAccess, LockSecond, InsufficientBalance, DebitSender,
           CreditReceiver, RecordTransaction, CommitTransfer,
           RefreshTransaction, StoreKey, InvalidateBalances, RollbackSend,
           LookupExisting, TopUp, LoadForTopUp, UpdateForTopUp, CommitTopUp,
           InvalidateForTopUp, RefreshForTopUp, RollbackTopUp,
           CommitUnacknowledged, CommitTopUpUnacknowledged
  <2>3. CASE GetWallet(r) \/ MissCache(r) \/ DbError(r)
    BY <2>3 DEF GetWallet, MissCache, DbError, storeVars
  <2>4. CASE LoadForRead(r)
    BY <1>0, <2>4 DEF LoadForRead, get_by_user_id, Fetch, storeVars
  <2>5. CASE ServeFromCache(r) \/ FillCache(r) \/ RollbackRead(r) \/ Crash(r)
    BY <1>0, <2>5
       DEF ServeFromCache, FillCache, RollbackRead, Crash, CloseSession, rollback
  <2>. QED
    BY <2>2, <2>3, <2>4, <2>5
<1>3. ASSUME NEW p \in Request, Step(p) \/ Environment(p), p # r
      PROVE  view'[r] = view[r]
    BY <1>0, <1>3, StepFrame DEF Touches
<1>. QED
    BY <1>0, <1>1, <1>2, <1>3 DEF Next, Expire, vars, storeVars

\* A balance shown by get_wallet, from the cache or from the database, however
\* old, is the work of whole committed changes, as many as its version counts.
THEOREM ShownExplained == Spec => []ShownBalancesAreExplained
<1>1. Init => ShownBalancesAreExplained
    BY DEF Init, StoreInit, CacheInit, Reads, ShownBalancesAreExplained, Shown
<1>2. /\ TypeInv /\ BooksInv /\ ShownBalancesAreExplained /\ [Next]_vars
      => ShownBalancesAreExplained'
  <2>. SUFFICES ASSUME TypeInv, BooksInv, ShownBalancesAreExplained, [Next]_vars,
                       NEW w \in Wallet, NEW row \in Shown(w)'
                PROVE  \E T \in SUBSET transactions', D \in SUBSET deposits' :
                          /\ row.balance = BalanceAfter(w, T, D)
                          /\ row.version = VersionAfter(w, T, D)
    BY DEF ShownBalancesAreExplained, Shown, BalanceAfter, VersionAfter
  <2>1. UNCHANGED req
    BY StepFrame DEF Next, Expire, vars, requestVars, Moves
  <2>2. \A old \in Shown(w) : Explained(old, w)
    BY DEF ShownBalancesAreExplained, Explained
  <2>3. Explained(wallets[w], w)
    BY DEF BooksInv, BalancesAreExplained, VersionCountsChanges, Explained
  <2>4. row \in Shown(w) \cup {wallets[w]}
    <3>1. CASE row = balance_cache'[w]
      <4>1. CASE balance_cache'[w] = balance_cache[w]
        BY <3>1, <4>1 DEF Shown
      <4>2. CASE balance_cache'[w] # balance_cache[w]
        <5>1. PICK r \in Request : FillCache(r) /\ row = view[r][w]
          BY <3>1, <4>2, CacheEntries DEF Shown, CacheHit
        <5>2. r \in Reads
          BY <5>1 DEF FillCache, TypeInv, ControlOK, MayBeAt, ReadLabel, Reads
        <5>. QED
          BY <5>1, <5>2 DEF Shown
      <4>. QED
        BY <4>1, <4>2
    <3>2. ASSUME NEW r \in Reads, row = view'[r][w]
          PROVE  row \in Shown(w) \cup {wallets[w]}
      BY <3>2, ReaderViews DEF Shown
    <3>. QED
      BY <2>1, <3>1, <3>2 DEF Shown, Reads
  <2>. QED
    BY <2>2, <2>3, <2>4, ExplainedStays
<1>. QED
  <2>1. Spec => []TypeInv
    BY TypeCorrect DEF TypeInv
  <2>. QED
    BY <1>1, <1>2, <2>1, BooksAlways, PTL DEF Spec
===============================================================================
