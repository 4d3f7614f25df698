------------------------------ MODULE HistoryProofs ------------------------------
(***************************************************************************)
(* What a client that reads its history page by page may rely on, for any  *)
(* number of rows, readers and payments in between, and any page size.     *)
(***************************************************************************)
EXTENDS History, LedgerProofs, FiniteSetTheorems

\* Readers have steps of their own beside those of the system, which is how they
\* are modelled: what is proved of Spec carries over to HistorySpec.
LEMMA HistoryRefines == HistorySpec => Spec
<1>1. [HistoryNext]_historyVars => [Next]_vars
    BY DEF HistoryNext, Next, Stamp, historyVars
<1>. QED
    BY <1>1, PTL DEF HistorySpec, HistoryInit, Spec

-------------------------------------------------------------------------------
(* The inductive invariant.                                                *)

ViewLabel == {"idle", "wallet", "count", "page", "lookup_wallet", "lookup", "end"}

ViewTypeOK ==
    /\ created_at \in [Request -> Nat]
    /\ vpc \in [Viewer -> ViewLabel]
    /\ page \in [Viewer -> Nat \ {0}]
    /\ total \in [Viewer -> Nat]
    /\ DOMAIN rows = Viewer /\ DOMAIN answer = Viewer
    /\ DOMAIN seen = Viewer /\ DOMAIN began = Viewer
    /\ IsFiniteSet(transactions)

\* One client: what it began with and was shown is still there, what it counted
\* too, a row it has yet to be shown lies behind its pages, and, as long as nothing is added,
\* a row it was shown lies within them.
ReaderOK(v) ==
    /\ began[v] \cup seen[v] \subseteq RowsOf(owner[v])
    /\ page[v] = 1 => seen[v] = {}
    /\ vpc[v] \in {"lookup_wallet", "lookup"} => page[v] = 1
    /\ vpc[v] = "page" => total[v] <= Cardinality(RowsOf(owner[v]))
    /\ Distinct(owner[v]) =>
          \A t \in began[v] \ seen[v] :
              /\ vpc[v] # "end" \/ page[v] = 1
              /\ Cardinality(Before(owner[v], t)) >= Offset(v)
    /\ Distinct(owner[v]) /\ RowsOf(owner[v]) = began[v] =>
          \A t \in seen[v] : Cardinality(Before(owner[v], t)) < Offset(v)

HInv == ViewTypeOK /\ \A v \in Viewer : ReaderOK(v)

-------------------------------------------------------------------------------
(* Pages cut out of a finite set of rows.                                  *)

\* The rows that come before one of a page, or before one behind it, when no
\* two have the same stamp.
LEMMA SliceOrders ==
    ASSUME created_at \in [Request -> Nat], \A t \in transactions : t.by \in Request,
           NEW w, IsFiniteSet(RowsOf(w)), Distinct(w),
           NEW offset \in Nat, NEW P \in SUBSET RowsOf(w),
           Slice(RowsOf(w), offset, P)
    PROVE  /\ IsFiniteSet(P) /\ Cardinality(P) \in Nat
           /\ \A t \in RowsOf(w) \ P : Cardinality(Before(w, t)) >= offset =>
                 /\ Cardinality(P) = page_size
                 /\ Cardinality(Before(w, t)) >= offset + page_size
           /\ \A t \in P :
                 /\ Cardinality(Before(w, t)) >= offset
                 /\ Cardinality(Before(w, t)) < offset + page_size
<1>. DEFINE R == RowsOf(w)
            B(t) == Before(w, t)
<1>1. PICK A \in SUBSET (R \ P) :
          /\ Cardinality(A) = AtMost(offset, Cardinality(R))
          /\ Cardinality(P) = AtMost(page_size, Cardinality(R) - Cardinality(A))
          /\ \A t \in R, u \in R :
                (u \in A /\ t \notin A) \/ (u \in P /\ t \notin A \cup P)
                   => ~Newer(t, u)
    BY DEF Slice
<1>2. /\ IsFiniteSet(A) /\ IsFiniteSet(P) /\ IsFiniteSet(A \cup P)
      /\ Cardinality(A) \in Nat /\ Cardinality(P) \in Nat /\ Cardinality(R) \in Nat
      /\ Cardinality(A \cup P) = Cardinality(A) + Cardinality(P)
      /\ Cardinality(A \cup P) \in Nat
  <2>1. IsFiniteSet(A) /\ IsFiniteSet(P)
    BY <1>1, FS_Subset
  <2>2. A \cap P = {} /\ Cardinality({}) = 0
    BY <1>1, FS_EmptySet
  <2>3. /\ IsFiniteSet(A \cup P)
        /\ Cardinality(A \cup P) = Cardinality(A) + Cardinality(P) - Cardinality({})
    BY <2>1, <2>2, FS_Union
  <2>4. /\ Cardinality(A) \in Nat /\ Cardinality(P) \in Nat
        /\ Cardinality(R) \in Nat /\ Cardinality(A \cup P) \in Nat
    BY <2>1, <2>3, FS_CardinalityType
  <2>. QED
    BY <2>1, <2>2, <2>3, <2>4
<1>3. \A t \in R : B(t) \subseteq R /\ IsFiniteSet(B(t)) /\ Cardinality(B(t)) \in Nat
    BY FS_Subset, FS_CardinalityType DEF Before
<1>4. \A t \in R, u \in R : t # u /\ ~Newer(t, u) => Newer(u, t)
    BY DEF Distinct, Newer, RowsOf
<1>5. \A t \in R : t \notin B(t)
    BY DEF Before, Newer, RowsOf
<1>6. ASSUME NEW t \in R, NEW S \in SUBSET R, B(t) \subseteq S, t \in S
      PROVE  Cardinality(B(t)) < Cardinality(S)
  <2>1. IsFiniteSet(S) /\ Cardinality(S) \in Nat
    BY FS_Subset, FS_CardinalityType
  <2>2. Cardinality(B(t)) <= Cardinality(S) /\ Cardinality(B(t)) # Cardinality(S)
    BY <1>5, <1>6, <2>1, FS_Subset
  <2>. QED
    BY <1>3, <2>1, <2>2
<1>7. \A t \in R, S \in SUBSET R : S \subseteq B(t) => Cardinality(S) <= Cardinality(B(t))
    BY <1>3, FS_Subset
<1>8. page_size \in Nat \ {0}
    BY HistoryAssumption
<1>9. ASSUME NEW t \in R \ P, Cardinality(B(t)) >= offset
      PROVE  /\ Cardinality(P) = page_size
             /\ Cardinality(B(t)) >= offset + page_size
  <2>1. t \notin A
    <3>1. ASSUME t \in A
          PROVE  B(t) \subseteq A
      BY <1>1, <3>1 DEF Before
    <3>. QED
      BY <1>1, <1>2, <1>3, <1>6, <1>9, <3>1 DEF AtMost
  <2>2. A \cup P \subseteq B(t)
    BY <1>1, <1>4, <1>9, <2>1 DEF Before
  <2>3. Cardinality(A \cup P) <= Cardinality(B(t)) /\ Cardinality(B(t)) < Cardinality(R)
    BY <1>1, <1>3, <1>6, <1>7, <2>2
  <2>. QED
    BY <1>1, <1>2, <1>3, <1>8, <2>3 DEF AtMost
<1>10. ASSUME NEW t \in P
       PROVE  /\ Cardinality(B(t)) >= offset
              /\ Cardinality(B(t)) < offset + page_size
  <2>1. B(t) \subseteq A \cup P
    BY <1>1 DEF Before
  <2>2. Cardinality(B(t)) < Cardinality(A \cup P)
    BY <1>1, <1>6, <2>1
  <2>3. A \subseteq B(t)
    BY <1>1, <1>4 DEF Before
  <2>4. Cardinality(A) <= Cardinality(B(t)) /\ Cardinality(B(t)) < Cardinality(R)
    BY <1>1, <1>3, <1>6, <1>7, <2>3
  <2>. QED
    BY <1>1, <1>2, <1>3, <1>8, <2>2, <2>4 DEF AtMost
<1>. QED
    BY <1>2, <1>9, <1>10

-------------------------------------------------------------------------------
(* Steps of the system under a reader.                                     *)

\* Rows are only added, a handful at a time, and keep their stamps.
LEMMA RowsStay ==
    ASSUME TypeInv, HistInv, created_at \in [Request -> Nat], IsFiniteSet(transactions),
           NEW r \in Request, Step(r) \/ Environment(r), Stamp(r)
    PROVE  /\ transactions \subseteq transactions' /\ IsFiniteSet(transactions')
           /\ created_at' \in [Request -> Nat]
           /\ \A t \in transactions : created_at'[t.by] = created_at[t.by]
<1>1. transactions \subseteq transactions'
    BY TransactionsGrow
<1>2. transactions' \ transactions \subseteq {Record(r)}
  <2>1. CASE CommitStep(r)
    BY <2>1, CommitCommits DEF commit, HistInv, PendingOK
  <2>2. CASE ~CommitStep(r)
    BY <2>2, HistoryStep DEF QuietStep, rollback
  <2>. QED
    BY <2>1, <2>2
<1>3. IsFiniteSet(transactions')
  <2>1. transactions' \subseteq transactions \cup {Record(r)}
    BY <1>2
  <2>2. IsFiniteSet(transactions \cup {Record(r)})
    BY FS_Singleton, FS_Union
  <2>. QED
    BY <2>1, <2>2, FS_Subset
<1>4. \A t \in transactions : t.by = r => pc[r] # "record"
    BY DEF HistInv, HistoryOK, Committed
<1>5. created_at' \in [Request -> Nat]
    BY HistoryAssumption DEF Stamp
<1>6. \A t \in transactions : created_at'[t.by] = created_at[t.by]
    BY <1>4 DEF Stamp, TypeInv, TypeOK, StoreTypeOK, Txn
<1>. QED
    BY <1>1, <1>3, <1>5, <1>6

\* More rows leave a row as far back as it was, or push it further.
LEMMA OnlyPushedBack ==
    ASSUME created_at \in [Request -> Nat],
           transactions \subseteq transactions', IsFiniteSet(transactions'),
           \A t \in transactions : created_at'[t.by] = created_at[t.by],
           NEW w
    PROVE  /\ RowsOf(w) \subseteq RowsOf(w)'
           /\ Cardinality(RowsOf(w)) <= Cardinality(RowsOf(w)')
           /\ Cardinality(RowsOf(w)) \in Nat /\ Cardinality(RowsOf(w)') \in Nat
           /\ Distinct(w)' => Distinct(w)
           /\ \A t \in RowsOf(w) :
                 /\ Cardinality(Before(w, t)) <= Cardinality(Before(w, t)')
                 /\ Cardinality(Before(w, t)) \in Nat
                 /\ Cardinality(Before(w, t)') \in Nat
           /\ RowsOf(w)' = RowsOf(w) =>
                 \A t \in RowsOf(w) : Before(w, t)' = Before(w, t)
<1>1. RowsOf(w) \subseteq RowsOf(w)'
    BY DEF RowsOf
<1>2. IsFiniteSet(RowsOf(w)')
    BY FS_Subset DEF RowsOf
<1>3. Distinct(w)' => Distinct(w)
    BY <1>1 DEF Distinct, RowsOf
<1>4. ASSUME NEW t \in RowsOf(w)
      PROVE  /\ Before(w, t) \subseteq Before(w, t)'
             /\ IsFiniteSet(Before(w, t)')
             /\ RowsOf(w)' = RowsOf(w) => Before(w, t)' = Before(w, t)
  <2>1. \A u \in RowsOf(w) : Newer(u, t)' = Newer(u, t)
    BY <1>4 DEF Newer, RowsOf
  <2>2. Before(w, t) \subseteq Before(w, t)'
    BY <1>1, <2>1 DEF Before
  <2>3. IsFiniteSet(Before(w, t)')
    BY <1>2, FS_Subset DEF Before
  <2>4. RowsOf(w)' = RowsOf(w) => Before(w, t)' = Before(w, t)
    BY <2>1 DEF Before
  <2>. QED
    BY <2>2, <2>3, <2>4
<1>5. /\ Cardinality(RowsOf(w)) <= Cardinality(RowsOf(w)')
      /\ Cardinality(RowsOf(w)) \in Nat /\ Cardinality(RowsOf(w)') \in Nat
    BY <1>1, <1>2, FS_Subset, FS_CardinalityType
<1>6. ASSUME NEW t \in RowsOf(w)
      PROVE  /\ Cardinality(Before(w, t)) <= Cardinality(Before(w, t)')
             /\ Cardinality(Before(w, t)) \in Nat
             /\ Cardinality(Before(w, t)') \in Nat
    BY <1>4, FS_Subset, FS_CardinalityType
<1>. QED
    BY <1>1, <1>3, <1>4, <1>5, <1>6

\* So a step of the system disturbs no client.
LEMMA SystemStep ==
    ASSUME TypeInv, HistInv, HInv,
           NEW r \in Request, Step(r) \/ Environment(r), Stamp(r),
           UNCHANGED viewVars
    PROVE  HInv'
<1>1. /\ created_at \in [Request -> Nat]
      /\ transactions \subseteq transactions' /\ IsFiniteSet(transactions')
      /\ created_at' \in [Request -> Nat]
      /\ \A t \in transactions : created_at'[t.by] = created_at[t.by]
    BY RowsStay DEF HInv, ViewTypeOK
<1>2. ViewTypeOK'
    BY <1>1 DEF HInv, ViewTypeOK, viewVars
<1>3. ASSUME NEW v \in Viewer
      PROVE  ReaderOK(v)'
  <2>0. /\ owner'[v] = owner[v] /\ vpc'[v] = vpc[v] /\ page'[v] = page[v]
        /\ total'[v] = total[v] /\ seen'[v] = seen[v] /\ began'[v] = began[v]
        /\ Offset(v)' = Offset(v)
        /\ Offset(v) \in Nat /\ total[v] \in Nat
        /\ ReaderOK(v)
    BY HistoryAssumption DEF viewVars, HInv, ViewTypeOK, Offset
  <2>1. ASSUME NEW w, w = owner[v]
        PROVE  ReaderOK(v)'
    <3>. DEFINE Back(t) == Cardinality(Before(w, t))
    <3>1. /\ RowsOf(w) \subseteq RowsOf(w)'
          /\ Cardinality(RowsOf(w)) <= Cardinality(RowsOf(w)')
          /\ Cardinality(RowsOf(w)) \in Nat /\ Cardinality(RowsOf(w)') \in Nat
          /\ Distinct(w)' => Distinct(w)
          /\ \A t \in RowsOf(w) :
                Back(t) <= Back(t)' /\ Back(t) \in Nat /\ Back(t)' \in Nat
          /\ RowsOf(w)' = RowsOf(w) =>
                \A t \in RowsOf(w) : Before(w, t)' = Before(w, t)
      BY <1>1, OnlyPushedBack
    <3>2. /\ began[v] \cup seen[v] \subseteq RowsOf(w)
          /\ page[v] = 1 => seen[v] = {}
          /\ vpc[v] \in {"lookup_wallet", "lookup"} => page[v] = 1
          /\ vpc[v] = "page" => total[v] <= Cardinality(RowsOf(w))
          /\ Distinct(w) =>
                \A t \in began[v] \ seen[v] :
                    (vpc[v] # "end" \/ page[v] = 1) /\ Back(t) >= Offset(v)
          /\ Distinct(w) /\ RowsOf(w) = began[v] =>
                \A t \in seen[v] : Back(t) < Offset(v)
      BY <2>0, <2>1 DEF ReaderOK
    <3>3. Distinct(w)' => \A t \in began[v] \ seen[v] :
              (vpc[v] # "end" \/ page[v] = 1) /\ Back(t)' >= Offset(v)
      BY <2>0, <3>1, <3>2
    <3>4. Distinct(w)' /\ RowsOf(w)' = began[v] =>
              \A t \in seen[v] : Back(t)' < Offset(v)
      BY <2>0, <3>1, <3>2
    <3>5. vpc[v] = "page" => total[v] <= Cardinality(RowsOf(w)')
      BY <2>0, <3>1, <3>2
    <3>6. /\ RowsOf(owner[v])' = RowsOf(w)'
          /\ Distinct(owner[v])' = Distinct(w)'
          /\ \A t : Before(owner[v], t)' = Before(w, t)'
      BY <2>0, <2>1 DEF RowsOf, Distinct, Before
    <3>. QED
      BY <2>0, <3>1, <3>2, <3>3, <3>4, <3>5, <3>6 DEF ReaderOK
  <2>. QED
    BY <2>1
<1>. QED
    BY <1>2, <1>3 DEF HInv

-------------------------------------------------------------------------------
(* Steps of a reader.                                                      *)

\* The next page, and what it cannot miss or repeat.
LEMMA PageStep ==
    ASSUME TypeInv, HInv, NEW v \in Viewer, FetchPage(v), UNCHANGED <<vars, created_at>>
    PROVE  /\ ReaderOK(v)'
           /\ Distinct(owner[v]) /\ RowsOf(owner[v]) = began[v] =>
                 rows'[v] \cap seen[v] = {}
           /\ \/ Cardinality(rows'[v]) = page_size
              \/ Cardinality(rows'[v]) >= total[v] - Offset(v)
<1>. DEFINE R == RowsOf(owner[v])
            offset == Offset(v)
            Back(t) == Cardinality(Before(owner[v], t))
<1>1. PICK P \in SUBSET R :
          /\ Slice(R, offset, P)
          /\ rows'[v] = P
          /\ vpc'[v] = IF Cardinality(P) < page_size THEN "end" ELSE "idle"
          /\ seen'[v] = seen[v] \cup P
    BY DEF FetchPage, HInv, ViewTypeOK
<1>2. /\ page'[v] = page[v] + 1 /\ page[v] \in Nat \ {0}
      /\ began'[v] = began[v] /\ owner'[v] = owner[v] /\ vpc[v] = "page"
      /\ total[v] \in Nat /\ ReaderOK(v)
      /\ created_at \in [Request -> Nat]
      /\ IsFiniteSet(R)
      /\ \A t \in transactions : t.by \in Request
    BY FS_Subset
       DEF FetchPage, HInv, ViewTypeOK, RowsOf, TypeInv, TypeOK, StoreTypeOK, Txn
<1>3. /\ page_size \in Nat \ {0} /\ offset \in Nat
      /\ Offset(v)' = offset + page_size
    BY <1>2, HistoryAssumption DEF Offset
<1>4. /\ RowsOf(owner[v])' = R
      /\ Distinct(owner[v])' = Distinct(owner[v])
      /\ \A t : Before(owner[v], t)' = Before(owner[v], t)
    BY <1>2 DEF RowsOf, Distinct, Before, Newer, vars, storeVars
<1>5. Distinct(owner[v]) =>
          /\ Cardinality(P) \in Nat
          /\ \A t \in R \ P : Back(t) >= offset =>
                Cardinality(P) = page_size /\ Back(t) >= offset + page_size
          /\ \A t \in P : Back(t) >= offset /\ Back(t) < offset + page_size
    BY <1>1, <1>2, <1>3, SliceOrders
<1>6. \A t \in R : Back(t) \in Nat
    BY <1>2, FS_Subset, FS_CardinalityType DEF Before
<1>7. ReaderOK(v)'
  <2>1. (began[v] \cup seen'[v]) \subseteq R
    BY <1>1, <1>2 DEF ReaderOK
  <2>2. page'[v] # 1 /\ vpc'[v] \in {"idle", "end"}
    BY <1>1, <1>2
  <2>3. Distinct(owner[v]) =>
            \A t \in began[v] \ seen'[v] :
                vpc'[v] # "end" /\ Back(t) >= offset + page_size
    BY <1>1, <1>2, <1>3, <1>5 DEF ReaderOK
  <2>4. Distinct(owner[v]) /\ R = began[v] =>
            \A t \in seen'[v] : Back(t) < offset + page_size
    BY <1>1, <1>2, <1>3, <1>5, <1>6 DEF ReaderOK
  <2>. QED
    BY <1>2, <1>3, <1>4, <2>1, <2>2, <2>3, <2>4 DEF ReaderOK
<1>8. Distinct(owner[v]) /\ R = began[v] => rows'[v] \cap seen[v] = {}
    BY <1>1, <1>2, <1>3, <1>5, <1>6 DEF ReaderOK
<1>9. \/ Cardinality(rows'[v]) = page_size
      \/ Cardinality(rows'[v]) >= total[v] - offset
  <2>1. total[v] <= Cardinality(R)
    BY <1>2 DEF ReaderOK
  <2>2. PICK A \in SUBSET (R \ P) :
            /\ Cardinality(A) = AtMost(offset, Cardinality(R))
            /\ Cardinality(P) = AtMost(page_size, Cardinality(R) - Cardinality(A))
    BY <1>1 DEF Slice
  <2>3. Cardinality(R) \in Nat
    BY <1>2, FS_CardinalityType
  <2>. QED
    BY <1>1, <1>2, <1>3, <2>1, <2>2, <2>3 DEF AtMost
<1>. QED
    BY <1>7, <1>8, <1>9

\* A client that moves disturbs no other.
LEMMA OtherReaders ==
    ASSUME HInv, NEW v \in Viewer, View(v), UNCHANGED <<vars, created_at>>,
           NEW u \in Viewer, u # v
    PROVE  ReaderOK(u)'
<1>1. /\ vpc'[u] = vpc[u] /\ page'[u] = page[u] /\ total'[u] = total[u]
      /\ seen'[u] = seen[u] /\ began'[u] = began[u] /\ owner'[u] = owner[u]
    BY DEF View, AskPage, FindWallet, CountRows, FetchPage, AskTransaction,
           FindWalletForLookup, LookUp, ViewError, Conclude, HInv, ViewTypeOK
<1>2. /\ RowsOf(owner[u])' = RowsOf(owner[u])
      /\ Distinct(owner[u])' = Distinct(owner[u])
      /\ \A t : Before(owner[u], t)' = Before(owner[u], t)
      /\ Offset(u)' = Offset(u)
    BY <1>1 DEF RowsOf, Distinct, Before, Newer, Offset, vars, storeVars
<1>. QED
    BY <1>1, <1>2 DEF HInv, ReaderOK

\* Whatever a client does, it keeps its place.
LEMMA ReaderStep ==
    ASSUME TypeInv, HInv, NEW v \in Viewer, View(v), UNCHANGED <<vars, created_at>>
    PROVE  HInv'
<1>1. /\ owner' = owner /\ transactions' = transactions
      /\ page[v] \in Nat \ {0} /\ total[v] \in Nat
      /\ IsFiniteSet(RowsOf(owner[v])) /\ Cardinality(RowsOf(owner[v])) \in Nat
      /\ ReaderOK(v)
    BY FS_Subset, FS_CardinalityType
       DEF View, AskPage, FindWallet, CountRows, FetchPage, AskTransaction,
           FindWalletForLookup, LookUp, ViewError, RowsOf, vars, storeVars,
           HInv, ViewTypeOK
<1>2. ViewTypeOK'
  <2>1. /\ created_at' \in [Request -> Nat] /\ IsFiniteSet(transactions')
        /\ DOMAIN rows' = Viewer /\ DOMAIN answer' = Viewer
        /\ DOMAIN seen' = Viewer /\ DOMAIN began' = Viewer
    BY DEF View, AskPage, FindWallet, CountRows, FetchPage, AskTransaction,
           FindWalletForLookup, LookUp, ViewError, Conclude, vars, storeVars,
           HInv, ViewTypeOK
  <2>2. vpc' \in [Viewer -> ViewLabel]
    BY DEF View, AskPage, FindWallet, CountRows, FetchPage, AskTransaction,
           FindWalletForLookup, LookUp, ViewError, Conclude, HInv, ViewTypeOK,
           ViewLabel
  <2>3. page' \in [Viewer -> Nat \ {0}] /\ total' \in [Viewer -> Nat]
    BY <1>1
       DEF View, AskPage, FindWallet, CountRows, FetchPage, AskTransaction,
           FindWalletForLookup, LookUp, ViewError, HInv, ViewTypeOK
  <2>. QED
    BY <2>1, <2>2, <2>3 DEF ViewTypeOK
<1>3. ReaderOK(v)'
  <2>1. /\ RowsOf(owner[v])' = RowsOf(owner[v])
        /\ Distinct(owner[v])' = Distinct(owner[v])
        /\ \A t : Before(owner[v], t)' = Before(owner[v], t)
    BY <1>1 DEF RowsOf, Distinct, Before, Newer, vars, storeVars
  <2>2. CASE FetchPage(v)
    BY <2>2, PageStep
  <2>3. ASSUME ~FetchPage(v)
        PROVE  /\ page'[v] = page[v] /\ Offset(v)' = Offset(v) /\ seen'[v] = seen[v]
               /\ vpc'[v] \in {"lookup_wallet", "lookup"} => page[v] = 1
               /\ vpc'[v] = "page" => total'[v] <= Cardinality(RowsOf(owner[v]))
               /\ vpc'[v] # "end" \/ page[v] = 1 \/ RowsOf(owner[v]) = {}
               /\ \/ began'[v] = began[v]
                  \/ page[v] = 1 /\ began'[v] = RowsOf(owner[v])
    <3>1. CASE AskPage(v)
      BY <3>1 DEF AskPage, HInv, ViewTypeOK, Offset
    <3>2. CASE CountRows(v)
      BY <1>1, <3>2 DEF CountRows, HInv, ViewTypeOK, Offset
    <3>3. CASE AskTransaction(v)
      BY <3>3 DEF AskTransaction, HInv, ViewTypeOK, Offset
    <3>4. CASE FindWalletForLookup(v) \/ LookUp(v)
      BY <1>1, <3>4
         DEF FindWalletForLookup, LookUp, Conclude, HInv, ViewTypeOK, ReaderOK,
             Offset
    <3>5. CASE ViewError(v)
      BY <3>5 DEF ViewError, HInv, ViewTypeOK, Offset
    <3>6. CASE FindWallet(v)
      <4>1. RowsOf(NoWallet) = {}
        BY WalletAssumption DEF RowsOf, TypeInv, TypeOK, StoreTypeOK, Txn
      <4>. QED
        BY <3>6, <4>1 DEF FindWallet, HInv, ViewTypeOK, Offset
    <3>. QED
      BY <2>3, <3>1, <3>2, <3>3, <3>4, <3>5, <3>6 DEF View
  <2>4. ASSUME ~FetchPage(v)
        PROVE  ReaderOK(v)'
    <3>. DEFINE Back(t) == Cardinality(Before(owner[v], t))
    <3>1. /\ began'[v] \cup seen'[v] \subseteq RowsOf(owner[v])
          /\ page'[v] = 1 => seen'[v] = {}
      BY <1>1, <2>3, <2>4 DEF ReaderOK
    <3>2. Distinct(owner[v]) =>
              \A t \in began'[v] \ seen'[v] :
                  (vpc'[v] # "end" \/ page[v] = 1) /\ Back(t) >= Offset(v)
      <4>1. CASE began'[v] = began[v]
        BY <1>1, <2>3, <2>4, <4>1 DEF ReaderOK
      <4>2. CASE page[v] = 1
        <5>1. Offset(v) = 0
          BY <4>2, HistoryAssumption DEF Offset
        <5>2. \A t \in RowsOf(owner[v]) : Back(t) \in Nat
          BY <1>1, FS_Subset, FS_CardinalityType DEF Before
        <5>. QED
          BY <3>1, <4>2, <5>1, <5>2
      <4>. QED
        BY <2>3, <2>4, <4>1, <4>2
    <3>3. Distinct(owner[v]) /\ RowsOf(owner[v]) = began'[v] =>
              \A t \in seen'[v] : Back(t) < Offset(v)
      BY <1>1, <2>3, <2>4 DEF ReaderOK
    <3>. QED
      BY <1>1, <2>1, <2>3, <2>4, <3>1, <3>2, <3>3 DEF ReaderOK
  <2>. QED
    BY <2>2, <2>4
<1>. QED
    BY <1>2, <1>3, OtherReaders DEF HInv

\* The readers' invariant holds at all times.
LEMMA ReadersAlways == HistorySpec => []HInv
<1>1. HistoryInit => HInv
  <2>1. ASSUME HistoryInit
        PROVE  ViewTypeOK
    BY <2>1, FS_EmptySet
       DEF HistoryInit, Init, StoreInit, ViewTypeOK, ViewLabel
  <2>2. ASSUME HistoryInit, NEW v \in Viewer
        PROVE  ReaderOK(v)
    BY <2>2 DEF HistoryInit, ReaderOK
  <2>. QED
    BY <2>1, <2>2 DEF HInv
<1>2. TypeInv /\ HistInv /\ HInv /\ [HistoryNext]_historyVars => HInv'
  <2>. SUFFICES ASSUME TypeInv, HistInv, HInv, [HistoryNext]_historyVars
                PROVE  HInv'
    OBVIOUS
  <2>1. CASE UNCHANGED historyVars \/ (Expire /\ UNCHANGED <<created_at, viewVars>>)
    <3>1. UNCHANGED <<transactions, created_at, viewVars>>
      BY <2>1 DEF historyVars, vars, storeVars, Expire
    <3>2. ViewTypeOK'
      BY <3>1 DEF viewVars, HInv, ViewTypeOK
    <3>3. ASSUME NEW v \in Viewer
          PROVE  ReaderOK(v)'
      <4>1. /\ RowsOf(owner[v])' = RowsOf(owner[v])
            /\ Distinct(owner[v])' = Distinct(owner[v])
            /\ \A t : Before(owner[v], t)' = Before(owner[v], t)
            /\ Offset(v)' = Offset(v)
        BY <3>1 DEF viewVars, RowsOf, Distinct, Before, Newer, Offset
      <4>. QED
        BY <3>1, <4>1 DEF viewVars, HInv, ReaderOK
    <3>. QED
      BY <3>2, <3>3 DEF HInv
  <2>. QED
    BY <2>1, SystemStep, ReaderStep DEF HistoryNext
<1>3. HistorySpec => []TypeInv /\ []HistInv
    BY HistoryRefines, TypeCorrect, HistAlways, PTL DEF TypeInv
<1>. QED
    BY <1>1, <1>2, <1>3, PTL DEF HistorySpec

-------------------------------------------------------------------------------
(* What it gives.                                                          *)

\* For any page size and any payments in between, a row that was there when the
\* client began is on a page it has read or behind them, and is not missing
\* after the last, provided no two of its rows have one stamp
\* (get_by_wallet_id, get_transaction_history).
THEOREM NothingSkipped == HistorySpec => []NothingIsSkipped
<1>1. HInv => NothingIsSkipped
    BY DEF HInv, ReaderOK, NothingIsSkipped
<1>. QED
    BY <1>1, ReadersAlways, PTL

\* A step in which a client gets a page is the step of that client.
LEMMA WhoReads ==
    ASSUME HInv, [HistoryNext]_historyVars, NEW v \in Viewer,
           vpc[v] = "page", page'[v] # page[v]
    PROVE  FetchPage(v) /\ UNCHANGED <<vars, created_at>>
<1>1. ~UNCHANGED viewVars
    BY DEF viewVars
<1>2. PICK u \in Viewer : View(u) /\ UNCHANGED <<vars, created_at>>
    BY <1>1 DEF HistoryNext, historyVars, viewVars
<1>3. FetchPage(u)
    BY <1>2
       DEF View, AskPage, FindWallet, CountRows, AskTransaction,
           FindWalletForLookup, LookUp, ViewError
<1>4. u = v
    BY <1>3 DEF FetchPage, HInv, ViewTypeOK
<1>. QED
    BY <1>2, <1>3, <1>4

\* The page delivers what the total of the statement before it promised
\* (get_by_wallet_id).
THEOREM TotalDelivered == HistorySpec => TotalIsDelivered
<1>1. TypeInv /\ HInv /\ [HistoryNext]_historyVars =>
          [\A v \in Viewer :
              vpc[v] = "page" /\ page'[v] # page[v] =>
                  \/ Cardinality(rows'[v]) = page_size
                  \/ Cardinality(rows'[v]) >= total[v] - Offset(v)]_historyVars
    BY WhoReads, PageStep
<1>. QED
    BY <1>1, HistoryRefines, TypeCorrect, ReadersAlways, PTL
       DEF TypeInv, HistorySpec, TotalIsDelivered

\* A row is on two pages only when rows were added in between, as long as no
\* two have one stamp (get_by_wallet_id).
THEOREM RepeatsAreNews == HistorySpec => RepeatsMeanNews
<1>1. TypeInv /\ HInv /\ [HistoryNext]_historyVars =>
          [\A v \in Viewer :
              vpc[v] = "page" /\ page'[v] # page[v] /\ Distinct(owner[v])
                  /\ rows'[v] \cap seen[v] # {}
              => RowsOf(owner[v]) # began[v]]_historyVars
    BY WhoReads, PageStep
<1>. QED
    BY <1>1, HistoryRefines, TypeCorrect, ReadersAlways, PTL
       DEF TypeInv, HistorySpec, RepeatsMeanNews

\* A payment once answered is found by whoever took part in it (send_money,
\* get_transaction).
THEOREM AnswersLookedUp == HistorySpec => AnswersCanBeLookedUp
<1>1. HInv /\ HistInv /\ AnswersAreDurable /\ [HistoryNext]_historyVars =>
          [\A v \in Viewer, r \in Request :
              /\ vpc[v] = "lookup" /\ vpc'[v] = "end"
              /\ receipt[r] # NoTxn
              /\ receipt[r].by = wanted[v]
              /\ owner[v] \in {receipt[r].sender, receipt[r].receiver}
              => answer'[v] = "ok"]_historyVars
  <2>. SUFFICES ASSUME HInv, HistInv, AnswersAreDurable, [HistoryNext]_historyVars,
                       NEW v \in Viewer, NEW r \in Request,
                       vpc[v] = "lookup", vpc'[v] = "end", receipt[r] # NoTxn,
                       receipt[r].by = wanted[v],
                       owner[v] \in {receipt[r].sender, receipt[r].receiver}
                PROVE  answer'[v] = "ok"
    OBVIOUS
  <2>1. PICK u \in Viewer : View(u)
    BY DEF HistoryNext, historyVars, viewVars
  <2>2. LookUp(v)
    BY <2>1
       DEF View, AskPage, FindWallet, CountRows, FetchPage, AskTransaction,
           FindWalletForLookup, LookUp, ViewError, Conclude, HInv, ViewTypeOK
  <2>3. receipt[r] \in transactions
    BY DEF AnswersAreDurable
  <2>4. \A t \in transactions : t.by = wanted[v] => t = receipt[r]
    BY <2>3 DEF HistInv, HistoryOK
  <2>5. \E t \in transactions :
            t.by = wanted[v] /\ Conclude(v, IF Authorized(v, t) THEN "ok" ELSE "Forbidden")
    BY <2>2, <2>3 DEF LookUp
  <2>6. Conclude(v, IF Authorized(v, receipt[r]) THEN "ok" ELSE "Forbidden")
    BY <2>4, <2>5
  <2>. QED
    BY <2>6 DEF Conclude, Authorized, HInv, ViewTypeOK
<1>. QED
    BY <1>1, HistoryRefines, HistAlways, AnswersDurable, ReadersAlways, PTL
       DEF HistorySpec, AnswersCanBeLookedUp
===============================================================================
