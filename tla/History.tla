--------------------------------- MODULE History ---------------------------------
(***************************************************************************)
(* GET /payments/history and GET /payments/transactions/{id}               *)
(* (app/api/v1/payments.py), read while PaymentSystem runs.  A client asks *)
(* for page 1, 2, ... in requests of their own and stops at a page that is *)
(* not full, or looks one transaction up.  Rows carry the created_at the   *)
(* session gave them when it flushed them, by the clock of its instance:   *)
(* stamps need not follow the order of the commits, nor differ.            *)
(***************************************************************************)
EXTENDS PaymentSystem, FiniteSets

CONSTANTS
    Viewer,         \* clients that read
    Owners,         \* whose wallets they read: wallets, NoWallet
    StatusFilters,  \* the status they ask for, or "any"
    page_size,
    Time            \* the instants created_at tells apart

ASSUME HistoryAssumption ==
    /\ Owners \subseteq Wallet \cup {NoWallet}
    /\ page_size \in Nat \ {0}
    /\ Time \subseteq Nat \ {0}

VARIABLES
    created_at,     \* created_at[r]: the stamp of the row of r, 0 for none
    owner,          \* owner[v]: the wallet of the authenticated user
    status_filter,  \* status_filter[v]: the status parameter
    vpc,            \* vpc[v]: the next await of the handler v has called
    page,           \* page[v]: the page v asks for next
    total,          \* total[v]: the count of the page being read
    rows,           \* rows[v]: the rows v was last shown
    wanted,         \* wanted[v]: the transaction looked up, by its request
    answer,         \* answer[v]: how the lookup ended
    seen,           \* history: the rows of all pages before
    began           \* history: the rows there when page 1 was asked for

viewVars ==
    <<owner, status_filter, vpc, page, total, rows, wanted, answer, seen, began>>
historyVars == <<vars, created_at, viewVars>>

HistoryInit ==
    /\ Init
    /\ created_at = [r \in Request |-> 0]
    /\ owner \in [Viewer -> Owners]
    /\ status_filter \in [Viewer -> StatusFilters]
    /\ vpc = [v \in Viewer |-> "idle"]
    /\ page = [v \in Viewer |-> 1]
    /\ total = [v \in Viewer |-> 0]
    /\ rows = [v \in Viewer |-> {}]
    /\ wanted = [v \in Viewer |-> NoRequest]
    /\ answer = [v \in Viewer |-> "none"]
    /\ seen = [v \in Viewer |-> {}]
    /\ began = [v \in Viewer |-> {}]

\* The flush of a transaction stamps it, whatever the clock of the instance says.
Stamp(r) ==
    IF pc[r] = "record" /\ pc'[r] = "commit"
    THEN \E t \in Time : created_at' = [created_at EXCEPT ![r] = t]
    ELSE UNCHANGED created_at

-------------------------------------------------------------------------------
\* The rows of a wallet, as sender or receiver; no status is looked at.
RowsOf(w) == {t \in transactions : t.sender = w \/ t.receiver = w}
Newer(t, u) == created_at[t.by] > created_at[u.by]

\* Variant: pages are counted from 0.
OffsetFromZero(v) == page[v] * page_size
Offset(v) == (page[v] - 1) * page_size

AtMost(n, m) == IF n < m THEN n ELSE m

\* Variant: one row more, to know whether there is a next page.
SliceWithNext(R, offset, P) ==
    \E A \in SUBSET (R \ P) :
        /\ Cardinality(A) = AtMost(offset, Cardinality(R))
        /\ Cardinality(P) =
              AtMost(page_size + 1, Cardinality(R) - Cardinality(A))
        /\ \A t \in R, u \in R :
              (u \in A /\ t \notin A) \/ (u \in P /\ t \notin A \cup P)
                 => ~Newer(t, u)

\* ORDER BY created_at DESC OFFSET offset LIMIT page_size of R may return P: the
\* rows A before it are no older and the rest no newer, rows with one stamp
\* coming in any order, which need not be that of the next query.
Slice(R, offset, P) ==
    \E A \in SUBSET (R \ P) :
        /\ Cardinality(A) = AtMost(offset, Cardinality(R))
        /\ Cardinality(P) = AtMost(page_size, Cardinality(R) - Cardinality(A))
        /\ \A t \in R, u \in R :
              (u \in A /\ t \notin A) \/ (u \in P /\ t \notin A \cup P)
                 => ~Newer(t, u)

\* The client asks for its next page.
AskPage(v) ==
    /\ vpc[v] = "idle"
    /\ vpc' = [vpc EXCEPT ![v] = "wallet"]
    /\ began' = [began EXCEPT ![v] = IF page[v] = 1 THEN RowsOf(owner[v]) ELSE @]
    /\ UNCHANGED <<owner, status_filter, page, total, rows, wanted, answer, seen>>

\* 71-75: a user without a wallet has an empty history.
FindWallet(v) ==
    /\ vpc[v] = "wallet"
    /\ vpc' = [vpc EXCEPT ![v] = IF owner[v] = NoWallet THEN "end" ELSE "count"]
    /\ UNCHANGED <<owner, status_filter, page, total, rows, wanted, answer, seen,
                   began>>

\* Variant: the count is that of the whole table.
CountAll(v) ==
    /\ vpc[v] = "count"
    /\ total' = [total EXCEPT ![v] = Cardinality(transactions)]
    /\ vpc' = [vpc EXCEPT ![v] = "page"]
    /\ UNCHANGED <<owner, status_filter, page, rows, wanted, answer, seen, began>>

\* transaction_repo.py:44-48
CountRows(v) ==
    /\ vpc[v] = "count"
    /\ total' = [total EXCEPT ![v] = Cardinality(RowsOf(owner[v]))]
    /\ vpc' = [vpc EXCEPT ![v] = "page"]
    /\ UNCHANGED <<owner, status_filter, page, rows, wanted, answer, seen, began>>

\* transaction_repo.py:50-60, a second statement with a snapshot of its own; a
\* page that is not full is the last one the client asks for.
FetchPage(v) ==
    /\ vpc[v] = "page"
    /\ \E P \in SUBSET RowsOf(owner[v]) :
          /\ Slice(RowsOf(owner[v]), Offset(v), P)
          /\ rows' = [rows EXCEPT ![v] = P]
          /\ vpc' = [vpc EXCEPT ![v] =
                        IF Cardinality(P) < page_size THEN "end" ELSE "idle"]
    /\ seen' = [seen EXCEPT ![v] = @ \cup rows'[v]]
    /\ page' = [page EXCEPT ![v] = @ + 1]
    /\ UNCHANGED <<owner, status_filter, total, wanted, answer, began>>

\* The client asks for one transaction.
AskTransaction(v) ==
    /\ vpc[v] = "idle" /\ page[v] = 1
    /\ \E r \in Request : wanted' = [wanted EXCEPT ![v] = r]
    /\ vpc' = [vpc EXCEPT ![v] = "lookup_wallet"]
    /\ UNCHANGED <<owner, status_filter, page, total, rows, answer, seen, began>>

Conclude(v, outcome) ==
    /\ answer' = [answer EXCEPT ![v] = outcome]
    /\ vpc' = [vpc EXCEPT ![v] = "end"]

\* 105-107
FindWalletForLookup(v) ==
    /\ vpc[v] = "lookup_wallet"
    /\ \/ owner[v] = NoWallet /\ Conclude(v, "NotFound")
       \/ owner[v] # NoWallet /\ vpc' = [vpc EXCEPT ![v] = "lookup"] /\ UNCHANGED answer
    /\ UNCHANGED <<owner, status_filter, page, total, rows, wanted, seen, began>>

\* Variant: only the sender may look.
AuthorizedSender(v, txn) == txn.sender = owner[v]

\* 117-119
Authorized(v, txn) == owner[v] \in {txn.sender, txn.receiver}

\* 109-121
LookUp(v) ==
    /\ vpc[v] = "lookup"
    /\ \/ /\ \A t \in transactions : t.by # wanted[v]
          /\ Conclude(v, "NotFound")
       \/ \E t \in transactions :
             /\ t.by = wanted[v]
             /\ Conclude(v, IF Authorized(v, t) THEN "ok" ELSE "Forbidden")
    /\ UNCHANGED <<owner, status_filter, page, total, rows, wanted, seen, began>>

\* A statement fails: 500, and the client may ask again.
ViewError(v) ==
    /\ "db" \in Faults
    /\ vpc[v] \notin {"idle", "end"}
    /\ vpc' = [vpc EXCEPT ![v] = "idle"]
    /\ UNCHANGED <<owner, status_filter, page, total, rows, wanted, answer, seen,
                   began>>

View(v) ==
    \/ AskPage(v) \/ FindWallet(v) \/ CountRows(v) \/ FetchPage(v)
    \/ AskTransaction(v) \/ FindWalletForLookup(v) \/ LookUp(v)
    \/ ViewError(v)

HistoryNext ==
    \/ \E r \in Request :
          (Step(r) \/ Environment(r)) /\ Stamp(r) /\ UNCHANGED viewVars
    \/ Expire /\ UNCHANGED <<created_at, viewVars>>
    \/ \E v \in Viewer : View(v) /\ UNCHANGED <<vars, created_at>>

HistorySpec == HistoryInit /\ [][HistoryNext]_historyVars

-------------------------------------------------------------------------------
\* No two rows of w have the same stamp.
Distinct(w) ==
    \A t, u \in RowsOf(w) : created_at[t.by] = created_at[u.by] => t = u

Before(w, t) == {u \in RowsOf(w) : Newer(u, t)}

\* A row that was there when the client asked for the first page, and that no
\* page has shown, lies behind the pages read so far; after the last page there
\* is none.  Payments that commit in between only push it back, even those whose
\* stamp is older, provided that stamps differ (get_by_wallet_id).
NothingIsSkipped ==
    \A v \in Viewer : Distinct(owner[v]) =>
        \A t \in began[v] \ seen[v] :
            /\ vpc[v] # "end" \/ page[v] = 1
            /\ Cardinality(Before(owner[v], t)) >= Offset(v)

\* The count is taken before the page and rows are never deleted: the page has
\* all the rows its total promises, or is full (get_transaction_history).
TotalIsDelivered ==
    [][\A v \in Viewer :
          vpc[v] = "page" /\ page'[v] # page[v] =>
              \/ Cardinality(rows'[v]) = page_size
              \/ Cardinality(rows'[v]) >= total[v] - Offset(v)]_historyVars

\* A row comes up a second time only when another has been added since the
\* client began (get_by_wallet_id).
RepeatsMeanNews ==
    [][\A v \in Viewer :
          vpc[v] = "page" /\ page'[v] # page[v] /\ Distinct(owner[v])
              /\ rows'[v] \cap seen[v] # {}
          => RowsOf(owner[v]) # began[v]]_historyVars

\* A payment that was answered can be looked up from then on, by its sender and
\* by its receiver (send_money, get_transaction).
AnswersCanBeLookedUp ==
    [][\A v \in Viewer, r \in Request :
          /\ vpc[v] = "lookup" /\ vpc'[v] = "end"
          /\ receipt[r] # NoTxn
          /\ receipt[r].by = wanted[v]
          /\ owner[v] \in {receipt[r].sender, receipt[r].receiver}
          => answer'[v] = "ok"]_historyVars

-------------------------------------------------------------------------------
(* What the route's documentation says and the code refutes.               *)

\* _execute_transfer records completed transfers only (payment_service.py:233).
RowStatus(t) == "COMPLETED"

\* payments.py:6, "Paginated transaction history with status filtering": who asks
\* for one status is shown no row of another.
StatusIsFiltered ==
    \A v \in Viewer : \A t \in rows[v] : status_filter[v] \in {"any", RowStatus(t)}
===============================================================================
