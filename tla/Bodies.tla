--------------------------------- MODULE Bodies ---------------------------------
(***************************************************************************)
(* The request bodies and opening rows the runs combine.                   *)
(***************************************************************************)
EXTENDS Requests

Pay(from, to, amount, key) ==
    [kind |-> "send", caller |-> from, to |-> to, amount |-> amount, key |-> key]
Put(w, amount) == [kind |-> "topup", caller |-> w, amount |-> amount]
Get(w) == [kind |-> "read", caller |-> w]

CONSTANTS k1, k2

MCOpening ==
    [w \in Wallet |-> [balance |-> IF w = 1 THEN 2 ELSE 1, version |-> 1]]

\* Payments crossing between two wallets with one key, payments round a ring of
\* three, one from outside it with the key of the first, and a top-up.
RacingPayloads ==
    {Pay(1, 2, 2, k1), Pay(2, 1, 2, k1), Pay(2, 3, 1, k2), Pay(3, 1, 1, k2),
     Pay(4, 3, 1, k1), Put(1, 1)}

\* A payment, its refusals, a top-up and a read, for the runs with failures.
FaultyPayloads ==
    {Pay(1, 2, 2, k1), Pay(2, 1, 2, k2), Pay(1, 1, 1, k2), Pay(1, NoWallet, 1, k2),
     Put(1, 1), Get(1)}

\* A top-up between the two reads of a payment.
StalePayloads == {Pay(1, 2, 1, k1), Put(1, 1)}
ShortPayloads == {Pay(1, 2, 3, k1), Put(1, 1)}

\* Two readers and the top-up they surround.
ReaderPayloads == {Get(1), Put(1, 1)}

\* Two payments crossing over one pair of wallets with one key, a top-up, and
\* a reader of the balance they change.
LivePayloads == {Pay(1, 2, 1, k1), Pay(2, 1, 1, k1), Put(1, 1), Get(1)}
===============================================================================
