-------------------------------- MODULE Accounts --------------------------------
(***************************************************************************)
(* What registration promises: an account is a user with a wallet, both    *)
(* there from one moment on, and an email has one account.                 *)
(***************************************************************************)
CONSTANT Account  \* the accounts that may be opened, each with its email

VARIABLE accounts

Init == accounts = {}

Open(a) ==
    /\ \A b \in accounts : b.email # a.email
    /\ accounts' = accounts \cup {a}

Next == \E a \in Account : Open(a)

Spec == Init /\ [][Next]_accounts
===============================================================================
