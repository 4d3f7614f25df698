------------------------------ MODULE UserService ------------------------------
(***************************************************************************)
(* UserService: register (POST /users/register), login (POST /users/login) *)
(* and get_user (GET /users/me), one action per await, over the users      *)
(* table and the rows registration adds to wallets.  Lines are those of    *)
(* app/services/user_service.py.                                           *)
(***************************************************************************)
EXTENDS Integers

CONSTANTS
    Request,   \* HTTP requests in flight, each handled once
    Email,
    Password,
    NoUser,    \* no user found
    Faults     \* the kinds of failure that may happen

ASSUME NoUserAssumption == NoUser \notin Request
ASSUME AccountFaultsAssumption == Faults \subseteq {"db", "crash"}

\* A user's id is fresh in every registration and a registration makes at most
\* one, so the request stands for the id.
Body ==
    [kind : {"register", "login"}, email : Email, password : Password]
        \cup [kind : {"me"}, token : Request]
User == [id : Request, email : Email, password : Password]

VARIABLES
    body,            \* body[r]: the body of request r
    pc,              \* pc[r]: the next await of its handler
    status,          \* status[r]: how it ends ("none" until known)
    answer,          \* answer[r]: the user a 200 or 201 speaks of
    users,           \* committed rows of users
    wallets,         \* user_id of the committed rows of wallets
    pendingUsers,    \* rows of users flushed but not committed
    pendingWallets   \* user_id of the rows of wallets flushed, not committed

requestVars == <<body, pc, status, answer>>
tableVars == <<users, wallets, pendingUsers, pendingWallets>>
vars == <<requestVars, tableVars>>

Init ==
    /\ body \in [Request -> Body]
    /\ pc = [r \in Request |-> "start"]
    /\ status = [r \in Request |-> "none"]
    /\ answer = [r \in Request |-> NoUser]
    /\ users = {}
    /\ wallets = {}
    /\ pendingUsers = {}
    /\ pendingWallets = {}

Goto(r, label) ==
    /\ pc' = [pc EXCEPT ![r] = label]
    /\ UNCHANGED <<body, status, answer>>

\* Nothing in user_service catches an exception: the session is closed (which
\* rolls back) and the global handler answers.
Fail(r, exception) ==
    /\ pc' = [pc EXCEPT ![r] = "close"]
    /\ status' = [status EXCEPT ![r] = exception]
    /\ UNCHANGED <<body, answer>>

Answer(r, outcome, user) ==
    /\ pc' = [pc EXCEPT ![r] = "done"]
    /\ status' = [status EXCEPT ![r] = outcome]
    /\ answer' = [answer EXCEPT ![r] = user]
    /\ UNCHANGED body

\* get_by_email and get_by_id of user_repository: committed rows only.
WithEmail(email) == {u \in users : u.email = email}
WithId(id) == {u \in users : u.id = id}

-------------------------------------------------------------------------------
\* 25-28
CheckEmail(r) ==
    /\ pc[r] = "start" /\ body[r].kind = "register"
    /\ \/ WithEmail(body[r].email) # {} /\ Answer(r, "UserAlreadyExists", NoUser)
       \/ WithEmail(body[r].email) = {} /\ Goto(r, "insert_user")
    /\ UNCHANGED tableVars

NewUser(r) == [id |-> r, email |-> body[r].email, password |-> body[r].password]

\* Variant: the user is committed before the wallet is made.
InsertUserAutocommit(r) ==
    /\ pc[r] = "insert_user"
    /\ WithEmail(body[r].email) = {}
    /\ users' = users \cup {NewUser(r)}
    /\ Goto(r, "insert_wallet")
    /\ UNCHANGED <<wallets, pendingUsers, pendingWallets>>

\* Variant: no UNIQUE index on email.
InsertUserNotUnique(r) ==
    /\ pc[r] = "insert_user"
    /\ pendingUsers' = pendingUsers \cup {NewUser(r)}
    /\ Goto(r, "insert_wallet")
    /\ UNCHANGED <<users, wallets, pendingWallets>>

\* 30-36: the UNIQUE index on email makes the INSERT wait for an uncommitted
\* row with the same email and fail on a committed one.
InsertUser(r) ==
    /\ pc[r] = "insert_user"
    /\ \A u \in pendingUsers : u.email # body[r].email
    /\ \/ /\ WithEmail(body[r].email) = {}
          /\ pendingUsers' = pendingUsers \cup {NewUser(r)}
          /\ Goto(r, "insert_wallet")
       \/ /\ WithEmail(body[r].email) # {}
          /\ Fail(r, "IntegrityError")
          /\ UNCHANGED pendingUsers
    /\ UNCHANGED <<users, wallets, pendingWallets>>

\* Variant: the commit is forgotten.
InsertWalletNoCommit(r) ==
    /\ pc[r] = "insert_wallet"
    /\ pendingWallets' = pendingWallets \cup {r}
    /\ Goto(r, "refresh")
    /\ UNCHANGED <<users, wallets, pendingUsers>>

\* 38-40: user_id is UNIQUE and references the row just flushed.
InsertWallet(r) ==
    /\ pc[r] = "insert_wallet"
    /\ pendingWallets' = pendingWallets \cup {r}
    /\ Goto(r, "commit")
    /\ UNCHANGED <<users, wallets, pendingUsers>>

commit(r) ==
    /\ users' = users \cup {u \in pendingUsers : u.id = r}
    /\ wallets' = wallets \cup (pendingWallets \cap {r})
    /\ pendingUsers' = {u \in pendingUsers : u.id # r}
    /\ pendingWallets' = pendingWallets \ {r}

\* Variant: a closed session leaves its rows behind.
RollbackForgotten(r) == UNCHANGED tableVars

rollback(r) ==
    /\ pendingUsers' = {u \in pendingUsers : u.id # r}
    /\ pendingWallets' = pendingWallets \ {r}
    /\ UNCHANGED <<users, wallets>>

\* 42-43
Commit(r) ==
    /\ pc[r] = "commit"
    /\ commit(r)
    /\ Goto(r, "refresh")

\* 43: the commit happened, its acknowledgement did not arrive.
CommitUnacknowledged(r) ==
    /\ "db" \in Faults
    /\ pc[r] = "commit"
    /\ commit(r)
    /\ Fail(r, "error")

\* 44-46
Refresh(r) ==
    /\ pc[r] = "refresh"
    /\ Answer(r, "ok", r)
    /\ UNCHANGED tableVars

\* get_db closes the session: what was not committed is rolled back.
Close(r) ==
    /\ pc[r] = "close"
    /\ rollback(r)
    /\ Goto(r, "done")

\* 48-55: the token names the user.
Login(r) ==
    /\ pc[r] = "start" /\ body[r].kind = "login"
    /\ LET found == {u \in WithEmail(body[r].email) : u.password = body[r].password}
       IN  \/ \E u \in found : Answer(r, "ok", u.id)
           \/ found = {} /\ Answer(r, "UserNotFound", NoUser)
    /\ UNCHANGED tableVars

\* 57-61, with a token some login was answered with.
GetUser(r) ==
    /\ pc[r] = "start" /\ body[r].kind = "me"
    /\ \E p \in Request : body[p].kind = "login" /\ answer[p] = body[r].token
    /\ \/ WithId(body[r].token) # {} /\ Answer(r, "ok", body[r].token)
       \/ WithId(body[r].token) = {} /\ Answer(r, "UserNotFound", NoUser)
    /\ UNCHANGED tableVars

\* A database call raises: nothing it asked for takes effect.
DbError(r) ==
    /\ "db" \in Faults
    /\ pc[r] \in {"start", "insert_user", "insert_wallet", "commit", "refresh"}
    /\ Fail(r, "error")
    /\ UNCHANGED tableVars

\* The server instance running the request dies; the database rolls back.
Crash(r) ==
    /\ "crash" \in Faults
    /\ pc[r] \notin {"start", "done", "crashed"}
    /\ rollback(r)
    /\ Goto(r, "crashed")

Step(r) ==
    \/ CheckEmail(r)
    \/ InsertUser(r)
    \/ InsertWallet(r)
    \/ Commit(r)
    \/ Refresh(r)
    \/ Close(r)
    \/ Login(r)
    \/ GetUser(r)

Environment(r) ==
    \/ CommitUnacknowledged(r)
    \/ DbError(r)
    \/ Crash(r)

Next == \E r \in Request : Step(r) \/ Environment(r)

Spec == Init /\ [][Next]_vars

\* The event loop resumes every handler whose await is over; no client has to
\* send a request.
FairSpec ==
    Spec /\ \A r \in Request : WF_vars(pc[r] # "start" /\ Step(r))

-------------------------------------------------------------------------------
TypeOK ==
    /\ body \in [Request -> Body]
    /\ pc \in [Request -> {"start", "insert_user", "insert_wallet", "commit",
                           "refresh", "close", "done", "crashed"}]
    /\ status \in [Request -> {"none", "ok", "UserAlreadyExists", "UserNotFound",
                               "IntegrityError", "error"}]
    /\ answer \in [Request -> Request \cup {NoUser}]
    /\ users \subseteq User /\ pendingUsers \subseteq User
    /\ wallets \subseteq Request /\ pendingWallets \subseteq Request

\* Registration implements Accounts: a user and his wallet appear together,
\* whatever is interleaved, fails or crashes, and two registrations of one email
\* never both succeed (register, the UNIQUE indexes).
A == INSTANCE Accounts WITH
        Account <- User,
        accounts <- {u \in users : u.id \in wallets}
AccountSpec == A!Spec

\* Neither table has a row without its counterpart in the other.
UsersHaveWallets == {u.id : u \in users} = wallets

\* What the client is told is so and stays so: a 201 names a committed account
\* with the email asked for, a 409 means the email was taken by somebody else, a
\* token belongs to the account with that email and password, and the account a
\* token names is always found (register, login, get_user).  A login refused
\* with a 404 may be overtaken by a registration, and says nothing about later.
AnswersAreTrue ==
    \A r \in Request : pc[r] = "done" =>
        /\ status[r] = "ok" /\ body[r].kind # "me" =>
              [id |-> answer[r], email |-> body[r].email,
               password |-> body[r].password] \in users
        /\ status[r] = "ok" /\ body[r].kind = "me" =>
              answer[r] = body[r].token /\ \E u \in users : u.id = answer[r]
        /\ body[r].kind = "me" => status[r] # "UserNotFound"
        /\ status[r] \in {"UserAlreadyExists", "IntegrityError"} =>
              \E u \in users : u.id # r /\ u.email = body[r].email

\* Every registration that has begun is answered or dies with its server.
RegistrationEnds ==
    \A r \in Request :
        pc[r] = "insert_user" ~> pc[r] \in {"done", "crashed"}

-------------------------------------------------------------------------------
(* The inductive invariant behind them.                                    *)

Registering == {"insert_user", "insert_wallet", "commit", "refresh"}

\* What has been flushed, by where the registration is.
FlushedOK ==
    /\ \A r \in Request : pc[r] \in Registering => body[r].kind = "register"
    /\ \A u \in pendingUsers :
          u = NewUser(u.id) /\ pc[u.id] \in {"insert_wallet", "commit", "close"}
    /\ \A r \in Request :
          pc[r] \in {"insert_wallet", "commit"} => NewUser(r) \in pendingUsers
    /\ \A r \in pendingWallets : pc[r] \in {"commit", "close"}
    /\ \A r \in Request : pc[r] = "commit" => r \in pendingWallets

\* What has been committed, and the one row an email may have.
EmailsAreUnique ==
    /\ \A u \in users :
          /\ u = NewUser(u.id)
          /\ body[u.id].kind = "register"
          /\ pc[u.id] \in {"refresh", "close", "done", "crashed"}
    /\ \A u, v \in users \cup pendingUsers : u.email = v.email => u = v
    /\ \A r \in Request : pc[r] = "refresh" => NewUser(r) \in users
    /\ \A r \in Request :
          pc[r] = "close" => status[r] \in {"IntegrityError", "error"}
    /\ \A r \in Request : pc[r] = "close" /\ status[r] = "IntegrityError" =>
          \E u \in users : u.id # r /\ u.email = body[r].email

\* Whom an answer names, it names for good: the tokens get_user may be sent.
NamesAreAnswers ==
    \A r \in Request : answer[r] # NoUser => pc[r] = "done" /\ status[r] = "ok"

IInv ==
    /\ TypeOK
    /\ FlushedOK
    /\ EmailsAreUnique
    /\ UsersHaveWallets
    /\ NamesAreAnswers
    /\ AnswersAreTrue
===============================================================================
