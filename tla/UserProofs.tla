------------------------------- MODULE UserProofs -------------------------------
(***************************************************************************)
(* Registration is atomic, an email has one account, and the answers are   *)
(* true: IInv of UserService is inductive, for any number of requests.     *)
(***************************************************************************)
EXTENDS UserService, TLAPS

\* The fields of a request body, by its kind.
LEMMA BodyFields ==
    ASSUME NEW b \in Body
    PROVE  /\ b.kind \in {"register", "login", "me"}
           /\ b.kind \in {"register", "login"} =>
                 b.email \in Email /\ b.password \in Password
           /\ b.kind = "me" => b.token \in Request
BY DEF Body

\* Every action keeps the types.
LEMMA TypeStep ==
    ASSUME TypeOK, FlushedOK, NEW r \in Request, Step(r) \/ Environment(r)
    PROVE  TypeOK'
<1>. USE DEF TypeOK
<1>0. body[r] \in Body
    OBVIOUS
<1>1. CASE CheckEmail(r)
    BY <1>1 DEF CheckEmail, Answer, Goto, tableVars
<1>2. CASE InsertUser(r)
  <2>1. NewUser(r) \in User
    BY <1>0, <1>2, BodyFields
       DEF InsertUser, FlushedOK, Registering, NewUser, User
  <2>. QED
    BY <1>2, <2>1 DEF InsertUser, Goto, Fail
<1>3. CASE InsertWallet(r)
    BY <1>3 DEF InsertWallet, Goto
<1>4. CASE Commit(r)
    BY <1>4 DEF Commit, commit, Goto
<1>5. CASE CommitUnacknowledged(r)
    BY <1>5 DEF CommitUnacknowledged, commit, Fail
<1>6. CASE Refresh(r)
    BY <1>6 DEF Refresh, Answer, tableVars
<1>7. CASE Close(r)
    BY <1>7 DEF Close, rollback, Goto
<1>8. CASE Login(r)
    BY <1>8 DEF Login, WithEmail, User, Answer, tableVars
<1>9. CASE GetUser(r)
    BY <1>0, <1>9, BodyFields DEF GetUser, Answer, tableVars
<1>10. CASE DbError(r)
    BY <1>10 DEF DbError, Fail, tableVars
<1>11. CASE Crash(r)
    BY <1>11 DEF Crash, rollback, Goto
<1>. QED
    BY <1>1, <1>2, <1>3, <1>4, <1>5, <1>6, <1>7, <1>8, <1>9, <1>10, <1>11
       DEF Step, Environment

\* What is flushed follows the handlers.
LEMMA FlushedStep ==
    ASSUME TypeOK, FlushedOK, NEW r \in Request, Step(r) \/ Environment(r)
    PROVE  FlushedOK'
<1>. USE DEF TypeOK, FlushedOK, Registering, NewUser
<1>1. CASE CheckEmail(r)
  <2>1. CASE Goto(r, "insert_user")
    BY <1>1, <2>1 DEF CheckEmail, Goto, tableVars
  <2>2. CASE Answer(r, "UserAlreadyExists", NoUser)
    BY <1>1, <2>2 DEF CheckEmail, Answer, tableVars
  <2>. QED
    BY <1>1, <2>1, <2>2 DEF CheckEmail
<1>2. CASE InsertUser(r)
  <2>1. CASE Goto(r, "insert_wallet") /\ WithEmail(body[r].email) = {}
    <3>1. pendingUsers' = pendingUsers \cup {NewUser(r)}
      BY <1>2, <2>1 DEF InsertUser, Goto, Fail
    <3>. QED
      BY <1>2, <2>1, <3>1 DEF InsertUser, Goto, WithEmail
  <2>2. CASE Fail(r, "IntegrityError") /\ WithEmail(body[r].email) # {}
    <3>1. pendingUsers' = pendingUsers
      BY <1>2, <2>2 DEF InsertUser, Goto, Fail
    <3>. QED
      BY <1>2, <2>2, <3>1 DEF InsertUser, Fail, WithEmail
  <2>. QED
    BY <1>2, <2>1, <2>2 DEF InsertUser
<1>3. CASE InsertWallet(r)
    BY <1>3 DEF InsertWallet, Goto, WithEmail
<1>4. CASE Commit(r)
    BY <1>4 DEF Commit, commit, Goto, WithEmail
<1>5. CASE CommitUnacknowledged(r)
    BY <1>5 DEF CommitUnacknowledged, commit, Fail, WithEmail
<1>6. CASE Refresh(r)
    BY <1>6 DEF Refresh, Answer, tableVars, WithEmail
<1>7. CASE Close(r)
    BY <1>7 DEF Close, rollback, Goto, WithEmail
<1>8. CASE Login(r)
  <2>1. PICK outcome, user : Answer(r, outcome, user)
    BY <1>8 DEF Login
  <2>2. /\ pc' = [pc EXCEPT ![r] = "done"]
        /\ status' = [status EXCEPT ![r] = outcome]
        /\ UNCHANGED <<body, users, wallets, pendingUsers, pendingWallets>>
        /\ pc[r] = "start"
    BY <1>8, <2>1 DEF Login, Answer, tableVars
  <2>. QED
    BY <2>2
<1>9. CASE GetUser(r)
  <2>1. PICK outcome, user : Answer(r, outcome, user)
    BY <1>9 DEF GetUser
  <2>2. /\ pc' = [pc EXCEPT ![r] = "done"]
        /\ status' = [status EXCEPT ![r] = outcome]
        /\ UNCHANGED <<body, users, wallets, pendingUsers, pendingWallets>>
        /\ pc[r] = "start"
    BY <1>9, <2>1 DEF GetUser, Answer, tableVars
  <2>. QED
    BY <2>2
<1>10. CASE DbError(r)
    BY <1>10 DEF DbError, Fail, tableVars, WithEmail
<1>11. CASE Crash(r)
    BY <1>11 DEF Crash, rollback, Goto, WithEmail
<1>. QED
    BY <1>1, <1>2, <1>3, <1>4, <1>5, <1>6, <1>7, <1>8, <1>9, <1>10, <1>11
       DEF Step, Environment

\* An INSERT of a user adds an email no row has; a commit adds no email.
LEMMA UniqueStep ==
    ASSUME TypeOK, FlushedOK, EmailsAreUnique, NEW r \in Request, Step(r) \/ Environment(r)
    PROVE  EmailsAreUnique'
<1>. USE DEF TypeOK, FlushedOK, Registering, EmailsAreUnique, NewUser
<1>1. CASE CheckEmail(r)
  <2>1. CASE Goto(r, "insert_user")
    BY <1>1, <2>1 DEF CheckEmail, Goto, tableVars
  <2>2. CASE Answer(r, "UserAlreadyExists", NoUser)
    BY <1>1, <2>2 DEF CheckEmail, Answer, tableVars
  <2>. QED
    BY <1>1, <2>1, <2>2 DEF CheckEmail
<1>2. CASE InsertUser(r)
  <2>1. CASE Goto(r, "insert_wallet") /\ WithEmail(body[r].email) = {}
    <3>1. pendingUsers' = pendingUsers \cup {NewUser(r)}
      BY <1>2, <2>1 DEF InsertUser, Goto, Fail
    <3>. QED
      BY <1>2, <2>1, <3>1 DEF InsertUser, Goto, WithEmail
  <2>2. CASE Fail(r, "IntegrityError") /\ WithEmail(body[r].email) # {}
    <3>1. pendingUsers' = pendingUsers
      BY <1>2, <2>2 DEF InsertUser, Goto, Fail
    <3>. QED
      BY <1>2, <2>2, <3>1 DEF InsertUser, Fail, WithEmail
  <2>. QED
    BY <1>2, <2>1, <2>2 DEF InsertUser
<1>3. CASE InsertWallet(r)
    BY <1>3 DEF InsertWallet, Goto, WithEmail
<1>4. CASE Commit(r)
    BY <1>4 DEF Commit, commit, Goto, WithEmail
<1>5. CASE CommitUnacknowledged(r)
    BY <1>5 DEF CommitUnacknowledged, commit, Fail, WithEmail
<1>6. CASE Refresh(r)
    BY <1>6 DEF Refresh, Answer, tableVars, WithEmail
<1>7. CASE Close(r)
    BY <1>7 DEF Close, rollback, Goto, WithEmail
<1>8. CASE Login(r)
  <2>1. PICK outcome, user : Answer(r, outcome, user)
    BY <1>8 DEF Login
  <2>2. /\ pc' = [pc EXCEPT ![r] = "done"]
        /\ status' = [status EXCEPT ![r] = outcome]
        /\ UNCHANGED <<body, users, wallets, pendingUsers, pendingWallets>>
        /\ pc[r] = "start"
    BY <1>8, <2>1 DEF Login, Answer, tableVars
  <2>. QED
    BY <2>2
<1>9. CASE GetUser(r)
  <2>1. PICK outcome, user : Answer(r, outcome, user)
    BY <1>9 DEF GetUser
  <2>2. /\ pc' = [pc EXCEPT ![r] = "done"]
        /\ status' = [status EXCEPT ![r] = outcome]
        /\ UNCHANGED <<body, users, wallets, pendingUsers, pendingWallets>>
        /\ pc[r] = "start"
    BY <1>9, <2>1 DEF GetUser, Answer, tableVars
  <2>. QED
    BY <2>2
<1>10. CASE DbError(r)
    BY <1>10 DEF DbError, Fail, tableVars, WithEmail
<1>11. CASE Crash(r)
    BY <1>11 DEF Crash, rollback, Goto, WithEmail
<1>. QED
    BY <1>1, <1>2, <1>3, <1>4, <1>5, <1>6, <1>7, <1>8, <1>9, <1>10, <1>11
       DEF Step, Environment

\* A commit publishes a user and his wallet, or neither.
LEMMA WalletStep ==
    ASSUME TypeOK, FlushedOK, UsersHaveWallets, NEW r \in Request, Step(r) \/ Environment(r)
    PROVE  UsersHaveWallets'
<1>. USE DEF TypeOK, FlushedOK, UsersHaveWallets, NewUser
<1>1. CASE CheckEmail(r)
    BY <1>1 DEF CheckEmail, Answer, Goto, tableVars
<1>2. CASE InsertUser(r)
    BY <1>2 DEF InsertUser, Goto, Fail
<1>3. CASE InsertWallet(r)
    BY <1>3 DEF InsertWallet, Goto
<1>4. CASE Commit(r)
  <2>1. /\ r \in pendingWallets
        /\ NewUser(r) \in pendingUsers /\ NewUser(r).id = r
        /\ users' = users \cup {u \in pendingUsers : u.id = r}
        /\ wallets' = wallets \cup (pendingWallets \cap {r})
    BY <1>4 DEF Commit, commit
  <2>2. users' = users \cup {NewUser(r)} /\ wallets' = wallets \cup {r}
    BY <2>1
  <2>. QED
    BY <2>1, <2>2
<1>5. CASE CommitUnacknowledged(r)
  <2>1. /\ r \in pendingWallets
        /\ NewUser(r) \in pendingUsers /\ NewUser(r).id = r
        /\ users' = users \cup {u \in pendingUsers : u.id = r}
        /\ wallets' = wallets \cup (pendingWallets \cap {r})
    BY <1>5 DEF CommitUnacknowledged, commit
  <2>2. users' = users \cup {NewUser(r)} /\ wallets' = wallets \cup {r}
    BY <2>1
  <2>. QED
    BY <2>1, <2>2
<1>6. CASE Refresh(r)
    BY <1>6 DEF Refresh, Answer, tableVars
<1>7. CASE Close(r)
    BY <1>7 DEF Close, rollback, Goto
<1>8. CASE Login(r)
    BY <1>8 DEF Login, Answer, tableVars
<1>9. CASE GetUser(r)
    BY <1>9 DEF GetUser, Answer, tableVars
<1>10. CASE DbError(r)
    BY <1>10 DEF DbError, Fail, tableVars
<1>11. CASE Crash(r)
    BY <1>11 DEF Crash, rollback, Goto
<1>. QED
    BY <1>1, <1>2, <1>3, <1>4, <1>5, <1>6, <1>7, <1>8, <1>9, <1>10, <1>11
       DEF Step, Environment

\* Only the action that ends a handler names a user, and it ends it with "ok".
LEMMA NamesStep ==
    ASSUME TypeOK, NamesAreAnswers, NEW r \in Request, Step(r) \/ Environment(r)
    PROVE  NamesAreAnswers'
<1>. USE DEF TypeOK, NamesAreAnswers
<1>1. \/ \E label : Goto(r, label)
      \/ \E exception : Fail(r, exception)
      \/ \E user : Answer(r, "ok", user)
      \/ \E outcome : Answer(r, outcome, NoUser)
    BY DEF Step, Environment, CheckEmail, InsertUser, InsertWallet, Commit,
           CommitUnacknowledged, Refresh, Close, Login, GetUser, DbError, Crash
<1>2. pc[r] # "done"
    BY DEF Step, Environment, CheckEmail, InsertUser, InsertWallet, Commit,
           CommitUnacknowledged, Refresh, Close, Login, GetUser, DbError, Crash
<1>3. answer[r] = NoUser
    BY <1>2
<1>4. ASSUME NEW label, Goto(r, label)
      PROVE  NamesAreAnswers'
    BY <1>3, <1>4 DEF Goto
<1>5. ASSUME NEW exception, Fail(r, exception)
      PROVE  NamesAreAnswers'
    BY <1>3, <1>5 DEF Fail
<1>6. ASSUME NEW user, Answer(r, "ok", user)
      PROVE  NamesAreAnswers'
    BY <1>6 DEF Answer
<1>7. ASSUME NEW outcome, Answer(r, outcome, NoUser)
      PROVE  NamesAreAnswers'
    BY <1>7 DEF Answer
<1>. QED
    BY <1>1, <1>4, <1>5, <1>6, <1>7

\* The account a token names is committed: get_user always finds it.
LEMMA TokensAreFound ==
    ASSUME TypeOK, NamesAreAnswers, AnswersAreTrue, NEW r \in Request, GetUser(r)
    PROVE  /\ Answer(r, "ok", body[r].token)
           /\ \E u \in users : u.id = body[r].token
<1>1. body[r] \in Body /\ body[r].kind = "me"
    BY DEF TypeOK, GetUser
<1>2. body[r].token \in Request
    BY <1>1, BodyFields
<1>3. PICK p \in Request : body[p].kind = "login" /\ answer[p] = body[r].token
    BY DEF GetUser
<1>4. answer[p] # NoUser
    BY <1>2, <1>3, NoUserAssumption
<1>5. pc[p] = "done" /\ status[p] = "ok"
    BY <1>4 DEF NamesAreAnswers
<1>6. [id |-> answer[p], email |-> body[p].email,
       password |-> body[p].password] \in users
    BY <1>3, <1>5 DEF AnswersAreTrue
<1>7. \E u \in users : u.id = body[r].token
    BY <1>3, <1>6
<1>. QED
    BY <1>7 DEF GetUser, WithId

\* What was true when it was answered stays true: no row is ever deleted.
LEMMA AnswerStep ==
    ASSUME TypeOK, FlushedOK, EmailsAreUnique, NamesAreAnswers, AnswersAreTrue,
           NEW r \in Request, Step(r) \/ Environment(r)
    PROVE  AnswersAreTrue'
<1>. USE DEF TypeOK, FlushedOK, Registering, EmailsAreUnique, AnswersAreTrue, NewUser
<1>1. CASE CheckEmail(r)
    BY <1>1 DEF CheckEmail, Answer, Goto, tableVars, WithEmail
<1>2. CASE InsertUser(r)
    BY <1>2 DEF InsertUser, Goto, Fail, WithEmail
<1>3. CASE InsertWallet(r)
    BY <1>3 DEF InsertWallet, Goto, WithEmail
<1>4. CASE Commit(r)
    BY <1>4 DEF Commit, commit, Goto, WithEmail
<1>5. CASE CommitUnacknowledged(r)
    BY <1>5 DEF CommitUnacknowledged, commit, Fail, WithEmail
<1>6. CASE Refresh(r)
    BY <1>6 DEF Refresh, Answer, tableVars, WithEmail
<1>7. CASE Close(r)
    BY <1>7 DEF Close, rollback, Goto, WithEmail
<1>8. CASE Login(r)
    BY <1>8 DEF Login, Answer, tableVars, WithEmail
<1>9. CASE GetUser(r)
  <2>1. /\ Answer(r, "ok", body[r].token)
        /\ \E u \in users : u.id = body[r].token
    BY <1>9, TokensAreFound
  <2>2. body[r].kind = "me" /\ UNCHANGED users
    BY <1>9 DEF GetUser, tableVars
  <2>. QED
    BY <2>1, <2>2 DEF Answer
<1>10. CASE DbError(r)
    BY <1>10 DEF DbError, Fail, tableVars, WithEmail
<1>11. CASE Crash(r)
    BY <1>11 DEF Crash, rollback, Goto, WithEmail
<1>. QED
    BY <1>1, <1>2, <1>3, <1>4, <1>5, <1>6, <1>7, <1>8, <1>9, <1>10, <1>11
       DEF Step, Environment

\* An email has one account, the account a committed wallet, and every answer is
\* true of the tables: the invariant behind UsersHaveWallets and AnswersAreTrue
\* holds at all times (register, login, get_user).
THEOREM AccountsAreConsistent == Spec => []IInv
<1>1. Init => IInv
    BY DEF Init, IInv, TypeOK, FlushedOK, Registering, EmailsAreUnique,
           UsersHaveWallets, NamesAreAnswers, AnswersAreTrue
<1>2. IInv /\ [Next]_vars => IInv'
  <2>. SUFFICES ASSUME IInv, [Next]_vars
                PROVE  IInv'
    OBVIOUS
  <2>1. ASSUME NEW r \in Request, Step(r) \/ Environment(r)
        PROVE  IInv'
    BY <2>1, TypeStep, FlushedStep, UniqueStep, WalletStep, NamesStep,
       AnswerStep DEF IInv
  <2>2. CASE UNCHANGED vars
    BY <2>2 DEF vars, requestVars, tableVars, IInv, TypeOK, FlushedOK,
           Registering, NewUser, EmailsAreUnique, UsersHaveWallets,
           NamesAreAnswers, AnswersAreTrue
  <2>. QED
    BY <2>1, <2>2 DEF Next
<1>. QED
    BY <1>1, <1>2, PTL DEF Spec

\* Neither table ever has a row without its counterpart, whatever fails between
\* the two INSERTs (register).
THEOREM UsersHaveTheirWallets == Spec => []UsersHaveWallets
BY AccountsAreConsistent, PTL DEF IInv

\* A 201, a token and a profile are of a committed account and stay so, a 409
\* means the email is taken, and the account a token names is always found, for
\* any requests and failures (register, login, get_user).
THEOREM AnswersStayTrue == Spec => []AnswersAreTrue
BY AccountsAreConsistent, PTL DEF IInv

\* Registration implements Accounts: with any number of registrations and
\* failures, a user and his wallet appear in one step, once per email.
THEOREM ImplementsAccounts == Spec => AccountSpec
<1>. DEFINE accounts == {u \in users : u.id \in wallets}
<1>1. Init => A!Init
    BY DEF Init, A!Init
<1>2. IInv /\ [Next]_vars => [A!Next]_accounts
  <2>. SUFFICES ASSUME IInv, [Next]_vars
                PROVE  A!Next \/ UNCHANGED accounts
    OBVIOUS
  <2>1. ASSUME NEW r \in Request, Commit(r) \/ CommitUnacknowledged(r)
        PROVE  A!Next
    <3>. DEFINE u == NewUser(r)
    <3>1. /\ r \in pendingWallets /\ u \in pendingUsers /\ u.id = r
          /\ \A v \in pendingUsers : v.id = r => v = u
      BY <2>1 DEF Commit, CommitUnacknowledged, IInv, FlushedOK, NewUser
    <3>2. users' = users \cup {u} /\ wallets' = wallets \cup {r}
      BY <2>1, <3>1 DEF Commit, CommitUnacknowledged, commit
    <3>3. \A v \in users : v.email # u.email
      <4>1. \A v \in users : pc[v.id] # "commit"
        BY DEF IInv, EmailsAreUnique
      <4>2. pc[r] = "commit"
        BY <2>1 DEF Commit, CommitUnacknowledged
      <4>. QED
        BY <3>1, <4>1, <4>2 DEF IInv, EmailsAreUnique
    <3>4. u \in User
      BY <3>1 DEF IInv, TypeOK
    <3>. HIDE DEF u
    <3>5. \A v \in users : v.id \in wallets
      BY DEF IInv, UsersHaveWallets
    <3>6. accounts' = accounts \cup {u}
      BY <3>1, <3>2, <3>5
    <3>. HIDE DEF accounts
    <3>7. \A v \in accounts : v.email # u.email
      BY <3>3 DEF accounts
    <3>. QED
      BY <3>4, <3>6, <3>7 DEF A!Next, A!Open, accounts
  <2>2. ASSUME NEW r \in Request, Step(r) \/ Environment(r),
               ~Commit(r), ~CommitUnacknowledged(r)
        PROVE  UNCHANGED accounts
    <3>1. UNCHANGED <<users, wallets>>
      BY <2>2 DEF Step, Environment, CheckEmail, InsertUser, InsertWallet,
                  Refresh, Close, rollback, Login, GetUser, DbError, Crash,
                  tableVars
    <3>. QED
      BY <3>1
  <2>3. CASE UNCHANGED vars
    BY <2>3 DEF vars, tableVars
  <2>. QED
    BY <2>1, <2>2, <2>3 DEF Next
<1>. QED
    BY <1>1, <1>2, AccountsAreConsistent, PTL DEF Spec, AccountSpec, A!Spec
===============================================================================
