SPECIFICATION FairSpec
CONSTANTS
    Request = {r1, r2, r3}
    Email = {e1, e2}
    Password = {p1, p2}
    NoUser = NoUser
    Faults = {"db", "crash"}
INVARIANTS
    UsersHaveWallets
    AnswersAreTrue
    IInv
PROPERTIES
    AccountSpec
    RegistrationEnds
CHECK_DEADLOCK FALSE
