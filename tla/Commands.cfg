\* Two processes on one keyring and one folder, two passwords.
SPECIFICATION CommandsFairSpec
CONSTANTS
    Process = {p1, p2}
    NoOne = NoOne
    Password = {pw1, pw2}
    ValidPassword = pw1
    NoPassword = NoPassword
INVARIANTS WorkerOwnsLock CommandHasPassword
PROPERTIES KeyringGuarded FailedCallerLetsGo CommandReturns
