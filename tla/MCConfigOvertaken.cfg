SPECIFICATION Spec
CONSTANTS
    Users = {u1, u2}
    NoUser = NoUser
    Factory = Factory
    NoRow = NoRow
    MaxEvents = 2
    MaxSwitches = 1
    MaxFailures = 1
    MaxHaste = 1
INVARIANTS RowsAreOwn
