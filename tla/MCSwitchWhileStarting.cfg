SPECIFICATION FairSpec
CONSTANTS
    Users = {u1, u2}
    NoUser = NoUser
    Factory = Factory
    NoRow = NoRow
    MaxEvents = 1
    MaxSwitches = 1
    MaxFailures = 0
    MaxHaste = 1
PROPERTIES SwitchIsFollowed
