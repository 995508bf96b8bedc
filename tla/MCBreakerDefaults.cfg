SPECIFICATION BreakerSpec
CONSTANTS
    BreakerConfigs <- MCDefaults
    ClockValues = 4
    MaxOutstanding = 3
PROPERTIES BreakerRecovers
