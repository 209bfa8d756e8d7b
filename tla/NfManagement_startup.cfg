SPECIFICATION StartupSpec
CONSTANTS
    NfIds = {}
    NfTypes = {}
    HealthyFor = 2
    ExpireAfter = 3
    MaxListed = 0
PROPERTY HeartbeatsFollowRegistration
CHECK_DEADLOCK FALSE
