\* The default delays, under the fairness of FairSpec.
SPECIFICATION FairSpec
CONSTANTS
    MaxListeners = 2
    OfflineDelay = 5
    RetryInterval = 5
    BackOnlineDuration = 2
    Off = Off
INVARIANTS
    TimersMatchStatus
    ListenersKnow
PROPERTIES
    BackOnline
    OfflineIsDebounced
