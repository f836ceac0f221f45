SPECIFICATION LiveSpec
CONSTANTS
    Sessions = {s1, s2}
    MaxStates = 3
INVARIANTS StatesSound FailuresKeepSubscribers
PROPERTIES RestoreCovers SubscribersAnswered
