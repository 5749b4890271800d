SPECIFICATION FairSpec
CONSTANTS
    u1 = u1
    u2 = u2
    Events = {1, 2}
    Users = {u1, u2}
    Recipients <- MCRecipients
    Workers = {w1, w2}
    BatchLimit = 2
    MaxFaults = 2
INVARIANTS
    PublishedReachedEveryone
PROPERTIES
    OnlyLapsedEventsAreClaimed
    
    EveryEventIsPublished
    DeliverySpec
