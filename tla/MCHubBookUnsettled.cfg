\* A crash leaves a match without its settlement.
SPECIFICATION FairSpec
CONSTANTS
    o1 = o1
    o2 = o2
    o3 = o3
    o4 = o4
    Offers <- MCTwo
    Price <- MCPrice
    Kwh <- MCKwh
    ValidUntil <- MCSomeLapse
    MaxTime = 1
    MaxDeliveries <- MCOnce
    MaxCrashes = 1
PROPERTIES
    EveryMatchGetsSettled
