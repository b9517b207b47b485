\* Households, broker and hub; one crash or one absence.
SPECIFICATION SpecAll
CONSTANTS
    o1 = o1
    o3 = o3
    h1 = h1
    h2 = h2
    Offers <- MCOffers
    Homes <- MCHomes
    Home <- MCHome
    Price <- MCPrice
    Kwh <- MCKwh
    ValidUntil <- MCValid
    MaxTime = 1
    MaxDeliveries <- MCTwiceFirst
    MaxCrashes = 1
    MaxFaults = 1
INVARIANTS
    EveryKwhIsAccountedFor
PROPERTIES
    EveryOfferMeetsItsEnd
