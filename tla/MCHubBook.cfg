\* Safety with one crash and one redelivery of every offer.
SPECIFICATION Spec
CONSTANTS
    o1 = o1
    o2 = o2
    o3 = o3
    o4 = o4
    Offers <- MCFour
    Price <- MCPrice
    Kwh <- MCKwh
    ValidUntil <- MCSomeLapse
    MaxTime = 1
    MaxDeliveries <- MCTwiceFirst
    MaxCrashes = 1
INVARIANTS
    TypeOK
    SellerNeverBelowAsk
    SalesBounded
    UnsettledBounded
    SettlementsAgree
    MarginalNeverSold
PROPERTIES
    ExpiredNeverMatched
    ImplementsAuction
