CONSTANTS
    Receiver = {r1, r2}
    Sender = {s1}
    Client = {r1, r2, s1}
    Guest = {g1, g2}
    None = None
    OfferCap = 1
    SendCap = 1
    AnswerTimeout = 1
    AnswerTTL = 2
SPECIFICATION FairSpec
INVARIANTS WaiterHasCallback OldReceiverIdle
PROPERTIES OffersServed ClientEnds
CHECK_DEADLOCK FALSE
