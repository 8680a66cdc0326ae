\* Every configuration; three requests at a time, any number in all.
CONSTANTS
    Handlers = {h1, h2, h3}
    Startup = Startup
    None = None
SPECIFICATION FairSpec
INVARIANTS
    NoSpuriousFailure
    LeakIsBounded
PROPERTIES
    StaysConnected
    ClientSettles
CHECK_DEADLOCK FALSE
