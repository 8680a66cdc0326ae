\* Two calls of the HTTP helper over two configurations; an 8-bit int.
CONSTANTS
    Calls = {k1, k2}
    Configs = {c1, c2}
    Byte = {"a", "l2", "l3", "c"}
    Width <- MCWidth
    Texts <- MCTexts
    Tags <- MCTags
    MaxFacets = 2
    Char = {"a", "b", "A", "B", "1", " ", ",", "asc", "desc"}
    Lower = {"a", "b", "asc", "desc"}
    Digits = {"1"}
    LowerOf <- MCLowerOf
    Sortable <- MCSortable
    Orders <- MCOrders
    Pages <- MCPages
    MaxInt = 127
SPECIFICATION Spec
INVARIANTS
    HttpTypeOK
    SuccessIsReal
    SentAsAsked
    AnsweredOnce
    NamelessOnlyIfSent
    EnvelopeAgrees
    FacetOnCharacters
    SortIsSafe
    PagesTile
PROPERTY TimedCallsEnd
CHECK_DEADLOCK FALSE
