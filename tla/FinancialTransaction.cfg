SPECIFICATION FairSpec
CONSTANTS
    mutation = mutation
    reading = reading
    foreign = foreign
    dana = dana
    noa = noa
    Requests = {mutation, reading, foreign}
    Owners = {dana, noa}
    OwnerOf <- MCOwnerOf
    Mutations = {mutation, foreign}
    NoRequest = NoRequest
    MaxWrites = 1
    MaxCrashes = 1
INVARIANTS
    BooksAreCommittedRequests
    EffectsFollowCommit
PROPERTIES
    TakesEffectAtomically
    EveryRequestEnds
