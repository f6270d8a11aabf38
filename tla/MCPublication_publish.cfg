SPECIFICATION Spec
CONSTANTS
    cut = cut
    recut = recut
    talk = talk
    NoContent = NoContent
    NoPackage = NoPackage
    Idle = Idle
    NoNote = NoNote
    Open = Open
    LastDay = 1
    Packages = {k1}
    Postings = {p1}
    Contents = {cut, recut}
    Sources = {talk}
    Connections = {c1, c2}
    MaxEdits = 1
    Offers <- MCOffers
    SourcesOf <- MCSourcesOf
    Recordable <- MCRecordable
SYMMETRY Perms
CHECK_DEADLOCK FALSE
INVARIANTS
    StampsWereReviewed
    LiveCanBeFound
    CarriesWhatWasApproved
    ProviderHasWhatWasCleared
