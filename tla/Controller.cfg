\* Two servers, two creates at once and ports for one server and a half; both
\* loops and a request for a backup.
SPECIFICATION FairSpec
CONSTANTS
    Name <- MCName
    Request = {r1, r2}
    MaxPort = 20002
    Manual = {m1}
    Keep = 1
    MaxUploads = 3
    Apart = TRUE
    Nil = Nil
INVARIANTS
    TypeOK
    ListensWherePublished
    OneHostPortPerGamePort
    NewestKept
    
PROPERTIES
    OldOnesGo
