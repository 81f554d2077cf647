CONSTANTS
    MaxId = 8
    MaxPos = 2
    Names = {x}
    BadName = BadName
    Urls = {blank, url}
    Blank = blank
    NoUrl = NoUrl
    Origin <- MCOrigin
    Keywords = {}
    Repaired = {5}
    GuidModes <- MCTitle
    MaxVersion = 3
SPECIFICATION FileSpec
INVARIANTS
    AgainIsFresh
