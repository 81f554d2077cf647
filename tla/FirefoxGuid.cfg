CONSTANTS
    MaxId = 9
    MaxPos = 3
    Names = {x, y}
    BadName = BadName
    Urls = {blank, url}
    Blank = blank
    NoUrl = NoUrl
    Origin <- MCOrigin
    Keywords = {k}
    Repaired = {5}
    GuidModes <- MCBoth
SPECIFICATION Spec
PROPERTIES
    RequestsReturn
