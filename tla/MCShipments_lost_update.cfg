CONSTANTS
    ShipmentIds = {s1}
    Names = {n1, n2}
    NoName = NoName
    None = None
    ValueIds = {}
    Tabs = {t1, t2}
    Admins = {}
    MaxStamp = 3
    MaxRenames = 0
    MaxRequestKills = 0
SPECIFICATION ShipmentsSpec
INVARIANT SavesReplaceWhatWasShown
CHECK_DEADLOCK FALSE
