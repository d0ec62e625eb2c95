SPECIFICATION Spec
CONSTANTS
    w1 = w1
    w2 = w2
    w3 = w3
    ann = ann
    bob = bob
    Widgets = {w1, w2, w3}
    Start = {w1, w2}
    ListWidgets = {w2}
    Users = {ann}
    MaxDrags = 2
    MaxForeign = 2
    MaxOwn = 0
    MaxFails = 0
    MaxSessions = 1
INVARIANTS VersionsSound SavesHarmless SettledOrGap
