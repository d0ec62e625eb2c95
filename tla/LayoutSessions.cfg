SPECIFICATION Spec
CONSTANTS
    w1 = w1
    w2 = w2
    w3 = w3
    ann = ann
    bob = bob
    Widgets = {w1, w2}
    Start = {w1}
    ListWidgets = {}
    Users = {ann, bob}
    MaxDrags = 2
    MaxForeign = 0
    MaxOwn = 1
    MaxFails = 1
    MaxSessions = 2
INVARIANTS SessionsSettle
