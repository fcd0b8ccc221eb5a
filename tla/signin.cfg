\* Two tabs, two requests at a time, one address in two spellings and another.
CONSTANTS
    ann = ann  Ann = Ann  bob = bob  p1 = p1  p2 = p2  t1 = t1  t2 = t2
    k1 = k1  k2 = k2  k3 = k3
    NoPassword = NoPassword
    NoToken = NoToken  NoUser = NoUser  NoCall = NoCall
    Spellings = {ann, Ann, bob}
    Address <- SpelledTwice
    Passwords = {p1}
    Tabs = {t1, t2}
    Calls = {k1, k2}
    Faults = TRUE
SPECIFICATION Spec
INVARIANTS ScreenMatchesToken LoadingHasCause
PROPERTY OwnersGetIn
SYMMETRY Symmetry
