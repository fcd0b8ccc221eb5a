\* Two courses, two documents, three clicks and any failures.
CONSTANTS
    a = a  b = b  d = d  e = e  n1 = n1  n2 = n2  k1 = k1  k2 = k2  k3 = k3
    NoCourse = NoCourse  None = None  Unborn = Unborn  Gone = Gone
    Course = {a, b}
    Doc = {d, e}
    Name = {n1, n2}
    Call = {k1, k2, k3}
    MaxClicks = 3
SPECIFICATION FirstRows
INVARIANTS TypeOK FlagsTellTheTruth LoadersEnd QuietPagesAreCurrent
PROPERTIES FilterLoadsAreCurrent DialogClosesWhenGone
SYMMETRY Symmetry
VIEW Apparent
\* The clicks are bounded, and pages at rest wait for one.
CHECK_DEADLOCK FALSE
