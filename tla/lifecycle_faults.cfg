\* One document, two courses of its owner and a foreign one, two requests at a
\* time, every kind of failure at any step.
CONSTANTS
    d1 = d1  d2 = d2  c1 = c1  c2 = c2  c3 = c3  u1 = u1  u2 = u2
    r1 = r1  r2 = r2  r3 = r3
    NoDoc = NoDoc  NoCourse = NoCourse  Missing = Missing  Free = Free
    Docs = {d1}
    Courses = {c1, c2, c3}
    Users = {u1, u2}
    Requests = {r1, r2}
    Owner <- OwnerOneDoc
    Faults = {"crash", "db", "fs"}
SPECIFICATION Spec
INVARIANTS LinkIntegrity ReadyIsProcessed NoFileOutlivesRow
PROPERTY ImplementsStore
SYMMETRY RequestSymmetry
\* Ids are never reused, so the model may run out of them and stop.
CHECK_DEADLOCK FALSE
