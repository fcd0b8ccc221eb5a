\* A PATCH that moves a document out of a course while the course is deleted.
CONSTANTS
    d1 = d1  d2 = d2  c1 = c1  c2 = c2  c3 = c3  u1 = u1  u2 = u2
    r1 = r1  r2 = r2  r3 = r3
    NoDoc = NoDoc  NoCourse = NoCourse  Missing = Missing  Free = Free
    Docs = {d1}
    Courses = {c1, c2}
    Users = {u1, u2}
    Requests = {r1, r2}
    Owner <- OwnerOneDoc
    Faults = {}
SPECIFICATION Spec
PROPERTY CloseUnfilesOnlyItsDocuments
\* Ids are never reused, so the model may run out of them and stop.
CHECK_DEADLOCK FALSE
