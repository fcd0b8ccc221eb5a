\* One document and two requests, no failures, under the fairness of the event loop.
CONSTANTS
    d1 = d1  d2 = d2  c1 = c1  c2 = c2  c3 = c3  u1 = u1  u2 = u2
    r1 = r1  r2 = r2  r3 = r3
    NoDoc = NoDoc  NoCourse = NoCourse  Missing = Missing  Free = Free
    Docs = {d1}
    Courses = {c1}
    Users = {u1, u2}
    Requests = {r1, r2}
    Owner <- OwnerOneDoc
    Faults = {}
SPECIFICATION FairSpec
INVARIANTS FilesMatchRows NobodyAbandoned
PROPERTIES UploadSettles RequestsEnd
\* Ids are never reused, so the model may run out of them and stop.
CHECK_DEADLOCK FALSE
