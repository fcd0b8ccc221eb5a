\* Two courses, two requests at a time, two names and one optional column.
CONSTANTS
    c1 = c1  c2 = c2  c3 = c3  u1 = u1  u2 = u2  r1 = r1  r2 = r2
    n1 = n1  n2 = n2  t1 = t1
    None = None  Blank = Blank  Absent = Absent
    Courses = {c1, c2}
    Users = {u1, u2}
    Owner <- OwnerOfAll
    Requests = {r1, r2}
    Names = {n1, n2}
    Texts = {t1}
    Optional = {"code"}
SPECIFICATION Spec
INVARIANT NamesUnique
PROPERTIES OnlyAskedChanges AnswersWereTrue ImplementsBook
SYMMETRY Symmetry
\* Ids are never reused, so the model may run out of them and stop.
CHECK_DEADLOCK FALSE
