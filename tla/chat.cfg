\* One session, one document and two turns; crashes and database errors; fair.
CONSTANTS
    d1 = d1  d2 = d2  s1 = s1  s2 = s2  t1 = t1  t2 = t2  u1 = u1
    NoDoc = NoDoc  NoSession = NoSession
    Docs = {d1}
    Sessions = {s1}
    Turns = {t1, t2}
    Owner <- OneOwner
    Faults = {"crash", "db"}
SPECIFICATION FairSpec
INVARIANTS TurnsComplete RowsResolve
PROPERTIES ImplementsConversation QuestionsEnd DeletionsEnd
\* Ids are never reused, so the model may run out of them and stop.
CHECK_DEADLOCK FALSE
