\* Any clicks, any failures: nothing hangs.
CONSTANTS
    s1 = s1  s2 = s2  s3 = s3  q1 = q1  q2 = q2  c1 = c1  c2 = c2  c3 = c3
    NoSession = NoSession  NoText = NoText  NoCall = NoCall
    Sessions = {s1,s2}
    Questions = {q1}
    Calls = {c1,c2}
    MaxTurns = 2
    Faults = TRUE
SPECIFICATION FairSpec
PROPERTIES QuestionsResurface ButtonsComeBack LoadingEnds
