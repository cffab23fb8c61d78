CONSTANTS
    a = a
    c1 = c1
    c2 = c2
    Courses = {c1, c2}
    Assignments = {a}
    CourseOf <- MCCourseOf
    CourseInfo <- MCCourseInfo
    Variants <- MCVariants
    Absent = absent
    AckKeys <- MCAckKeys
    AckDurations = {1}
    StaleGrace = 1
    DetailBudget = 1
    MaxTime = 2
    MaxCommands = 1
    MaxFaults = 1
SPECIFICATION FairSpec
INVARIANTS
    TypeOK
    MutedStaysMuted
PROPERTIES
    KeepsPromise
    StandingIssuesRecorded
    GoneIssuesResolved
