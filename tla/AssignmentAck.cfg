CONSTANTS
    a = a
    c1 = c1
    c2 = c2
    Courses = {c1, c2}
    Assignments = {a}
    CourseOf <- MCCourseOf
    CourseInfo <- MCCourseInfo
    Variants <- MCUnchanged
    Absent = absent
    AckKeys <- MCAckDelayed
    AckDurations = {1}
    StaleGrace = 1
    DetailBudget = 1
    MaxTime = 2
    MaxCommands = 1
    MaxFaults = 0
SPECIFICATION Spec
PROPERTIES
    AckSuppressesUntilExpiry
