SPECIFICATION Spec
CONSTANTS
    c1 = c1
    c2 = c2
    c3 = c3
    Calls <- MCCalls
    Oversize <- MCOversize
    Large <- MCLarge
    None = None
    Reloader = Reloader
    MaxNoise = 1
    MaxCrashes = 1
    MaxFailures = 1
    MaxReloads = 1
INVARIANTS ExecutedAtMostOnce AnswersItsOwnCall
 
