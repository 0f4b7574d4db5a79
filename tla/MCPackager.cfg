SPECIFICATION PackagerSpec
CONSTANTS
    Builds = {b1, b2}
    Projects <- MCProjects
    Requests <- MCRequests
    MaxFailures = 1
SYMMETRY MCSymmetry
  
PROPERTIES RemovedOnlyWhenReady
CHECK_DEADLOCK FALSE
