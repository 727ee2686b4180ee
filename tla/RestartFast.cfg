SPECIFICATION RestSpec
CONSTANTS RJobs={j1} RWorkers={w1,w2} Steady={w2} FastRestart=TRUE Budget=2 MaxCrashes=1 MaxLosses=1

PROPERTY CrashedJobAnswered
CHECK_DEADLOCK FALSE
