SPECIFICATION Spec
CONSTANTS
    Transcript = {"own", "nightly"}
    JobRun = {"nightly"}
    Proc = {"worker", "cli"}
    Worker = "worker"
    Ring = 2
    Price = 4
    Caps = {0, 5, 8}
    Spends = {0, 4}
    Play <- LongRun
INVARIANT RunIsTheJobs
CHECK_DEADLOCK FALSE
