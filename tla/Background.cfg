CONSTANTS
    JobIds = {1}
    Slots = {1, 2}
    Queue = "inventory-management"
    JobAttempts = 3
    MaxStalledCount = 2
    MaxJobFaults = 3
    NoteJobs = {1, 2}
    JobData <- mcJobData
    Mailers = {1, 2}
    NoteAttempts = 3
    NoteStalls = 2
    MaxNoteFaults = 3
    Numbers = {1, 2}
    SmsSenders = {1, 2}
    SmsPerMinute = 2
    Expiring = {1, 2}
    MaxSweepErrors = 2
    MaxStops = 2
SPECIFICATION BackgroundSpec
INVARIANTS  MailsAreOnRecord SmsLimitHolds
PROPERTIES QueuedWorkEnds SchedulerServes
CHECK_DEADLOCK FALSE
