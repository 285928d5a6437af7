SPECIFICATION FairSpec
CONSTANTS
    RamSize = 3
    Slack = 4
    PageLen = 2
    PageCount = 2
    Tags = {"t"}
    Requests <- MCRequests
    MaxJobs = 3

    
PROPERTIES
    Finishes
