SPECIFICATION FairSpec
CONSTANTS
    fifo = fifo
    mailbox = mailbox
    Swapchains = {fifo, mailbox}
    Threaded = {fifo}
    NumImages = 1
    MaxFailures = 1
INVARIANTS
    SubmissionsAreValid
PROPERTIES
    FencesAreSignalled
CHECK_DEADLOCK FALSE
