SPECIFICATION FairSpec
CONSTANTS
    AttachmentReadyMaxAttempts = 2
    MaxStoredDeliveryEvents = 2
    ReportDays = 1
    MaxTime = 2
    MaxCalls = 2
    MaxTargets = 2
    MaxUnits = 2
    MaxSendRetries = 1
    DLQEnabled = TRUE
INVARIANTS InOrder SuccessComplete HandedOver CountersTrue ReportExact
PROPERTY CallReturns
CHECK_DEADLOCK FALSE
