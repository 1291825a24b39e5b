CONSTANTS
  Thread = {t1, t2}
  Chan = {c1}
  Caps <- MCCaps
  Data = {d}
  MaxSent = 2
SPECIFICATION FairChanSpec
INVARIANT ExactlyOncePerSender
PROPERTIES NothingAfterEnd NothingAcceptedAfterGone ContractHolds BlockedCallsReleased
\* The receiver and all senders may be dropped: then nothing is left to do.
CHECK_DEADLOCK FALSE
