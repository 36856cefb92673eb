\* One run of the tool against a device that answers every command.
SPECIFICATION FairSpec
CONSTANTS
  a = a
  Tool <- OneTool
  Files <- SomeFiles
  AddressModulus = 65536
  SeqModulus = 4
  Concurrent = FALSE
  Lossy = FALSE
CHECK_DEADLOCK FALSE
INVARIANTS TypeOK ResultTellsDelivery PassesAgree NoPhantomAcknowledgement ReadsItsAnswer
PROPERTIES RunEnds
