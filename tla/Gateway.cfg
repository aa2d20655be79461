\* Five webhooks of messages that some of them share, each sent up to three times.
SPECIFICATION FairSpec
CONSTANTS
  i1 = i1
  i2 = i2
  i3 = i3
  i4 = i4
  i5 = i5
  i6 = i6
  e1 = e1
  e2 = e2
  NoId = NoId
  Items = {i1, i2, i3, i4, i5, i6}
  Ids = {e1, e2}
  Webhooks = {"batch", "again", "poisoned", "nameless", "handshake"}
  Batches = {"batch", "poisoned", "nameless", "handshake"}
  Body <- Bodies
  MaxSends = 3
  MaxFailures = 2
INVARIANTS
  TypeOK
  RepliesAreTheirOwn
  OneRunPerMessage
  AcknowledgedIsAnswered
PROPERTY CleanWebhooksSettle
