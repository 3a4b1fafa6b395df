SPECIFICATION FairSpec
CONSTANTS
  Names = {"a", "b"}
  Images = {"x", "y", "z"}
  Secrets = {"s", "t"}
  Numbers = {"1", "2"}
  Specs <- MCSpecs
  Offers <- MCOffers
  NoView = NoView
  MaxEdits = 3
  MaxFaults = 1
  MaxFailing = 1
INVARIANTS TypeOK CopiesFollowSources QuietIsSettled
PROPERTIES AllowList UsesAreKept KeepsAttention ContentsSettle
