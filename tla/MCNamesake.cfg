SPECIFICATION Spec
CONSTANTS
  Names = {"a"}
  Images = {"x", "z"}
  Secrets = {"s", "t"}
  Numbers = {"1", "2"}
  Specs <- MCNamesakeSpecs
  Offers <- MCNamesakeOffers
  NoView = NoView
  MaxEdits = 1
  MaxFaults = 0
  MaxFailing = 0
PROPERTIES AllowList
