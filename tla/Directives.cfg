SPECIFICATION Spec
CONSTANTS
  Entities <- MCEntities
  Percents = {30}
  Degrees = {20}
  MaxChanges = 2
INVARIANTS
  TypeOK
  MeansWhatWasSaid
  AdvertisedWorks
  ReportedIsAdvertised
  ConfirmedReported
