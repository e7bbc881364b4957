CONSTANTS
  io1 = io1
  io2 = io2
  fq1 = fq1
  per = per
  Nothing = Nothing
  IoThreads <- OneIo
  Poppers <- OneFq
  Periodic = per
  PERIODICITY = 2
  MaxFiles = 3
  MaxDate = 2
  Columns <- MoreThenFewer
SPECIFICATION FairSpec
INVARIANTS
  TypeOK
  MappedWhileUsed
  FilesNotMixed
PROPERTIES
  ReloadedForYounger
  NewFileUsed
