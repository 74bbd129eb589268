\* Three milestones and an end, two chunks to a percent.
SPECIFICATION UploadSpec
CONSTANTS
  Total = 16
  Full = 8
  Step = 2
  MaxUploads = 2
INVARIANTS
  
  AheadIsBounded
PROPERTIES
  UploadEnds
