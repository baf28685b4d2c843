SPECIFICATION Spec
CONSTANTS
  Absent = Absent
  Packs <- MCPacks
  Options <- MCOptions
  Supported <- MCSupported
INVARIANTS
  GreenMeansAgreement
  AgreementIsGreen
  ReportTellsTheSame
CHECK_DEADLOCK FALSE
