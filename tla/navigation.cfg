SPECIFICATION FairNavigation
CONSTANTS
  Roles = {"admin", "client"}
  MaxPannes = 1
  MaxRoles = 1
INVARIANTS PasDePlantage SessionJuste
PROPERTIES SessionMorteFermee
