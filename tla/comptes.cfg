SPECIFICATION FairSpec
CONSTANTS
  e1 = e1 r1 = r1 r2 = r2
  Comptes = {e1}
  Requetes = {r1, r2}
  MaxJetons = 1
  MaxPannes = 1
INVARIANTS Inductif SuspensionFidele VerifieParLien
PROPERTIES ChangementComplet RoleConverge
