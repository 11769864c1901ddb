SPECIFICATION Spec
CONSTANTS
  cli = cli liv = liv adm = adm Tous = Tous Aucun = Aucun
  Personnes = {cli, liv, adm}
  Admins = {adm}
  Support = adm
  Livreur = liv
  Ecrans <- PagesDeTous
  Courriers <- Lettres
  Observes = {cli, adm}
  Prise = 1
  MaxMessages = 2
  MaxGestes = 2
INVARIANTS Participant FilFidele DiffusionPartout CompteurJuste LuMontre
CHECK_DEADLOCK FALSE
