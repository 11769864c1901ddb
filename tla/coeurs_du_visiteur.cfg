SPECIFICATION SpecAchats
CONSTANTS
  Produits = {p1}
  MaxQuantite = 2
  MaxAppels = 3
  MaxFautes = 1
INVARIANTS CoeurPourTous
