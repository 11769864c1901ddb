SPECIFICATION Spec
CONSTANTS
  p1 = p1 p2 = p2 r1 = r1 r2 = r2
  Produits = {p1, p2}
  Requetes = {r1}
  Connectes = {"compte"}
  Quantites = {1}
  MaxArticles = 2
  MaxPannes = 0
  FusionSeule = TRUE
PROPERTIES ConnexionFusionne
