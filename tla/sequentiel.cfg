SPECIFICATION Spec
CONSTANTS
  c1 = c1 c2 = c2 u1 = u1 l1 = l1 adm = adm p1 = p1 p2 = p2 o1 = o1 o2 = o2
  r1 = r1 r2 = r2 a1 = a1 a2 = a2 Aucun = Aucun
  Commandes = {c1, c2}
  Clients = {u1}
  Verifies = {u1}
  Livreurs = {l1}
  Admins = {adm}
  Produits = {p1}
  Ordres = {o1, o2}
  Requetes = {r1}
  Methodes = {"EN_LIGNE", "A_LA_LIVRAISON"}
  Adresses = {a1}
  Quantites = {1, 2}
  Reassorts <- Reassort
  PanierInitial <- UneLigne
  ProduitInitial <- StockDeux
  MaxPannes = 0
  MaxRestitutions = 0
SYMMETRY Symetrie
INVARIANTS StockJuste UneSeuleFois
CHECK_DEADLOCK FALSE
