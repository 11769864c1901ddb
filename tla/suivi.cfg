SPECIFICATION SpecCaisse
CONSTANTS
  c1 = c1 u1 = u1 l1 = l1 adm = adm p1 = p1 o1 = o1 o2 = o2 r1 = r1 r2 = r2
  a1 = a1 Aucun = Aucun
  Commandes = {c1}
  Clients = {u1}
  Verifies = {u1}
  Livreurs = {l1}
  Admins = {adm}
  Produits = {p1}
  Ordres = {o1, o2}
  Requetes = {r1, r2}
  Methodes = {"EN_LIGNE", "A_LA_LIVRAISON"}
  Adresses = {a1}
  Quantites = {}
  Reassorts = {}
  PanierInitial <- UneLigne
  ProduitInitial <- StockUn
  MaxPannes = 1
  MaxRestitutions = 0
  MaxClics <- MaximumClics
  Recharge = FALSE
SYMMETRY Symetrie
INVARIANTS BoutonAccepte GestesRendus SuiviFidele PagesVraies
CHECK_DEADLOCK FALSE
