CONSTANTS
  Aucun = Aucun
  Categories = {c1, c2}
  Produits = {p1, p2}
  Annonces = {a1, a2, a3}
  Images = {i1, i2}
  Stocks = {1}
  Volets = {"annonces", "produits", "inventaire", "accueil", "tableau", "prix", "document", "profil"}
  Recherches = {q1}
  Commandes = {o1, o2}
  Creneaux = {r1, r2}
  MaxGestes <- GestesParPage
  MaxVentes = 1
  MaxTemps = 3
  Articles = {p1, p2}
  Prix = {0, 12340}
  Anciennes <- Commandees
  MaxQuantite = 2
  MaxActes = 7
  Noms = {n1, n2}
  Contacts = {t1, t2}
  Secrets = {s1, s2}
  Appels = {b1, b2}
  MaxSaisies = 4
  MaxPannes = 1
  Personne = Personne
SPECIFICATION FairGestion
INVARIANTS CatalogueCoherent StockCompte ChoixGardes FactureJuste LettresJustes DansLaPage ProfilJuste FiltresFideles StatsJustes
PROPERTIES BanniereTourne NomConverge
CHECK_DEADLOCK FALSE
