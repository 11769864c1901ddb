---------------------------- MODULE AchatsPreuves ----------------------------
(***************************************************************************)
(* The hearts, the page of the cart and the badge show the tables at rest, *)
(* for any number of products, calls, failures and tokens that expire.  The *)
(* properties are about a tab at rest; the invariants say what each call on *)
(* its way will make of what is shown, for the products and components that *)
(* are not in doubt: CoeursJustes of the hearts, BadgeJuste and PageJuste of*)
(* the cart.  Once the token of its listener has expired the badge is no    *)
(* more known to be right, and the page shows the cart or an error.         *)
(***************************************************************************)
EXTENDS Achats, FiniteSetTheorems, WellFoundedInduction, TLAPS

Issues == {"rien", "ok", "409", "404", "400", "echec"}

\* A call; its number is of no use here.
Forme(a) ==
  a \in [n : {a.n}, type : Types, de : Proprietaires, p : Produits, q : Nat,
         pour : BOOLEAN, recu : Issues, vu : SUBSET Produits,
         lu : [Produits -> Quantites], avant : BOOLEAN]

\* The quantity it asks for.
Mesure(a) ==
  /\ a.type = "ajouter" => a.q = 1
  /\ a.type \in {"quantite", "retirer"} => a.q \in Quantites

\* Once the session is there, or when there is none to come, the tab calls the
\* API as its owner.
Session ==
  /\ statut # "loading" => (statut = "client" <=> connecte)
  /\ (statut # "loading" \/ ~connecte) => apiBadge = Proprietaire

\* The tokens that have expired: the badge's first.
Jetons ==
  /\ perimes \subseteq Cibles
  /\ perimes # {} => statut = "client" /\ "badge" \in perimes

Formes ==
  /\ volet \in {"coeurs", "panier"}
  /\ favoris \in [Proprietaires -> SUBSET Produits]
  /\ panier \in [Proprietaires -> [Produits -> Quantites]]
  /\ connecte \in BOOLEAN
  /\ statut \in {"loading", "visiteur", "client"} /\ ecran \in Ecrans
  /\ apiPage \in Proprietaires /\ apiBadge \in Proprietaires
  /\ coeurs \subseteq Produits
  /\ page \in {Rien, Erreur} \/ page \in [Produits -> Quantites]
  /\ badge \in 0..(MaxQuantite * Cardinality(Produits))
  /\ \A a \in appels : Forme(a) /\ Mesure(a)
  /\ douteCoeur \subseteq Produits /\ douteCible \subseteq Cibles
  /\ EnRoute("page") # {} => ecran = "panier"
  /\ Session /\ Jetons

\* The calls about the heart of p.
Clics(p) == {a \in appels : a.type \in Bascules /\ a.p = p}

\* One product.  Its list is the owner's and, once read, is right.  A click that
\* came before the list is in it.  A click that came after the list changes the
\* table into what is shown, or is taken back.
CoeurJuste(p) ==
  /\ \A a, b \in Clics(p) : a = b
  /\ \A a \in Clics(p) : /\ a.pour /\ a.de = Proprietaire
                         /\ ecran = "catalogue" /\ a.recu \notin {"404", "400"}
  /\ \A l \in EnRoute("coeurs") :
       /\ l.de = Proprietaire /\ l.recu \in {"rien", "ok"}
       /\ l.recu = "ok" => (p \in l.vu <=> p \in favoris[Proprietaire])
  /\ EnRoute("coeurs") # {} =>
       \A a \in Clics(p) : a.avant /\ a.recu \in {"rien", "ok", "409"}
  /\ EnRoute("coeurs") = {} /\ ecran = "catalogue" =>
       /\ Clics(p) = {} => (p \in coeurs <=> p \in favoris[Proprietaire])
       /\ \A a \in Clics(p) :
            /\ a.recu \in {"ok", "409"} =>
                 (p \in coeurs <=> p \in favoris[Proprietaire])
            /\ a.recu \notin {"ok", "409"} =>
                 /\ p \in coeurs <=> a.type = "POST favori"
                 /\ p \in favoris[Proprietaire] <=> a.type = "DELETE favori"

CoeursJustes ==
  volet = "coeurs" => \A p \in Produits \ douteCoeur : CoeurJuste(p)

\* A change of the cart that nobody waits for may still come: both are in doubt.
OublisSus ==
  (\E a \in EnAttente(Ecritures) : ~a.pour) => douteCible = Cibles

\* Changes of the cart that were made and will be followed by the event.
Suites == {a \in appels : a.type \in Ecritures /\ a.pour /\ a.recu = "ok"}

\* What a call for c may have been answered.
Reponses(c) == {"rien", "ok"} \cup (IF c \in perimes THEN {"400"} ELSE {})

\* The calls for c are the owner's; once read they are right, unless the event
\* is to come.
AppelsJustes(c) ==
  \A g \in EnRoute(c) :
    /\ g.de = Proprietaire /\ g.recu \in Reponses(c)
    /\ Suites = {} /\ g.recu = "ok" => g.lu = panier[Proprietaire]

\* What is shown for c is the cart, when nothing on its way will change it; or,
\* once the token of the page has expired, an error.
Montre(c) ==
  IF c = "badge" THEN badge = TotalDe(panier[Proprietaire])
                 ELSE statut # "loading" => \/ page = panier[Proprietaire]
                                            \/ page = Erreur /\ c \in perimes

\* The page shows an error because the token of its listener expired.
ErreurSue(c) == c = "page" /\ page = Erreur => c \in perimes

CibleJuste(c) ==
  /\ AppelsJustes(c) /\ ErreurSue(c)
  /\ Suites = {} /\ EnRoute(c) = {} => Montre(c)

BadgeSur ==
  /\ volet = "panier" /\ "badge" \notin douteCible \cup perimes
  /\ statut # "loading" \/ ~connecte

PageSure == volet = "panier" /\ "page" \notin douteCible /\ ecran = "panier"

BadgeJuste == BadgeSur => CibleJuste("badge")
PageJuste == PageSure => apiPage = Proprietaire /\ CibleJuste("page")

Inductif == Formes /\ CoeursJustes /\ OublisSus /\ BadgeJuste /\ PageJuste

----------------------------------------------------------------------------
(* The total of a cart.                                                    *)

\* The sum over a set of products, one after the other.
Marche(v, g) ==
  [s \in SUBSET Produits |->
     IF s = {} THEN 0
     ELSE v[CHOOSE x \in s : TRUE] + g[s \ {CHOOSE x \in s : TRUE}]]

\* Sets of products without one of them.
LEMMA MoinsUn ==
  ASSUME NEW s \in SUBSET Produits
  PROVE  /\ IsFiniteSet(s) /\ Cardinality(s) \in Nat
         /\ Cardinality(s) <= Cardinality(Produits)
         /\ s = {} <=> Cardinality(s) = 0
         /\ s # {} =>
              /\ (CHOOSE x \in s : TRUE) \in s
              /\ s \ {CHOOSE x \in s : TRUE} \in SUBSET Produits
              /\ Cardinality(s \ {CHOOSE x \in s : TRUE}) \in Nat
              /\ Cardinality(s \ {CHOOSE x \in s : TRUE}) = Cardinality(s) - 1
<1>1. IsFiniteSet(Produits)
  BY AchatsAssumption
<1>2. IsFiniteSet(s) /\ Cardinality(s) <= Cardinality(Produits)
  BY <1>1, FS_Subset
<1>3. Cardinality(s) \in Nat
  BY <1>2, FS_CardinalityType
<1>4. s = {} => Cardinality(s) = 0
  BY FS_EmptySet
<1>5. ASSUME s # {}
      PROVE  /\ (CHOOSE x \in s : TRUE) \in s
             /\ s \ {CHOOSE x \in s : TRUE} \in SUBSET Produits
             /\ Cardinality(s \ {CHOOSE x \in s : TRUE}) \in Nat
             /\ Cardinality(s \ {CHOOSE x \in s : TRUE}) = Cardinality(s) - 1
  <2>1. PICK c : c = CHOOSE x \in s : TRUE
    OBVIOUS
  <2>2. c \in s
    BY <1>5, <2>1
  <2>3. Cardinality(s \ {c}) = Cardinality(s) - 1
    BY <1>2, <2>2, FS_RemoveElement
  <2>4. IsFiniteSet(s \ {c})
    BY <1>2, FS_Subset
  <2>5. Cardinality(s \ {c}) \in Nat
    BY <2>4, FS_CardinalityType
  <2> QED
    BY <2>1, <2>2, <2>3, <2>5
<1>6. s # {} => Cardinality(s) # 0
  <2> SUFFICES ASSUME s # {}, Cardinality(s) = 0
               PROVE  FALSE
    OBVIOUS
  <2>1. PICK c : c = Cardinality(s \ {CHOOSE x \in s : TRUE})
    OBVIOUS
  <2>2. c \in Nat /\ c = 0 - 1
    BY <1>5, <2>1
  <2> QED
    BY <2>2
<1> QED
  BY <1>2, <1>3, <1>4, <1>5, <1>6

\* The sums exist.
LEMMA SommeExiste ==
  ASSUME NEW v \in [Produits -> Nat]
  PROVE  \E g : g = Marche(v, g)
<1> DEFINE Somme(n, g) ==
             /\ g \in [SUBSET Produits -> Nat]
             /\ \A s \in SUBSET Produits : Cardinality(s) <= n =>
                  g[s] = Marche(v, g)[s]
           Mal == {n \in Nat : ~\E g : Somme(n, g)}
<1>1. \E g : Somme(0, g)
  <2> DEFINE z == [s \in SUBSET Produits |-> 0]
  <2>1. \A s \in SUBSET Produits : Cardinality(s) <= 0 => z[s] = Marche(v, z)[s]
    <3> SUFFICES ASSUME NEW s \in SUBSET Produits, Cardinality(s) <= 0
                 PROVE  s = {}
      BY DEF Marche
    <3>1. Cardinality(s) \in Nat /\ (s = {} <=> Cardinality(s) = 0)
      BY MoinsUn
    <3> QED
      BY <3>1
  <2>2. Somme(0, z)
    BY <2>1
  <2> QED
    BY <2>2
<1>2. ASSUME NEW n \in Nat, NEW g, Somme(n, g)
      PROVE  \E h : Somme(n + 1, h)
  <2> DEFINE h == [s \in SUBSET Produits |->
                     IF Cardinality(s) <= n THEN g[s] ELSE Marche(v, g)[s]]
  <2>1. \A s \in SUBSET Produits : Marche(v, g)[s] \in Nat
    <3> SUFFICES ASSUME NEW s \in SUBSET Produits
                 PROVE  Marche(v, g)[s] \in Nat
      OBVIOUS
    <3>1. CASE s = {}
      BY <3>1 DEF Marche
    <3>2. CASE s # {}
      <4>1. PICK c : c = CHOOSE x \in s : TRUE
        OBVIOUS
      <4>2. c \in s /\ s \ {c} \in SUBSET Produits
        BY <3>2, <4>1, MoinsUn
      <4>3. Marche(v, g)[s] = v[c] + g[s \ {c}]
        BY <3>2, <4>1 DEF Marche
      <4>4. v[c] \in Nat /\ g[s \ {c}] \in Nat
        BY <1>2, <4>2
      <4> QED
        BY <4>3, <4>4
    <3> QED
      BY <3>1, <3>2
  <2>2. h \in [SUBSET Produits -> Nat]
    BY <1>2, <2>1
  <2>3. ASSUME NEW s \in SUBSET Produits, Cardinality(s) <= n + 1
        PROVE  h[s] = Marche(v, h)[s]
    <3>1. h[s] = Marche(v, g)[s]
      BY <1>2
    <3>2. CASE s = {}
      BY <3>1, <3>2 DEF Marche
    <3>3. CASE s # {}
      <4>1. PICK c : c = CHOOSE x \in s : TRUE
        OBVIOUS
      <4>2. /\ s \ {c} \in SUBSET Produits
            /\ Cardinality(s) \in Nat
            /\ Cardinality(s \ {c}) = Cardinality(s) - 1
        BY <3>3, <4>1, MoinsUn
      <4>3. Cardinality(s \ {c}) <= n
        BY <2>3, <4>2
      <4>4. h[s \ {c}] = g[s \ {c}]
        BY <4>2, <4>3
      <4>5. Marche(v, g)[s] = v[c] + g[s \ {c}]
        BY <3>3, <4>1 DEF Marche
      <4> HIDE DEF h
      <4>6. Marche(v, h)[s] = v[c] + h[s \ {c}]
        BY <3>3, <4>1 DEF Marche
      <4> QED
        BY <3>1, <4>4, <4>5, <4>6
    <3> QED
      BY <3>2, <3>3
  <2> QED
    BY <2>2, <2>3
<1>3. Mal = {}
  <2> SUFFICES ASSUME Mal # {}
               PROVE  FALSE
    OBVIOUS
  <2>1. PICK n \in Mal : \A k \in Mal : ~(<<k, n>> \in OpToRel(<, Nat))
    <3>1. Mal \subseteq Nat
      OBVIOUS
    <3> HIDE DEF Mal
    <3> QED
      BY <3>1, NatLessThanWellFounded, WFMin
  <2>2. \A k \in Mal : ~(k < n)
    BY <2>1 DEF OpToRel
  <2>3. n \in Nat /\ ~\E g : Somme(n, g)
    OBVIOUS
  <2> HIDE DEF Somme
  <2>4. n # 0
    BY <1>1, <2>3
  <2>5. n - 1 \in Nat /\ n - 1 < n
    BY <2>3, <2>4
  <2>6. \E g : Somme(n - 1, g)
    BY <2>2, <2>5
  <2>7. \E h : Somme((n - 1) + 1, h)
    BY <1>2, <2>5, <2>6
  <2>8. (n - 1) + 1 = n
    BY <2>3
  <2> QED
    BY <2>3, <2>7, <2>8
<1>4. Cardinality(Produits) \in Nat
  BY AchatsAssumption, FS_CardinalityType
<1>5. PICK g : Somme(Cardinality(Produits), g)
  BY <1>3, <1>4
<1>6. g = Marche(v, g)
  <2>1. \A s \in SUBSET Produits : g[s] = Marche(v, g)[s]
    BY <1>5, MoinsUn
  <2>2. g = [s \in SUBSET Produits |-> g[s]]
    BY <1>5
  <2>3. Marche(v, g) = [s \in SUBSET Produits |-> Marche(v, g)[s]]
    BY DEF Marche
  <2> QED
    BY <2>1, <2>2, <2>3
<1> QED
  BY <1>6

\* A sum is at most as many times the greatest quantity as it has terms.
LEMMA SommeBornee ==
  ASSUME NEW v \in [Produits -> Quantites], NEW g, g = Marche(v, g)
  PROVE  g[Produits] \in 0..(MaxQuantite * Cardinality(Produits))
<1> USE AchatsAssumption
<1> DEFINE Bornee(n) == \A s \in SUBSET Produits : Cardinality(s) <= n =>
             g[s] \in 0..(MaxQuantite * Cardinality(s))
           Mal == {n \in Nat : ~Bornee(n)}
<1>1. \A s \in SUBSET Produits : s = {} => g[s] = 0
  BY DEF Marche
<1>2. Bornee(0)
  <2> SUFFICES ASSUME NEW s \in SUBSET Produits, Cardinality(s) <= 0
               PROVE  g[s] \in 0..(MaxQuantite * Cardinality(s))
    OBVIOUS
  <2>1. s = {} /\ Cardinality(s) = 0
    <3>1. Cardinality(s) \in Nat /\ (s = {} <=> Cardinality(s) = 0)
      BY MoinsUn
    <3> QED
      BY <3>1
  <2>2. MaxQuantite * 0 = 0
    OBVIOUS
  <2> QED
    BY <1>1, <2>1, <2>2
<1>3. ASSUME NEW n \in Nat, Bornee(n)
      PROVE  Bornee(n + 1)
  <2> SUFFICES ASSUME NEW s \in SUBSET Produits, Cardinality(s) <= n + 1
               PROVE  g[s] \in 0..(MaxQuantite * Cardinality(s))
    OBVIOUS
  <2>1. CASE s = {}
    BY <1>2, <2>1, FS_EmptySet
  <2>2. CASE s # {}
    <3>1. PICK c : c = CHOOSE x \in s : TRUE
      OBVIOUS
    <3>2. /\ c \in s /\ s \ {c} \in SUBSET Produits
          /\ Cardinality(s) \in Nat
          /\ Cardinality(s \ {c}) \in Nat
          /\ Cardinality(s \ {c}) = Cardinality(s) - 1
      BY <2>2, <3>1, MoinsUn
    <3>3. g[s] = v[c] + g[s \ {c}]
      BY <2>2, <3>1 DEF Marche
    <3>4. PICK m \in Nat : m = Cardinality(s \ {c})
      BY <3>2
    <3>5. Cardinality(s) = m + 1 /\ m <= n
      BY <3>2, <3>4
    <3>6. g[s \ {c}] \in 0..(MaxQuantite * m)
      BY <1>3, <3>2, <3>4, <3>5
    <3>7. v[c] \in 0..MaxQuantite
      BY <3>2 DEF Quantites
    <3>8. MaxQuantite * (m + 1) = MaxQuantite * m + MaxQuantite
      OBVIOUS
    <3>9. MaxQuantite * m \in Nat
      OBVIOUS
    <3>10. v[c] + g[s \ {c}] \in 0..(MaxQuantite * m + MaxQuantite)
      BY <3>6, <3>7, <3>9
    <3> QED
      BY <3>3, <3>5, <3>8, <3>10
  <2> QED
    BY <2>1, <2>2
<1>4. Mal = {}
  <2> SUFFICES ASSUME Mal # {}
               PROVE  FALSE
    OBVIOUS
  <2>1. PICK n \in Mal : \A k \in Mal : ~(<<k, n>> \in OpToRel(<, Nat))
    <3>1. Mal \subseteq Nat
      OBVIOUS
    <3> HIDE DEF Mal
    <3> QED
      BY <3>1, NatLessThanWellFounded, WFMin
  <2>2. \A k \in Mal : ~(k < n)
    BY <2>1 DEF OpToRel
  <2>3. n \in Nat /\ ~Bornee(n)
    OBVIOUS
  <2> HIDE DEF Bornee
  <2>4. n # 0
    BY <1>2, <2>3
  <2>5. n - 1 \in Nat /\ n - 1 < n
    BY <2>3, <2>4
  <2>6. Bornee(n - 1)
    BY <2>2, <2>5
  <2>7. Bornee((n - 1) + 1)
    BY <1>3, <2>5, <2>6
  <2>8. (n - 1) + 1 = n
    BY <2>3
  <2> QED
    BY <2>3, <2>7, <2>8
<1>5. Cardinality(Produits) \in Nat
  BY FS_CardinalityType
<1> QED
  BY <1>4, <1>5

\* What the badge can show.
LEMMA TotalBorne ==
  ASSUME NEW v \in [Produits -> Quantites]
  PROVE  TotalDe(v) \in 0..(MaxQuantite * Cardinality(Produits))
<1> DEFINE g == CHOOSE h : h = Marche(v, h)
<1>1. TotalDe(v) = g[Produits]
  BY DEF TotalDe, Marche, MapThenSumSet, MapThenFoldSet
<1>2. v \in [Produits -> Nat]
  BY AchatsAssumption DEF Quantites
<1>3. \E h : h = Marche(v, h)
  BY <1>2, SommeExiste
<1>4. g = Marche(v, g)
  BY <1>3
<1> HIDE DEF g
<1> QED
  BY <1>1, <1>4, SommeBornee

----------------------------------------------------------------------------
(* The calls.                                                              *)

\* The same call, waited for or not.
Meme(a, b) ==
  /\ b.type = a.type /\ b.de = a.de /\ b.p = a.p /\ b.q = a.q
  /\ b.recu = a.recu /\ b.vu = a.vu /\ b.lu = a.lu /\ b.avant = a.avant

\* b is a, unless its type is of T: then nobody waits for it.
Lachee(a, b, T) ==
  /\ Meme(a, b) /\ (b.pour <=> a.pour /\ a.type \notin T)
  /\ a.type \notin T => b = a

Pose(a, b, T) == b = (IF a.type \in T THEN [a EXCEPT !.pour = FALSE] ELSE a)

\* A call that was just made.
Neuve(b, t, o, p, q) ==
  /\ Forme(b) /\ b.type = t /\ b.de = o /\ b.p = p /\ b.q = q
  /\ b.pour = TRUE /\ b.recu = "rien"

LEMMA Choix ==
  UnProduit \in Produits /\ Vide \in [Produits -> Quantites]
BY AchatsAssumption DEF UnProduit, Vide, Quantites

LEMMA ErreurAPart ==
  Erreur # Rien /\ Erreur \notin [Produits -> Quantites]
<1>1. UnProduit \in Produits
  BY Choix
<1>2. /\ Erreur[UnProduit] = MaxQuantite + 2 /\ Rien[UnProduit] = MaxQuantite + 1
  BY <1>1 DEF Erreur, Rien
<1>3. Erreur # Rien
  BY <1>2, AchatsAssumption
<1>4. ASSUME Erreur \in [Produits -> Quantites]
      PROVE  FALSE
  <2>1. Erreur[UnProduit] \in Quantites
    BY <1>1, <1>4
  <2> QED
    BY <1>2, <2>1, AchatsAssumption DEF Quantites
<1> QED
  BY <1>3, <1>4

\* Calls that were just made are of their form.
LEMMA PremierVrai ==
  ASSUME NEW t \in Types, NEW o \in Proprietaires, NEW p \in Produits,
         NEW q \in Nat
  PROVE  /\ Neuve(Premier(t, o, p, q), t, o, p, q)
         /\ Premier(t, o, p, q).avant = FALSE
<1>1. PICK b : b = Premier(t, o, p, q)
  OBVIOUS
<1>2. b = [n |-> 1, type |-> t, de |-> o, p |-> p, q |-> q, pour |-> TRUE,
           recu |-> "rien", vu |-> {}, lu |-> Vide, avant |-> FALSE]
  BY <1>1 DEF Premier
<1>3. Forme(b)
  BY <1>2, Choix DEF Forme, Issues
<1> QED
  BY <1>1, <1>2, <1>3 DEF Neuve

LEMMA AppelVrai ==
  ASSUME NEW t \in Types, NEW o \in Proprietaires, NEW p \in Produits,
         NEW q \in Nat
  PROVE  /\ Neuve(Appel(t, o, p, q), t, o, p, q)
         /\ Appel(t, o, p, q).avant = (t \in Bascules /\ EnRoute("coeurs") # {})
<1>1. PICK b : b = Premier(t, o, p, q)
  OBVIOUS
<1>2. PICK m : m = Numero(t)
  OBVIOUS
<1>3. PICK v \in BOOLEAN : v = (t \in Bascules /\ EnRoute("coeurs") # {})
  OBVIOUS
<1>4. PICK c : c = Appel(t, o, p, q)
  OBVIOUS
<1>5. c = [b EXCEPT !.n = m, !.avant = v]
  BY <1>1, <1>2, <1>3, <1>4 DEF Appel
<1>6. b = [n |-> 1, type |-> t, de |-> o, p |-> p, q |-> q, pour |-> TRUE,
           recu |-> "rien", vu |-> {}, lu |-> Vide, avant |-> FALSE]
  BY <1>1 DEF Premier
<1>7. c = [n |-> m, type |-> t, de |-> o, p |-> p, q |-> q, pour |-> TRUE,
           recu |-> "rien", vu |-> {}, lu |-> Vide, avant |-> v]
  BY <1>5, <1>6
<1>8. Forme(c)
  BY <1>7, Choix DEF Forme, Issues
<1> QED
  BY <1>3, <1>4, <1>7, <1>8 DEF Neuve

\* Calls that are let go.
LEMMA AbandonVrai ==
  ASSUME NEW S, \A a \in S : Forme(a), NEW T
  PROVE  /\ \A b \in Abandonner(S, T) : \E a \in S : Forme(b) /\ Lachee(a, b, T)
         /\ \A a \in S : \E b \in Abandonner(S, T) : Forme(b) /\ Lachee(a, b, T)
<1>1. ASSUME NEW a \in S
      PROVE  /\ \E b : Pose(a, b, T)
             /\ \A b : Pose(a, b, T) => Forme(b) /\ Lachee(a, b, T)
  <2>1. Forme(a)
    OBVIOUS
  <2>2. \E b : Pose(a, b, T)
    BY DEF Pose
  <2>3. ASSUME NEW b, Pose(a, b, T), a.type \in T
        PROVE  Forme(b) /\ Lachee(a, b, T)
    <3>1. b = [a EXCEPT !.pour = FALSE]
      BY <2>3 DEF Pose
    <3>2. /\ b.n = a.n /\ b.type = a.type /\ b.de = a.de /\ b.p = a.p
          /\ b.q = a.q /\ b.recu = a.recu /\ b.vu = a.vu /\ b.lu = a.lu
          /\ b.avant = a.avant /\ b.pour = FALSE
      BY <2>1, <3>1 DEF Forme
    <3>3. Forme(b)
      BY <2>1, <3>1 DEF Forme
    <3>4. Lachee(a, b, T)
      BY <2>3, <3>2 DEF Lachee, Meme
    <3> QED
      BY <3>3, <3>4
  <2>4. ASSUME NEW b, Pose(a, b, T), a.type \notin T
        PROVE  Forme(b) /\ Lachee(a, b, T)
    <3>1. b = a
      BY <2>4 DEF Pose
    <3> QED
      BY <2>1, <2>4, <3>1 DEF Lachee, Meme
  <2> QED
    BY <2>2, <2>3, <2>4
<1>2. ASSUME NEW b \in Abandonner(S, T)
      PROVE  \E a \in S : Forme(b) /\ Lachee(a, b, T)
  <2>1. PICK a \in S : Pose(a, b, T)
    BY DEF Abandonner, Pose
  <2> QED
    BY <1>1, <2>1
<1>3. ASSUME NEW a \in S
      PROVE  \E b \in Abandonner(S, T) : Forme(b) /\ Lachee(a, b, T)
  <2>1. PICK b : Pose(a, b, T)
    BY <1>1
  <2>2. Forme(b) /\ Lachee(a, b, T)
    BY <1>1, <2>1
  <2>3. b \in Abandonner(S, T)
    BY <2>1 DEF Abandonner, Pose
  <2> QED
    BY <2>2, <2>3
<1> QED
  BY <1>2, <1>3

\* A call that is answered.
LEMMA ServiVrai ==
  ASSUME NEW a, Forme(a), NEW r \in Issues, NEW v \in SUBSET Produits,
         NEW l \in [Produits -> Quantites], Servi(a, r, v, l)
  PROVE  \E b : /\ appels' = (appels \ {a}) \cup {b}
                /\ Forme(b) /\ b.type = a.type /\ b.de = a.de /\ b.p = a.p
                /\ b.q = a.q /\ b.pour = a.pour /\ b.avant = a.avant
                /\ b.recu = r /\ b.vu = v /\ b.lu = l
<1>1. PICK b : b = [a EXCEPT !.recu = r, !.vu = v, !.lu = l]
  OBVIOUS
<1>2. PICK c : c = [a EXCEPT !.recu = r]
  OBVIOUS
<1>3. PICK d : d = [c EXCEPT !.vu = v]
  OBVIOUS
<1>4. b = [d EXCEPT !.lu = l]
  BY <1>1, <1>2, <1>3
<1>5. /\ Forme(c) /\ c.n = a.n /\ c.type = a.type /\ c.de = a.de /\ c.p = a.p
      /\ c.q = a.q /\ c.pour = a.pour /\ c.avant = a.avant /\ c.recu = r
  BY <1>2 DEF Forme
<1>6. /\ Forme(d) /\ d.n = a.n /\ d.type = a.type /\ d.de = a.de /\ d.p = a.p
      /\ d.q = a.q /\ d.pour = a.pour /\ d.avant = a.avant /\ d.recu = r
      /\ d.vu = v
  BY <1>3, <1>5 DEF Forme
<1>7. /\ Forme(b) /\ b.type = a.type /\ b.de = a.de /\ b.p = a.p
      /\ b.q = a.q /\ b.pour = a.pour /\ b.avant = a.avant /\ b.recu = r
      /\ b.vu = v /\ b.lu = l
  BY <1>4, <1>6 DEF Forme
<1>8. appels' = (appels \ {a}) \cup {b}
  BY <1>1 DEF Servi
<1> QED
  BY <1>7, <1>8

\* The calls for what is followed, of a page that was just loaded.
LEMMA PremiersVrai ==
  ASSUME NEW e \in Ecrans, volet \in {"coeurs", "panier"}
  PROVE  /\ \A b \in Premiers(e) :
              /\ Neuve(b, b.type, "session", UnProduit, 0)
              /\ b.type = "badge" \/ (b.type = "coeurs" /\ e = "catalogue")
              /\ b.type \in Cibles <=> volet = "panier"
         /\ volet = "panier" => \E b \in Premiers(e) : b.type = "badge"
         /\ volet = "coeurs" /\ e = "catalogue" =>
              \E b \in Premiers(e) : b.type = "coeurs"
<1> DEFINE T == {"badge"} \cup (IF e = "catalogue" THEN {"coeurs"} ELSE {})
           N == {Premier(t, "session", UnProduit, 0) : t \in T}
<1>1. \A t \in T : Neuve(Premier(t, "session", UnProduit, 0), t, "session",
                         UnProduit, 0)
  <2>1. T \subseteq Types /\ "session" \in Proprietaires
    BY DEF Types, Cibles, Proprietaires
  <2> HIDE DEF T
  <2> QED
    BY <2>1, PremierVrai, Choix
<1>2. Premiers(e) = {b \in N : b.type \in Cibles <=> volet = "panier"}
  BY DEF Premiers, Suivis
<1>3. \A b \in N : \E t \in T : b = Premier(t, "session", UnProduit, 0)
  OBVIOUS
<1>4. \A t \in T : Premier(t, "session", UnProduit, 0) \in N
  OBVIOUS
<1>5. \A t \in T : t = "badge" \/ (t = "coeurs" /\ e = "catalogue")
  OBVIOUS
<1>6. "badge" \in T /\ (e = "catalogue" => "coeurs" \in T)
  OBVIOUS
<1> HIDE DEF T, N
<1>7. \A b \in N : /\ b.type \in T
                   /\ Neuve(b, b.type, "session", UnProduit, 0)
  BY <1>1, <1>3 DEF Neuve
<1>8. \A t \in T : \E b \in N : b.type = t
  BY <1>1, <1>4 DEF Neuve
<1> QED
  BY <1>2, <1>5, <1>6, <1>7, <1>8 DEF Cibles

\* A call for what is shown.
LEMMA GetVrai ==
  ASSUME NEW t \in {"coeurs", "page", "badge"}, NEW o \in Proprietaires
  PROVE  Neuve(Get(t, o), t, o, UnProduit, 0)
<1>1. t \in Types /\ 0 \in Nat
  BY DEF Types, Cibles
<1> QED
  BY <1>1, AppelVrai, Choix DEF Get

\* The sessions' owners.
LEMMA ApiVrai ==
  ASSUME Session, connecte \in BOOLEAN,
         statut \in {"loading", "visiteur", "client"}
  PROVE  /\ Api(statut) \in Proprietaires /\ Proprietaire \in Proprietaires
         /\ statut # "loading" => Api(statut) = Proprietaire
         /\ ~connecte => Api(statut) = Proprietaire
BY DEF Session, Api, Proprietaire, Proprietaires

----------------------------------------------------------------------------
(* Forms.                                                                  *)

LEMMA InitFormes == InitAchats => Formes
<1> SUFFICES ASSUME InitAchats
             PROVE  Formes
  OBVIOUS
<1> USE AchatsAssumption
<1>1. /\ volet \in {"coeurs", "panier"} /\ ecran \in Ecrans
      /\ favoris \in [Proprietaires -> SUBSET Produits]
      /\ connecte \in BOOLEAN /\ statut = "loading"
      /\ apiPage = "session" /\ apiBadge = "session" /\ perimes = {}
      /\ coeurs = {} /\ page = Rien /\ badge = 0 /\ appels = Premiers(ecran)
      /\ panier = [o \in Proprietaires |-> Vide]
      /\ douteCoeur = (IF connecte THEN Produits ELSE {})
      /\ douteCible = (IF connecte THEN {"page"} ELSE {})
  BY DEF InitAchats
<1>2. \A a \in appels : Forme(a) /\ Mesure(a) /\ a.type # "page"
  BY <1>1, PremiersVrai DEF Neuve, Mesure, Quantites
<1>3. panier \in [Proprietaires -> [Produits -> Quantites]]
  BY <1>1, Choix
<1>4. badge \in 0..(MaxQuantite * Cardinality(Produits))
  <2>1. Vide \in [Produits -> Quantites]
    BY Choix
  <2>2. TotalDe(Vide) \in 0..(MaxQuantite * Cardinality(Produits))
    BY <2>1, TotalBorne
  <2>3. Cardinality(Produits) \in Nat
    BY FS_CardinalityType
  <2>4. MaxQuantite * Cardinality(Produits) \in Nat
    BY <2>3
  <2> QED
    BY <1>1, <2>4
<1>5. Session /\ Jetons
  BY <1>1 DEF Session, Jetons, Proprietaire
<1>6. EnRoute("page") = {}
  BY <1>2 DEF EnRoute
<1> QED
  BY <1>1, <1>2, <1>3, <1>4, <1>5, <1>6 DEF Formes, Proprietaires, Cibles

\* Forms, from what a step changes of them.
LEMMA FormesDe ==
  ASSUME Formes, volet' = volet,
         favoris' \in [Proprietaires -> SUBSET Produits],
         panier' \in [Proprietaires -> [Produits -> Quantites]],
         connecte' \in BOOLEAN,
         statut' \in {"loading", "visiteur", "client"}, ecran' \in Ecrans,
         apiPage' \in Proprietaires, apiBadge' \in Proprietaires,
         coeurs' \subseteq Produits,
         page' \in {Rien, Erreur} \/ page' \in [Produits -> Quantites],
         badge' \in 0..(MaxQuantite * Cardinality(Produits)),
         \A a \in appels' : Forme(a) /\ Mesure(a),
         douteCoeur' \subseteq Produits, douteCible' \subseteq Cibles,
         \A a \in appels' : a.type = "page" /\ a.pour => ecran' = "panier",
         Session', Jetons'
  PROVE  Formes'
<1>1. EnRoute("page")' # {} => ecran' = "panier"
  BY DEF EnRoute
<1> QED
  BY <1>1 DEF Formes

\* Products with calls on their way.
LEMMA ProduitsVrais ==
  ASSUME Formes, NEW S \in SUBSET appels
  PROVE  ProduitsDe(S) \subseteq Produits
<1>1. \A a \in S : a.p \in Produits
  BY DEF Formes, Forme
<1> QED
  BY <1>1 DEF ProduitsDe

\* Everybody's quantity.
LEMMA Zero == /\ 0 \in 0..(MaxQuantite * Cardinality(Produits))
              /\ 0 \in Quantites
<1>1. Cardinality(Produits) \in Nat
  BY AchatsAssumption, FS_CardinalityType
<1>2. MaxQuantite * Cardinality(Produits) \in Nat
  BY <1>1, AchatsAssumption
<1> QED
  BY <1>2, AchatsAssumption DEF Quantites

\* The calls after a page was loaded: changes nobody waits for any more, and
\* the first calls of the page.
LEMMA ChargerAppels ==
  ASSUME Formes, NEW e \in Ecrans, NEW c \in BOOLEAN, Charger(e, c)
  PROVE  \A b \in appels' :
           /\ Forme(b) /\ Mesure(b)
           /\ \/ /\ Neuve(b, b.type, "session", UnProduit, 0)
                 /\ b.type = "badge" \/ (b.type = "coeurs" /\ e = "catalogue")
              \/ /\ ~b.pour
                 /\ \E a \in EnAttente(Bascules \cup Ecritures) : Meme(a, b)
<1> DEFINE S == EnAttente(Bascules \cup Ecritures)
<1>1. appels' = Abandonner(S, Types) \cup Premiers(e)
  BY DEF Charger
<1>2. S \subseteq appels /\ \A a \in S : Forme(a) /\ Mesure(a)
  BY DEF EnAttente, Formes
<1> HIDE DEF S
<1>3. ASSUME NEW b \in Abandonner(S, Types)
      PROVE  Forme(b) /\ Mesure(b) /\ ~b.pour /\ \E a \in S : Meme(a, b)
  <2>1. PICK a \in S : Forme(b) /\ Lachee(a, b, Types)
    BY <1>2, AbandonVrai
  <2>2. a.type \in Types
    BY <1>2 DEF Forme
  <2> QED
    BY <1>2, <2>1, <2>2 DEF Lachee, Meme, Mesure
<1>4. ASSUME NEW b \in Premiers(e)
      PROVE  /\ Forme(b) /\ Mesure(b)
             /\ Neuve(b, b.type, "session", UnProduit, 0)
             /\ b.type = "badge" \/ (b.type = "coeurs" /\ e = "catalogue")
  <2>1. /\ Neuve(b, b.type, "session", UnProduit, 0)
        /\ b.type = "badge" \/ (b.type = "coeurs" /\ e = "catalogue")
    BY PremiersVrai DEF Formes
  <2> QED
    BY <2>1, Zero DEF Neuve, Mesure
<1> QED
  BY <1>1, <1>3, <1>4 DEF S

LEMMA ChargerFormes ==
  ASSUME Formes, NEW e \in Ecrans, NEW c \in BOOLEAN, Charger(e, c)
  PROVE  Formes'
<1>1. /\ connecte' = c /\ statut' = "loading" /\ ecran' = e
      /\ apiPage' = "session" /\ apiBadge' = "session" /\ perimes' = {}
      /\ coeurs' = {} /\ page' = Rien /\ badge' = 0
      /\ douteCoeur' = DouteCoeur(c) /\ douteCible' = DouteCible(c)
      /\ volet' = volet /\ favoris' = favoris /\ panier' = panier
  BY DEF Charger, tables
<1>2. \A b \in appels' : Forme(b) /\ Mesure(b) /\ (b.type = "page" => ~b.pour)
  BY ChargerAppels DEF Neuve
<1>3. douteCoeur' \subseteq Produits
  <2>1. ProduitsDe(EnAttente(Bascules)) \subseteq Produits
    BY ProduitsVrais DEF EnAttente
  <2> QED
    BY <1>1, <2>1 DEF DouteCoeur
<1>4. douteCible' \subseteq Cibles
  BY <1>1 DEF DouteCible, Cibles
<1>5. Session' /\ Jetons'
  BY <1>1 DEF Session, Jetons, Proprietaire
<1>6. "session" \in Proprietaires
  BY DEF Proprietaires
<1>7. /\ favoris \in [Proprietaires -> SUBSET Produits]
      /\ panier \in [Proprietaires -> [Produits -> Quantites]]
  BY DEF Formes
<1> QED
  BY <1>1, <1>2, <1>3, <1>4, <1>5, <1>6, <1>7, Zero, FormesDe

\* The calls after a link was followed.
LEMMA AllerAppels ==
  ASSUME Formes, NEW e \in Ecrans, Aller(e)
  PROVE  \A b \in appels' :
           /\ Forme(b) /\ Mesure(b)
           /\ \/ /\ Neuve(b, b.type, Api(statut), UnProduit, 0)
                 /\ \/ b.type = "coeurs" /\ e = "catalogue" /\ volet = "coeurs"
                    \/ /\ b.type = "page" /\ e # "catalogue" /\ volet = "panier"
                       /\ statut # "loading"
              \/ \E a \in appels : Lachee(a, b, {"coeurs", "page"} \cup Bascules)
<1> DEFINE T == {"coeurs", "page"} \cup Bascules
           api == Api(statut)
           N == IF e = "catalogue" THEN {Get("coeurs", api)}
                ELSE IF statut = "loading" THEN {} ELSE {Get("page", api)}
<1>1. appels' = Abandonner(appels, T)
                  \cup {b \in N : b.type \in Cibles <=> volet = "panier"}
  BY DEF Aller, Suivis
<1>2. \A a \in appels : Forme(a) /\ Mesure(a)
  BY DEF Formes
<1>3. ASSUME NEW b \in N, b.type \in Cibles <=> volet = "panier"
      PROVE  /\ Neuve(b, b.type, api, UnProduit, 0)
             /\ \/ b.type = "coeurs" /\ e = "catalogue" /\ volet = "coeurs"
                \/ /\ b.type = "page" /\ e # "catalogue" /\ volet = "panier"
                   /\ statut # "loading"
  <2>1. api \in Proprietaires /\ volet \in {"coeurs", "panier"}
    BY ApiVrai DEF Formes
  <2>2. /\ Neuve(Get("coeurs", api), "coeurs", api, UnProduit, 0)
        /\ Neuve(Get("page", api), "page", api, UnProduit, 0)
    BY <2>1, GetVrai
  <2>3. \/ b = Get("coeurs", api) /\ e = "catalogue"
        \/ b = Get("page", api) /\ e # "catalogue" /\ statut # "loading"
    OBVIOUS
  <2> HIDE DEF api, N
  <2> QED
    BY <1>3, <2>1, <2>2, <2>3 DEF Neuve, Cibles
<1> HIDE DEF T, N
<1>4. ASSUME NEW b \in Abandonner(appels, T)
      PROVE  Forme(b) /\ Mesure(b) /\ \E a \in appels : Lachee(a, b, T)
  <2>1. PICK a \in appels : Forme(b) /\ Lachee(a, b, T)
    BY <1>2, AbandonVrai
  <2> QED
    BY <1>2, <2>1 DEF Lachee, Meme, Mesure
<1>5. ASSUME NEW b, Neuve(b, b.type, api, UnProduit, 0),
             b.type \in {"coeurs", "page"}
      PROVE  Forme(b) /\ Mesure(b)
  BY <1>5 DEF Neuve, Mesure
<1> QED
  BY <1>1, <1>3, <1>4, <1>5 DEF T

LEMMA AllerFormes ==
  ASSUME Formes, NEW e \in Ecrans, Aller(e)
  PROVE  Formes'
<1>1. /\ ecran' = e /\ apiPage' = Api(statut) /\ coeurs' = {} /\ page' = Rien
      /\ douteCoeur' = (IF Api(statut) = Proprietaire
                        THEN ProduitsDe({a \in appels : a.type \in Bascules})
                        ELSE Produits)
      /\ douteCible' = (IF Api(statut) = Proprietaire
                        THEN douteCible \ Remontees({"page"})
                        ELSE douteCible \cup {"page"})
      /\ volet' = volet /\ favoris' = favoris /\ panier' = panier
      /\ connecte' = connecte /\ statut' = statut /\ apiBadge' = apiBadge
      /\ badge' = badge /\ perimes' = perimes \ {"page"}
  BY DEF Aller, tables
<1>2. \A b \in appels' : /\ Forme(b) /\ Mesure(b)
                         /\ b.type = "page" /\ b.pour => ecran' = "panier"
  <2> SUFFICES ASSUME NEW b \in appels'
               PROVE  /\ Forme(b) /\ Mesure(b)
                      /\ b.type = "page" /\ b.pour => ecran' = "panier"
    OBVIOUS
  <2>1. Forme(b) /\ Mesure(b)
    BY AllerAppels
  <2>2. CASE \E a \in appels : Lachee(a, b, {"coeurs", "page"} \cup Bascules)
    BY <2>1, <2>2 DEF Lachee, Meme
  <2>3. CASE b.type = "page" => e # "catalogue"
    BY <1>1, <2>1, <2>3 DEF Ecrans
  <2> QED
    BY <2>2, <2>3, AllerAppels
<1>3. douteCoeur' \subseteq Produits
  BY <1>1, ProduitsVrais
<1>4. douteCible' \subseteq Cibles
  BY <1>1 DEF Formes, Cibles
<1>5. Session' /\ Jetons'
  BY <1>1 DEF Session, Jetons, Proprietaire, Formes
<1>6. Api(statut) \in Proprietaires
  BY ApiVrai DEF Formes
<1>7. /\ favoris \in [Proprietaires -> SUBSET Produits]
      /\ panier \in [Proprietaires -> [Produits -> Quantites]]
      /\ connecte \in BOOLEAN /\ statut \in {"loading", "visiteur", "client"}
      /\ apiBadge \in Proprietaires
      /\ badge \in 0..(MaxQuantite * Cardinality(Produits))
  BY DEF Formes
<1> QED
  BY <1>1, <1>2, <1>3, <1>4, <1>5, <1>6, <1>7, FormesDe

\* The calls after the session came.
LEMMA StatutAppels ==
  ASSUME Formes, ArriverStatut
  PROVE  \A b \in appels' :
           /\ Forme(b) /\ Mesure(b)
           /\ \/ /\ Neuve(b, b.type, Proprietaire, UnProduit, 0)
                 /\ volet = "panier"
                 /\ \/ b.type = "badge" /\ connecte
                    \/ b.type = "page" /\ ecran = "panier"
              \/ \E a \in appels :
                   Lachee(a, b, IF connecte THEN {"badge"} ELSE {})
<1> DEFINE s == IF connecte THEN "client" ELSE "visiteur"
           C == (IF connecte THEN {"badge"} ELSE {})
                  \cup (IF ecran = "panier" THEN {"page"} ELSE {})
           T == IF connecte THEN {"badge"} ELSE {}
           N == {Get(t, Api(s)) : t \in C}
<1>1. appels' = Abandonner(appels, T)
                  \cup {b \in N : b.type \in Cibles <=> volet = "panier"}
  BY DEF ArriverStatut, Suivis
<1>2. \A a \in appels : Forme(a) /\ Mesure(a)
  BY DEF Formes
<1>3. Api(s) = Proprietaire /\ Proprietaire \in Proprietaires
  BY DEF Api, Proprietaire, Proprietaires
<1>4. \A t \in C : /\ t \in {"page", "badge"}
                   /\ \/ t = "badge" /\ connecte
                      \/ t = "page" /\ ecran = "panier"
  OBVIOUS
<1>5. \A b \in N : \E t \in C : b = Get(t, Api(s))
  OBVIOUS
<1> HIDE DEF s, C, T, N
<1>6. ASSUME NEW b \in N, b.type \in Cibles <=> volet = "panier"
      PROVE  /\ Neuve(b, b.type, Proprietaire, UnProduit, 0)
             /\ volet = "panier"
             /\ \/ b.type = "badge" /\ connecte
                \/ b.type = "page" /\ ecran = "panier"
  <2>1. PICK t \in C : b = Get(t, Api(s))
    BY <1>5
  <2>2. Neuve(b, t, Proprietaire, UnProduit, 0)
    BY <1>3, <1>4, <2>1, GetVrai
  <2>3. b.type = t
    BY <2>2 DEF Neuve
  <2> QED
    BY <1>4, <1>6, <2>2, <2>3 DEF Cibles
<1>7. ASSUME NEW b \in Abandonner(appels, T)
      PROVE  Forme(b) /\ Mesure(b) /\ \E a \in appels : Lachee(a, b, T)
  <2>1. PICK a \in appels : Forme(b) /\ Lachee(a, b, T)
    BY <1>2, AbandonVrai
  <2> QED
    BY <1>2, <2>1 DEF Lachee, Meme, Mesure
<1>8. ASSUME NEW b, Neuve(b, b.type, Proprietaire, UnProduit, 0),
             b.type \in {"badge", "page"}
      PROVE  Forme(b) /\ Mesure(b)
  BY <1>8 DEF Neuve, Mesure
<1> QED
  BY <1>1, <1>6, <1>7, <1>8 DEF T

LEMMA StatutFormes ==
  ASSUME Formes, ArriverStatut
  PROVE  Formes'
<1>1. /\ statut' = (IF connecte THEN "client" ELSE "visiteur")
      /\ apiBadge' = Api(statut')
      /\ badge' = (IF connecte THEN 0 ELSE badge)
      /\ douteCible' = douteCible \ Remontees(IF connecte THEN {"badge"} ELSE {})
      /\ volet' = volet /\ favoris' = favoris /\ panier' = panier
      /\ connecte' = connecte /\ ecran' = ecran /\ apiPage' = apiPage
      /\ coeurs' = coeurs /\ page' = page /\ douteCoeur' = douteCoeur
      /\ perimes' = perimes /\ statut = "loading"
  BY DEF ArriverStatut, tables
<1>2. \A b \in appels' : /\ Forme(b) /\ Mesure(b)
                         /\ b.type = "page" /\ b.pour => ecran' = "panier"
  <2>1. \A a \in appels : a.type = "page" /\ a.pour => ecran = "panier"
    BY DEF Formes, EnRoute
  <2> QED
    BY <1>1, <2>1, StatutAppels DEF Lachee, Meme
<1>3. Session' /\ apiBadge' \in Proprietaires
  BY <1>1 DEF Session, Proprietaire, Api, Proprietaires
<1>8. Jetons'
  <2>1. Jetons
    BY DEF Formes
  <2> QED
    BY <1>1, <2>1 DEF Jetons
<1>4. /\ favoris \in [Proprietaires -> SUBSET Produits]
      /\ panier \in [Proprietaires -> [Produits -> Quantites]]
      /\ connecte \in BOOLEAN /\ ecran \in Ecrans
      /\ apiPage \in Proprietaires /\ coeurs \subseteq Produits
      /\ page \in {Rien, Erreur} \/ page \in [Produits -> Quantites]
      /\ badge \in 0..(MaxQuantite * Cardinality(Produits))
      /\ douteCoeur \subseteq Produits /\ douteCible \subseteq Cibles
  BY DEF Formes
<1>5. badge' \in 0..(MaxQuantite * Cardinality(Produits))
  BY <1>1, <1>4, Zero
<1>6. statut' \in {"loading", "visiteur", "client"} /\ douteCible' \subseteq Cibles
  BY <1>1, <1>4
<1>7. page' \in {Rien, Erreur} \/ page' \in [Produits -> Quantites]
  BY <1>1, <1>4
<1> QED
  BY <1>1, <1>2, <1>3, <1>4, <1>5, <1>6, <1>7, <1>8, FormesDe

\* The parts of Formes, as the other steps need them.
LEMMA FormesParts ==
  ASSUME Formes
  PROVE  /\ volet \in {"coeurs", "panier"}
         /\ favoris \in [Proprietaires -> SUBSET Produits]
         /\ panier \in [Proprietaires -> [Produits -> Quantites]]
         /\ connecte \in BOOLEAN
         /\ statut \in {"loading", "visiteur", "client"} /\ ecran \in Ecrans
         /\ apiPage \in Proprietaires /\ apiBadge \in Proprietaires
         /\ coeurs \subseteq Produits
         /\ page \in {Rien, Erreur} \/ page \in [Produits -> Quantites]
         /\ badge \in 0..(MaxQuantite * Cardinality(Produits))
         /\ \A a \in appels : Forme(a) /\ Mesure(a)
         /\ douteCoeur \subseteq Produits /\ douteCible \subseteq Cibles
         /\ \A a \in appels : a.type = "page" /\ a.pour => ecran = "panier"
         /\ Session /\ Jetons
BY DEF Formes, EnRoute

\* Forms, when a step leaves the session and the page mounted.
LEMMA FormesIci ==
  ASSUME Formes, UNCHANGED montage, volet' = volet,
         favoris' \in [Proprietaires -> SUBSET Produits],
         panier' \in [Proprietaires -> [Produits -> Quantites]],
         coeurs' \subseteq Produits,
         page' \in {Rien, Erreur} \/ page' \in [Produits -> Quantites],
         badge' \in 0..(MaxQuantite * Cardinality(Produits)),
         \A a \in appels' : Forme(a) /\ Mesure(a),
         \A a \in appels' : a.type = "page" /\ a.pour => ecran = "panier",
         douteCoeur' \subseteq Produits, douteCible' \subseteq Cibles
  PROVE  Formes'
<1>1. /\ connecte' = connecte /\ statut' = statut /\ ecran' = ecran
      /\ apiPage' = apiPage /\ apiBadge' = apiBadge /\ perimes' = perimes
  BY DEF montage
<1>2. Session' /\ Jetons'
  BY <1>1, FormesParts DEF Session, Jetons, Proprietaire
<1>3. /\ connecte' \in BOOLEAN /\ statut' \in {"loading", "visiteur", "client"}
      /\ ecran' \in Ecrans /\ apiPage' \in Proprietaires
      /\ apiBadge' \in Proprietaires
      /\ \A a \in appels' : a.type = "page" /\ a.pour => ecran' = "panier"
  BY <1>1, FormesParts
<1> QED
  BY <1>2, <1>3, FormesDe

LEMMA PerimerFormes ==
  ASSUME Formes, NEW c \in Cibles, Perimer(c)
  PROVE  Formes'
<1>1. /\ volet' = volet /\ favoris' = favoris /\ panier' = panier
      /\ connecte' = connecte /\ statut' = statut /\ ecran' = ecran
      /\ apiPage' = apiPage /\ apiBadge' = apiBadge
      /\ coeurs' = coeurs /\ page' = page /\ badge' = badge /\ appels' = appels
      /\ douteCoeur' = douteCoeur /\ douteCible' = douteCible
      /\ statut = "client" /\ perimes' = {"badge", c}
  BY DEF Perimer, tables, affichage
<1>2. Session' /\ Jetons'
  BY <1>1, FormesParts DEF Session, Jetons, Proprietaire, Cibles
<1> QED
  BY <1>1, <1>2, FormesParts, FormesDe

\* A click on a heart makes a call.
LEMMA BasculerAppels ==
  ASSUME Formes, NEW p \in Produits, Basculer(p)
  PROVE  \E b : /\ appels' = appels \cup {b}
                /\ b.type = IF p \in coeurs THEN "DELETE favori" ELSE "POST favori"
                /\ Neuve(b, b.type, Api(statut), p, 0) /\ Mesure(b)
                /\ b.avant = (EnRoute("coeurs") # {})
<1> DEFINE t == IF p \in coeurs THEN "DELETE favori" ELSE "POST favori"
<1>1. PICK b : b = Appel(t, Api(statut), p, 0)
  OBVIOUS
<1>2. appels' = appels \cup {b}
  BY <1>1 DEF Basculer
<1>3. t \in Types /\ t \in Bascules /\ t \notin {"ajouter", "quantite", "retirer"}
  BY DEF Types, Bascules
<1>4. Api(statut) \in Proprietaires
  BY ApiVrai, FormesParts
<1> HIDE DEF t
<1>5. /\ Neuve(b, t, Api(statut), p, 0)
      /\ b.avant = (t \in Bascules /\ EnRoute("coeurs") # {})
  BY <1>1, <1>3, <1>4, AppelVrai
<1>6. b.type = t /\ Mesure(b)
  BY <1>3, <1>5 DEF Neuve, Mesure
<1>7. b.avant = (EnRoute("coeurs") # {})
  BY <1>3, <1>5
<1> QED
  BY <1>2, <1>5, <1>6, <1>7 DEF t

LEMMA BasculerFormes ==
  ASSUME Formes, NEW p \in Produits, Basculer(p)
  PROVE  Formes'
<1>1. PICK b : /\ appels' = appels \cup {b}
               /\ b.type = IF p \in coeurs THEN "DELETE favori" ELSE "POST favori"
               /\ Neuve(b, b.type, Api(statut), p, 0) /\ Mesure(b)
  BY BasculerAppels
<1>2. /\ coeurs' = (IF p \in coeurs THEN coeurs \ {p} ELSE coeurs \cup {p})
      /\ douteCoeur' = douteCoeur \/ douteCoeur' = douteCoeur \cup {p}
      /\ UNCHANGED montage
      /\ volet' = volet /\ favoris' = favoris /\ panier' = panier
      /\ page' = page /\ badge' = badge /\ douteCible' = douteCible
  BY DEF Basculer, tables
<1>3. \A a \in appels' : /\ Forme(a) /\ Mesure(a)
                         /\ a.type = "page" /\ a.pour => ecran = "panier"
  BY <1>1, FormesParts DEF Neuve
<1>4. coeurs' \subseteq Produits /\ douteCoeur' \subseteq Produits
  BY <1>2, FormesParts
<1> QED
  BY <1>2, <1>3, <1>4, FormesParts, FormesIci

\* A change of the cart is a new call, and nothing else.
LEMMA EcrireAppels ==
  ASSUME Formes, NEW p \in Produits, Ajouter(p) \/ UpdateQuantite(p) \/ Retirer(p)
  PROVE  /\ \E b : /\ appels' = appels \cup {b} /\ b.type \in Ecritures
                   /\ Neuve(b, b.type, Api(statut), p, b.q) /\ Mesure(b)
         /\ UNCHANGED <<tables, montage, affichage, douteCoeur, douteCible>>
<1>1. PICK t \in Ecritures, q \in Nat :
        /\ Ecrire(t, p, q)
        /\ t = "ajouter" => q = 1
        /\ t # "ajouter" => q \in Quantites
  <2>1. CASE Ajouter(p)
    BY <2>1 DEF Ajouter, Ecritures
  <2>2. CASE UpdateQuantite(p)
    <3>1. PICK q \in 1..MaxQuantite : Ecrire("quantite", p, q)
      BY <2>2 DEF UpdateQuantite
    <3>2. q \in Nat /\ q \in Quantites
      BY AchatsAssumption DEF Quantites
    <3> QED
      BY <3>1, <3>2 DEF Ecritures
  <2>3. CASE Retirer(p)
    <3>1. Ecrire("retirer", p, 0) /\ 0 \in Nat
      BY <2>3 DEF Retirer
    <3> QED
      BY <3>1, Zero DEF Ecritures
  <2> QED
    BY <2>1, <2>2, <2>3
<1>2. PICK b : b = Appel(t, Api(statut), p, q)
  OBVIOUS
<1>3. appels' = appels \cup {b}
  BY <1>1, <1>2 DEF Ecrire
<1>4. t \in Types /\ Api(statut) \in Proprietaires
  BY ApiVrai, FormesParts DEF Types
<1>5. Neuve(b, t, Api(statut), p, q)
  BY <1>2, <1>4, AppelVrai
<1>6. b.type = t /\ b.q = q
  BY <1>5 DEF Neuve
<1>7. Mesure(b)
  BY <1>1, <1>6 DEF Mesure
<1> QED
  BY <1>1, <1>3, <1>5, <1>6, <1>7 DEF Ecrire

LEMMA EcrireFormes ==
  ASSUME Formes, NEW p \in Produits, Ajouter(p) \/ UpdateQuantite(p) \/ Retirer(p)
  PROVE  Formes'
<1>1. PICK b : /\ appels' = appels \cup {b} /\ b.type \in Ecritures
               /\ Neuve(b, b.type, Api(statut), p, b.q) /\ Mesure(b)
  BY EcrireAppels
<1>2. /\ UNCHANGED montage /\ volet' = volet /\ favoris' = favoris
      /\ panier' = panier /\ coeurs' = coeurs /\ page' = page /\ badge' = badge
      /\ douteCoeur' = douteCoeur /\ douteCible' = douteCible
  BY EcrireAppels DEF tables, affichage
<1>3. \A a \in appels' : /\ Forme(a) /\ Mesure(a)
                         /\ a.type = "page" /\ a.pour => ecran = "panier"
  BY <1>1, FormesParts DEF Neuve, Ecritures
<1> QED
  BY <1>2, <1>3, FormesParts, FormesIci

\* A call that is served.
LEMMA ServirAppels ==
  ASSUME Formes, NEW a \in appels, Servir(a)
  PROVE  \E b : /\ appels' = (appels \ {a}) \cup {b}
                /\ Forme(b) /\ Mesure(b)
                /\ b.type = a.type /\ b.de = a.de /\ b.p = a.p
                /\ b.pour = a.pour /\ b.avant = a.avant
                /\ a.recu = "rien" /\ b.recu \in {"ok", "409", "404", "400"}
                /\ b.recu = "409" => a.type = "POST favori"
                /\ b.recu = "404" => a.type = "quantite" /\ panier[a.de][a.p] = 0
                /\ b.recu = "400" => a.type \in Cibles /\ a.type \in perimes
                /\ a.type \in {"coeurs"} \cup Cibles =>
                     \/ b.recu = "ok" /\ b.vu = favoris[a.de] /\ b.lu = panier[a.de]
                     \/ b.recu = "400"
<1>1. /\ Forme(a) /\ Mesure(a) /\ a.de \in Proprietaires
      /\ favoris \in [Proprietaires -> SUBSET Produits]
      /\ panier \in [Proprietaires -> [Produits -> Quantites]]
  BY FormesParts DEF Forme
<1>2. Vide \in [Produits -> Quantites] /\ a.recu = "rien"
  BY Choix DEF Servir
<1>3. perimes \subseteq Cibles
  BY FormesParts DEF Jetons
<1>8. \E r, v, l :
        /\ r \in {"ok", "409", "404", "400"} /\ v \in SUBSET Produits
        /\ l \in [Produits -> Quantites] /\ Servi(a, r, v, l)
        /\ r = "409" => a.type = "POST favori"
        /\ r = "404" => a.type = "quantite" /\ panier[a.de][a.p] = 0
        /\ r = "400" => a.type \in Cibles /\ a.type \in perimes
        /\ a.type \in {"coeurs"} \cup Cibles =>
             \/ r = "ok" /\ v = favoris[a.de] /\ l = panier[a.de]
             \/ r = "400"
  <2>1. CASE a.type \in {"coeurs"} \cup Cibles
    <3>1. CASE a.type \notin perimes
      <4>1. Servi(a, "ok", favoris[a.de], panier[a.de])
        BY <2>1, <3>1 DEF Servir, Cibles, Bascules
      <4> QED
        BY <1>1, <4>1
    <3>2. CASE a.type \in perimes
      <4>1. Servi(a, "400", {}, Vide)
        BY <2>1, <3>2 DEF Servir, Cibles, Bascules
      <4>2. {} \in SUBSET Produits /\ a.type \in Cibles
        BY <1>3, <3>2
      <4> QED
        BY <1>2, <3>2, <4>1, <4>2
    <3> QED
      BY <3>1, <3>2
  <2>2. CASE a.type \in Bascules
    <3>1. PICK r \in {"ok", "409"} : /\ Servi(a, r, {}, Vide)
                                     /\ r = "409" => a.type = "POST favori"
      BY <1>3, <2>2 DEF Servir, Cibles, Bascules
    <3>2. /\ r \in {"ok", "409", "404"} /\ {} \in SUBSET Produits
          /\ a.type \notin {"coeurs"} \cup Cibles /\ r # "404"
      BY <2>2, <3>1 DEF Bascules, Cibles
    <3> QED
      BY <1>2, <3>1, <3>2
  <2>3. CASE a.type \notin {"coeurs"} \cup Cibles \cup Bascules
    <3>1. PICK r \in {"ok", "404"} :
            /\ Servi(a, r, {}, Vide)
            /\ r = "404" => a.type = "quantite" /\ panier[a.de][a.p] = 0
      BY <1>3, <2>3 DEF Servir
    <3>2. /\ r \in {"ok", "409", "404"} /\ {} \in SUBSET Produits
          /\ a.type \notin {"coeurs"} \cup Cibles /\ r # "409"
      BY <2>3, <3>1
    <3> QED
      BY <1>2, <3>1, <3>2
  <2> QED
    BY <2>1, <2>2, <2>3
<1>4. PICK r, v, l :
        /\ r \in {"ok", "409", "404", "400"} /\ v \in SUBSET Produits
        /\ l \in [Produits -> Quantites] /\ Servi(a, r, v, l)
        /\ r = "409" => a.type = "POST favori"
        /\ r = "404" => a.type = "quantite" /\ panier[a.de][a.p] = 0
        /\ r = "400" => a.type \in Cibles /\ a.type \in perimes
        /\ a.type \in {"coeurs"} \cup Cibles =>
             \/ r = "ok" /\ v = favoris[a.de] /\ l = panier[a.de]
             \/ r = "400"
  BY <1>8
<1>5. /\ r \in Issues /\ v \in SUBSET Produits /\ l \in [Produits -> Quantites]
      /\ Servi(a, r, v, l) /\ Forme(a)
  BY <1>1, <1>4 DEF Issues
<1>6. PICK b : /\ appels' = (appels \ {a}) \cup {b}
               /\ Forme(b) /\ b.type = a.type /\ b.de = a.de /\ b.p = a.p
               /\ b.q = a.q /\ b.pour = a.pour /\ b.avant = a.avant
               /\ b.recu = r /\ b.vu = v /\ b.lu = l
  BY <1>5, ServiVrai
<1>7. Mesure(b)
  BY <1>1, <1>6 DEF Mesure
<1> QED
  BY <1>2, <1>4, <1>6, <1>7

\* What serving a call does to the tables: one row of its owner.
LEMMA ServirTables ==
  ASSUME Formes, NEW a \in appels, Servir(a)
  PROVE  /\ volet' = volet
         /\ favoris' \in [Proprietaires -> SUBSET Produits]
         /\ panier' \in [Proprietaires -> [Produits -> Quantites]]
         /\ \A o \in Proprietaires, p \in Produits :
              p \in favoris'[o] <=>
                IF a.type \in Bascules /\ a.de = o /\ a.p = p
                THEN a.type = "POST favori" ELSE p \in favoris[o]
         /\ a.type \notin Ecritures => panier' = panier
         /\ \A o \in Proprietaires : a.de # o => panier'[o] = panier[o]
<1>1. /\ Forme(a) /\ Mesure(a) /\ a.de \in Proprietaires /\ a.p \in Produits
      /\ favoris \in [Proprietaires -> SUBSET Produits]
      /\ panier \in [Proprietaires -> [Produits -> Quantites]]
  BY FormesParts DEF Forme
<1>5. perimes \subseteq Cibles
  BY FormesParts DEF Jetons
<1>2. CASE a.type \in {"coeurs"} \cup Cibles
  <2>1. favoris' = favoris /\ panier' = panier /\ volet' = volet
    BY <1>2 DEF Servir, Cibles, Bascules, tables
  <2> QED
    BY <1>1, <1>2, <2>1 DEF Cibles, Bascules
<1>3. CASE a.type \in Bascules
  <2>1. PICK f : f = (IF a.type = "POST favori" THEN favoris[a.de] \cup {a.p}
                      ELSE favoris[a.de] \ {a.p})
    OBVIOUS
  <2>2. favoris' = [favoris EXCEPT ![a.de] = f]
    BY <1>3, <2>1, <1>5 DEF Servir, Cibles, Bascules
  <2>3. panier' = panier /\ volet' = volet
    BY <1>3, <1>5 DEF Servir, Cibles, Bascules
  <2>4. /\ favoris'[a.de] = f
        /\ \A o \in Proprietaires : o # a.de => favoris'[o] = favoris[o]
    BY <1>1, <2>2
  <2>5. favoris' \in [Proprietaires -> SUBSET Produits]
    BY <1>1, <2>1, <2>2
  <2> QED
    BY <1>1, <1>3, <2>1, <2>3, <2>4, <2>5 DEF Bascules
<1>4. CASE a.type \notin {"coeurs"} \cup Cibles \cup Bascules
  <2>1. PICK k \in Quantites :
          panier' = [panier EXCEPT ![a.de] = [@ EXCEPT ![a.p] = k]]
    <3>1. PICK x : x = panier[a.de][a.p]
      OBVIOUS
    <3>2. x \in Quantites
      BY <1>1, <3>1
    <3>3. CASE a.type = "ajouter"
      <4>1. x < MaxQuantite /\ panier' = [panier EXCEPT ![a.de][a.p] = x + a.q]
        BY <1>4, <1>5, <3>1, <3>3 DEF Servir
      <4>2. a.q = 1
        BY <1>1, <3>3 DEF Mesure
      <4>3. x + a.q \in Quantites
        BY <3>2, <4>1, <4>2, AchatsAssumption DEF Quantites
      <4> QED
        BY <4>1, <4>3
    <3>4. CASE a.type \in {"quantite", "retirer"}
      <4>1. panier' = [panier EXCEPT ![a.de][a.p] = IF x = 0 THEN 0 ELSE a.q]
        BY <1>4, <1>5, <3>1, <3>4 DEF Servir
      <4>2. a.q \in Quantites
        BY <1>1, <3>4 DEF Mesure
      <4>3. (IF x = 0 THEN 0 ELSE a.q) \in Quantites
        BY <4>2, Zero
      <4> QED
        BY <4>1, <4>3
    <3> QED
      BY <1>4, <1>5, <3>3, <3>4 DEF Servir
  <2>2. favoris' = favoris /\ volet' = volet
    BY <1>4, <1>5 DEF Servir
  <2>3. PICK g : g = [panier[a.de] EXCEPT ![a.p] = k]
    OBVIOUS
  <2>4. panier' = [panier EXCEPT ![a.de] = g]
    BY <2>1, <2>3
  <2>5. g \in [Produits -> Quantites]
    BY <1>1, <2>3
  <2>6. /\ panier' \in [Proprietaires -> [Produits -> Quantites]]
        /\ \A o \in Proprietaires : o # a.de => panier'[o] = panier[o]
    BY <1>1, <2>4, <2>5
  <2>7. a.type \in Ecritures
    BY <1>1, <1>4 DEF Forme, Types
  <2> QED
    BY <1>1, <1>4, <2>2, <2>6, <2>7
<1> QED
  BY <1>2, <1>3, <1>4

LEMMA ServirFormes ==
  ASSUME Formes, NEW a \in appels, Servir(a)
  PROVE  Formes'
<1>1. PICK b : /\ appels' = (appels \ {a}) \cup {b}
               /\ Forme(b) /\ Mesure(b)
               /\ b.type = a.type /\ b.pour = a.pour
  BY ServirAppels
<1>2. /\ UNCHANGED montage /\ coeurs' = coeurs /\ page' = page /\ badge' = badge
      /\ douteCoeur' = douteCoeur \/ douteCoeur' = douteCoeur \cup {a.p}
      /\ douteCible' = douteCible
  BY DEF Servir, affichage
<1>3. \A c \in appels' : /\ Forme(c) /\ Mesure(c)
                         /\ c.type = "page" /\ c.pour => ecran = "panier"
  BY <1>1, FormesParts
<1>4. douteCoeur' \subseteq Produits
  BY <1>2, FormesParts DEF Forme
<1> QED
  BY <1>2, <1>3, <1>4, ServirTables, FormesParts, FormesIci

\* A call that fails, or whose answer is lost.
LEMMA EchouerAppels ==
  ASSUME Formes, NEW a \in appels, Echouer(a)
  PROVE  \E b : /\ appels' = (appels \ {a}) \cup {b}
                /\ Forme(b) /\ Mesure(b)
                /\ b.type = a.type /\ b.de = a.de /\ b.p = a.p
                /\ b.pour = a.pour /\ b.avant = a.avant
                /\ a.recu \in {"rien", "ok"} /\ b.recu = "echec"
<1>1. Forme(a) /\ Mesure(a)
  BY FormesParts
<1>2. Servi(a, "echec", {}, Vide) /\ a.recu \in {"rien", "ok"}
  BY DEF Echouer
<1>3. Vide \in [Produits -> Quantites] /\ "echec" \in Issues
  BY Choix DEF Issues
<1>4. PICK b : /\ appels' = (appels \ {a}) \cup {b}
               /\ Forme(b) /\ b.type = a.type /\ b.de = a.de /\ b.p = a.p
               /\ b.q = a.q /\ b.pour = a.pour /\ b.avant = a.avant
               /\ b.recu = "echec"
  BY <1>1, <1>2, <1>3, ServiVrai
<1> QED
  BY <1>1, <1>2, <1>4 DEF Mesure

LEMMA EchouerFormes ==
  ASSUME Formes, NEW a \in appels, Echouer(a)
  PROVE  Formes'
<1>1. PICK b : /\ appels' = (appels \ {a}) \cup {b}
               /\ Forme(b) /\ Mesure(b)
               /\ b.type = a.type /\ b.pour = a.pour
  BY EchouerAppels
<1>2. /\ UNCHANGED montage /\ coeurs' = coeurs /\ page' = page /\ badge' = badge
      /\ volet' = volet /\ favoris' = favoris /\ panier' = panier
      /\ douteCoeur' \in {Produits, douteCoeur, douteCoeur \cup {a.p}}
      /\ \/ douteCible' \in {Cibles, douteCible}
         \/ a.type \in Cibles /\ douteCible' = douteCible \cup {a.type}
  BY DEF Echouer, affichage, tables
<1>3. \A c \in appels' : /\ Forme(c) /\ Mesure(c)
                         /\ c.type = "page" /\ c.pour => ecran = "panier"
  BY <1>1, FormesParts
<1>4. douteCoeur' \subseteq Produits /\ douteCible' \subseteq Cibles
  BY <1>2, FormesParts DEF Forme
<1> QED
  BY <1>2, <1>3, <1>4, FormesParts, FormesIci

\* The event asks for the page and the badge again.
LEMMA EcritureAppels ==
  ASSUME Formes, NEW a \in appels, ArriverEcriture(a)
  PROVE  \E C \in SUBSET Cibles :
           /\ C = IF ~a.pour \/ a.recu # "ok" THEN {}
                  ELSE {"badge"} \cup (IF ecran = "panier" THEN {"page"} ELSE {})
           /\ a.type \in Ecritures /\ a.recu # "rien"
           /\ appels \ {a} \subseteq appels'
           /\ \A b \in appels' : \/ b \in appels \ {a}
                                 \/ /\ b.type \in C
                                    /\ Neuve(b, b.type, IF b.type = "page"
                                               THEN apiPage ELSE apiBadge,
                                             UnProduit, 0)
           /\ \A c \in C : \E b \in appels' : b.type = c /\ b.pour = TRUE
           /\ douteCible' = douteCible \cup Croises(C)
<1>1. PICK C \in SUBSET Cibles :
        C = IF ~a.pour \/ a.recu # "ok" THEN {}
            ELSE {"badge"} \cup (IF ecran = "panier" THEN {"page"} ELSE {})
  BY DEF Cibles
<1>2. a.type \in Ecritures /\ a.recu # "rien"
  BY DEF ArriverEcriture
<1>3. /\ appels' = (appels \ {a})
                     \cup {Get(c, IF c = "page" THEN apiPage ELSE apiBadge) : c \in C}
      /\ douteCible' = douteCible \cup Croises(C)
  BY <1>1, <1>2 DEF ArriverEcriture, APrevenir
<1>4. ASSUME NEW c \in C
      PROVE  Neuve(Get(c, IF c = "page" THEN apiPage ELSE apiBadge), c,
                   IF c = "page" THEN apiPage ELSE apiBadge, UnProduit, 0)
  <2>1. PICK o : o = IF c = "page" THEN apiPage ELSE apiBadge
    OBVIOUS
  <2>2. o \in Proprietaires /\ c \in {"coeurs", "page", "badge"}
    BY <2>1, FormesParts DEF Cibles
  <2>3. Neuve(Get(c, o), c, o, UnProduit, 0)
    BY <2>2, GetVrai
  <2> QED
    BY <2>1, <2>3
<1>5. ASSUME NEW b \in appels', b \notin appels \ {a}
      PROVE  /\ b.type \in C
             /\ Neuve(b, b.type, IF b.type = "page" THEN apiPage ELSE apiBadge,
                      UnProduit, 0)
  <2>1. PICK c \in C : b = Get(c, IF c = "page" THEN apiPage ELSE apiBadge)
    BY <1>3, <1>5
  <2>2. Neuve(b, c, IF c = "page" THEN apiPage ELSE apiBadge, UnProduit, 0)
    BY <1>4, <2>1
  <2>3. b.type = c
    BY <2>2 DEF Neuve
  <2> QED
    BY <2>2, <2>3
<1>6. ASSUME NEW c \in C
      PROVE  \E b \in appels' : b.type = c /\ b.pour = TRUE
  <2>1. PICK b : b = Get(c, IF c = "page" THEN apiPage ELSE apiBadge)
    OBVIOUS
  <2>2. b \in appels'
    BY <1>3, <2>1
  <2>3. b.type = c /\ b.pour = TRUE
    BY <1>4, <2>1 DEF Neuve
  <2> QED
    BY <2>2, <2>3
<1> QED
  BY <1>1, <1>2, <1>3, <1>5, <1>6

LEMMA EcritureFormes ==
  ASSUME Formes, NEW a \in appels, ArriverEcriture(a)
  PROVE  Formes'
<1>1. PICK C \in SUBSET Cibles :
        /\ C = IF ~a.pour \/ a.recu # "ok" THEN {}
               ELSE {"badge"} \cup (IF ecran = "panier" THEN {"page"} ELSE {})
        /\ \A b \in appels' : \/ b \in appels \ {a}
                              \/ /\ b.type \in C
                                 /\ Neuve(b, b.type, IF b.type = "page"
                                            THEN apiPage ELSE apiBadge,
                                          UnProduit, 0)
        /\ douteCible' = douteCible \cup Croises(C)
  BY EcritureAppels
<1>2. \A b \in appels' : /\ Forme(b) /\ Mesure(b)
                         /\ b.type = "page" /\ b.pour => ecran = "panier"
  BY <1>1, FormesParts DEF Neuve, Mesure, Cibles
<1>3. /\ UNCHANGED montage /\ volet' = volet /\ favoris' = favoris
      /\ panier' = panier /\ coeurs' = coeurs /\ page' = page /\ badge' = badge
      /\ douteCoeur' = douteCoeur
  BY DEF ArriverEcriture, tables, affichage
<1>4. douteCible' \subseteq Cibles
  BY <1>1, FormesParts DEF Croises
<1> QED
  BY <1>2, <1>3, <1>4, FormesParts, FormesIci

\* The other answers.
LEMMA ArriverFormes ==
  ASSUME Formes, NEW a \in appels,
         Ignorer(a) \/ ArriverCoeurs(a) \/ ArriverBascule(a) \/ ArriverPanier(a)
  PROVE  Formes'
<1>1. /\ appels' = appels \ {a} /\ UNCHANGED montage /\ volet' = volet
      /\ favoris' = favoris /\ panier' = panier /\ douteCible' = douteCible
  BY DEF Ignorer, ArriverCoeurs, ArriverBascule, ArriverPanier, Retire, tables,
         affichage
<1>2. /\ Forme(a) /\ a.vu \subseteq Produits /\ a.lu \in [Produits -> Quantites]
      /\ a.p \in Produits
  BY FormesParts DEF Forme
<1>3. coeurs' \in {coeurs, a.vu, coeurs \cup {a.p}, coeurs \ {a.p}}
  BY DEF Ignorer, ArriverCoeurs, ArriverBascule, ArriverPanier, affichage
<1>4. page' \in {page, a.lu, Erreur} /\ badge' \in {badge, TotalDe(a.lu)}
  BY DEF Ignorer, ArriverCoeurs, ArriverBascule, ArriverPanier, affichage
<1>5. douteCoeur' \in {douteCoeur, douteCoeur \cup ProduitsDe(EnAttente(Bascules))}
  BY DEF Ignorer, ArriverCoeurs, ArriverBascule, ArriverPanier
<1>6. badge' \in 0..(MaxQuantite * Cardinality(Produits))
  BY <1>2, <1>4, FormesParts, TotalBorne
<1>7. page' \in {Rien, Erreur} \/ page' \in [Produits -> Quantites]
  BY <1>2, <1>4, FormesParts
<1>8. coeurs' \subseteq Produits
  BY <1>2, <1>3, FormesParts
<1>9. douteCoeur' \subseteq Produits
  <2>1. ProduitsDe(EnAttente(Bascules)) \subseteq Produits
    BY ProduitsVrais DEF EnAttente
  <2> QED
    BY <1>5, <2>1, FormesParts
<1>10. \A c \in appels' : /\ Forme(c) /\ Mesure(c)
                          /\ c.type = "page" /\ c.pour => ecran = "panier"
  BY <1>1, FormesParts
<1> QED
  BY <1>1, <1>6, <1>7, <1>8, <1>9, <1>10, FormesParts, FormesIci

\* The calls for what is followed are there after each step that makes some.
LEMMA ChargerPremiers ==
  ASSUME Formes, NEW e \in Ecrans, NEW c \in BOOLEAN, Charger(e, c)
  PROVE  /\ volet = "panier" =>
              \E b \in appels' : b.type = "badge" /\ b.pour = TRUE
         /\ volet = "coeurs" /\ e = "catalogue" =>
              \E b \in appels' : b.type = "coeurs" /\ b.pour = TRUE
<1>1. Premiers(e) \subseteq appels'
  BY DEF Charger
<1>2. volet \in {"coeurs", "panier"}
  BY FormesParts
<1> QED
  BY <1>1, <1>2, PremiersVrai DEF Neuve

LEMMA AllerPremiers ==
  ASSUME Formes, NEW e \in Ecrans, Aller(e)
  PROVE  /\ e = "catalogue" /\ volet = "coeurs" =>
              \E b \in appels' : b.type = "coeurs" /\ b.pour = TRUE
         /\ e = "panier" /\ volet = "panier" /\ statut # "loading" =>
              \E b \in appels' : b.type = "page" /\ b.pour = TRUE
         /\ \A a \in appels : \E b \in appels' :
              Lachee(a, b, {"coeurs", "page"} \cup Bascules)
<1> DEFINE T == {"coeurs", "page"} \cup Bascules
           api == Api(statut)
           N == IF e = "catalogue" THEN {Get("coeurs", api)}
                ELSE IF statut = "loading" THEN {} ELSE {Get("page", api)}
<1>1. appels' = Abandonner(appels, T)
                  \cup {b \in N : b.type \in Cibles <=> volet = "panier"}
  BY DEF Aller, Suivis
<1>2. \A a \in appels : \E b \in Abandonner(appels, T) : Lachee(a, b, T)
  <2>1. \A a \in appels : Forme(a)
    BY FormesParts
  <2> HIDE DEF T
  <2> QED
    BY <2>1, AbandonVrai
<1>3. api \in Proprietaires
  BY ApiVrai, FormesParts
<1>4. /\ Neuve(Get("coeurs", api), "coeurs", api, UnProduit, 0)
      /\ Neuve(Get("page", api), "page", api, UnProduit, 0)
  BY <1>3, GetVrai
<1>5. /\ Get("coeurs", api).type = "coeurs" /\ Get("coeurs", api).pour = TRUE
      /\ Get("page", api).type = "page" /\ Get("page", api).pour = TRUE
  BY <1>4 DEF Neuve
<1>6. /\ e = "catalogue" => Get("coeurs", api) \in N
      /\ e = "panier" /\ statut # "loading" => Get("page", api) \in N
  OBVIOUS
<1> HIDE DEF T, api, N
<1>7. /\ e = "catalogue" /\ volet = "coeurs" => Get("coeurs", api) \in appels'
      /\ e = "panier" /\ volet = "panier" /\ statut # "loading" =>
           Get("page", api) \in appels'
  BY <1>1, <1>5, <1>6 DEF Cibles
<1>8. \A a \in appels : \E b \in appels' : Lachee(a, b, T)
  BY <1>1, <1>2
<1> QED
  BY <1>5, <1>7, <1>8 DEF T

LEMMA StatutPremiers ==
  ASSUME Formes, ArriverStatut
  PROVE  /\ volet = "panier" /\ connecte =>
              \E b \in appels' : b.type = "badge" /\ b.pour = TRUE
         /\ volet = "panier" /\ ecran = "panier" =>
              \E b \in appels' : b.type = "page" /\ b.pour = TRUE
         /\ \A a \in appels : \E b \in appels' :
              Lachee(a, b, IF connecte THEN {"badge"} ELSE {})
<1> DEFINE s == IF connecte THEN "client" ELSE "visiteur"
           C == (IF connecte THEN {"badge"} ELSE {})
                  \cup (IF ecran = "panier" THEN {"page"} ELSE {})
           T == IF connecte THEN {"badge"} ELSE {}
           N == {Get(t, Api(s)) : t \in C}
<1>1. appels' = Abandonner(appels, T)
                  \cup {b \in N : b.type \in Cibles <=> volet = "panier"}
  BY DEF ArriverStatut, Suivis
<1>2. \A a \in appels : \E b \in Abandonner(appels, T) : Lachee(a, b, T)
  <2>1. \A a \in appels : Forme(a)
    BY FormesParts
  <2> HIDE DEF T
  <2> QED
    BY <2>1, AbandonVrai
<1>3. Api(s) \in Proprietaires
  BY DEF Api, Proprietaires
<1>4. \A t \in C : Get(t, Api(s)) \in N /\ t \in {"page", "badge"}
  OBVIOUS
<1>5. /\ connecte => "badge" \in C
      /\ ecran = "panier" => "page" \in C
  OBVIOUS
<1> HIDE DEF s, C, T, N
<1>6. ASSUME NEW t \in C, volet = "panier"
      PROVE  \E b \in appels' : b.type = t /\ b.pour = TRUE
  <2>1. Neuve(Get(t, Api(s)), t, Api(s), UnProduit, 0)
    BY <1>3, <1>4, GetVrai
  <2>2. Get(t, Api(s)).type = t /\ Get(t, Api(s)).pour = TRUE
    BY <2>1 DEF Neuve
  <2>3. Get(t, Api(s)) \in appels'
    BY <1>1, <1>4, <1>6, <2>2 DEF Cibles
  <2> QED
    BY <2>2, <2>3
<1>7. \A a \in appels : \E b \in appels' : Lachee(a, b, T)
  BY <1>1, <1>2
<1> QED
  BY <1>5, <1>6, <1>7 DEF T

----------------------------------------------------------------------------
(* Hearts.                                                                 *)

\* The calls that CoeurJuste(p) is about.
Regarde(a, p) ==
  \/ a.type \in Bascules /\ a.p = p
  \/ a.type = "coeurs" /\ a.pour

\* CoeurJuste(p), one call at a time.
LEMMA CoeurParts ==
  ASSUME NEW p, CoeurJuste(p)
  PROVE  /\ \A a \in appels : a.type \in Bascules /\ a.p = p =>
              /\ \A b \in appels : b.type \in Bascules /\ b.p = p => a = b
              /\ a.pour /\ a.de = Proprietaire
              /\ ecran = "catalogue" /\ a.recu \notin {"404", "400"}
         /\ \A l \in appels : l.type = "coeurs" /\ l.pour =>
              /\ l.de = Proprietaire /\ l.recu \in {"rien", "ok"}
              /\ l.recu = "ok" => (p \in l.vu <=> p \in favoris[Proprietaire])
              /\ \A a \in appels : a.type \in Bascules /\ a.p = p =>
                   a.avant /\ a.recu \in {"rien", "ok", "409"}
         /\ (\A l \in appels : ~(l.type = "coeurs" /\ l.pour)) /\ ecran = "catalogue" =>
              /\ (\A a \in appels : ~(a.type \in Bascules /\ a.p = p)) =>
                   (p \in coeurs <=> p \in favoris[Proprietaire])
              /\ \A a \in appels : a.type \in Bascules /\ a.p = p =>
                   /\ a.recu \in {"ok", "409"} =>
                        (p \in coeurs <=> p \in favoris[Proprietaire])
                   /\ a.recu \notin {"ok", "409"} =>
                        /\ p \in coeurs <=> a.type = "POST favori"
                        /\ p \in favoris[Proprietaire] <=> a.type = "DELETE favori"
<1>1. ASSUME NEW a \in appels, a.type \in Bascules, a.p = p
      PROVE  a \in Clics(p)
  BY <1>1 DEF Clics
<1>2. ASSUME NEW l \in appels, l.type = "coeurs", l.pour
      PROVE  l \in EnRoute("coeurs") /\ EnRoute("coeurs") # {}
  BY <1>2 DEF EnRoute
<1>3. (\A l \in appels : ~(l.type = "coeurs" /\ l.pour)) => EnRoute("coeurs") = {}
  BY DEF EnRoute
<1>4. (\A a \in appels : ~(a.type \in Bascules /\ a.p = p)) => Clics(p) = {}
  BY DEF Clics
<1>5. \A a \in appels : a.type \in Bascules /\ a.p = p =>
              /\ \A b \in appels : b.type \in Bascules /\ b.p = p => a = b
              /\ a.pour /\ a.de = Proprietaire
              /\ ecran = "catalogue" /\ a.recu \notin {"404", "400"}
  BY <1>1 DEF CoeurJuste
<1>6. \A l \in appels : l.type = "coeurs" /\ l.pour =>
              /\ l.de = Proprietaire /\ l.recu \in {"rien", "ok"}
              /\ l.recu = "ok" => (p \in l.vu <=> p \in favoris[Proprietaire])
              /\ \A a \in appels : a.type \in Bascules /\ a.p = p =>
                   a.avant /\ a.recu \in {"rien", "ok", "409"}
  BY <1>1, <1>2 DEF CoeurJuste
<1> QED
  BY <1>1, <1>3, <1>4, <1>5, <1>6 DEF CoeurJuste

LEMMA CoeurDe ==
  ASSUME NEW p,
         \A a \in appels' : a.type \in Bascules /\ a.p = p =>
              /\ \A b \in appels' : b.type \in Bascules /\ b.p = p => a = b
              /\ a.pour /\ a.de = Proprietaire'
              /\ ecran' = "catalogue" /\ a.recu \notin {"404", "400"},
         \A l \in appels' : l.type = "coeurs" /\ l.pour =>
              /\ l.de = Proprietaire' /\ l.recu \in {"rien", "ok"}
              /\ l.recu = "ok" => (p \in l.vu <=> p \in favoris'[Proprietaire'])
              /\ \A a \in appels' : a.type \in Bascules /\ a.p = p =>
                   a.avant /\ a.recu \in {"rien", "ok", "409"},
         (\A l \in appels' : ~(l.type = "coeurs" /\ l.pour)) /\ ecran' = "catalogue" =>
              /\ (\A a \in appels' : ~(a.type \in Bascules /\ a.p = p)) =>
                   (p \in coeurs' <=> p \in favoris'[Proprietaire'])
              /\ \A a \in appels' : a.type \in Bascules /\ a.p = p =>
                   /\ a.recu \in {"ok", "409"} =>
                        (p \in coeurs' <=> p \in favoris'[Proprietaire'])
                   /\ a.recu \notin {"ok", "409"} =>
                        /\ p \in coeurs' <=> a.type = "POST favori"
                        /\ p \in favoris'[Proprietaire'] <=> a.type = "DELETE favori"
  PROVE  CoeurJuste(p)'
<1>1. \A a \in Clics(p)' : a \in appels' /\ a.type \in Bascules /\ a.p = p
  BY DEF Clics
<1>2. \A l \in EnRoute("coeurs")' : l \in appels' /\ l.type = "coeurs" /\ l.pour
  BY DEF EnRoute
<1>3. EnRoute("coeurs")' = {} => \A l \in appels' : ~(l.type = "coeurs" /\ l.pour)
  BY DEF EnRoute
<1>4. Clics(p)' = {} => \A a \in appels' : ~(a.type \in Bascules /\ a.p = p)
  BY DEF Clics
<1>5. \A a, b \in Clics(p)' : a = b
  BY <1>1
<1>6. \A a \in Clics(p)' : /\ a.pour /\ a.de = Proprietaire'
                           /\ ecran' = "catalogue" /\ a.recu \notin {"404", "400"}
  BY <1>1
<1>7. \A l \in EnRoute("coeurs")' :
       /\ l.de = Proprietaire' /\ l.recu \in {"rien", "ok"}
       /\ l.recu = "ok" => (p \in l.vu <=> p \in favoris'[Proprietaire'])
  BY <1>2
<1>8. EnRoute("coeurs")' # {} =>
       \A a \in Clics(p)' : a.avant /\ a.recu \in {"rien", "ok", "409"}
  BY <1>1, <1>2
<1>9. EnRoute("coeurs")' = {} /\ ecran' = "catalogue" =>
       /\ Clics(p)' = {} => (p \in coeurs' <=> p \in favoris'[Proprietaire'])
       /\ \A a \in Clics(p)' :
            /\ a.recu \in {"ok", "409"} =>
                 (p \in coeurs' <=> p \in favoris'[Proprietaire'])
            /\ a.recu \notin {"ok", "409"} =>
                 /\ p \in coeurs' <=> a.type = "POST favori"
                 /\ p \in favoris'[Proprietaire'] <=> a.type = "DELETE favori"
  BY <1>1, <1>3, <1>4
<1> QED
  BY <1>5, <1>6, <1>7, <1>8, <1>9 DEF CoeurJuste

\* A step that does not touch the heart of p.
LEMMA CoeurMeme ==
  ASSUME NEW p, CoeurJuste(p),
         \A a \in appels : Regarde(a, p) => a \in appels',
         \A a \in appels' : Regarde(a, p) => a \in appels,
         p \in coeurs' <=> p \in coeurs,
         p \in favoris'[Proprietaire'] <=> p \in favoris[Proprietaire],
         ecran' = ecran, Proprietaire' = Proprietaire
  PROVE  CoeurJuste(p)'
<1>1. \A a \in appels' : Regarde(a, p) <=> \/ a.type \in Bascules /\ a.p = p
                                           \/ a.type = "coeurs" /\ a.pour
  BY DEF Regarde
<1>2. \A a \in appels : Regarde(a, p) <=> \/ a.type \in Bascules /\ a.p = p
                                          \/ a.type = "coeurs" /\ a.pour
  BY DEF Regarde
<1>3. \A a \in appels' : a.type \in Bascules /\ a.p = p =>
        a \in appels
  BY <1>1
<1>4. \A a \in appels' : a.type = "coeurs" /\ a.pour => a \in appels
  BY <1>1
<1>5. (\A l \in appels' : ~(l.type = "coeurs" /\ l.pour)) =>
        \A l \in appels : ~(l.type = "coeurs" /\ l.pour)
  BY <1>2
<1>6. (\A a \in appels' : ~(a.type \in Bascules /\ a.p = p)) =>
        \A a \in appels : ~(a.type \in Bascules /\ a.p = p)
  BY <1>2
<1>7. \A a \in appels' : a.type \in Bascules /\ a.p = p =>
        /\ \A b \in appels' : b.type \in Bascules /\ b.p = p => a = b
        /\ a.pour /\ a.de = Proprietaire'
        /\ ecran' = "catalogue" /\ a.recu \notin {"404", "400"}
  <2> SUFFICES ASSUME NEW a \in appels', a.type \in Bascules, a.p = p
               PROVE  /\ \A b \in appels' : b.type \in Bascules /\ b.p = p => a = b
                      /\ a.pour /\ a.de = Proprietaire'
                      /\ ecran' = "catalogue" /\ a.recu \notin {"404", "400"}
    OBVIOUS
  <2>1. a \in appels
    BY <1>3
  <2>2. /\ \A b \in appels : b.type \in Bascules /\ b.p = p => a = b
        /\ a.pour /\ a.de = Proprietaire
        /\ ecran = "catalogue" /\ a.recu \notin {"404", "400"}
    BY <2>1, CoeurParts
  <2> QED
    BY <1>3, <2>2
<1>8. \A l \in appels' : l.type = "coeurs" /\ l.pour =>
        /\ l.de = Proprietaire' /\ l.recu \in {"rien", "ok"}
        /\ l.recu = "ok" => (p \in l.vu <=> p \in favoris'[Proprietaire'])
        /\ \A a \in appels' : a.type \in Bascules /\ a.p = p =>
             a.avant /\ a.recu \in {"rien", "ok", "409"}
  BY <1>3, <1>4, CoeurParts
<1>9. ASSUME \A l \in appels' : ~(l.type = "coeurs" /\ l.pour),
             ecran' = "catalogue"
      PROVE  /\ (\A a \in appels' : ~(a.type \in Bascules /\ a.p = p)) =>
                  (p \in coeurs' <=> p \in favoris'[Proprietaire'])
             /\ \A a \in appels' : a.type \in Bascules /\ a.p = p =>
                  /\ a.recu \in {"ok", "409"} =>
                       (p \in coeurs' <=> p \in favoris'[Proprietaire'])
                  /\ a.recu \notin {"ok", "409"} =>
                       /\ p \in coeurs' <=> a.type = "POST favori"
                       /\ p \in favoris'[Proprietaire'] <=> a.type = "DELETE favori"
  <2>1. /\ \A l \in appels : ~(l.type = "coeurs" /\ l.pour)
        /\ ecran = "catalogue"
    BY <1>5, <1>9
  <2> QED
    BY <1>3, <1>6, <2>1, CoeurParts
<1> QED
  BY <1>7, <1>8, <1>9, CoeurDe


\* The step is about the calls of another kind.
LEMMA CoeurAilleurs ==
  ASSUME Formes, NEW p, CoeurJuste(p),
         \A a \in appels : ~(a.type \in Cibles \cup Ecritures) =>
           a \in appels' \/ ~Regarde(a, p),
         \A a \in appels' : ~(a.type \in Cibles \cup Ecritures) => a \in appels,
         coeurs' = coeurs, favoris' = favoris, ecran' = ecran,
         connecte' = connecte
  PROVE  CoeurJuste(p)'
<1>1. \A a : Regarde(a, p) => ~(a.type \in Cibles \cup Ecritures)
  BY DEF Regarde, Bascules, Cibles, Ecritures
<1>2. Proprietaire' = Proprietaire
  BY DEF Proprietaire
<1> QED
  BY <1>1, <1>2, CoeurMeme

LEMMA ChargerCoeur ==
  ASSUME Formes, NEW p, NEW e \in Ecrans, NEW c \in BOOLEAN, Charger(e, c),
         p \in Produits, volet = "coeurs", p \notin douteCoeur'
  PROVE  CoeurJuste(p)'
<1>1. /\ connecte' = c /\ ecran' = e /\ coeurs' = {}
      /\ p \notin DouteCoeur(c) /\ favoris' = favoris
  BY DEF Charger, tables
<1>2. c = FALSE /\ p \notin ProduitsDe(EnAttente(Bascules))
  BY <1>1 DEF DouteCoeur
<1>3. Proprietaire' = "session"
  BY <1>1, <1>2 DEF Proprietaire
<1>4. ASSUME NEW b \in appels', b.type \in Bascules
      PROVE  b.p # p
  <2>1. PICK a \in EnAttente(Bascules \cup Ecritures) : Meme(a, b)
    BY <1>4, ChargerAppels DEF Bascules
  <2>2. a \in EnAttente(Bascules) /\ a.p = b.p
    BY <1>4, <2>1 DEF EnAttente, Meme
  <2> QED
    BY <1>2, <2>2 DEF ProduitsDe
<1>5. ASSUME NEW b \in appels', b.type = "coeurs", b.pour
      PROVE  b.de = "session" /\ b.recu = "rien"
  BY <1>5, ChargerAppels DEF Neuve
<1>6. ecran' = "catalogue" => \E b \in appels' : b.type = "coeurs" /\ b.pour = TRUE
  BY <1>1, ChargerPremiers
<1> QED
  BY <1>3, <1>4, <1>5, <1>6, CoeurDe

LEMMA AllerCoeur ==
  ASSUME Formes, NEW p, NEW e \in Ecrans, Aller(e),
         p \in Produits, volet = "coeurs", p \notin douteCoeur'
  PROVE  CoeurJuste(p)'
<1>1. /\ connecte' = connecte /\ ecran' = e /\ coeurs' = {} /\ favoris' = favoris
      /\ Api(statut) = Proprietaire
      /\ p \notin ProduitsDe({a \in appels : a.type \in Bascules})
  BY DEF Aller, tables
<1>2. Proprietaire' = Proprietaire
  BY <1>1 DEF Proprietaire
<1>3. ASSUME NEW b \in appels', b.type \in Bascules
      PROVE  b.p # p
  <2>1. PICK a \in appels : Lachee(a, b, {"coeurs", "page"} \cup Bascules)
    BY <1>3, AllerAppels DEF Bascules
  <2>2. a.type \in Bascules /\ a.p = b.p
    BY <1>3, <2>1 DEF Lachee, Meme
  <2> QED
    BY <1>1, <2>2 DEF ProduitsDe
<1>4. ASSUME NEW b \in appels', b.type = "coeurs", b.pour
      PROVE  b.de = Proprietaire /\ b.recu = "rien"
  <2>1. CASE \E a \in appels : Lachee(a, b, {"coeurs", "page"} \cup Bascules)
    BY <1>4, <2>1 DEF Lachee, Meme
  <2>2. CASE Neuve(b, b.type, Api(statut), UnProduit, 0)
    BY <1>1, <2>2 DEF Neuve
  <2> QED
    BY <2>1, <2>2, AllerAppels
<1>5. ecran' = "catalogue" => \E b \in appels' : b.type = "coeurs" /\ b.pour = TRUE
  BY <1>1, AllerPremiers
<1> QED
  BY <1>2, <1>3, <1>4, <1>5, CoeurDe

LEMMA StatutCoeur ==
  ASSUME Formes, NEW p, ArriverStatut, CoeurJuste(p)
  PROVE  CoeurJuste(p)'
<1> DEFINE T == IF connecte THEN {"badge"} ELSE {}
<1>1. /\ connecte' = connecte /\ ecran' = ecran /\ coeurs' = coeurs
      /\ favoris' = favoris
  BY DEF ArriverStatut, tables
<1>2. T \subseteq Cibles
  BY DEF Cibles
<1> HIDE DEF T
<1>3. ASSUME NEW a \in appels, ~(a.type \in Cibles \cup Ecritures)
      PROVE  a \in appels'
  <2>1. PICK b \in appels' : Lachee(a, b, T)
    BY StatutPremiers DEF T
  <2> QED
    BY <1>2, <1>3, <2>1 DEF Lachee
<1>4. ASSUME NEW b \in appels', ~(b.type \in Cibles \cup Ecritures)
      PROVE  b \in appels
  <2>1. PICK a \in appels : Lachee(a, b, T)
    BY <1>4, StatutAppels DEF T, Cibles
  <2> QED
    BY <1>2, <1>4, <2>1 DEF Lachee, Meme
<1> QED
  BY <1>1, <1>3, <1>4, CoeurAilleurs

LEMMA BasculerCoeur ==
  ASSUME Formes, NEW p, NEW q \in Produits, Basculer(q), CoeurJuste(p),
         p \notin douteCoeur'
  PROVE  CoeurJuste(p)'
<1>1. PICK b : /\ appels' = appels \cup {b}
               /\ b.type = IF q \in coeurs THEN "DELETE favori" ELSE "POST favori"
               /\ Neuve(b, b.type, Api(statut), q, 0) /\ Mesure(b)
               /\ b.avant = (EnRoute("coeurs") # {})
  BY BasculerAppels
<1>2. /\ ecran = "catalogue" /\ ecran' = ecran /\ connecte' = connecte
      /\ favoris' = favoris
      /\ coeurs' = (IF q \in coeurs THEN coeurs \ {q} ELSE coeurs \cup {q})
      /\ douteCoeur' = IF q \in ProduitsDe({a \in appels : a.type \in Bascules})
                             \/ Api(statut) # Proprietaire
                          THEN douteCoeur \cup {q} ELSE douteCoeur
  BY DEF Basculer, tables, montage
<1>3. Proprietaire' = Proprietaire
  BY <1>2 DEF Proprietaire
<1>4. b.p = q /\ b.de = Api(statut) /\ b.pour = TRUE /\ b.recu = "rien"
      /\ b.type \in Bascules /\ b.type # "coeurs"
  BY <1>1 DEF Neuve, Bascules
<1>5. CASE q # p
  <2>1. ~Regarde(b, p)
    BY <1>4, <1>5 DEF Regarde
  <2> QED
    BY <1>1, <1>2, <1>3, <1>5, <2>1, CoeurMeme
<1>6. CASE q = p
  <2>1. /\ p \notin ProduitsDe({a \in appels : a.type \in Bascules})
        /\ Api(statut) = Proprietaire
    BY <1>2, <1>6
  <2>2. \A a \in appels : ~(a.type \in Bascules /\ a.p = p)
    BY <2>1 DEF ProduitsDe
  <2>3. \A a \in appels' : a.type \in Bascules /\ a.p = p => a = b
    BY <1>1, <2>2
  <2>4. \A l \in appels' : l.type = "coeurs" /\ l.pour => l \in appels
    BY <1>1, <1>4
  <2>5. \A l \in appels : l.type = "coeurs" /\ l.pour => b.avant
    BY <1>1 DEF EnRoute
  <2>6. \A a \in appels' : a.type \in Bascules /\ a.p = p =>
          /\ \A c \in appels' : c.type \in Bascules /\ c.p = p => a = c
          /\ a.pour /\ a.de = Proprietaire'
          /\ ecran' = "catalogue" /\ a.recu \notin {"404", "400"}
    BY <1>2, <1>3, <1>4, <2>1, <2>3
  <2>7. \A l \in appels' : l.type = "coeurs" /\ l.pour =>
          /\ l.de = Proprietaire' /\ l.recu \in {"rien", "ok"}
          /\ l.recu = "ok" => (p \in l.vu <=> p \in favoris'[Proprietaire'])
          /\ \A a \in appels' : a.type \in Bascules /\ a.p = p =>
               a.avant /\ a.recu \in {"rien", "ok", "409"}
    <3> SUFFICES ASSUME NEW l \in appels', l.type = "coeurs", l.pour
                 PROVE  /\ l.de = Proprietaire' /\ l.recu \in {"rien", "ok"}
                        /\ l.recu = "ok" => (p \in l.vu <=> p \in favoris'[Proprietaire'])
                        /\ \A a \in appels' : a.type \in Bascules /\ a.p = p =>
                             a.avant /\ a.recu \in {"rien", "ok", "409"}
      OBVIOUS
    <3>1. l \in appels
      BY <2>4
    <3>2. /\ l.de = Proprietaire /\ l.recu \in {"rien", "ok"}
          /\ l.recu = "ok" => (p \in l.vu <=> p \in favoris[Proprietaire])
      BY <3>1, CoeurParts
    <3> QED
      BY <1>2, <1>3, <1>4, <2>3, <2>5, <3>1, <3>2
  <2>8. ASSUME \A l \in appels' : ~(l.type = "coeurs" /\ l.pour)
        PROVE  /\ p \in coeurs' <=> b.type = "POST favori"
               /\ p \in favoris'[Proprietaire'] <=> b.type = "DELETE favori"
    <3>1. \A l \in appels : ~(l.type = "coeurs" /\ l.pour)
      BY <1>1, <2>8
    <3>2. p \in coeurs <=> p \in favoris[Proprietaire]
      BY <1>2, <2>2, <3>1, CoeurParts
    <3> QED
      BY <1>1, <1>2, <1>3, <1>6, <3>2
  <2>9. b \in appels' /\ b.type \in Bascules /\ b.p = p
    BY <1>1, <1>4, <1>6
  <2>10. (\A l \in appels' : ~(l.type = "coeurs" /\ l.pour)) /\ ecran' = "catalogue" =>
           /\ (\A a \in appels' : ~(a.type \in Bascules /\ a.p = p)) =>
                (p \in coeurs' <=> p \in favoris'[Proprietaire'])
           /\ \A a \in appels' : a.type \in Bascules /\ a.p = p =>
                /\ a.recu \in {"ok", "409"} =>
                     (p \in coeurs' <=> p \in favoris'[Proprietaire'])
                /\ a.recu \notin {"ok", "409"} =>
                     /\ p \in coeurs' <=> a.type = "POST favori"
                     /\ p \in favoris'[Proprietaire'] <=> a.type = "DELETE favori"
    BY <1>4, <2>3, <2>8, <2>9
  <2> QED
    BY <2>6, <2>7, <2>10, CoeurDe
<1> QED
  BY <1>5, <1>6

LEMMA EcrireCoeur ==
  ASSUME Formes, NEW p, NEW q \in Produits,
         Ajouter(q) \/ UpdateQuantite(q) \/ Retirer(q), CoeurJuste(p)
  PROVE  CoeurJuste(p)'
<1>1. PICK b : appels' = appels \cup {b} /\ b.type \in Ecritures
  BY EcrireAppels
<1>2. /\ coeurs' = coeurs /\ favoris' = favoris /\ ecran' = ecran
      /\ connecte' = connecte
  BY EcrireAppels DEF tables, affichage, montage
<1> QED
  BY <1>1, <1>2, CoeurAilleurs

LEMMA ServirCoeur ==
  ASSUME Formes, NEW p \in Produits, NEW a \in appels, Servir(a), CoeurJuste(p),
         p \notin douteCoeur'
  PROVE  CoeurJuste(p)'
<1>1. PICK b : /\ appels' = (appels \ {a}) \cup {b}
               /\ b.type = a.type /\ b.de = a.de /\ b.p = a.p
               /\ b.pour = a.pour /\ b.avant = a.avant
               /\ a.recu = "rien" /\ b.recu \in {"ok", "409", "404", "400"}
               /\ b.recu = "404" => a.type = "quantite"
               /\ b.recu = "400" => a.type \in Cibles
               /\ a.type \in {"coeurs"} \cup Cibles =>
                    (b.recu = "ok" /\ b.vu = favoris[a.de]) \/ b.recu = "400"
  BY ServirAppels
<1>2. /\ coeurs' = coeurs /\ ecran' = ecran /\ connecte' = connecte
      /\ a.type \in Bascules => \/ \A l \in EnRoute("coeurs") : l.recu # "ok"
                                \/ douteCoeur' = douteCoeur \cup {a.p}
  BY DEF Servir, affichage, montage
<1>3. Proprietaire' = Proprietaire /\ Proprietaire \in Proprietaires
  BY <1>2 DEF Proprietaire, Proprietaires
<1>4. p \in favoris'[Proprietaire] <=>
        IF a.type \in Bascules /\ a.de = Proprietaire /\ a.p = p
        THEN a.type = "POST favori" ELSE p \in favoris[Proprietaire]
  BY <1>3, ServirTables
<1>5. CASE ~Regarde(a, p)
  <2>1. ~Regarde(b, p)
    BY <1>1, <1>5 DEF Regarde
  <2>2. p \in favoris'[Proprietaire] <=> p \in favoris[Proprietaire]
    BY <1>4, <1>5 DEF Regarde
  <2> QED
    BY <1>1, <1>2, <1>3, <1>5, <2>1, <2>2, CoeurMeme
<1>6. CASE a.type \in Bascules /\ a.p = p
  <2>1. /\ \A c \in appels : c.type \in Bascules /\ c.p = p => a = c
        /\ a.pour /\ a.de = Proprietaire /\ ecran = "catalogue"
    BY <1>6, CoeurParts
  <2>2. b.type # "coeurs" /\ b.recu \in {"ok", "409"}
    BY <1>1, <1>6 DEF Bascules, Cibles
  <2>3. \A c \in appels' : c.type \in Bascules /\ c.p = p => c = b
    BY <1>1, <2>1
  <2>4. \A l \in appels' : l.type = "coeurs" /\ l.pour =>
          /\ l \in appels /\ l.recu # "ok" /\ l.recu \in {"rien", "ok"}
          /\ l.de = Proprietaire /\ a.avant
    <3>1. \A l \in EnRoute("coeurs") : l.recu # "ok"
      BY <1>2, <1>6
    <3>2. \A l \in appels' : l.type = "coeurs" /\ l.pour =>
            l \in appels /\ l.recu # "ok"
      BY <1>1, <2>2, <3>1 DEF EnRoute
    <3>3. \A l \in appels : l.type = "coeurs" /\ l.pour =>
            l.recu \in {"rien", "ok"} /\ l.de = Proprietaire /\ a.avant
      BY <1>6, CoeurParts
    <3> QED
      BY <3>2, <3>3
  <2>5. \A c \in appels' : c.type \in Bascules /\ c.p = p =>
          /\ \A d \in appels' : d.type \in Bascules /\ d.p = p => c = d
          /\ c.pour /\ c.de = Proprietaire'
          /\ ecran' = "catalogue" /\ c.recu \notin {"404", "400"}
    BY <1>1, <1>2, <1>3, <2>1, <2>2, <2>3
  <2>6. \A l \in appels' : l.type = "coeurs" /\ l.pour =>
          /\ l.de = Proprietaire' /\ l.recu \in {"rien", "ok"}
          /\ l.recu = "ok" => (p \in l.vu <=> p \in favoris'[Proprietaire'])
          /\ \A c \in appels' : c.type \in Bascules /\ c.p = p =>
               c.avant /\ c.recu \in {"rien", "ok", "409"}
    BY <1>1, <1>3, <2>2, <2>3, <2>4
  <2>7. ASSUME \A l \in appels' : ~(l.type = "coeurs" /\ l.pour)
        PROVE  p \in coeurs' <=> p \in favoris'[Proprietaire']
    <3>1. \A l \in appels : ~(l.type = "coeurs" /\ l.pour)
      BY <1>1, <1>6, <2>7 DEF Bascules
    <3>2. p \in coeurs <=> a.type = "POST favori"
      BY <1>1, <1>6, <2>1, <3>1, CoeurParts
    <3> QED
      BY <1>2, <1>3, <1>4, <1>6, <2>1, <3>2
  <2>8. b \in appels' /\ b.type \in Bascules /\ b.p = p
    BY <1>1, <1>6
  <2> QED
    BY <2>2, <2>3, <2>5, <2>6, <2>7, <2>8, CoeurDe
<1>7. CASE a.type = "coeurs" /\ a.pour
  <2>1. a.de = Proprietaire
    BY <1>7, CoeurParts
  <2>2. b.recu = "ok" /\ b.vu = favoris[Proprietaire] /\ b.pour
        /\ b.type = "coeurs" /\ b.de = Proprietaire
    BY <1>1, <1>7, <2>1 DEF Cibles
  <2>3. p \in favoris'[Proprietaire] <=> p \in favoris[Proprietaire]
    BY <1>4, <1>7 DEF Bascules
  <2>4. \A c \in appels' : c.type \in Bascules /\ c.p = p => c \in appels
    BY <1>1, <2>2 DEF Bascules
  <2>5. \A c \in appels' : c.type \in Bascules /\ c.p = p =>
          /\ \A d \in appels' : d.type \in Bascules /\ d.p = p => c = d
          /\ c.pour /\ c.de = Proprietaire'
          /\ ecran' = "catalogue" /\ c.recu \notin {"404", "400"}
    <3> SUFFICES ASSUME NEW c \in appels', c.type \in Bascules, c.p = p
                 PROVE  /\ \A d \in appels' : d.type \in Bascules /\ d.p = p => c = d
                        /\ c.pour /\ c.de = Proprietaire'
                        /\ ecran' = "catalogue" /\ c.recu \notin {"404", "400"}
      OBVIOUS
    <3>1. c \in appels
      BY <2>4
    <3>2. /\ \A d \in appels : d.type \in Bascules /\ d.p = p => c = d
          /\ c.pour /\ c.de = Proprietaire
          /\ ecran = "catalogue" /\ c.recu \notin {"404", "400"}
      BY <3>1, CoeurParts
    <3> QED
      BY <1>2, <1>3, <2>4, <3>2
  <2>6. \A c \in appels : c.type \in Bascules /\ c.p = p =>
          c.avant /\ c.recu \in {"rien", "ok", "409"}
    BY <1>7, CoeurParts
  <2>7. \A l \in appels' : l.type = "coeurs" /\ l.pour =>
          /\ l.de = Proprietaire' /\ l.recu \in {"rien", "ok"}
          /\ l.recu = "ok" => (p \in l.vu <=> p \in favoris'[Proprietaire'])
          /\ \A c \in appels' : c.type \in Bascules /\ c.p = p =>
               c.avant /\ c.recu \in {"rien", "ok", "409"}
    <3>1. \A l \in appels : l.type = "coeurs" /\ l.pour =>
            /\ l.de = Proprietaire /\ l.recu \in {"rien", "ok"}
            /\ l.recu = "ok" => (p \in l.vu <=> p \in favoris[Proprietaire])
      BY CoeurParts
    <3> QED
      BY <1>1, <1>3, <2>2, <2>3, <2>4, <2>6, <3>1
  <2>8. b \in appels'
    BY <1>1
  <2> QED
    BY <2>2, <2>5, <2>7, <2>8, CoeurDe
<1> QED
  BY <1>5, <1>6, <1>7 DEF Regarde

LEMMA EchouerCoeur ==
  ASSUME Formes, NEW p \in Produits, NEW a \in appels, Echouer(a), CoeurJuste(p),
         p \notin douteCoeur'
  PROVE  CoeurJuste(p)'
<1>1. PICK b : /\ appels' = (appels \ {a}) \cup {b}
               /\ b.type = a.type /\ b.de = a.de /\ b.p = a.p
               /\ b.pour = a.pour /\ b.avant = a.avant
               /\ a.recu \in {"rien", "ok"} /\ b.recu = "echec"
  BY EchouerAppels
<1>2. /\ coeurs' = coeurs /\ favoris' = favoris /\ ecran' = ecran
      /\ connecte' = connecte
      /\ douteCoeur' = IF a.type = "coeurs" THEN Produits
                       ELSE IF a.type \in Bascules /\ (a.recu = "ok" \/ a.avant)
                         THEN douteCoeur \cup {a.p} ELSE douteCoeur
  BY DEF Echouer, affichage, tables, montage
<1>3. Proprietaire' = Proprietaire
  BY <1>2 DEF Proprietaire
<1>4. a.type # "coeurs"
  BY <1>2
<1>5. CASE ~Regarde(a, p)
  <2>1. ~Regarde(b, p)
    BY <1>1, <1>5 DEF Regarde
  <2> QED
    BY <1>1, <1>2, <1>3, <1>5, <2>1, CoeurMeme
<1>6. CASE a.type \in Bascules /\ a.p = p
  <2>1. a.recu = "rien" /\ ~a.avant
    BY <1>1, <1>2, <1>6
  <2>2. /\ \A c \in appels : c.type \in Bascules /\ c.p = p => a = c
        /\ a.pour /\ a.de = Proprietaire /\ ecran = "catalogue"
    BY <1>6, CoeurParts
  <2>3. \A l \in appels : ~(l.type = "coeurs" /\ l.pour)
    BY <1>6, <2>1, CoeurParts
  <2>4. \A l \in appels' : ~(l.type = "coeurs" /\ l.pour)
    BY <1>1, <1>4, <2>3
  <2>5. \A c \in appels' : c.type \in Bascules /\ c.p = p => c = b
    BY <1>1, <2>2
  <2>6. /\ p \in coeurs <=> a.type = "POST favori"
        /\ p \in favoris[Proprietaire] <=> a.type = "DELETE favori"
    BY <1>6, <2>1, <2>2, <2>3, CoeurParts
  <2>7. b \in appels' /\ b.type \in Bascules /\ b.p = p
    BY <1>1, <1>6
  <2>8. \A c \in appels' : c.type \in Bascules /\ c.p = p =>
          /\ \A d \in appels' : d.type \in Bascules /\ d.p = p => c = d
          /\ c.pour /\ c.de = Proprietaire'
          /\ ecran' = "catalogue" /\ c.recu \notin {"404", "400"}
    BY <1>1, <1>2, <1>3, <2>2, <2>5
  <2> QED
    BY <1>1, <1>2, <1>3, <2>4, <2>5, <2>6, <2>7, <2>8, CoeurDe
<1> QED
  BY <1>4, <1>5, <1>6 DEF Regarde

LEMMA ArriverCoeursCoeur ==
  ASSUME Formes, NEW p \in Produits, NEW a \in appels, ArriverCoeurs(a),
         CoeurJuste(p), p \notin douteCoeur'
  PROVE  CoeurJuste(p)'
<1>1. /\ appels' = appels \ {a} /\ a.type = "coeurs" /\ a.pour /\ a.recu # "rien"
      /\ coeurs' = (IF a.recu = "ok" THEN a.vu ELSE coeurs)
      /\ favoris' = favoris /\ ecran' = ecran /\ connecte' = connecte
      /\ p \notin ProduitsDe(EnAttente(Bascules))
  BY DEF ArriverCoeurs, Retire, tables, montage
<1>2. Proprietaire' = Proprietaire
  BY <1>1 DEF Proprietaire
<1>3. /\ a.recu = "ok" /\ (p \in a.vu <=> p \in favoris[Proprietaire])
      /\ \A c \in appels : c.type \in Bascules /\ c.p = p =>
           c.avant /\ c.recu \in {"rien", "ok", "409"}
  BY <1>1, CoeurParts
<1>4. \A c \in appels : c.type \in Bascules /\ c.p = p => c.recu # "rien"
  BY <1>1 DEF EnAttente, ProduitsDe
<1>5. p \in coeurs' <=> p \in favoris'[Proprietaire']
  BY <1>1, <1>2, <1>3
<1>6. \A c \in appels' : c.type \in Bascules /\ c.p = p =>
        /\ \A d \in appels' : d.type \in Bascules /\ d.p = p => c = d
        /\ c.pour /\ c.de = Proprietaire'
        /\ ecran' = "catalogue" /\ c.recu \notin {"404", "400"}
  <2>1. \A c \in appels : c.type \in Bascules /\ c.p = p =>
          /\ \A d \in appels : d.type \in Bascules /\ d.p = p => c = d
          /\ c.pour /\ c.de = Proprietaire
          /\ ecran = "catalogue" /\ c.recu \notin {"404", "400"}
    BY CoeurParts
  <2> QED
    BY <1>1, <1>2, <2>1
<1>7. \A l \in appels' : l.type = "coeurs" /\ l.pour =>
        /\ l.de = Proprietaire' /\ l.recu \in {"rien", "ok"}
        /\ l.recu = "ok" => (p \in l.vu <=> p \in favoris'[Proprietaire'])
        /\ \A c \in appels' : c.type \in Bascules /\ c.p = p =>
             c.avant /\ c.recu \in {"rien", "ok", "409"}
  <2>1. \A l \in appels : l.type = "coeurs" /\ l.pour =>
          /\ l.de = Proprietaire /\ l.recu \in {"rien", "ok"}
          /\ l.recu = "ok" => (p \in l.vu <=> p \in favoris[Proprietaire])
    BY CoeurParts
  <2> QED
    BY <1>1, <1>2, <1>3, <2>1
<1>8. \A c \in appels' : c.type \in Bascules /\ c.p = p => c.recu \in {"ok", "409"}
  BY <1>1, <1>3, <1>4
<1> QED
  BY <1>5, <1>6, <1>7, <1>8, CoeurDe

LEMMA ArriverBasculeCoeur ==
  ASSUME Formes, NEW p \in Produits, NEW a \in appels, ArriverBascule(a),
         CoeurJuste(p)
  PROVE  CoeurJuste(p)'
<1>1. /\ appels' = appels \ {a} /\ a.type \in Bascules /\ a.recu # "rien"
      /\ coeurs' = IF a.recu # "echec" THEN coeurs
                   ELSE IF a.type = "DELETE favori" THEN coeurs \cup {a.p}
                   ELSE coeurs \ {a.p}
      /\ favoris' = favoris /\ ecran' = ecran /\ connecte' = connecte
  BY DEF ArriverBascule, ARemettre, Retire, tables, montage
<1>2. Proprietaire' = Proprietaire
  BY <1>1 DEF Proprietaire
<1>3. CASE a.p # p
  <2>1. ~Regarde(a, p)
    BY <1>1, <1>3 DEF Regarde, Bascules
  <2>2. p \in coeurs' <=> p \in coeurs
    BY <1>1, <1>3
  <2> QED
    BY <1>1, <1>2, <2>1, <2>2, CoeurMeme
<1>4. CASE a.p = p
  <2>1. /\ \A c \in appels : c.type \in Bascules /\ c.p = p => a = c
        /\ a.recu \notin {"404", "400"} /\ a.recu \in Issues
    BY <1>1, <1>4, CoeurParts, FormesParts DEF Forme
  <2>2. \A c \in appels' : ~(c.type \in Bascules /\ c.p = p)
    BY <1>1, <2>1
  <2>3. \A l \in appels' : l.type = "coeurs" /\ l.pour =>
          /\ l.de = Proprietaire' /\ l.recu \in {"rien", "ok"}
          /\ l.recu = "ok" => (p \in l.vu <=> p \in favoris'[Proprietaire'])
    BY <1>1, <1>2, CoeurParts
  <2>4. ASSUME \A l \in appels' : ~(l.type = "coeurs" /\ l.pour),
               ecran' = "catalogue"
        PROVE  p \in coeurs' <=> p \in favoris'[Proprietaire']
    <3>1. \A l \in appels : ~(l.type = "coeurs" /\ l.pour)
      BY <1>1, <2>4 DEF Bascules
    <3>2. ecran = "catalogue"
      BY <1>1, <2>4
    <3>3. CASE a.recu = "echec"
      <4>1. /\ p \in coeurs <=> a.type = "POST favori"
            /\ p \in favoris[Proprietaire] <=> a.type = "DELETE favori"
        BY <1>1, <1>4, <3>1, <3>2, <3>3, CoeurParts
      <4> QED
        BY <1>1, <1>2, <1>4, <3>3, <4>1
    <3>4. CASE a.recu # "echec"
      <4>1. a.recu \in {"ok", "409"}
        BY <1>1, <2>1, <3>4 DEF Issues
      <4>2. p \in coeurs <=> p \in favoris[Proprietaire]
        BY <1>1, <1>4, <3>1, <3>2, <4>1, CoeurParts
      <4> QED
        BY <1>1, <1>2, <3>4, <4>2
    <3> QED
      BY <3>3, <3>4
  <2> QED
    BY <2>2, <2>3, <2>4, CoeurDe
<1> QED
  BY <1>3, <1>4

LEMMA ArriverAutresCoeur ==
  ASSUME Formes, NEW p \in Produits, NEW a \in appels,
         Ignorer(a) \/ ArriverPanier(a) \/ ArriverEcriture(a), CoeurJuste(p)
  PROVE  CoeurJuste(p)'
<1>1. /\ coeurs' = coeurs /\ favoris' = favoris /\ ecran' = ecran
      /\ connecte' = connecte
  BY DEF Ignorer, ArriverPanier, ArriverEcriture, affichage, tables, montage
<1>2. CASE Ignorer(a)
  <2>1. appels' = appels \ {a} /\ ~a.pour
    BY <1>2 DEF Ignorer, Retire
  <2>2. ~Regarde(a, p)
    BY <2>1, CoeurParts DEF Regarde
  <2> QED
    BY <1>1, <2>1, <2>2, CoeurAilleurs
<1>3. CASE ArriverPanier(a)
  <2>1. appels' = appels \ {a} /\ a.type \in Cibles
    BY <1>3 DEF ArriverPanier, Retire
  <2> QED
    BY <1>1, <2>1, CoeurAilleurs
<1>4. CASE ArriverEcriture(a)
  <2>1. /\ a.type \in Ecritures /\ appels \ {a} \subseteq appels'
        /\ \A b \in appels' : b \in appels \/ b.type \in Cibles
    BY <1>4, EcritureAppels
  <2> QED
    BY <1>1, <2>1, CoeurAilleurs
<1> QED
  BY <1>2, <1>3, <1>4

LEMMA PerimerCoeur ==
  ASSUME Formes, NEW p \in Produits, NEW c \in Cibles, Perimer(c), CoeurJuste(p)
  PROVE  CoeurJuste(p)'
<1>1. /\ coeurs' = coeurs /\ favoris' = favoris /\ ecran' = ecran
      /\ connecte' = connecte /\ appels' = appels
  BY DEF Perimer, affichage, tables
<1> QED
  BY <1>1, CoeurAilleurs

\* Only a page that is mounted again takes hearts out of doubt.
LEMMA DouteCroit ==
  ASSUME Formes, ~(\E e \in Ecrans, c \in BOOLEAN : Charger(e, c)),
         ~(\E e \in Ecrans : Aller(e)), NextAchats
  PROVE  douteCoeur \subseteq douteCoeur'
<1>1. douteCoeur \subseteq Produits
  BY FormesParts
<1>2. CASE ArriverStatut \/ \E c \in Cibles : Perimer(c)
  BY <1>2 DEF ArriverStatut, Perimer
<1>3. ASSUME NEW p \in Produits,
             Basculer(p) \/ Ajouter(p) \/ UpdateQuantite(p) \/ Retirer(p)
      PROVE  douteCoeur \subseteq douteCoeur'
  BY <1>3, EcrireAppels DEF Basculer
<1>4. ASSUME NEW a \in appels,
             \/ Servir(a) \/ Ignorer(a) \/ ArriverCoeurs(a)
             \/ ArriverBascule(a) \/ ArriverPanier(a) \/ ArriverEcriture(a)
      PROVE  douteCoeur \subseteq douteCoeur'
  BY <1>4 DEF Servir, Ignorer, ArriverCoeurs, ArriverBascule,
              ArriverPanier, ArriverEcriture
<1>5. ASSUME NEW a \in appels, Echouer(a)
      PROVE  douteCoeur \subseteq douteCoeur'
  BY <1>1, <1>5 DEF Echouer
<1> QED
  BY <1>2, <1>3, <1>4, <1>5 DEF NextAchats

LEMMA CoeursPas ==
  ASSUME Formes, CoeursJustes, NextAchats
  PROVE  CoeursJustes'
<1> SUFFICES ASSUME NEW p \in Produits, volet' = "coeurs", p \notin douteCoeur'
             PROVE  CoeurJuste(p)'
  BY DEF CoeursJustes
<1>1. volet' = volet
  <2>1. ASSUME NEW a \in appels, Servir(a)
        PROVE  volet' = volet
    BY <2>1, ServirTables
  <2>2. ASSUME NEW q \in Produits, Ajouter(q) \/ UpdateQuantite(q) \/ Retirer(q)
        PROVE  volet' = volet
    BY <2>2, EcrireAppels DEF tables
  <2> QED
    BY <2>1, <2>2 DEF NextAchats, Charger, Aller, ArriverStatut, Perimer, Basculer,
       Echouer, Ignorer, ArriverCoeurs, ArriverBascule, ArriverPanier, ArriverEcriture, tables
<1>2. CASE \E e \in Ecrans, c \in BOOLEAN : Charger(e, c)
  BY <1>1, <1>2, ChargerCoeur
<1>3. CASE \E e \in Ecrans : Aller(e)
  BY <1>1, <1>3, AllerCoeur
<1>4. CASE /\ ~(\E e \in Ecrans, c \in BOOLEAN : Charger(e, c))
           /\ ~(\E e \in Ecrans : Aller(e))
  <2>1. CoeurJuste(p)
    BY <1>1, <1>4, DouteCroit DEF CoeursJustes
  <2>2. CASE ArriverStatut
    BY <2>1, <2>2, StatutCoeur
  <2>3. CASE \E q \in Produits : Basculer(q)
    BY <2>1, <2>3, BasculerCoeur
  <2>4. CASE \E q \in Produits : Ajouter(q) \/ UpdateQuantite(q) \/ Retirer(q)
    BY <2>1, <2>4, EcrireCoeur
  <2>5. CASE \E a \in appels : Servir(a)
    BY <2>1, <2>5, ServirCoeur
  <2>6. CASE \E a \in appels : Echouer(a)
    BY <2>1, <2>6, EchouerCoeur
  <2>7. CASE \E a \in appels : ArriverCoeurs(a)
    BY <2>1, <2>7, ArriverCoeursCoeur
  <2>8. CASE \E a \in appels : ArriverBascule(a)
    BY <2>1, <2>8, ArriverBasculeCoeur
  <2>9. CASE \E a \in appels : Ignorer(a) \/ ArriverPanier(a) \/ ArriverEcriture(a)
    BY <2>1, <2>9, ArriverAutresCoeur
  <2>10. CASE \E c \in Cibles : Perimer(c)
    BY <2>1, <2>10, PerimerCoeur
  <2> QED
    BY <1>4, <2>2, <2>3, <2>4, <2>5, <2>6, <2>7, <2>8, <2>9, <2>10 DEF NextAchats
<1> QED
  BY <1>2, <1>3, <1>4

LEMMA InitCoeurs == InitAchats => CoeursJustes
<1> SUFFICES ASSUME InitAchats, NEW p \in Produits, volet = "coeurs",
                    p \notin douteCoeur
             PROVE  CoeurJuste(p)
  BY DEF CoeursJustes
<1>1. /\ ecran \in Ecrans /\ coeurs = {} /\ appels = Premiers(ecran)
      /\ ~connecte /\ volet \in {"coeurs", "panier"}
  BY DEF InitAchats
<1>2. Proprietaire = "session"
  BY <1>1 DEF Proprietaire
<1>3. \A b \in appels : /\ b.de = "session" /\ b.recu = "rien"
                        /\ b.type = "badge" \/ b.type = "coeurs"
  <2> SUFFICES ASSUME NEW b \in appels
               PROVE  /\ b.de = "session" /\ b.recu = "rien"
                      /\ b.type = "badge" \/ b.type = "coeurs"
    OBVIOUS
  <2>1. /\ Neuve(b, b.type, "session", UnProduit, 0)
        /\ b.type = "badge" \/ b.type = "coeurs"
    BY <1>1, PremiersVrai
  <2> QED
    BY <2>1 DEF Neuve
<1>4. ecran = "catalogue" => \E b \in appels : b.type = "coeurs" /\ b.pour = TRUE
  BY <1>1, PremiersVrai DEF Neuve
<1>5. Clics(p) = {}
  BY <1>3 DEF Clics, Bascules
<1>6. \A l \in EnRoute("coeurs") : l.de = "session" /\ l.recu = "rien"
  BY <1>3 DEF EnRoute
<1>7. ecran = "catalogue" => EnRoute("coeurs") # {}
  BY <1>4 DEF EnRoute
<1> QED
  BY <1>2, <1>5, <1>6, <1>7 DEF CoeurJuste
----------------------------------------------------------------------------
(* The page of the cart and the badge.                                     *)

\* The calls that CibleJuste(c) is about.
Demande(g, c) == g.type = c /\ g.pour
Suite(a) == a.type \in Ecritures /\ a.pour /\ a.recu = "ok"

LEMMA CibleParts ==
  ASSUME NEW c, CibleJuste(c)
  PROVE  /\ \A g \in appels : Demande(g, c) =>
              /\ g.de = Proprietaire /\ g.recu \in Reponses(c)
              /\ (\A a \in appels : ~Suite(a)) /\ g.recu = "ok" =>
                   g.lu = panier[Proprietaire]
         /\ (\A a \in appels : ~Suite(a) /\ ~Demande(a, c)) => Montre(c)
         /\ c = "page" /\ page = Erreur => c \in perimes
<1>1. (\A a \in appels : ~Suite(a)) => Suites = {}
  BY DEF Suite, Suites
<1>2. (\A a \in appels : ~Demande(a, c)) => EnRoute(c) = {}
  BY DEF Demande, EnRoute
<1>3. \A g \in appels : Demande(g, c) => g \in EnRoute(c)
  BY DEF Demande, EnRoute
<1> QED
  BY <1>1, <1>2, <1>3 DEF CibleJuste, AppelsJustes, ErreurSue

LEMMA CibleDe ==
  ASSUME NEW c,
         \A g \in appels' : Demande(g, c) =>
              /\ g.de = Proprietaire' /\ g.recu \in Reponses(c)'
              /\ (\A a \in appels' : ~Suite(a)) /\ g.recu = "ok" =>
                   g.lu = panier'[Proprietaire'],
         (\A a \in appels' : ~Suite(a) /\ ~Demande(a, c)) => Montre(c)',
         c = "page" /\ page' = Erreur => c \in perimes'
  PROVE  CibleJuste(c)'
<1>1. Suites' = {} => \A a \in appels' : ~Suite(a)
  BY DEF Suite, Suites
<1>2. EnRoute(c)' = {} => \A a \in appels' : ~Demande(a, c)
  BY DEF Demande, EnRoute
<1>3. \A g \in EnRoute(c)' : g \in appels' /\ Demande(g, c)
  BY DEF Demande, EnRoute
<1>4. AppelsJustes(c)'
  BY <1>1, <1>3 DEF AppelsJustes
<1>5. Suites' = {} /\ EnRoute(c)' = {} => Montre(c)'
  BY <1>1, <1>2
<1> QED
  BY <1>4, <1>5 DEF CibleJuste, ErreurSue

\* A step after which what is shown for c was just asked for.
LEMMA CibleDemandee ==
  ASSUME NEW c,
         \A g \in appels' : Demande(g, c) => g.de = Proprietaire' /\ g.recu = "rien",
         \E g \in appels' : Demande(g, c),
         c = "page" /\ page' = Erreur => c \in perimes'
  PROVE  CibleJuste(c)'
BY CibleDe DEF Reponses

\* A step that does not touch what is shown for c, nor the cart once no event
\* is to come.
LEMMA CibleMeme ==
  ASSUME NEW c, CibleJuste(c),
         Proprietaire' = Proprietaire,
         \A g \in appels : Demande(g, c) => g \in appels',
         \A g \in appels' : Demande(g, c) => g \in appels,
         (\A a \in appels' : ~Suite(a)) =>
           /\ \A a \in appels : ~Suite(a)
           /\ panier'[Proprietaire] = panier[Proprietaire],
         badge' = badge, page' = page, statut' = statut,
         c \in perimes => c \in perimes'
  PROVE  CibleJuste(c)'
<1>1. ASSUME NEW g \in appels', Demande(g, c)
      PROVE  /\ g.de = Proprietaire' /\ g.recu \in Reponses(c)'
             /\ (\A a \in appels' : ~Suite(a)) /\ g.recu = "ok" =>
                  g.lu = panier'[Proprietaire']
  <2>1. g \in appels
    BY <1>1
  <2>2. /\ g.de = Proprietaire /\ g.recu \in Reponses(c)
        /\ (\A a \in appels : ~Suite(a)) /\ g.recu = "ok" =>
             g.lu = panier[Proprietaire]
    BY <1>1, <2>1, CibleParts
  <2>3. g.recu \in Reponses(c)'
    BY <2>2 DEF Reponses
  <2> QED
    BY <2>2, <2>3
<1>2. ASSUME \A a \in appels' : ~Suite(a) /\ ~Demande(a, c)
      PROVE  Montre(c)'
  <2>1. /\ \A a \in appels : ~Suite(a) /\ ~Demande(a, c)
        /\ panier'[Proprietaire] = panier[Proprietaire]
    BY <1>2
  <2>2. Montre(c)
    BY <2>1, CibleParts
  <2> QED
    BY <2>1, <2>2 DEF Montre
<1>3. c = "page" /\ page' = Erreur => c \in perimes'
  BY CibleParts
<1> QED
  BY <1>1, <1>2, <1>3, CibleDe

\* The calls of another kind.
LEMMA CibleAilleurs ==
  ASSUME NEW c \in Cibles, CibleJuste(c),
         Proprietaire' = Proprietaire, panier' = panier,
         \A a \in appels : Demande(a, c) \/ Suite(a) => a \in appels',
         \A a \in appels' : Demande(a, c) => a \in appels,
         badge' = badge, page' = page, statut' = statut,
         c \in perimes => c \in perimes'
  PROVE  CibleJuste(c)'
<1>1. (\A a \in appels' : ~Suite(a)) => \A a \in appels : ~Suite(a)
  OBVIOUS
<1> QED
  BY <1>1, CibleMeme

\* The cart, before and after a step.
Panier == OublisSus /\ BadgeJuste /\ PageJuste

\* No change of the cart is forgotten.
LEMMA OublisDe ==
  ASSUME OublisSus,
         \A b \in appels' : b.type \in Ecritures /\ b.recu = "rien" /\ ~b.pour =>
           b \in appels \/ douteCible' = Cibles,
         douteCible = Cibles => douteCible' = Cibles
  PROVE  OublisSus'
<1> SUFFICES ASSUME NEW b \in appels', b.type \in Ecritures, b.recu = "rien", ~b.pour
             PROVE  douteCible' = Cibles
  BY DEF OublisSus, EnAttente
<1>1. CASE b \in appels
  <2>1. b \in EnAttente(Ecritures) /\ ~b.pour
    BY <1>1 DEF EnAttente
  <2> QED
    BY <2>1 DEF OublisSus
<1> QED
  BY <1>1

LEMMA ChargerPanier ==
  ASSUME Formes, NEW e \in Ecrans, NEW c \in BOOLEAN, Charger(e, c)
  PROVE  Panier'
<1>1. /\ connecte' = c /\ statut' = "loading" /\ ecran' = e /\ apiPage' = "session"
      /\ douteCible' = DouteCible(c) /\ volet' = volet /\ page' = Rien
  BY DEF Charger, tables
<1>2. ASSUME NEW g \in appels', g.pour
      PROVE  /\ g.de = "session" /\ g.recu = "rien"
             /\ g.type = "badge" \/ g.type = "coeurs"
  BY <1>2, ChargerAppels DEF Neuve
<1>3. OublisSus'
  <2> SUFFICES ASSUME NEW b \in appels', b.type \in Ecritures, b.recu = "rien",
                      ~b.pour
               PROVE  douteCible' = Cibles
    BY DEF OublisSus, EnAttente
  <2>1. PICK a \in EnAttente(Bascules \cup Ecritures) : Meme(a, b)
    BY ChargerAppels DEF Neuve
  <2>2. a \in EnAttente(Ecritures)
    BY <2>1 DEF EnAttente, Meme
  <2> QED
    BY <1>1, <2>2 DEF DouteCible, Cibles
<1>4. BadgeJuste'
  <2> SUFFICES ASSUME BadgeSur'
               PROVE  CibleJuste("badge")'
    BY DEF BadgeJuste
  <2>1. ~c /\ volet = "panier"
    BY <1>1 DEF BadgeSur
  <2>2. Proprietaire' = "session"
    BY <1>1, <2>1 DEF Proprietaire
  <2>3. \E g \in appels' : Demande(g, "badge")
    BY <2>1, ChargerPremiers DEF Demande
  <2>4. \A g \in appels' : Demande(g, "badge") =>
          g.de = Proprietaire' /\ g.recu = "rien"
    BY <1>2, <2>2 DEF Demande
  <2> QED
    BY <2>3, <2>4, CibleDemandee
<1>5. PageJuste'
  <2> SUFFICES ASSUME PageSure'
               PROVE  apiPage' = Proprietaire' /\ CibleJuste("page")'
    BY DEF PageJuste
  <2>1. ~c
    BY <1>1 DEF PageSure, DouteCible
  <2>2. apiPage' = Proprietaire'
    BY <1>1, <2>1 DEF Proprietaire
  <2>3. \A g \in appels' : ~Demande(g, "page")
    BY <1>2 DEF Demande
  <2>4. Montre("page")'
    BY <1>1 DEF Montre
  <2>5. CibleJuste("page")'
    BY <1>1, <2>3, <2>4, CibleDe, ErreurAPart
  <2> QED
    BY <2>2, <2>5
<1> QED
  BY <1>3, <1>4, <1>5 DEF Panier

LEMMA AllerPanier ==
  ASSUME Formes, Panier, NEW e \in Ecrans, Aller(e)
  PROVE  Panier'
<1> DEFINE T == {"coeurs", "page"} \cup Bascules
<1>1. /\ connecte' = connecte /\ statut' = statut /\ ecran' = e
      /\ apiPage' = Api(statut) /\ volet' = volet /\ panier' = panier
      /\ badge' = badge /\ page' = Rien /\ perimes' = perimes \ {"page"}
      /\ douteCible' = (IF Api(statut) = Proprietaire
                        THEN douteCible \ Remontees({"page"})
                        ELSE douteCible \cup {"page"})
  BY DEF Aller, tables
<1>2. Proprietaire' = Proprietaire
  BY <1>1 DEF Proprietaire
<1>3. \A a \in appels : a.type \notin T => a \in appels'
  <2>1. \A a \in appels : \E b \in appels' : Lachee(a, b, T)
    BY AllerPremiers
  <2> QED
    BY <2>1 DEF Lachee
<1>4. \A b \in appels' : b.type \notin T => b \in appels
  <2>1. \A b \in appels' :
           \/ b.type \in {"coeurs", "page"}
           \/ \E a \in appels : Lachee(a, b, T)
    BY AllerAppels
  <2> QED
    BY <2>1 DEF Lachee, Meme
<1>5. \A b \in appels' : Demande(b, "page") =>
        b.de = Api(statut) /\ b.recu = "rien"
  <2> SUFFICES ASSUME NEW b \in appels', b.type = "page", b.pour
               PROVE  b.de = Api(statut) /\ b.recu = "rien"
    BY DEF Demande
  <2>1. ~\E a \in appels : Lachee(a, b, T)
    BY DEF Lachee, Meme
  <2>2. Neuve(b, b.type, Api(statut), UnProduit, 0)
    BY <2>1, AllerAppels
  <2> QED
    BY <2>2 DEF Neuve
<1>6. \A t \in Ecritures \cup {"badge"} : t \notin T
  BY DEF Ecritures, Bascules
<1> HIDE DEF T
<1>7. OublisSus'
  <2> SUFFICES ASSUME NEW b \in appels', b.type \in Ecritures, b.recu = "rien",
                      ~b.pour
               PROVE  douteCible' = Cibles
    BY DEF OublisSus, EnAttente
  <2>1. b \in EnAttente(Ecritures)
    BY <1>4, <1>6 DEF EnAttente
  <2>2. douteCible = Cibles
    BY <2>1 DEF Panier, OublisSus
  <2>3. Remontees({"page"}) = {}
    BY <2>1 DEF Remontees
  <2> QED
    BY <1>1, <2>2, <2>3 DEF Cibles
<1>8. BadgeJuste'
  <2> SUFFICES ASSUME BadgeSur'
               PROVE  CibleJuste("badge")'
    BY DEF BadgeJuste
  <2>1. "badge" \notin douteCible
    BY <1>1 DEF BadgeSur, Remontees
  <2>2. BadgeSur /\ Reponses("badge")' = Reponses("badge")
    BY <1>1, <2>1 DEF BadgeSur, Reponses
  <2>3. CibleJuste("badge")
    BY <2>2 DEF Panier, BadgeJuste
  <2>4. /\ \A a \in appels : Demande(a, "badge") \/ Suite(a) => a \in appels'
        /\ \A a \in appels' : Demande(a, "badge") => a \in appels
        /\ \A a \in appels' : Suite(a) => a \in appels
    BY <1>3, <1>4, <1>6 DEF Demande, Suite
  <2>5. \A g \in appels' : Demande(g, "badge") =>
              /\ g.de = Proprietaire' /\ g.recu \in Reponses("badge")'
              /\ (\A a \in appels' : ~Suite(a)) /\ g.recu = "ok" =>
                   g.lu = panier'[Proprietaire']
    BY <1>1, <1>2, <2>2, <2>3, <2>4, CibleParts
  <2>6. (\A a \in appels' : ~Suite(a) /\ ~Demande(a, "badge")) => Montre("badge")'
    <3>1. (\A a \in appels : ~Suite(a) /\ ~Demande(a, "badge")) => Montre("badge")
      BY <2>3, CibleParts
    <3>2. Montre("badge") => Montre("badge")'
      BY <1>1, <1>2 DEF Montre
    <3> QED
      BY <2>4, <3>1, <3>2
  <2> QED
    BY <2>5, <2>6, CibleDe
<1>9. PageJuste'
  <2> SUFFICES ASSUME PageSure'
               PROVE  apiPage' = Proprietaire' /\ CibleJuste("page")'
    BY DEF PageJuste
  <2>1. Api(statut) = Proprietaire /\ e = "panier" /\ volet = "panier"
    BY <1>1 DEF PageSure
  <2>2. statut # "loading" => \E b \in appels' : Demande(b, "page")
    BY <2>1, AllerPremiers DEF Demande
  <2>3. statut = "loading" => Montre("page")'
    BY <1>1 DEF Montre
  <2>4. CibleJuste("page")'
    <3>1. \A g \in appels' : Demande(g, "page") =>
            g.de = Proprietaire' /\ g.recu = "rien"
      BY <1>2, <1>5, <2>1
    <3>2. page' # Erreur
      BY <1>1, ErreurAPart
    <3>3. CASE statut # "loading"
      BY <2>2, <3>1, <3>2, <3>3, CibleDemandee
    <3>4. CASE statut = "loading"
      <4>1. "rien" \in Reponses("page")'
        BY DEF Reponses
      <4> QED
        BY <2>3, <3>1, <3>2, <3>4, <4>1, CibleDe
    <3> QED
      BY <3>3, <3>4
  <2> QED
    BY <1>1, <1>2, <2>1, <2>4
<1> QED
  BY <1>7, <1>8, <1>9 DEF Panier

LEMMA StatutPanier ==
  ASSUME Formes, Panier, ArriverStatut
  PROVE  Panier'
<1> DEFINE T == IF connecte THEN {"badge"} ELSE {}
<1>1. /\ connecte' = connecte /\ statut' # "loading" /\ ecran' = ecran
      /\ apiPage' = apiPage /\ volet' = volet /\ panier' = panier
      /\ badge' = (IF connecte THEN 0 ELSE badge) /\ page' = page
      /\ douteCible' = douteCible \ Remontees(T) /\ perimes' = perimes
      /\ perimes = {}
  BY FormesParts DEF ArriverStatut, tables, Jetons
<1>2. Proprietaire' = Proprietaire
  BY <1>1 DEF Proprietaire
<1>3. \A a \in appels : a.type \notin T => a \in appels'
  <2>1. \A a \in appels : \E b \in appels' : Lachee(a, b, T)
    BY StatutPremiers
  <2> QED
    BY <2>1 DEF Lachee
<1>4. ASSUME NEW b \in appels'
      PROVE  \/ b.de = Proprietaire /\ b.recu = "rien" /\ b.pour = TRUE
                  /\ ((b.type = "badge" /\ connecte) \/ b.type = "page")
             \/ b.type \notin T /\ b \in appels
             \/ b.type \in T /\ ~b.pour
  <2>1. CASE /\ Neuve(b, b.type, Proprietaire, UnProduit, 0)
             /\ (b.type = "badge" /\ connecte) \/ b.type = "page"
    BY <2>1 DEF Neuve
  <2>2. CASE \E a \in appels : Lachee(a, b, T)
    BY <2>2 DEF Lachee, Meme
  <2> QED
    BY <2>1, <2>2, StatutAppels
<1>5. T \subseteq {"badge"} /\ (~connecte => T = {})
  OBVIOUS
<1>6. \A t \in Ecritures \cup {"page"} : t # "badge"
  BY DEF Ecritures
<1>7. connecte => T = {"badge"}
  OBVIOUS
<1> HIDE DEF T
<1>13. \A c \in Cibles : Reponses(c)' = Reponses(c) /\ "rien" \in Reponses(c)
  BY <1>1 DEF Reponses
<1>8. \A b \in appels' : b.type \in Ecritures => b \in appels
  BY <1>4, <1>5 DEF Ecritures
<1>9. OublisSus'
  <2> SUFFICES ASSUME NEW b \in appels', b.type \in Ecritures, b.recu = "rien",
                      ~b.pour
               PROVE  douteCible' = Cibles
    BY DEF OublisSus, EnAttente
  <2>1. b \in EnAttente(Ecritures)
    BY <1>8 DEF EnAttente
  <2>2. douteCible = Cibles
    BY <2>1 DEF Panier, OublisSus
  <2>3. Remontees(T) = {}
    BY <2>1 DEF Remontees
  <2> QED
    BY <1>1, <2>2, <2>3 DEF Cibles
<1>10. \A a \in appels : Suite(a) => a \in appels'
  BY <1>3, <1>5, <1>6 DEF Suite
<1>11. BadgeJuste'
  <2> SUFFICES ASSUME BadgeSur'
               PROVE  CibleJuste("badge")'
    BY DEF BadgeJuste
  <2>1. CASE connecte
    <3>1. \E b \in appels' : Demande(b, "badge")
      BY <1>1, <2>1, StatutPremiers DEF Demande, BadgeSur
    <3>2. \A b \in appels' : Demande(b, "badge") =>
            b.de = Proprietaire' /\ b.recu = "rien"
      BY <1>2, <1>4, <1>7, <2>1 DEF Demande
    <3> QED
      BY <3>1, <3>2, CibleDemandee
  <2>2. CASE ~connecte
    <3>1. "badge" \notin douteCible
      BY <1>1, <1>5, <2>2 DEF BadgeSur, Remontees
    <3>2. CibleJuste("badge")
      BY <1>1, <2>2, <3>1 DEF BadgeSur, Panier, BadgeJuste
    <3>3. /\ \A a \in appels : Demande(a, "badge") \/ Suite(a) => a \in appels'
          /\ \A a \in appels' : Demande(a, "badge") => a \in appels
      BY <1>3, <1>4, <1>5, <1>10, <2>2 DEF Demande
    <3>4. \A g \in appels' : Demande(g, "badge") =>
                /\ g.de = Proprietaire' /\ g.recu \in Reponses("badge")'
                /\ (\A a \in appels' : ~Suite(a)) /\ g.recu = "ok" =>
                     g.lu = panier'[Proprietaire']
      BY <1>1, <1>2, <1>13, <3>2, <3>3, CibleParts DEF Cibles
    <3>5. (\A a \in appels' : ~Suite(a) /\ ~Demande(a, "badge")) => Montre("badge")'
      <4>1. (\A a \in appels : ~Suite(a) /\ ~Demande(a, "badge")) => Montre("badge")
        BY <3>2, CibleParts
      <4>2. Montre("badge") => Montre("badge")'
        BY <1>1, <1>2, <2>2 DEF Montre
      <4> QED
        BY <3>3, <4>1, <4>2
    <3> QED
      BY <3>4, <3>5, CibleDe
  <2> QED
    BY <2>1, <2>2
<1>12. PageJuste'
  <2> SUFFICES ASSUME PageSure'
               PROVE  apiPage' = Proprietaire' /\ CibleJuste("page")'
    BY DEF PageJuste
  <2>1. PageSure
    BY <1>1, <1>5 DEF PageSure, Remontees
  <2>2. apiPage = Proprietaire /\ CibleJuste("page")
    BY <2>1 DEF Panier, PageJuste
  <2>3. \E b \in appels' : Demande(b, "page")
    BY <2>1, StatutPremiers DEF PageSure, Demande
  <2>4. ASSUME NEW g \in appels', Demande(g, "page")
        PROVE  /\ g.de = Proprietaire' /\ g.recu \in Reponses("page")'
               /\ (\A a \in appels' : ~Suite(a)) /\ g.recu = "ok" =>
                    g.lu = panier'[Proprietaire']
    <3>1. CASE g \in appels
      <4>1. /\ g.de = Proprietaire /\ g.recu \in Reponses("page")
            /\ (\A a \in appels : ~Suite(a)) /\ g.recu = "ok" =>
                 g.lu = panier[Proprietaire]
        BY <2>2, <2>4, <3>1, CibleParts
      <4> QED
        BY <1>1, <1>2, <1>10, <1>13, <4>1 DEF Cibles
    <3>2. CASE g \notin appels
      <4>1. g.de = Proprietaire /\ g.recu = "rien"
        BY <1>4, <1>5, <2>4, <3>2 DEF Demande
      <4> QED
        BY <1>2, <1>13, <4>1 DEF Cibles
    <3> QED
      BY <3>1, <3>2
  <2>5. CibleJuste("page")'
    <3>1. page' # Erreur
      BY <1>1, <2>2, CibleParts
    <3> QED
      BY <2>3, <2>4, <3>1, CibleDe
  <2> QED
    BY <1>1, <1>2, <2>2, <2>5
<1> QED
  BY <1>9, <1>11, <1>12 DEF Panier

\* A step that leaves what is mounted and what is in doubt.
LEMMA PanierMeme ==
  ASSUME Panier, UNCHANGED montage, volet' = volet, douteCible \subseteq douteCible',
         \A c \in Cibles : CibleJuste(c) /\ c \notin douteCible'
                             /\ (c = "badge" => BadgeSur) => CibleJuste(c)',
         \A b \in appels' : b.type \in Ecritures /\ b.recu = "rien" /\ ~b.pour =>
           b \in appels,
         douteCible' \subseteq Cibles
  PROVE  Panier'
<1>1. /\ connecte' = connecte /\ statut' = statut /\ ecran' = ecran
      /\ apiPage' = apiPage /\ perimes' = perimes
  BY DEF montage
<1>2. Proprietaire' = Proprietaire
  BY <1>1 DEF Proprietaire
<1>3. OublisSus'
  <2>1. douteCible = Cibles => douteCible' = Cibles
    OBVIOUS
  <2> QED
    BY <2>1, OublisDe DEF Panier
<1>4. BadgeJuste'
  <2> SUFFICES ASSUME BadgeSur'
               PROVE  CibleJuste("badge")'
    BY DEF BadgeJuste
  <2>1. BadgeSur /\ "badge" \notin douteCible'
    BY <1>1 DEF BadgeSur
  <2>2. CibleJuste("badge") /\ "badge" \in Cibles
    BY <2>1 DEF Panier, BadgeJuste, Cibles
  <2> QED
    BY <2>1, <2>2
<1>5. PageJuste'
  <2> SUFFICES ASSUME PageSure'
               PROVE  apiPage' = Proprietaire' /\ CibleJuste("page")'
    BY DEF PageJuste
  <2>1. PageSure /\ "page" \notin douteCible'
    BY <1>1 DEF PageSure
  <2>2. apiPage = Proprietaire /\ CibleJuste("page") /\ "page" \in Cibles
    BY <2>1 DEF Panier, PageJuste, Cibles
  <2> QED
    BY <1>1, <1>2, <2>1, <2>2
<1> QED
  BY <1>3, <1>4, <1>5 DEF Panier

LEMMA BasculerPanier ==
  ASSUME Formes, Panier, NEW p \in Produits, Basculer(p)
  PROVE  Panier'
<1>1. PICK b : appels' = appels \cup {b} /\ b.type \in Bascules
  BY BasculerAppels DEF Bascules
<1>2. /\ UNCHANGED montage /\ perimes' = perimes /\ volet' = volet /\ douteCible' = douteCible
      /\ panier' = panier /\ badge' = badge /\ page' = page
      /\ connecte' = connecte /\ statut' = statut
  BY DEF Basculer, tables, montage
<1>3. Proprietaire' = Proprietaire
  BY <1>2 DEF Proprietaire
<1>4. \A t \in Bascules : t \notin Cibles /\ t \notin Ecritures
  BY DEF Bascules, Cibles, Ecritures
<1>5. \A c \in Cibles : CibleJuste(c) => CibleJuste(c)'
  BY <1>1, <1>2, <1>3, <1>4, CibleAilleurs DEF Demande
<1>6. \A a \in appels' : a.type \in Ecritures => a \in appels
  BY <1>1, <1>4
<1> QED
  BY <1>2, <1>5, <1>6, FormesParts, PanierMeme

LEMMA EcrirePanier ==
  ASSUME Formes, Panier, NEW p \in Produits,
         Ajouter(p) \/ UpdateQuantite(p) \/ Retirer(p)
  PROVE  Panier'
<1>1. PICK b : appels' = appels \cup {b} /\ b.type \in Ecritures /\ b.pour = TRUE
  BY EcrireAppels DEF Neuve
<1>2. /\ UNCHANGED montage /\ perimes' = perimes /\ volet' = volet /\ douteCible' = douteCible
      /\ panier' = panier /\ badge' = badge /\ page' = page
      /\ connecte' = connecte /\ statut' = statut
  BY EcrireAppels DEF tables, montage, affichage
<1>3. Proprietaire' = Proprietaire
  BY <1>2 DEF Proprietaire
<1>4. \A t \in Ecritures : t \notin Cibles
  BY DEF Cibles, Ecritures
<1>5. \A c \in Cibles : CibleJuste(c) => CibleJuste(c)'
  BY <1>1, <1>2, <1>3, <1>4, CibleAilleurs DEF Demande
<1>6. \A a \in appels' : ~a.pour => a \in appels
  BY <1>1
<1> QED
  BY <1>2, <1>5, <1>6, FormesParts, PanierMeme

\* A row that is not there is not changed.
LEMMA Servir404 ==
  ASSUME Formes, NEW a \in appels, Servir(a), a.type = "quantite",
         panier[a.de][a.p] = 0
  PROVE  panier' = panier
<1>1. /\ a.de \in Proprietaires /\ a.p \in Produits
      /\ panier \in [Proprietaires -> [Produits -> Quantites]]
  BY FormesParts DEF Forme
<1>2. panier' = [panier EXCEPT ![a.de][a.p] = 0]
  BY FormesParts DEF Servir, Cibles, Bascules, Jetons
<1> QED
  BY <1>1, <1>2

LEMMA ServirPanier ==
  ASSUME Formes, Panier, NEW a \in appels, Servir(a)
  PROVE  Panier'
<1>1. PICK b : /\ appels' = (appels \ {a}) \cup {b}
               /\ b.type = a.type /\ b.de = a.de /\ b.p = a.p
               /\ b.pour = a.pour
               /\ a.recu = "rien" /\ b.recu \in {"ok", "409", "404", "400"}
               /\ b.recu = "409" => a.type = "POST favori"
               /\ b.recu = "404" => a.type = "quantite" /\ panier[a.de][a.p] = 0
               /\ b.recu = "400" => a.type \in Cibles /\ a.type \in perimes
               /\ a.type \in {"coeurs"} \cup Cibles =>
                    (b.recu = "ok" /\ b.lu = panier[a.de]) \/ b.recu = "400"
  BY ServirAppels
<1>2. /\ UNCHANGED montage /\ perimes' = perimes /\ douteCible' = douteCible
      /\ badge' = badge /\ page' = page
      /\ connecte' = connecte /\ statut' = statut
  BY DEF Servir, montage, affichage
<1>3. Proprietaire' = Proprietaire
  BY <1>2 DEF Proprietaire
<1>4. volet' = volet /\ (a.type \notin Ecritures => panier' = panier)
  BY ServirTables
<1>5. ~Suite(a)
  BY <1>1 DEF Suite
<1>6. ASSUME NEW c \in Cibles, CibleJuste(c), c \notin douteCible
      PROVE  CibleJuste(c)'
  <2>1. CASE ~Demande(a, c) /\ ~Suite(b) /\ panier' = panier
    <3>1. ~Demande(b, c)
      BY <1>1, <2>1 DEF Demande
    <3> QED
      BY <1>1, <1>2, <1>3, <1>5, <1>6, <2>1, <3>1, CibleAilleurs
  <2>2. CASE Suite(b)
    <3>1. ~Demande(a, c) /\ ~Demande(b, c)
      BY <1>1, <2>2 DEF Suite, Demande, Ecritures, Cibles
    <3>2. b \in appels'
      BY <1>1
    <3> QED
      BY <1>1, <1>2, <1>3, <1>6, <2>2, <3>1, <3>2, CibleMeme
  <2>3. CASE Demande(a, c)
    <3>1. a.type \notin Ecritures /\ a.de = Proprietaire
      BY <1>6, <2>3, CibleParts DEF Demande, Cibles, Ecritures
    <3>7. \/ b.recu = "ok" /\ b.lu = panier[Proprietaire]
          \/ b.recu = "400" /\ c \in perimes
      BY <1>1, <1>6, <2>3, <3>1 DEF Demande
    <3>2. /\ Demande(b, c) /\ b.de = Proprietaire /\ b.recu \in Reponses(c)
          /\ b.recu = "ok" => b.lu = panier[Proprietaire]
          /\ panier' = panier /\ ~Suite(b)
      BY <1>1, <1>4, <2>3, <3>1, <3>7 DEF Demande, Suite, Reponses
    <3>8. /\ Reponses(c)' = Reponses(c)
          /\ c = "page" /\ page' = Erreur => c \in perimes'
      BY <1>2, <1>6, CibleParts DEF Reponses
    <3>3. (\A d \in appels' : ~Suite(d)) => \A d \in appels : ~Suite(d)
      BY <1>1, <1>5
    <3>4. \A g \in appels : Demande(g, c) =>
              /\ g.de = Proprietaire /\ g.recu \in Reponses(c)
              /\ (\A d \in appels : ~Suite(d)) /\ g.recu = "ok" =>
                   g.lu = panier[Proprietaire]
      BY <1>6, CibleParts
    <3>5. \A g \in appels' : Demande(g, c) =>
              /\ g.de = Proprietaire' /\ g.recu \in Reponses(c)'
              /\ (\A d \in appels' : ~Suite(d)) /\ g.recu = "ok" =>
                   g.lu = panier'[Proprietaire']
      BY <1>1, <1>3, <3>2, <3>3, <3>4, <3>8
    <3>6. b \in appels'
      BY <1>1
    <3> QED
      BY <3>2, <3>5, <3>6, <3>8, CibleDe
  <2>4. CASE ~Demande(a, c) /\ ~Suite(b) /\ panier' # panier
    <3>1. a.type \in Ecritures
      BY <1>4, <2>4
    <3>2. ~a.pour
      <4>3. b.recu # "400"
        BY <1>1, <3>1 DEF Ecritures, Cibles
      <4>1. b.recu # "409"
        BY <1>1, <3>1 DEF Ecritures
      <4>2. b.recu # "404"
        BY <1>1, <2>4, Servir404
      <4> QED
        BY <1>1, <2>4, <3>1, <4>1, <4>2, <4>3 DEF Suite
    <3>3. a \in EnAttente(Ecritures)
      BY <1>1, <3>1 DEF EnAttente
    <3> QED
      BY <1>6, <3>2, <3>3 DEF Panier, OublisSus
  <2> QED
    BY <2>1, <2>2, <2>3, <2>4
<1>7. \A c \in appels' : c.recu = "rien" => c \in appels
  BY <1>1
<1> QED
  BY <1>2, <1>4, <1>6, <1>7, FormesParts, PanierMeme

LEMMA EchouerPanier ==
  ASSUME Formes, Panier, NEW a \in appels, Echouer(a)
  PROVE  Panier'
<1>1. PICK b : /\ appels' = (appels \ {a}) \cup {b}
               /\ b.type = a.type /\ b.pour = a.pour
               /\ a.recu \in {"rien", "ok"} /\ b.recu = "echec"
  BY EchouerAppels
<1>2. /\ UNCHANGED montage /\ perimes' = perimes /\ volet' = volet /\ panier' = panier
      /\ badge' = badge /\ page' = page
      /\ connecte' = connecte /\ statut' = statut
      /\ douteCible' = IF a.type \in Cibles THEN douteCible \cup {a.type}
                       ELSE IF a.type \in Ecritures /\ a.recu = "ok" THEN Cibles
                       ELSE douteCible
  BY DEF Echouer, montage, affichage, tables
<1>3. Proprietaire' = Proprietaire
  BY <1>2 DEF Proprietaire
<1>4. douteCible \subseteq Cibles
  BY FormesParts
<1>5. douteCible \subseteq douteCible' /\ douteCible' \subseteq Cibles
  BY <1>2, <1>4
<1>6. ASSUME NEW c \in Cibles, CibleJuste(c), c \notin douteCible'
      PROVE  CibleJuste(c)'
  <2>1. ~Demande(a, c) /\ ~Demande(b, c)
    BY <1>1, <1>2, <1>6 DEF Demande
  <2>2. ~Suite(a)
    BY <1>2, <1>6 DEF Suite, Ecritures, Cibles
  <2> QED
    BY <1>1, <1>2, <1>3, <1>6, <2>1, <2>2, CibleAilleurs
<1>7. \A c \in appels' : c.recu = "rien" => c \in appels
  BY <1>1
<1> QED
  BY <1>2, <1>5, <1>6, <1>7, PanierMeme

LEMMA ArriverPanierPanier ==
  ASSUME Formes, Panier, NEW a \in appels, ArriverPanier(a)
  PROVE  Panier'
<1>1. /\ appels' = appels \ {a} /\ a.type \in Cibles /\ a.pour /\ a.recu # "rien"
      /\ page' = (IF a.type = "badge" \/ page = Erreur THEN page
                  ELSE IF a.recu = "ok" THEN a.lu ELSE Erreur)
      /\ badge' = (IF a.type = "badge" /\ a.recu = "ok" THEN TotalDe(a.lu) ELSE badge)
      /\ UNCHANGED montage /\ perimes' = perimes /\ volet' = volet /\ panier' = panier
      /\ connecte' = connecte /\ statut' = statut /\ douteCible' = douteCible
  BY DEF ArriverPanier, Retire, tables, montage
<1>2. Proprietaire' = Proprietaire
  BY <1>1 DEF Proprietaire
<1>3. ~Suite(a)
  BY <1>1 DEF Suite, Ecritures, Cibles
<1>4. ASSUME NEW c \in Cibles, CibleJuste(c), c = "badge" => BadgeSur
      PROVE  CibleJuste(c)'
  <2>1. ASSUME NEW g \in appels', Demande(g, c)
        PROVE  /\ g.de = Proprietaire' /\ g.recu \in Reponses(c)'
               /\ (\A d \in appels' : ~Suite(d)) /\ g.recu = "ok" =>
                    g.lu = panier'[Proprietaire']
    <3>1. /\ g.de = Proprietaire /\ g.recu \in Reponses(c)
          /\ (\A d \in appels : ~Suite(d)) /\ g.recu = "ok" =>
               g.lu = panier[Proprietaire]
      BY <1>1, <1>4, <2>1, CibleParts
    <3> QED
      BY <1>1, <1>2, <1>3, <3>1 DEF Reponses
  <2>2. ASSUME \A d \in appels' : ~Suite(d) /\ ~Demande(d, c)
        PROVE  Montre(c)'
    <3>1. \A d \in appels : ~Suite(d)
      BY <1>1, <1>3, <2>2
    <3>2. CASE a.type = c
      <4>1. Demande(a, c)
        BY <1>1, <3>2 DEF Demande
      <4>2. \/ a.recu = "ok" /\ a.lu = panier[Proprietaire]
            \/ a.recu = "400" /\ c \in perimes
        BY <1>1, <1>4, <3>1, <4>1, CibleParts DEF Reponses
      <4>3. CASE c = "badge"
        BY <1>1, <1>2, <1>4, <3>2, <4>2, <4>3 DEF Montre, BadgeSur
      <4>4. CASE c = "page"
        <5>1. page = Erreur => c \in perimes
          BY <1>4, <4>4, CibleParts
        <5> QED
          BY <1>1, <1>2, <3>2, <4>2, <4>4, <5>1 DEF Montre
      <4> QED
        BY <4>3, <4>4 DEF Cibles
    <3>3. CASE a.type # c
      <4>1. ~Demande(a, c)
        BY <3>3 DEF Demande
      <4>2. Montre(c)
        BY <1>1, <1>4, <2>2, <3>1, <4>1, CibleParts
      <4>3. CASE c = "badge"
        BY <1>1, <1>2, <3>3, <4>2, <4>3 DEF Montre
      <4>4. CASE c = "page"
        <5>1. a.type = "badge"
          BY <1>1, <3>3, <4>4 DEF Cibles
        <5> QED
          BY <1>1, <1>2, <4>2, <4>4, <5>1 DEF Montre
      <4> QED
        BY <4>3, <4>4 DEF Cibles
    <3> QED
      BY <3>2, <3>3
  <2>3. c = "page" /\ page' = Erreur => c \in perimes'
    <3> SUFFICES ASSUME c = "page", page' = Erreur
                 PROVE  c \in perimes
      BY <1>1
    <3>1. page = Erreur => c \in perimes
      BY <1>4, CibleParts
    <3>2. CASE a.type = "page" /\ page # Erreur
      <4>1. a.lu \in [Produits -> Quantites]
        BY FormesParts DEF Forme
      <4>2. a.recu # "ok"
        BY <1>1, <3>2, <4>1, ErreurAPart
      <4>3. a.recu \in Reponses(c)
        BY <1>1, <1>4, <3>2, CibleParts DEF Demande
      <4> QED
        BY <1>1, <4>2, <4>3 DEF Reponses
    <3> QED
      BY <1>1, <3>1, <3>2 DEF Cibles
  <2> QED
    BY <2>1, <2>2, <2>3, CibleDe
<1> QED
  BY <1>1, <1>4, FormesParts, PanierMeme

LEMMA ArriverAutresPanier ==
  ASSUME Formes, Panier, NEW a \in appels,
         Ignorer(a) \/ ArriverCoeurs(a) \/ ArriverBascule(a)
  PROVE  Panier'
<1>1. /\ appels' = appels \ {a} /\ UNCHANGED montage /\ perimes' = perimes /\ volet' = volet
      /\ panier' = panier /\ badge' = badge /\ page' = page
      /\ connecte' = connecte /\ statut' = statut /\ douteCible' = douteCible
  BY DEF Ignorer, ArriverCoeurs, ArriverBascule, Retire, tables, montage, affichage
<1>2. Proprietaire' = Proprietaire
  BY <1>1 DEF Proprietaire
<1>3. \A c \in Cibles : ~Demande(a, c) /\ ~Suite(a)
  BY DEF Demande, Suite, Ignorer, ArriverCoeurs, ArriverBascule, Bascules, Cibles,
         Ecritures
<1>4. \A c \in Cibles : CibleJuste(c) => CibleJuste(c)'
  BY <1>1, <1>2, <1>3, CibleAilleurs
<1> QED
  BY <1>1, <1>4, FormesParts, PanierMeme

\* The event comes, and what is shown is asked for again.
LEMMA ArriverEcriturePanier ==
  ASSUME Formes, Panier, NEW a \in appels, ArriverEcriture(a)
  PROVE  Panier'
<1>1. PICK C \in SUBSET Cibles :
           /\ C = IF ~a.pour \/ a.recu # "ok" THEN {}
                  ELSE {"badge"} \cup (IF ecran = "panier" THEN {"page"} ELSE {})
           /\ a.type \in Ecritures /\ a.recu # "rien"
           /\ appels \ {a} \subseteq appels'
           /\ \A b \in appels' : \/ b \in appels \ {a}
                                 \/ /\ b.type \in C
                                    /\ Neuve(b, b.type, IF b.type = "page"
                                               THEN apiPage ELSE apiBadge,
                                             UnProduit, 0)
           /\ \A c \in C : \E b \in appels' : b.type = c /\ b.pour = TRUE
           /\ douteCible' = douteCible \cup Croises(C)
  BY EcritureAppels
<1>2. /\ UNCHANGED montage /\ perimes' = perimes /\ volet' = volet /\ panier' = panier
      /\ badge' = badge /\ page' = page /\ connecte' = connecte
      /\ statut' = statut /\ ecran' = ecran /\ apiPage' = apiPage
  BY DEF ArriverEcriture, tables, montage, affichage
<1>3. Proprietaire' = Proprietaire
  BY <1>2 DEF Proprietaire
<1>4. \A c \in Cibles : ~Demande(a, c)
  BY <1>1 DEF Demande, Cibles, Ecritures
<1>5. \A b \in appels' : b.type \in Ecritures => b \in appels
  BY <1>1 DEF Cibles, Ecritures
<1>6. \A b \in appels' : b.type \notin C => b \in appels
  BY <1>1
<1>7. OublisSus'
  <2>1. douteCible = Cibles => douteCible' = Cibles
    BY <1>1 DEF Croises
  <2> QED
    BY <1>5, <2>1, OublisDe DEF Panier
<1>8. ASSUME NEW c \in C, c \notin douteCible'
      PROVE  /\ \E b \in appels' : Demande(b, c)
             /\ \A b \in appels' : Demande(b, c) =>
                  /\ b.recu = "rien"
                  /\ b.de = IF c = "page" THEN apiPage ELSE apiBadge
  <2>1. EnRoute(c) = {}
    BY <1>1, <1>8 DEF Croises
  <2>2. \A b \in appels : ~Demande(b, c)
    BY <2>1 DEF EnRoute, Demande
  <2>3. \A b \in appels' : Demande(b, c) =>
          Neuve(b, c, IF c = "page" THEN apiPage ELSE apiBadge, UnProduit, 0)
    BY <1>1, <2>2 DEF Demande
  <2>4. \E b \in appels' : Demande(b, c)
    BY <1>1 DEF Demande
  <2> QED
    BY <2>3, <2>4 DEF Neuve
<1>9. ASSUME NEW c \in Cibles, C = {}, CibleJuste(c)
      PROVE  CibleJuste(c)'
  <2>1. ~Suite(a)
    <3>1. ~a.pour \/ a.recu # "ok"
      BY <1>1, <1>9
    <3> QED
      BY <3>1 DEF Suite
  <2> QED
    BY <1>1, <1>2, <1>3, <1>4, <1>6, <1>9, <2>1, CibleAilleurs
<1>10. BadgeJuste'
  <2> SUFFICES ASSUME BadgeSur'
               PROVE  CibleJuste("badge")'
    BY DEF BadgeJuste
  <2>1. BadgeSur
    BY <1>1, <1>2 DEF BadgeSur
  <2>2. CASE C = {}
    BY <1>9, <2>1, <2>2 DEF Panier, BadgeJuste, Cibles
  <2>3. CASE C # {}
    <3>1. "badge" \in C /\ "badge" \notin douteCible'
      BY <1>1, <2>3 DEF BadgeSur
    <3>2. apiBadge = Proprietaire
      BY <2>1, FormesParts DEF BadgeSur, Session
    <3> QED
      BY <1>3, <1>8, <3>1, <3>2, CibleDemandee
  <2> QED
    BY <2>2, <2>3
<1>11. PageJuste'
  <2> SUFFICES ASSUME PageSure'
               PROVE  apiPage' = Proprietaire' /\ CibleJuste("page")'
    BY DEF PageJuste
  <2>1. PageSure
    BY <1>1, <1>2 DEF PageSure
  <2>2. apiPage = Proprietaire /\ CibleJuste("page")
    BY <2>1 DEF Panier, PageJuste
  <2>3. CASE C = {}
    BY <1>2, <1>3, <1>9, <2>2, <2>3 DEF Cibles
  <2>4. CASE C # {}
    <3>1. "page" \in C /\ "page" \notin douteCible'
      BY <1>1, <1>2, <2>4 DEF PageSure
    <3>2. CibleJuste("page")'
      <4>1. page' = Erreur => "page" \in perimes'
        BY <1>2, <2>2, CibleParts
      <4> QED
        BY <1>3, <1>8, <2>2, <3>1, <4>1, CibleDemandee
    <3> QED
      BY <1>2, <1>3, <2>2, <3>2
  <2> QED
    BY <2>3, <2>4
<1> QED
  BY <1>7, <1>10, <1>11 DEF Panier

\* The tokens of the badge and of the page expire.
LEMMA PerimerPanier ==
  ASSUME Formes, Panier, NEW c \in Cibles, Perimer(c)
  PROVE  Panier'
<1>1. /\ connecte' = connecte /\ statut' = statut /\ ecran' = ecran
      /\ apiPage' = apiPage /\ volet' = volet /\ panier' = panier
      /\ badge' = badge /\ page' = page /\ appels' = appels
      /\ douteCible' = douteCible /\ perimes' = {"badge", c}
      /\ perimes \subseteq {"badge"} \/ c = "badge"
  BY FormesParts DEF Perimer, tables, affichage, Jetons, Cibles
<1>2. Proprietaire' = Proprietaire
  BY <1>1 DEF Proprietaire
<1>3. OublisSus'
  BY <1>1, OublisDe DEF Panier
<1>4. BadgeJuste'
  BY <1>1 DEF BadgeJuste, BadgeSur
<1>5. PageJuste'
  <2> SUFFICES ASSUME PageSure'
               PROVE  apiPage' = Proprietaire' /\ CibleJuste("page")'
    BY DEF PageJuste
  <2>1. apiPage = Proprietaire /\ CibleJuste("page")
    BY <1>1 DEF PageSure, Panier, PageJuste
  <2>2. "page" \in perimes => "page" \in perimes'
    BY <1>1, FormesParts DEF Perimer, Jetons, Cibles
  <2>3. CibleJuste("page")'
    BY <1>1, <1>2, <2>1, <2>2, CibleMeme
  <2> QED
    BY <1>1, <1>2, <2>1, <2>3
<1> QED
  BY <1>3, <1>4, <1>5 DEF Panier

LEMMA InitPanier == InitAchats => Panier
<1> SUFFICES ASSUME InitAchats
             PROVE  Panier
  OBVIOUS
<1>1. /\ ecran \in Ecrans /\ page = Rien /\ badge = 0 /\ appels = Premiers(ecran)
      /\ volet \in {"coeurs", "panier"} /\ statut = "loading"
      /\ apiPage = "session" /\ douteCible = (IF connecte THEN {"page"} ELSE {})
  BY DEF InitAchats
<1>2. /\ \A b \in appels : /\ b.de = "session" /\ b.recu = "rien" /\ b.pour = TRUE
                           /\ b.type = "badge" \/ b.type = "coeurs"
      /\ volet = "panier" => \E b \in appels : b.type = "badge"
  <2>1. /\ \A b \in Premiers(ecran) :
              /\ Neuve(b, b.type, "session", UnProduit, 0)
              /\ b.type = "badge" \/ b.type = "coeurs"
        /\ volet = "panier" => \E b \in Premiers(ecran) : b.type = "badge"
    BY <1>1, PremiersVrai
  <2> QED
    BY <1>1, <2>1 DEF Neuve
<1>3. OublisSus
  BY <1>2 DEF OublisSus, EnAttente
<1>4. BadgeJuste
  <2> SUFFICES ASSUME BadgeSur
               PROVE  CibleJuste("badge")
    BY DEF BadgeJuste
  <2>1. Proprietaire = "session" /\ volet = "panier"
    BY <1>1 DEF BadgeSur, Proprietaire
  <2>2. EnRoute("badge") # {}
    BY <1>2, <2>1 DEF EnRoute
  <2>3. AppelsJustes("badge")
    BY <1>2, <2>1 DEF AppelsJustes, EnRoute, Reponses
  <2> QED
    BY <2>2, <2>3 DEF CibleJuste, ErreurSue
<1>5. PageJuste
  <2> SUFFICES ASSUME PageSure
               PROVE  apiPage = Proprietaire /\ CibleJuste("page")
    BY DEF PageJuste
  <2>1. Proprietaire = "session"
    BY <1>1 DEF PageSure, Proprietaire
  <2>2. EnRoute("page") = {}
    BY <1>2 DEF EnRoute
  <2>3. AppelsJustes("page")
    BY <2>2 DEF AppelsJustes
  <2>4. Montre("page")
    BY <1>1 DEF Montre
  <2> QED
    BY <1>1, <2>1, <2>3, <2>4, ErreurAPart DEF CibleJuste, ErreurSue
<1> QED
  BY <1>3, <1>4, <1>5 DEF Panier

LEMMA PanierPas ==
  ASSUME Formes, Panier, NextAchats
  PROVE  Panier'
<1>1. CASE \E e \in Ecrans, c \in BOOLEAN : Charger(e, c)
  BY <1>1, ChargerPanier
<1>2. CASE \E e \in Ecrans : Aller(e)
  BY <1>2, AllerPanier
<1>3. CASE ArriverStatut
  BY <1>3, StatutPanier
<1>4. CASE \E p \in Produits : Basculer(p)
  BY <1>4, BasculerPanier
<1>5. CASE \E p \in Produits : Ajouter(p) \/ UpdateQuantite(p) \/ Retirer(p)
  BY <1>5, EcrirePanier
<1>6. CASE \E a \in appels : Servir(a)
  BY <1>6, ServirPanier
<1>7. CASE \E a \in appels : Echouer(a)
  BY <1>7, EchouerPanier
<1>8. CASE \E a \in appels : Ignorer(a) \/ ArriverCoeurs(a) \/ ArriverBascule(a)
  BY <1>8, ArriverAutresPanier
<1>9. CASE \E a \in appels : ArriverPanier(a)
  BY <1>9, ArriverPanierPanier
<1>10. CASE \E a \in appels : ArriverEcriture(a)
  BY <1>10, ArriverEcriturePanier
<1>11. CASE \E c \in Cibles : Perimer(c)
  BY <1>11, PerimerPanier
<1> QED
  BY <1>1, <1>2, <1>3, <1>4, <1>5, <1>6, <1>7, <1>8, <1>9, <1>10, <1>11 DEF NextAchats

----------------------------------------------------------------------------
(* The theorems.                                                           *)

LEMMA FormesPas ==
  ASSUME Formes, NextAchats
  PROVE  Formes'
<1>1. CASE \E e \in Ecrans, c \in BOOLEAN : Charger(e, c)
  BY <1>1, ChargerFormes
<1>2. CASE \E e \in Ecrans : Aller(e)
  BY <1>2, AllerFormes
<1>3. CASE ArriverStatut
  BY <1>3, StatutFormes
<1>4. CASE \E p \in Produits : Basculer(p)
  BY <1>4, BasculerFormes
<1>5. CASE \E p \in Produits : Ajouter(p) \/ UpdateQuantite(p) \/ Retirer(p)
  BY <1>5, EcrireFormes
<1>6. CASE \E a \in appels : Servir(a)
  BY <1>6, ServirFormes
<1>7. CASE \E a \in appels : Echouer(a)
  BY <1>7, EchouerFormes
<1>8. CASE \E a \in appels :
             Ignorer(a) \/ ArriverCoeurs(a) \/ ArriverBascule(a) \/ ArriverPanier(a)
  BY <1>8, ArriverFormes
<1>9. CASE \E a \in appels : ArriverEcriture(a)
  BY <1>9, EcritureFormes
<1>10. CASE \E c \in Cibles : Perimer(c)
  BY <1>10, PerimerFormes
<1> QED
  BY <1>1, <1>2, <1>3, <1>4, <1>5, <1>6, <1>7, <1>8, <1>9, <1>10 DEF NextAchats

LEMMA Immobile ==
  ASSUME Inductif, UNCHANGED achats
  PROVE  Inductif'
<1>1. /\ UNCHANGED tables /\ UNCHANGED montage /\ UNCHANGED affichage
      /\ appels' = appels /\ douteCoeur' = douteCoeur /\ douteCible' = douteCible
  BY DEF achats
<1>2. /\ volet' = volet /\ favoris' = favoris /\ panier' = panier
      /\ connecte' = connecte /\ statut' = statut /\ ecran' = ecran
      /\ apiPage' = apiPage /\ apiBadge' = apiBadge /\ perimes' = perimes
      /\ coeurs' = coeurs /\ page' = page /\ badge' = badge
  BY <1>1 DEF tables, montage, affichage
<1>3. Proprietaire' = Proprietaire
  BY <1>2 DEF Proprietaire
<1>4. Formes'
  BY <1>1, <1>2, FormesParts, FormesIci DEF Inductif
<1>5. CoeursJustes'
  <2> SUFFICES ASSUME NEW p \in Produits, volet' = "coeurs", p \notin douteCoeur'
               PROVE  CoeurJuste(p)'
    BY DEF CoeursJustes
  <2>1. CoeurJuste(p)
    BY <1>1, <1>2 DEF Inductif, CoeursJustes
  <2> QED
    BY <1>1, <1>2, <1>3, <2>1, CoeurMeme
<1>6. Panier'
  <2>1. \A c \in Cibles : CibleJuste(c) => CibleJuste(c)'
    BY <1>1, <1>2, <1>3, CibleAilleurs
  <2> QED
    BY <1>1, <1>2, <2>1, FormesParts, PanierMeme DEF Inductif, Panier
<1> QED
  BY <1>4, <1>5, <1>6 DEF Inductif, Panier

\* The inductive invariant: every call on its way will make what is shown agree
\* with the tables, unless what is shown is in doubt or was asked for with a
\* token that has expired (cart-badge.tsx:21-26, panier/page.tsx:40-44).
THEOREM InductifVrai == SpecAchats => []Inductif
<1>1. InitAchats => Inductif
  BY InitFormes, InitCoeurs, InitPanier DEF Inductif, Panier
<1>2. Inductif /\ [NextAchats]_achats => Inductif'
  <2>1. ASSUME Inductif, NextAchats
        PROVE  Inductif'
    BY <2>1, FormesPas, CoeursPas, PanierPas DEF Inductif, Panier
  <2> QED
    BY <2>1, Immobile
<1> QED
  BY <1>1, <1>2, PTL DEF SpecAchats

\* At rest a heart tells whether the product is a favourite
\* (favorites-provider.tsx:27-71).
THEOREM CoeurFideleVrai == SpecAchats => []CoeurFidele
<1>1. Inductif => CoeurFidele
  <2> SUFFICES ASSUME Inductif, volet = "coeurs", ecran = "catalogue",
                      EnRoute("coeurs") = {}, \A t \in Bascules : Encore(t) = {},
                      NEW p \in Produits \ douteCoeur
               PROVE  p \in coeurs <=> p \in favoris[Proprietaire]
    BY DEF CoeurFidele
  <2>1. CoeurJuste(p)
    BY DEF Inductif, CoeursJustes
  <2>2. Clics(p) = {}
    BY DEF Clics, Encore
  <2> QED
    BY <2>1, <2>2 DEF CoeurJuste
<1> QED
  BY <1>1, InductifVrai, PTL

\* At rest the page of the cart and the badge show the cart of the user
\* (cart-badge.tsx:8-11, panier/page.tsx:31-44), as long as the token that their
\* listener keeps is valid; after that the page shows the cart or an error.  Only
\* a page that is there asks for the cart.
THEOREM PanierJusteVrai == SpecAchats => []PanierJuste
<1>1. Inductif => TypeAchats
  <2> SUFFICES ASSUME Formes
               PROVE  TypeAchats
    BY DEF Inductif
  <2>1. statut = "client" => apiBadge = "compte"
    BY DEF Formes, Session, Proprietaire
  <2>2. \A o \in Proprietaires :
          favoris[o] \subseteq Produits /\ panier[o] \in [Produits -> Quantites]
    BY DEF Formes
  <2> QED
    BY <2>1, <2>2 DEF Formes, Jetons, TypeAchats
<1>2. Inductif => PanierAffiche
  <2> SUFFICES ASSUME Inductif
               PROVE  PanierAffiche
    OBVIOUS
  <2>1. (\A t \in Ecritures : Encore(t) = {}) => Suites = {}
    BY DEF Suites, Encore
  <2>2. ASSUME CibleAuRepos("badge"), "badge" \notin perimes
        PROVE  badge = TotalDe(panier[Proprietaire])
    <3>1. BadgeSur /\ Suites = {} /\ EnRoute("badge") = {}
      BY <2>1, <2>2 DEF CibleAuRepos, BadgeSur
    <3>2. Montre("badge")
      BY <3>1 DEF Inductif, BadgeJuste, CibleJuste
    <3> QED
      BY <3>2 DEF Montre
  <2>3. ASSUME CibleAuRepos("page"), ecran = "panier"
        PROVE  \/ page = panier[Proprietaire]
               \/ page = Erreur /\ "page" \in perimes
    <3>1. PageSure /\ Suites = {} /\ EnRoute("page") = {} /\ statut # "loading"
      BY <2>1, <2>3 DEF CibleAuRepos, PageSure
    <3>2. Montre("page")
      BY <3>1 DEF Inductif, PageJuste, CibleJuste
    <3> QED
      BY <3>1, <3>2 DEF Montre
  <2> QED
    BY <2>2, <2>3 DEF PanierAffiche
<1> QED
  BY <1>1, <1>2, InductifVrai, PTL DEF PanierJuste
=============================================================================
