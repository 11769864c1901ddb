----------------------------- MODULE MCGestion ------------------------------
EXTENDS Gestion

GestesParPage == [produits |-> 4, inventaire |-> 5, annonces |-> 4,
                  accueil |-> 3, tableau |-> 0, prix |-> 0,
                  document |-> 0, profil |-> 0]

\* One line of a price, many lines of one article, and lines of two articles.
Ligne(n, p) == [a |-> n, q |-> 1, pu |-> p]
Centimes == {10 * k : k \in 1..1000}
Dinars == {1000 * k : k \in 1..1100}
Milliers == {1000 * k : k \in {1100 + 97 * i : i \in 0..800} \cup
              {1999, 9999, 70999, 79997, 100000, 999999, 1000998, 2000000}}
FacturesDUneLigne == {<<Ligne(1, p)>> : p \in Centimes \cup Dinars \cup Milliers}
FacturesLongues ==
  {[i \in 1..n |-> Ligne(i, IF i % 2 = 0 THEN 990 ELSE 12340)] : n \in 2..72}
Commandees == FacturesDUneLigne \cup FacturesLongues
=============================================================================
